----------------------------- MODULE ObjectKeys -----------------------------
(***************************************************************************)
(* The names of the objects in S3.  The codec server stores a payload as   *)
(* "{namespace}/{workflowID}/{runID}/{hash}" and the cleanup worker        *)
(* removes everything that starts with "{namespace}/{workflowID}/".        *)
(*                                                                         *)
(* A key is the sequence of texts between its slashes.  Namespace,         *)
(* workflow id and run id are each a non-empty sequence of such segments,  *)
(* because nothing keeps a slash out of a Temporal workflow id.            *)
(***************************************************************************)
EXTENDS SequencesExt

CONSTANTS
    Segment,    \* the texts between the slashes of an object key
    Context,    \* [ns, wf, run]: whose payloads an encode request carries
    Data,       \* serialised payloads, i.e. byte strings
    Hash        \* the hexadecimal SHA-256 of each of them

(* Identifiers are non-empty: validateEncodeRequest refuses "" and the     *)
(* remote codecs put "unknown" in their place.                             *)
ASSUME ContextAssumption ==
    \A c \in Context :
        /\ c.ns \in Seq(Segment) /\ c.ns # << >>
        /\ c.wf \in Seq(Segment) /\ c.wf # << >>
        /\ c.run \in Seq(Segment) /\ c.run # << >>

(* SHA-256 is taken to be collision free.                                  *)
ASSUME HashAssumption ==
    /\ Hash \in [Data -> Segment]
    /\ \A d, e \in Data : Hash[d] = Hash[e] => d = e

(* fmt.Sprintf("%s/%s/%s/%s", namespace, workflowID, runID, hashStr)       *)
MutKeyWithoutHash(c, d) == c.ns \o c.wf \o c.run

MutKeyHashFirst(c, d) == <<Hash[d]>> \o c.ns \o c.wf \o c.run

KeyOf(c, d) == c.ns \o c.wf \o c.run \o <<Hash[d]>>

Key == {KeyOf(c, d) : c \in Context, d \in Data}

(* fmt.Sprintf("%s/%s/", wf.Namespace, wf.WorkflowID)                      *)
WorkflowPrefix(c) == c.ns \o c.wf

(* S3's prefix match, for a prefix that ends with a slash.                 *)
UnderPrefix(key, prefix) == IsStrictPrefix(prefix, key)
=============================================================================
