---------------------------- MODULE RemoteCodecs ----------------------------
(***************************************************************************)
(* The two data converters that call the codec server, and what becomes of *)
(* the bytes of a payload on the way: the Go codec over gRPC               *)
(* (samples/go-worker/internal/codec/remote_context.go) and the TypeScript *)
(* codec over HTTP (samples/typescript-worker/src/codec/remote-codec.ts).  *)
(* What one worker encoded, another one may decode, from the history that  *)
(* Temporal keeps.                                                         *)
(*                                                                         *)
(* Bytes are terms: <<"text", t>>, <<"app", p>> for the data of payload p, *)
(* <<"reference", object>> for the JSON of a reference, <<"base64", b>>    *)
(* for the base64 text of the bytes b.  Requests are single steps here;    *)
(* module CodecServer has their interleavings.                             *)
(***************************************************************************)
EXTENDS Naturals, SequencesExt

CONSTANTS
    App,        \* payloads of the application
    Injected,   \* workflow contexts that InjectContext may have added
    Length,     \* of the bytes that an application or InjectContext writes
    Threshold,  \* PAYLOAD_SIZE_THRESHOLD
    Call,       \* values to be encoded
    MaxBatch,   \* payloads in a value
    None

ContextKeys == {"temporal-workflow-id", "temporal-run-id", "temporal-namespace"}

Default ==
    [k \in ContextKeys |->
        <<"text", IF k = "temporal-namespace" THEN "default" ELSE "unknown">>]

Written ==
    {<<"app", p>> : p \in App} \cup {<<"text", "json/plain">>}
    \cup {c[k] : c \in Injected, k \in ContextKeys}

(* A context may be anything, the defaults included: most workflows run in *)
(* the namespace "default".                                                *)
ASSUME RemoteAssumption ==
    /\ \A c \in Injected : /\ c = [k \in ContextKeys |-> c[k]]
                           /\ \A k \in ContextKeys : c[k][1] = "text"
    /\ \A bytes \in Written : Length[bytes] \in Nat
    /\ MaxBatch \in Nat /\ Threshold \in Nat
    /\ None \notin {"go", "typescript"}

VARIABLES
    batch,      \* what the application handed to the data converter
    encodedBy,  \* the codec that encoded it
    named,      \* the context its encode request named
    history,    \* what Temporal keeps of it
    decodedBy,  \* the codec that decoded it last
    result,     \* what the application got then
    bucket      \* objects in S3

vars == <<batch, encodedBy, named, history, decodedBy, result, bucket>>
-----------------------------------------------------------------------------
(***************************************************************************)
(* Payloads and their contexts.                                            *)
(***************************************************************************)
Bare(p) == [metadata |-> [k \in {"encoding"} |-> <<"text", "json/plain">>],
            data |-> <<"app", p>>]

InjectContext(c, payload) ==
    [payload EXCEPT !.metadata =
        [k \in ContextKeys \cup DOMAIN @ |->
            IF k \in ContextKeys THEN c[k] ELSE @[k]]]

Original == {Bare(p) : p \in App}
            \cup {InjectContext(c, Bare(p)) : c \in Injected, p \in App}

Batches == UNION {[1..n -> Original] : n \in 1..MaxBatch}

(* The context after the first n rounds of extractWorkflowContext: each    *)
(* field is the last one seen.                                             *)
ContextAfter(payloads, n) ==
    [k \in ContextKeys |->
        LET i == SelectLastInSubSeq(payloads, 1, n,
                                    LAMBDA p : k \in DOMAIN p.metadata)
        IN  IF i = 0 THEN Default[k] ELSE payloads[i].metadata[k]]

(* The round after which the loop breaks, or the last one.                 *)
Rounds(payloads, Found(_)) ==
    LET ends == {n \in 1..Len(payloads) : Found(ContextAfter(payloads, n))}
    IN  IF ends = {} THEN Len(payloads) ELSE Min(ends)

(* The Go codec stops at the first workflow id.                            *)
MutGoContext(payloads) ==
    [ContextAfter(payloads, Rounds(payloads,
        LAMBDA c : c["temporal-workflow-id"] # <<"text", "unknown">>))
     EXCEPT !["temporal-run-id"] =
        ContextAfter(payloads, Len(payloads))["temporal-run-id"]]

GoContext(payloads) ==
    ContextAfter(payloads, Rounds(payloads,
        LAMBDA c : c["temporal-workflow-id"] # <<"text", "unknown">>))

(* The TypeScript codec stops when no field has its default any more.      *)
TypeScriptContext(payloads) ==
    ContextAfter(payloads, Rounds(payloads,
        LAMBDA c : \A k \in ContextKeys : c[k] # Default[k]))
-----------------------------------------------------------------------------
(***************************************************************************)
(* The wire.  The Go codec sends protobuf, which loses nothing.  The HTTP  *)
(* handlers take the strings of the JSON as the bytes and the bytes as the *)
(* strings; the TypeScript codec puts base64 into them and expects base64. *)
(***************************************************************************)
Base64(bytes) == <<"base64", bytes>>

(* Buffer.from(text, "base64") takes any text: it skips what is not base64 *)
(* and reads "-" as "+", so that other texts come back as other bytes,     *)
(* whose base64 is not the text again.                                     *)
FromBase64(text) ==
    IF text[1] = "base64" THEN text[2] ELSE <<"mangled", text>>

Convert(payload, F(_)) ==
    [metadata |-> [k \in DOMAIN payload.metadata |-> F(payload.metadata[k])],
     data |-> F(payload.data)]

(* "as it is" in the code: neither encoded nor decoded                     *)
jsonToPayloads(payloads) == payloads
payloadsToJSON(payloads) == payloads

ToJSON(payloads) == [i \in DOMAIN payloads |-> Convert(payloads[i], Base64)]

MutFromJSON(payloads) ==
    [i \in DOMAIN payloads |->
        [payloads[i] EXCEPT !.data = FromBase64(payloads[i].data)]]

FromJSON(payloads) ==
    [i \in DOMAIN payloads |-> Convert(payloads[i], FromBase64)]
-----------------------------------------------------------------------------
(***************************************************************************)
(* The codec server.                                                       *)
(***************************************************************************)
KeyLength ==
    [k \in ContextKeys \cup {"encoding"} |->
        CASE k = "temporal-workflow-id" -> 20 [] k = "temporal-run-id" -> 15
          [] k = "temporal-namespace" -> 18   [] k = "encoding" -> 8]

LengthOf(bytes) ==
    IF bytes[1] = "base64" THEN 4 * ((Length[bytes[2]] + 2) \div 3)
                           ELSE Length[bytes]

EntrySize(metadata, k) ==
    IF k \in DOMAIN metadata THEN KeyLength[k] + LengthOf(metadata[k]) ELSE 0

(* calculatePayloadSize: the data and every entry of the metadata.         *)
SizeOf(payload) ==
    LengthOf(payload.data)
    + EntrySize(payload.metadata, "encoding")
    + EntrySize(payload.metadata, "temporal-workflow-id")
    + EntrySize(payload.metadata, "temporal-run-id")
    + EntrySize(payload.metadata, "temporal-namespace")

Reference(object) ==
    [metadata |-> [k \in {"encoding"} |-> <<"text", "s3-reference">>],
     data |-> <<"reference", object>>]

isS3Reference(payload) ==
    payload.metadata["encoding"] = <<"text", "s3-reference">>

Stored(context, payloads) ==
    {[context |-> context, content |-> payloads[i]] :
        i \in {j \in DOMAIN payloads : SizeOf(payloads[j]) >= Threshold}}

Encoded(context, payloads) ==
    [i \in DOMAIN payloads |->
        IF SizeOf(payloads[i]) >= Threshold
        THEN Reference([context |-> context, content |-> payloads[i]])
        ELSE payloads[i]]

Decodable(payloads) ==
    \A i \in DOMAIN payloads :
        isS3Reference(payloads[i]) =>
            payloads[i].data[1] = "reference" /\ payloads[i].data[2] \in bucket

MutDecoded(payloads) == payloads

Decoded(payloads) ==
    [i \in DOMAIN payloads |->
        IF isS3Reference(payloads[i]) THEN payloads[i].data[2].content
                                      ELSE payloads[i]]
-----------------------------------------------------------------------------
Init ==
    /\ batch = [c \in Call |-> None]
    /\ encodedBy = [c \in Call |-> None]
    /\ named = [c \in Call |-> None]
    /\ history = [c \in Call |-> None]
    /\ decodedBy = [c \in Call |-> None]
    /\ result = [c \in Call |-> None]
    /\ bucket = {}

(* A value goes into the history once.                                     *)
Keep(c, payloads, codec, context, items) ==
    /\ encodedBy[c] = None
    /\ batch' = [batch EXCEPT ![c] = payloads]
    /\ encodedBy' = [encodedBy EXCEPT ![c] = codec]
    /\ named' = [named EXCEPT ![c] = context]
    /\ history' = [history EXCEPT ![c] = items]
    /\ UNCHANGED <<decodedBy, result>>

GoEncode(c, payloads) ==
    LET context == GoContext(payloads) IN
    /\ Keep(c, payloads, "go", context, Encoded(context, payloads))
    /\ bucket' = bucket \cup Stored(context, payloads)

(* An error goes to the SDK and nothing into the history.  The first so    *)
(* many payloads may have been stored.                                     *)
GoEncodeFails(c, payloads) ==
    /\ encodedBy[c] = None
    /\ \E n \in 0..Len(payloads) :
           bucket' = bucket \cup Stored(GoContext(payloads),
                                        SubSeq(payloads, 1, n))
    /\ UNCHANGED <<batch, encodedBy, named, history, decodedBy, result>>

TypeScriptEncode(c, payloads) ==
    LET context == TypeScriptContext(payloads)
        sent == jsonToPayloads(ToJSON(payloads))
    IN  /\ Keep(c, payloads, "typescript", context,
                FromJSON(payloadsToJSON(Encoded(context, sent))))
        /\ bucket' = bucket \cup Stored(context, sent)

(* On any error the payloads go into the history as they are.              *)
TypeScriptEncodeFails(c, payloads) ==
    LET context == TypeScriptContext(payloads)
        sent == jsonToPayloads(ToJSON(payloads))
    IN  /\ Keep(c, payloads, "typescript", context, payloads)
        /\ \E n \in 0..Len(sent) :
               bucket' = bucket \cup Stored(context, SubSeq(sent, 1, n))

(* A value may be decoded any number of times, by either codec.            *)
Hand(c, codec, payloads) ==
    /\ decodedBy' = [decodedBy EXCEPT ![c] = codec]
    /\ result' = [result EXCEPT ![c] = payloads]
    /\ UNCHANGED <<batch, encodedBy, named, history, bucket>>

(* An error goes to the SDK, which tries again: no step of the model.      *)
GoDecode(c) ==
    /\ encodedBy[c] # None
    /\ Decodable(history[c])
    /\ Hand(c, "go", Decoded(history[c]))

TypeScriptDecode(c) ==
    /\ encodedBy[c] # None
    /\ LET sent == jsonToPayloads(ToJSON(history[c]))
       IN  /\ Decodable(sent)
           /\ Hand(c, "typescript", FromJSON(payloadsToJSON(Decoded(sent))))

(* On any error the application gets what is in the history.               *)
TypeScriptDecodeFails(c) ==
    /\ encodedBy[c] # None
    /\ Hand(c, "typescript", history[c])

Next ==
    \E c \in Call :
        \/ \E payloads \in Batches :
               \/ GoEncode(c, payloads) \/ GoEncodeFails(c, payloads)
               \/ TypeScriptEncode(c, payloads)
               \/ TypeScriptEncodeFails(c, payloads)
        \/ GoDecode(c) \/ TypeScriptDecode(c) \/ TypeScriptDecodeFails(c)

Spec == Init /\ [][Next]_vars
-----------------------------------------------------------------------------
(***************************************************************************)
(* Properties.                                                             *)
(***************************************************************************)

(* Between Go workers any payload survives, whatever its size.             *)
GoIsTransparent ==
    \A c \in Call :
        (encodedBy[c] = "go" /\ decodedBy[c] = "go") => result[c] = batch[c]

(* A payload that is below the threshold in the base64 form that the       *)
(* TypeScript codec sends, its injected context included, survives every   *)
(* pair of codecs and every failure, the large payloads that travel in the *)
(* same batch notwithstanding.                                             *)
SmallUnharmed ==
    \A c \in Call : result[c] # None =>
        \A i \in DOMAIN batch[c] :
            SizeOf(ToJSON(batch[c])[i]) < Threshold =>
                result[c][i] = batch[c][i]

(* An encode request names the context of one of its payloads, never a mix *)
(* of several, and the unknown one only if no payload has any: otherwise   *)
(* no cleanup would find the objects.                                      *)
InjectedInto(payloads) ==
    {c \in Injected : \E i \in DOMAIN payloads :
        \A k \in ContextKeys : /\ k \in DOMAIN payloads[i].metadata
                               /\ payloads[i].metadata[k] = c[k]}

NamesItsWorkflow ==
    \A c \in Call : batch[c] # None =>
        \/ named[c] \in InjectedInto(batch[c])
        \/ InjectedInto(batch[c]) = {} /\ named[c] = Default

(* README.md:9, "S3-stored payloads are transparently retrieved when       *)
(* needed", for the workers of README.md:10, "Sample workers in Go and     *)
(* TypeScript": a worker gets back what a worker of the same language      *)
(* encoded.                                                                *)
TransparentRetrieval ==
    \A c \in Call :
        (result[c] # None /\ encodedBy[c] = decodedBy[c]) => result[c] = batch[c]
=============================================================================
