------------------------------ MODULE Payloads ------------------------------
(***************************************************************************)
(* Temporal payloads, their protobuf serialisations and the reference      *)
(* payloads that stand for them once they are stored in S3                 *)
(* (codec-server/internal/codec/codec.go, internal/storage/reference.go).  *)
(*                                                                         *)
(* A payload is an opaque value of Plain.  What the code tells apart of    *)
(* it: its size against the threshold, the bytes proto.Marshal may produce *)
(* for it, and whether its "encoding" metadata says "s3-reference".        *)
(***************************************************************************)
EXTENDS Naturals, ObjectKeys

CONSTANTS
    Plain,      \* payloads an application hands to its data converter
    Malformed,  \* those that claim to be a reference but hold no JSON
    Marshal,    \* the serialisations proto.Marshal may return for a payload
    Size,       \* calculatePayloadSize
    Threshold,  \* PAYLOAD_SIZE_THRESHOLD
    None        \* no object, no bytes, no request

(* proto.Marshal walks a Go map, so one payload has several serialisations *)
(* (its documentation says the output is not deterministic); each of them  *)
(* is that payload's and no other's.                                       *)
ASSUME MarshalAssumption ==
    /\ Marshal \in [Plain -> SUBSET Data]
    /\ \A p \in Plain : Marshal[p] # {}
    /\ \A p, q \in Plain : p # q => Marshal[p] \cap Marshal[q] = {}

ASSUME SizeAssumption ==
    /\ Size \in [Plain -> Nat]
    /\ Threshold \in Nat

(* Not "size < c.threshold"                                                *)
MutNeedsStore(p) == Size[p] > Threshold

NeedsStore(p) == Size[p] >= Threshold

(* proto.Unmarshal of bytes that proto.Marshal produced                    *)
Unmarshal(d) == CHOOSE p \in Plain : d \in Marshal[p]

(* The JSON reference payload.  Decoding reads its key and nothing else.   *)
Reference == [key : Key]

(* What the codec server is handed and hands out.                          *)
Item == Plain \cup Reference

(* Applications hand over payloads they made, never the output of an       *)
(* earlier encode.                                                         *)
ASSUME ItemAssumption ==
    /\ Malformed \subseteq Plain
    /\ Plain \cap Reference = {}
    /\ None \notin Data

isS3Reference(x) == x \in Malformed \cup Reference

(* json.Unmarshal of the reference data succeeds                           *)
ParsesAsReference(x) == x \in Reference
=============================================================================
