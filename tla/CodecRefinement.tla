-------------------------- MODULE CodecRefinement ---------------------------
(***************************************************************************)
(* The codec server implements the transparent codec: a call is open from  *)
(* the moment a replica has the request until the answer is delivered, and *)
(* an answer takes effect at that moment.                                  *)
(***************************************************************************)
EXTENDS CodecServer

phaseBar ==
    [r \in Request |->
        IF pc[r] \in Running THEN "open"
        ELSE IF pc[r] = "lost" THEN "failed" ELSE pc[r]]

callBar ==
    [r \in Request |->
        IF pc[r] = "idle" THEN None
        ELSE [op |-> req[r].op, want |-> req[r].want]]

answerBar == [r \in Request |-> IF pc[r] = "done" THEN output[r] ELSE << >>]

Abstract ==
    INSTANCE TransparentCodec
        WITH Call <- Request, Payload <- Plain,
             Large <- {p \in Plain : Size[p] >= Threshold},
             Token <- Reference, NoCall <- None,
             phase <- phaseBar, call <- callBar, answer <- answerBar,
             issued <- published

(* Every behaviour of the codec server, seen from its callers, is one of   *)
(* the transparent codec: answers are complete, in order and all at once,  *)
(* no reference stands for two payloads, decodes return the originals, and *)
(* a payload of Threshold bytes or more is never answered as it is.        *)
ImplementsTransparentCodec == Abstract!Spec
=============================================================================
