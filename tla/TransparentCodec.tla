-------------------------- MODULE TransparentCodec --------------------------
(***************************************************************************)
(* What the codec server promises to the data converters that call it      *)
(* (README.md, "Transparent Retrieval"): an encode call answers with one   *)
(* item per payload, atomically, and from then on each of these items      *)
(* stands for its payload and for no other; a decode call of items that    *)
(* were answered returns their payloads in order, or fails.  Large         *)
(* payloads never appear among the answers.                                *)
(*                                                                         *)
(* No bucket, no replicas, no uploads: module CodecRefinement shows that   *)
(* module CodecServer implements this.                                     *)
(***************************************************************************)
EXTENDS Naturals, Sequences

CONSTANTS
    Call,       \* calls, each made once
    Payload,    \* payloads
    Large,      \* payloads that are not answered as they are
    Token,      \* items that stand for a payload
    MaxBatch,   \* payloads in a call
    NoCall      \* no call yet

VARIABLES
    phase,      \* of each call: "idle", "open", "done" or "failed"
    call,       \* what each call asks for
    answer,     \* what each call was answered
    issued      \* pairs of an answered item and its payload

vars == <<phase, call, answer, issued>>

Lists(S) == UNION {[1..n -> S] : n \in 0..MaxBatch}

Init ==
    /\ phase = [c \in Call |-> "idle"]
    /\ call = [c \in Call |-> NoCall]
    /\ answer = [c \in Call |-> << >>]
    /\ issued = {}

Open(c, record) ==
    /\ phase[c] = "idle"
    /\ phase' = [phase EXCEPT ![c] = "open"]
    /\ call' = [call EXCEPT ![c] = record]
    /\ UNCHANGED <<answer, issued>>

OpenEncode(c) ==
    \E batch \in Lists(Payload) : Open(c, [op |-> "encode", want |-> batch])

OpenDecode(c) ==
    \E entries \in Lists(issued) :
        Open(c, [op |-> "decode",
                 want |-> [i \in 1..Len(entries) |-> entries[i].payload]])

Close(c, result) ==
    /\ phase' = [phase EXCEPT ![c] = "done"]
    /\ answer' = [answer EXCEPT ![c] = result]
    /\ UNCHANGED call

(* An item may stand for a payload if it is that payload, and not a large  *)
(* one, or a token; and it must not stand for another payload.             *)
Encodes(x, p) == IF x \in Token THEN TRUE ELSE x = p /\ p \notin Large

Unambiguous(pairs) ==
    \A e, f \in pairs : e.item = f.item => e.payload = f.payload

AnswerEncode(c) ==
    /\ phase[c] = "open" /\ call[c].op = "encode"
    /\ \E result \in Lists(Payload \cup Token) :
           /\ Len(result) = Len(call[c].want)
           /\ \A i \in 1..Len(result) : Encodes(result[i], call[c].want[i])
           /\ issued' = issued \cup {[item |-> result[i],
                                      payload |-> call[c].want[i]] :
                                         i \in 1..Len(result)}
           /\ Close(c, result)
    /\ Unambiguous(issued')

AnswerDecode(c) ==
    /\ phase[c] = "open" /\ call[c].op = "decode"
    /\ Close(c, call[c].want)
    /\ UNCHANGED issued

(* Calls fail, one or several together, without effect.                    *)
GiveUp(calls) ==
    /\ \A c \in calls : phase[c] = "open"
    /\ phase' = [c \in Call |-> IF c \in calls THEN "failed" ELSE phase[c]]
    /\ UNCHANGED <<call, answer, issued>>

Next ==
    \/ \E c \in Call :
           OpenEncode(c) \/ OpenDecode(c) \/ AnswerEncode(c) \/ AnswerDecode(c)
    \/ \E calls \in SUBSET Call : GiveUp(calls)

Spec == Init /\ [][Next]_vars
=============================================================================
