------------------------ MODULE CodecRefinementProofs -----------------------
(***************************************************************************)
(* The codec server implements the transparent codec, for every number of  *)
(* requests and replicas, every set of contexts and payloads and every     *)
(* batch size: initial states map to initial states, and every step maps   *)
(* to a step of the transparent codec or to none.                          *)
(***************************************************************************)
EXTENDS CodecRefinement, CodecServerProofs

-----------------------------------------------------------------------------
(***************************************************************************)
(* What the invariant of CodecServerProofs leaves open: batches keep their *)
(* bound, and an encode answer holds a payload as it is only if it is      *)
(* smaller than the threshold.                                             *)
(***************************************************************************)
Inlined(x) == x \in Reference \/ ~NeedsStore(x)

SizeInv(r) ==
    /\ pc[r] # "idle" => Len(req[r].item) <= MaxBatch
    /\ (pc[r] \in Running \cup {"done"} /\ req[r].op = "encode") =>
           \A i \in 1..Len(output[r]) : Inlined(output[r][i])

SizesInv == \A r \in Request : SizeInv(r)

(* What happens to one request in a step.                                  *)
Untouched(r) == /\ pc'[r] = pc[r] /\ req'[r] = req[r]
                /\ output'[r] = output[r]

LEMMA OthersUntouched ==
    ASSUME TypeOK, NEW r \in Request, NEW q \in Request, q # r,
           Receive(r) \/ Work(r) \/ Answer(r)
    PROVE  Untouched(q)
BY DEF TypeOK, Untouched, Receive, Work, Answer, ReceiveEncode,
       ReceiveDecode, Start, EncodeInline, StartUpload, UploadOk, UploadFail,
       DecodeInline, DecodeMalformed, DownloadOk, DownloadFail, Return, Fail,
       Deliver, LoseReply, Emit

LEMMA BatchLength ==
    ASSUME NEW S, NEW batch \in Batches(S)
    PROVE  Len(batch) \in Nat /\ Len(batch) <= MaxBatch
BY BoundsAssumption DEF Batches

(* Steps that add one item to an answer.                                   *)
LEMMA SizeEmitted ==
    ASSUME TypeOK, NEW r \in Request, SizeInv(r), pc[r] \in Running,
           req'[r] = req[r], NEW x \in Item, Emit(r, x),
           req[r].op = "encode" => Inlined(x)
    PROVE  SizeInv(r)'
<1>1. output[r] \in Seq(Item) /\ output'[r] = Append(output[r], x)
  BY DEF TypeOK, Emit
<1>2. CASE req[r].op = "encode"
  <2>1. \A i \in 1..Len(output[r]) : Inlined(output[r][i])
    BY <1>2 DEF SizeInv
  <2>2. \A i \in 1..Len(output'[r]) : Inlined(output'[r][i])
    BY <1>1, <1>2, <2>1
  <2> QED
    BY <2>2 DEF SizeInv, Inlined, Running
<1>3. CASE req[r].op # "encode"
  BY <1>3 DEF SizeInv, Running
<1> QED
  BY <1>2, <1>3

(* Steps that leave an answer as it is, or drop it.                        *)
LEMMA SizeKept ==
    ASSUME TypeOK, NEW r \in Request, SizeInv(r), pc[r] # "idle",
           req'[r] = req[r],
           \/ /\ output'[r] = output[r]
              /\ pc[r] \in Running \cup {"done"}
           \/ pc'[r] \notin Running \cup {"done"}
    PROVE  SizeInv(r)'
BY DEF SizeInv, Inlined

LEMMA SizeInit == Init => SizesInv
BY DEF Init, SizesInv, SizeInv, Running

LEMMA SizeStep == IInv /\ SizesInv /\ [Next]_vars => SizesInv'
<1> SUFFICES ASSUME IInv, SizesInv, [Next]_vars, NEW r \in Request
             PROVE  SizeInv(r)'
  BY DEF SizesInv
<1>0. TypeOK /\ SizeInv(r) /\ RequestInv(r)
  BY DEF IInv, SizesInv
<1>1. ASSUME Untouched(r) PROVE SizeInv(r)'
  BY <1>0, <1>1 DEF SizeInv, Untouched, Inlined
<1>2. ASSUME NEW s \in Server, NEW c \in Context,
             NEW batch \in Batches(Plain), ReceiveEncode(r, s, c, batch)
      PROVE  SizeInv(r)'
  <2>1. req'[r].item = batch /\ output'[r] = << >>
    BY <1>0, <1>2 DEF ReceiveEncode, Start, TypeOK, RequestInv, OutputInv
  <2> QED
    BY <2>1, BatchLength DEF SizeInv
<1>3. ASSUME NEW s \in Server, NEW entries \in Batches(published),
             ReceiveDecode(r, s, entries)
      PROVE  SizeInv(r)'
  <2>1. /\ req'[r].item = [i \in 1..Len(entries) |-> entries[i].item]
        /\ req'[r].op = "decode"
    BY <1>0, <1>3 DEF ReceiveDecode, Start, TypeOK
  <2>2. Len(req'[r].item) = Len(entries)
    BY <2>1, BatchLength
  <2> QED
    BY <2>1, <2>2, BatchLength DEF SizeInv
<1>4. ASSUME EncodeInline(r) PROVE SizeInv(r)'
  BY <1>0, <1>4, CurrentType, SizeEmitted
     DEF EncodeInline, AtPayload, Running, Inlined
<1>5. ASSUME UploadOk(r) PROVE SizeInv(r)'
  <2>1. [key |-> KeyOf(req[r].ctx, blob[r])] \in Reference
    BY <1>5, UploadFacts DEF UploadOk, Reference
  <2> QED
    BY <1>0, <1>5, <2>1, SizeEmitted DEF UploadOk, Running, Inlined, Item
<1>6. ASSUME DecodeInline(r) PROVE SizeInv(r)'
  BY <1>0, <1>6, CurrentType, SizeEmitted DEF DecodeInline, AtPayload, Running
<1>7. ASSUME DownloadOk(r) PROVE SizeInv(r)'
  <2>1. Unmarshal(bucket[Current(r).key]) \in Item
    BY <1>7, DownloadFacts DEF DownloadOk, Item
  <2> QED
    BY <1>0, <1>7, <2>1, SizeEmitted
       DEF DownloadOk, AtReference, AtPayload, Running
<1>8. ASSUME StartUpload(r) \/ UploadFail(r) \/ DecodeMalformed(r)
                 \/ DownloadFail(r) \/ Return(r) \/ Deliver(r)
      PROVE  SizeInv(r)'
  BY <1>0, <1>8, SizeKept
     DEF StartUpload, UploadFail, DecodeMalformed, DownloadFail, Return,
         Deliver, AtReference, AtPayload, Running, TypeOK
<1>9. ASSUME Fail(r) \/ LoseReply(r) PROVE SizeInv(r)'
  BY <1>0, <1>9, SizeKept DEF Fail, LoseReply, Running, TypeOK
<1>10. ASSUME NEW put \in wire, ApplyPut(put) PROVE SizeInv(r)'
  <2>1. CASE put.from = r /\ pc[r] = "uploading"
    BY <1>0, <1>10, <2>1, SizeKept DEF ApplyPut, Running
  <2>2. CASE ~(put.from = r /\ pc[r] = "uploading")
    BY <1>0, <1>1, <1>10, <2>2 DEF ApplyPut, TypeOK, Untouched
  <2> QED
    BY <2>1, <2>2
<1>11. ASSUME NEW s \in Server, Crash(s) PROVE SizeInv(r)'
  <2>1. CASE r \in ServedBy(s)
    BY <1>0, <1>11, <2>1, SizeKept DEF Crash, ServedBy, Running
  <2>2. CASE r \notin ServedBy(s)
    BY <1>1, <1>11, <2>2 DEF Crash, Untouched
  <2> QED
    BY <2>1, <2>2
<1>12. ASSUME NEW q \in Request, q # r, Receive(q) \/ Work(q) \/ Answer(q)
       PROVE  SizeInv(r)'
  BY <1>0, <1>1, <1>12, OthersUntouched
<1>13. CASE UNCHANGED <<pc, req, output>>
  BY <1>1, <1>13 DEF Untouched
<1> QED
  BY <1>2, <1>3, <1>4, <1>5, <1>6, <1>7, <1>8, <1>9, <1>10, <1>11, <1>12,
     <1>13 DEF Next, Receive, Work, Answer, Rest, vars, RemoveObjects
-----------------------------------------------------------------------------
(***************************************************************************)
(* An item stands for one payload.                                         *)
(***************************************************************************)
StandsFor(x, p) == x = p \/ RefersTo(x, p)

LEMMA ReferencesRefer ==
    ASSUME NEW p \in Plain, NEW x, RefersTo(x, p)
    PROVE  x \in Reference
BY UnmarshalMarshal, KeyType DEF RefersTo, Reference

LEMMA StandsForOne ==
    ASSUME NEW p \in Plain, NEW q \in Plain, NEW x,
           StandsFor(x, p), StandsFor(x, q)
    PROVE  p = q
<1>1. CASE x \in Plain
  BY <1>1, ReferencesRefer, ItemAssumption DEF StandsFor
<1>2. CASE x \notin Plain
  <2>1. PICK c \in Context, d \in Marshal[p] : x = [key |-> KeyOf(c, d)]
    BY <1>2 DEF StandsFor, RefersTo
  <2>2. PICK c2 \in Context, d2 \in Marshal[q] : x = [key |-> KeyOf(c2, d2)]
    BY <1>2 DEF StandsFor, RefersTo
  <2>3. KeyOf(c, d) = KeyOf(c2, d2)
    BY <2>1, <2>2
  <2>4. /\ d \in Data /\ d2 \in Data
        /\ Unmarshal(d) = p /\ Unmarshal(d2) = q
    BY UnmarshalMarshal
  <2> QED
    BY <2>3, <2>4, KeyDeterminesData
<1> QED
  BY <1>1, <1>2

LEMMA PairsUnambiguous ==
    ASSUME NEW pairs \in SUBSET Entry,
           \A e \in pairs : StandsFor(e.item, e.payload)
    PROVE  Abstract!Unambiguous(pairs)
<1> SUFFICES ASSUME NEW e \in pairs, NEW f \in pairs, e.item = f.item
             PROVE  e.payload = f.payload
  BY DEF Abstract!Unambiguous
<1>1. e.payload \in Plain /\ f.payload \in Plain
  BY DEF Entry
<1> QED
  BY <1>1, StandsForOne
-----------------------------------------------------------------------------
(***************************************************************************)
(* Steps, seen from outside.                                               *)
(***************************************************************************)
LEMMA InitMaps == Init => Abstract!Init
BY DEF Init, Abstract!Init, phaseBar, callBar, answerBar, Running

(* What callers see of one request.                                        *)
SameOutside(r) ==
    /\ phaseBar'[r] = phaseBar[r]
    /\ callBar'[r] = callBar[r]
    /\ answerBar'[r] = answerBar[r]

LEMMA UntouchedOutside ==
    ASSUME NEW r \in Request, Untouched(r)
    PROVE  SameOutside(r)
BY DEF Untouched, SameOutside, phaseBar, callBar, answerBar

LEMMA InsideOutside ==
    ASSUME NEW r \in Request, pc[r] \in Running, pc'[r] \in Running,
           req'[r] = req[r]
    PROVE  SameOutside(r)
BY DEF SameOutside, phaseBar, callBar, answerBar, Running

LEMMA NothingSeen ==
    ASSUME \A r \in Request : SameOutside(r), published' = published
    PROVE  UNCHANGED Abstract!vars
<1>1. phaseBar' = phaseBar
  BY DEF SameOutside, phaseBar
<1>2. callBar' = callBar
  BY DEF SameOutside, callBar
<1>3. answerBar' = answerBar
  BY DEF SameOutside, answerBar
<1> QED
  BY <1>1, <1>2, <1>3 DEF Abstract!vars

LEMMA StartMaps ==
    ASSUME TypeOK, NEW r \in Request, NEW record, Start(r, record)
    PROVE  Abstract!Open(r, [op |-> record.op, want |-> record.want])
<1>1. pc' = [pc EXCEPT ![r] = "running"] /\ req' = [req EXCEPT ![r] = record]
  BY DEF Start
<1>2. phaseBar[r] = "idle"
  BY DEF Start, phaseBar, Running
<1>3. phaseBar' = [phaseBar EXCEPT ![r] = "open"]
  BY <1>1 DEF TypeOK, phaseBar, Running
<1>4. callBar' = [callBar EXCEPT ![r] = [op |-> record.op,
                                         want |-> record.want]]
  BY <1>1 DEF TypeOK, callBar
<1>5. answerBar' = answerBar
  BY <1>1 DEF Start, TypeOK, answerBar
<1>6. published' = published
  BY DEF Start
<1> QED
  BY <1>2, <1>3, <1>4, <1>5, <1>6 DEF Abstract!Open

(* Requests that end without an answer.                                    *)
LEMMA GiveUpMaps ==
    ASSUME TypeOK, NEW calls \in SUBSET Request,
           \A r \in calls : pc[r] \in Running,
           \A r \in calls : pc'[r] \in {"failed", "lost"},
           \A r \in Request \ calls : pc'[r] = pc[r] /\ output'[r] = output[r],
           UNCHANGED <<req, published>>
    PROVE  Abstract!GiveUp(calls)
<1>1. \A r \in calls : phaseBar[r] = "open"
  BY DEF phaseBar
<1>2. phaseBar' = [r \in Request |->
                      IF r \in calls THEN "failed" ELSE phaseBar[r]]
  BY DEF phaseBar, Running
<1>3. callBar' = callBar
  BY DEF callBar, Running
<1>4. answerBar' = answerBar
  BY DEF answerBar, Running
<1> QED
  BY <1>1, <1>2, <1>3, <1>4 DEF Abstract!GiveUp

(* The delivery of an answer, complete and in order.                       *)
LEMMA CloseMaps ==
    ASSUME TypeOK, NEW r \in Request, Deliver(r)
    PROVE  Abstract!Close(r, output[r]) /\ phaseBar[r] = "open"
<1>1. pc' = [pc EXCEPT ![r] = "done"] /\ pc[r] = "returned"
  BY DEF Deliver
<1>2. phaseBar' = [phaseBar EXCEPT ![r] = "done"] /\ phaseBar[r] = "open"
  BY <1>1 DEF TypeOK, phaseBar, Running
<1>3. callBar' = callBar
  BY <1>1 DEF Deliver, TypeOK, callBar
<1>4. answerBar' = [answerBar EXCEPT ![r] = output[r]]
  BY <1>1 DEF Deliver, TypeOK, answerBar
<1> QED
  BY <1>2, <1>3, <1>4 DEF Abstract!Close

LEMMA DeliverMaps ==
    ASSUME IInv, SizesInv, PublishedInv', TypeOK', NEW r \in Request, Deliver(r)
    PROVE  Abstract!AnswerEncode(r) \/ Abstract!AnswerDecode(r)
<1>1. /\ TypeOK /\ RequestInv(r) /\ SizeInv(r)
      /\ pc[r] = "returned" /\ req[r] \in RequestRecord
  BY DEF IInv, SizesInv, Deliver, TypeOK
<1>2. /\ output[r] \in Seq(Item)
      /\ Len(output[r]) = Len(req[r].want)
      /\ Len(output[r]) <= MaxBatch
      /\ \A i \in 1..Len(output[r]) : Right(r, output[r][i], i)
  BY <1>1 DEF TypeOK, RequestInv, OutputInv, DecodeInv, SizeInv, Running
<1>3. /\ Abstract!Close(r, output[r]) /\ phaseBar[r] = "open"
      /\ callBar[r] = [op |-> req[r].op, want |-> req[r].want]
  BY <1>1, CloseMaps DEF callBar
<1>4. CASE req[r].op = "encode"
  <2> DEFINE pairs == {[item |-> output[r][i], payload |-> req[r].want[i]] :
                           i \in 1..Len(output[r])}
  <2>1. output[r] \in Abstract!Lists(Plain \cup Reference)
    <3>1. Len(output[r]) \in 0..MaxBatch
      BY <1>2, BoundsAssumption
    <3>2. output[r] \in [1..Len(output[r]) -> Plain \cup Reference]
      BY <1>2 DEF Item
    <3> QED
      BY <3>1, <3>2 DEF Abstract!Lists
  <2>2. ASSUME NEW i \in 1..Len(output[r])
        PROVE  IF output[r][i] \in Reference THEN TRUE
               ELSE /\ output[r][i] = req[r].want[i]
                    /\ req[r].want[i] \notin {p \in Plain : Size[p] >= Threshold}
    <3>1. Encoded(output[r][i], req[r].want[i])
      BY <1>2, <1>4 DEF Right
    <3>2. Inlined(output[r][i])
      BY <1>1, <1>4 DEF SizeInv, Running
    <3>3. req[r].want[i] \in Plain
      BY <1>1, <1>2 DEF RequestRecord
    <3> QED
      BY <3>1, <3>2, <3>3, ReferencesRefer DEF Encoded, Inlined, NeedsStore
  <2>3. published' = published \cup pairs
    BY <1>4 DEF Deliver
  <2>4. Abstract!Unambiguous(published')
    <3>1. published' \subseteq Entry
      BY DEF TypeOK
    <3>2. \A e \in published' : StandsFor(e.item, e.payload)
      BY DEF PublishedInv, Encoded, StandsFor
    <3> QED
      BY <3>1, <3>2, PairsUnambiguous
  <2> QED
    BY <1>2, <1>3, <1>4, <2>1, <2>2, <2>3, <2>4
       DEF Abstract!AnswerEncode, Abstract!Encodes
<1>5. CASE req[r].op = "decode"
  <2>1. output[r] = req[r].want
    BY <1>1, <1>2, <1>5 DEF Right, RequestRecord
  <2>2. published' = published
    BY <1>5 DEF Deliver
  <2> QED
    BY <1>3, <1>5, <2>1, <2>2 DEF Abstract!AnswerDecode
<1> QED
  BY <1>1, <1>4, <1>5 DEF RequestRecord
-----------------------------------------------------------------------------
(***************************************************************************)
(* The theorem.                                                            *)
(***************************************************************************)
LEMMA StepMaps ==
    ASSUME IInv, SizesInv, IInv', [Next]_vars
    PROVE  [Abstract!Next]_Abstract!vars
<1>0. TypeOK
  BY DEF IInv
<1>1. ASSUME NEW r \in Request, NEW s \in Server, NEW c \in Context,
             NEW batch \in Batches(Plain), ReceiveEncode(r, s, c, batch)
      PROVE  Abstract!OpenEncode(r)
  <2>1. Abstract!Open(r, [op |-> "encode", want |-> batch])
    BY <1>0, <1>1, StartMaps DEF ReceiveEncode
  <2> QED
    BY <2>1 DEF Abstract!OpenEncode, Abstract!Lists, Batches
<1>2. ASSUME NEW r \in Request, NEW s \in Server,
             NEW entries \in Batches(published), ReceiveDecode(r, s, entries)
      PROVE  Abstract!OpenDecode(r)
  <2> DEFINE w == [i \in 1..Len(entries) |-> entries[i].payload]
             rec == [op |-> "decode", want |-> w,
                     item |-> [i \in 1..Len(entries) |-> entries[i].item],
                     srv |-> s]
  <2>1. Start(r, rec)
    BY <1>2 DEF ReceiveDecode
  <2>2. rec.op = "decode" /\ rec.want = w
    OBVIOUS
  <2> HIDE DEF rec
  <2>3. Abstract!Open(r, [op |-> rec.op, want |-> rec.want])
    BY <1>0, <2>1, StartMaps
  <2>4. Abstract!Open(r, [op |-> "decode", want |-> w])
    BY <2>2, <2>3
  <2> QED
    BY <2>4 DEF Abstract!OpenDecode, Abstract!Lists, Batches
<1>3. ASSUME NEW r \in Request, Deliver(r)
      PROVE  Abstract!AnswerEncode(r) \/ Abstract!AnswerDecode(r)
  BY <1>3, DeliverMaps DEF IInv
<1>4. ASSUME NEW r \in Request, LoseReply(r) \/ Fail(r)
      PROVE  Abstract!GiveUp({r})
  BY <1>0, <1>4, GiveUpMaps DEF LoseReply, Fail, TypeOK, Running
<1>5. ASSUME NEW s \in Server, Crash(s) PROVE Abstract!GiveUp(ServedBy(s))
  <2>1. ServedBy(s) \in SUBSET Request
    BY DEF ServedBy
  <2> QED
    BY <1>0, <1>5, <2>1, GiveUpMaps DEF Crash, ServedBy
<1>6. ASSUME NEW r \in Request, Work(r), ~Fail(r)
      PROVE  UNCHANGED Abstract!vars
  <2>1. pc[r] \in Running /\ pc'[r] \in Running /\ req'[r] = req[r]
    BY <1>0, <1>6
       DEF Work, EncodeInline, StartUpload, UploadOk, UploadFail,
           DecodeInline, DecodeMalformed, DownloadOk, DownloadFail, Return,
           AtReference, AtPayload, Running, TypeOK
  <2>2. \A q \in Request : SameOutside(q)
    BY <1>0, <1>6, <2>1, InsideOutside, OthersUntouched, UntouchedOutside
  <2>3. published' = published
    BY <1>6
       DEF Work, EncodeInline, StartUpload, UploadOk, UploadFail,
           DecodeInline, DecodeMalformed, DownloadOk, DownloadFail, Return
  <2> QED
    BY <2>2, <2>3, NothingSeen
<1>7. ASSUME NEW put \in wire, ApplyPut(put) PROVE UNCHANGED Abstract!vars
  <2>1. \A q \in Request : SameOutside(q)
    <3> TAKE q \in Request
    <3>1. CASE put.from = q /\ pc[q] = "uploading"
      BY <1>0, <1>7, <3>1, InsideOutside DEF ApplyPut, Running, TypeOK
    <3>2. CASE ~(put.from = q /\ pc[q] = "uploading")
      BY <1>0, <1>7, <3>2, UntouchedOutside DEF ApplyPut, Untouched, TypeOK
    <3> QED
      BY <3>1, <3>2
  <2> QED
    BY <1>7, <2>1, NothingSeen DEF ApplyPut
<1>8. ASSUME UNCHANGED <<pc, req, output, published>>
      PROVE  UNCHANGED Abstract!vars
  <2>1. \A q \in Request : SameOutside(q)
    BY <1>8, UntouchedOutside DEF Untouched
  <2> QED
    BY <1>8, <2>1, NothingSeen
<1>9. ASSUME NEW keys \in SUBSET Stored, RemoveObjects(keys)
      PROVE  UNCHANGED Abstract!vars
  BY <1>8, <1>9 DEF RemoveObjects
<1>10. ASSUME NEW r \in Request,
              Abstract!OpenEncode(r) \/ Abstract!OpenDecode(r)
                  \/ Abstract!AnswerEncode(r) \/ Abstract!AnswerDecode(r)
       PROVE  Abstract!Next
  BY <1>10 DEF Abstract!Next
<1>11. ASSUME NEW calls \in SUBSET Request, Abstract!GiveUp(calls)
       PROVE  Abstract!Next
  BY <1>11 DEF Abstract!Next
<1>12. \A s \in Server : ServedBy(s) \in SUBSET Request
  BY DEF ServedBy
<1>13. ASSUME NEW r \in Request, Receive(r) PROVE Abstract!Next
  BY <1>1, <1>2, <1>10, <1>13 DEF Receive
<1>14. ASSUME NEW r \in Request, Work(r) \/ Answer(r)
       PROVE  [Abstract!Next]_Abstract!vars
  BY <1>3, <1>4, <1>6, <1>10, <1>11, <1>14 DEF Answer, Work
<1> QED
  BY <1>5, <1>7, <1>8, <1>9, <1>11, <1>12, <1>13, <1>14 DEF Next, Rest, vars

(* The codec server implements the transparent codec: seen by its callers, *)
(* answers are complete, in order and all at once, whatever requests,      *)
(* crashes, failed uploads and late PUTs lie behind them.                  *)
THEOREM CodecServerIsTransparent == Spec => ImplementsTransparentCodec
<1>1. Spec => [](IInv /\ SizesInv)
  <2>1. Init => IInv /\ SizesInv
    BY InvInit, SizeInit
  <2>2. IInv /\ SizesInv /\ [Next]_vars => (IInv /\ SizesInv)'
    BY InvStep, SizeStep
  <2> QED
    BY <2>1, <2>2, PTL DEF Spec
<1>2. Init => Abstract!Init
  BY InitMaps
<1>3. IInv /\ SizesInv /\ IInv' /\ [Next]_vars
          => [Abstract!Next]_Abstract!vars
  BY StepMaps
<1> QED
  BY <1>1, <1>2, <1>3, PTL DEF Spec, ImplementsTransparentCodec, Abstract!Spec
=============================================================================
