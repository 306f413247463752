-------------------------- MODULE CodecServerProofs -------------------------
(***************************************************************************)
(* Theorems about the codec server, for every number of requests and       *)
(* replicas, every set of contexts and payloads and every batch size.      *)
(***************************************************************************)
EXTENDS CodecServer, TLAPS

-----------------------------------------------------------------------------
(***************************************************************************)
(* Keys and serialisations.                                                *)
(***************************************************************************)

(* The text after the last slash can be read off a key.                    *)
LEMMA LastSegment ==
    ASSUME NEW S, NEW s \in Seq(S), NEW t \in Seq(S), NEW x \in S, NEW y \in S,
           s \o <<x>> = t \o <<y>>
    PROVE  x = y
<1>1. Len(s \o <<x>>) = Len(s) + 1 /\ Len(t \o <<y>>) = Len(t) + 1
  OBVIOUS
<1>2. (s \o <<x>>)[Len(s) + 1] = x /\ (t \o <<y>>)[Len(t) + 1] = y
  OBVIOUS
<1> QED
  BY <1>1, <1>2

(* Objects with one key have the same bytes, whatever the contexts: two    *)
(* contexts may produce one key (ids may contain slashes), two payloads    *)
(* never do.                                                               *)
LEMMA KeyDeterminesData ==
    ASSUME NEW c \in Context, NEW d \in Data,
           NEW c2 \in Context, NEW d2 \in Data,
           KeyOf(c, d) = KeyOf(c2, d2)
    PROVE  d = d2
<1> DEFINE s == c.ns \o c.wf \o c.run
           t == c2.ns \o c2.wf \o c2.run
<1>1. s \in Seq(Segment) /\ t \in Seq(Segment)
  BY ContextAssumption
<1>2. Hash[d] \in Segment /\ Hash[d2] \in Segment
  BY HashAssumption
<1>3. s \o <<Hash[d]>> = t \o <<Hash[d2]>>
  BY DEF KeyOf
<1> HIDE DEF s, t
<1>4. Hash[d] = Hash[d2]
  BY <1>1, <1>2, <1>3, LastSegment
<1> QED
  BY <1>4, HashAssumption

LEMMA KeyType ==
    ASSUME NEW c \in Context, NEW d \in Data
    PROVE  KeyOf(c, d) \in Key
BY DEF Key

(* proto.Unmarshal undoes proto.Marshal, whichever serialisation it chose. *)
LEMMA UnmarshalMarshal ==
    ASSUME NEW p \in Plain, NEW d \in Marshal[p]
    PROVE  /\ d \in Data
           /\ Unmarshal(d) = p
<1>1. \A q \in Plain : d \in Marshal[q] => q = p
  BY MarshalAssumption
<1>2. d \in Data
  BY MarshalAssumption
<1> QED
  BY <1>1, <1>2 DEF Unmarshal

(***************************************************************************)
(* Counters.                                                               *)
(***************************************************************************)
LEMMA CountersType ==
    ASSUME NEW m \in Counters, NEW n \in Nat, NEW b \in BOOLEAN
    PROVE  /\ ZeroCounters \in Counters
           /\ RecordEncode(m, n, b) \in Counters
           /\ RecordDecode(m, n, b) \in Counters
           /\ RecordS3Upload(m, b) \in Counters
           /\ RecordS3Download(m, b) \in Counters
<1>0. One(b) \in Nat
  BY DEF One
<1>1. ZeroCounters \in Counters
  BY DEF ZeroCounters, Counters
<1>2. \A k \in Counters, c \in Counter, i \in Nat : Add(k, c, i) \in Counters
  BY DEF Counters, Add
<1>3. RecordEncode(m, n, b) \in Counters
  BY <1>0, <1>2 DEF Counter, RecordEncode
<1>4. RecordDecode(m, n, b) \in Counters
  BY <1>0, <1>2 DEF Counter, RecordDecode
<1>5. RecordS3Upload(m, b) \in Counters
  BY <1>0, <1>2 DEF Counter, RecordS3Upload
<1>6. RecordS3Download(m, b) \in Counters
  BY <1>0, <1>2 DEF Counter, RecordS3Download
<1> QED
  BY <1>1, <1>3, <1>4, <1>5, <1>6

(* What a Record call leaves in metrics.                                   *)
LEMMA RecordType ==
    ASSUME TypeOK, NEW r \in Request, pc[r] # "idle",
           NEW counters \in Counters, Record(r, counters)
    PROVE  metrics' \in [Server -> Counters]
BY DEF TypeOK, RequestRecord, ServerOf, Record

LEMMA RecordRequestType ==
    ASSUME TypeOK, NEW r \in Request, pc[r] # "idle",
           NEW hasError \in BOOLEAN, RecordRequest(r, hasError)
    PROVE  metrics' \in [Server -> Counters]
<1>1. req[r] \in RequestRecord
  BY DEF TypeOK
<1>2. Len(req[r].item) \in Nat /\ ServerOf(r) \in Server
  BY <1>1 DEF RequestRecord, ServerOf
<1>3. metrics[ServerOf(r)] \in Counters
  BY <1>2 DEF TypeOK
<1>4. \A n \in Nat : /\ RecordEncode(metrics[ServerOf(r)], n, hasError) \in Counters
                    /\ RecordDecode(metrics[ServerOf(r)], n, hasError) \in Counters
  BY <1>3, CountersType
<1>5. CASE req[r].op = "encode"
  <2>1. Record(r, RecordEncode(metrics[ServerOf(r)], Len(req[r].item), hasError))
    BY <1>5 DEF RecordRequest
  <2> QED
    BY <1>2, <1>4, <2>1, RecordType
<1>6. CASE req[r].op # "encode"
  <2>1. Record(r, RecordDecode(metrics[ServerOf(r)], Len(req[r].item), hasError))
    BY <1>6 DEF RecordRequest
  <2> QED
    BY <1>2, <1>4, <2>1, RecordType
<1> QED
  BY <1>5, <1>6

LEMMA RecordTransferType ==
    ASSUME TypeOK, NEW r \in Request, pc[r] # "idle",
           NEW hasError \in BOOLEAN,
           \/ Record(r, RecordS3Upload(metrics[ServerOf(r)], hasError))
           \/ Record(r, RecordS3Download(metrics[ServerOf(r)], hasError))
    PROVE  metrics' \in [Server -> Counters]
<1>1. metrics[ServerOf(r)] \in Counters
  BY DEF TypeOK, RequestRecord, ServerOf
<1>2. /\ RecordS3Upload(metrics[ServerOf(r)], hasError) \in Counters
      /\ RecordS3Download(metrics[ServerOf(r)], hasError) \in Counters
  BY <1>1, CountersType
<1> QED
  BY <1>2, RecordType
-----------------------------------------------------------------------------
(***************************************************************************)
(* Type correctness.                                                       *)
(***************************************************************************)

(* What a request holds at the payload it is working on.                   *)
LEMMA CurrentType ==
    ASSUME TypeOK, NEW r \in Request, NEW op, AtPayload(r, op)
    PROVE  /\ req[r] \in RequestRecord
           /\ Len(output[r]) + 1 \in 1..Len(req[r].item)
           /\ Current(r) \in Item
<1>1. req[r] \in RequestRecord
  BY DEF TypeOK, AtPayload
<1>2. req[r].item \in Seq(Item) /\ output[r] \in Seq(Item)
  BY <1>1 DEF RequestRecord, TypeOK
<1>3. Len(output[r]) + 1 \in 1..Len(req[r].item)
  BY <1>2 DEF AtPayload
<1> QED
  BY <1>1, <1>2, <1>3 DEF Current

(***************************************************************************)
(* The inductive invariant.  Properties speak about answers that have been *)
(* delivered; the invariant follows a payload from the request to the      *)
(* bucket and from there into the history.                                 *)
(***************************************************************************)

(* An encode request is handed payloads only.                              *)
EncodesPlain(r) ==
    (pc[r] # "idle" /\ req[r].op = "encode") => req[r].item = req[r].want

(* The object was there; it still is unless somebody removed it.           *)
Kept(k) == k \in removed \/ bucket[k] # None

(* A reference names the hash of a serialisation of its payload.           *)
RefersTo(x, p) ==
    \E c \in Context, d \in Marshal[p] : x = [key |-> KeyOf(c, d)]

Encoded(x, p) == x = p \/ (RefersTo(x, p) /\ Kept(x.key))

(* An upload is that of the current payload of an encode request; once S3  *)
(* has applied it the object is there.                                     *)
UploadInv(r) ==
    pc[r] \in {"uploading", "stored"} =>
        /\ req[r].op = "encode"
        /\ Len(output[r]) < Len(req[r].item)
        /\ blob[r] \in Marshal[Current(r)]
        /\ pc[r] = "stored" => Kept(KeyOf(req[r].ctx, blob[r]))

(* A PUT on the wire is the one its encode request waits for, or its       *)
(* request has given up.                                                   *)
WireInv ==
    \A put \in wire :
        /\ pc[put.from] \in {"uploading", "failing", "failed", "lost"}
        /\ req[put.from].op = "encode"
        /\ pc[put.from] = "uploading" =>
               /\ put.key = KeyOf(req[put.from].ctx, blob[put.from])
               /\ put.data = blob[put.from]

(* The answer so far is right, payload by payload.                         *)
Right(r, x, i) ==
    IF req[r].op = "encode" THEN Encoded(x, req[r].want[i])
                            ELSE x = req[r].want[i]

OutputInv(r) ==
    /\ pc[r] = "idle" => output[r] = << >>
    /\ pc[r] \in Running \cup {"done"} =>
        /\ Len(output[r]) <= Len(req[r].item)
        /\ pc[r] \in {"returned", "done"} => Len(output[r]) = Len(req[r].item)
        /\ \A i \in 1..Len(output[r]) : Right(r, output[r][i], i)

(* Decode requests carry what the history holds.                           *)
DecodeInv(r) ==
    pc[r] # "idle" =>
        /\ Len(req[r].item) = Len(req[r].want)
        /\ req[r].op = "decode" =>
               \A i \in 1..Len(req[r].item) :
                   [item |-> req[r].item[i], payload |-> req[r].want[i]]
                       \in published

RequestInv(r) == EncodesPlain(r) /\ UploadInv(r) /\ OutputInv(r) /\ DecodeInv(r)

(* What the history holds is right.                                        *)
PublishedInv == \A e \in published : Encoded(e.item, e.payload)

IInv ==
    /\ TypeOK
    /\ ContentAddressed
    /\ WireInv
    /\ PublishedInv
    /\ \A r \in Request : RequestInv(r)
-----------------------------------------------------------------------------
(***************************************************************************)
(* Consequences of the invariant used in the steps.                        *)
(***************************************************************************)
LEMMA CurrentPlain ==
    ASSUME TypeOK, NEW r \in Request, EncodesPlain(r),
           pc[r] # "idle", req[r].op = "encode",
           Len(output[r]) < Len(req[r].item)
    PROVE  /\ req[r] \in RequestRecord
           /\ req[r].ctx \in Context
           /\ Len(output[r]) + 1 \in 1..Len(req[r].item)
           /\ Current(r) \in Plain
           /\ Current(r) = req[r].want[Len(output[r]) + 1]
<1>1. req[r] \in RequestRecord
  BY DEF TypeOK
<1>2. req[r].ctx \in Context /\ req[r].item \in Seq(Plain)
  BY <1>1 DEF RequestRecord, EncodesPlain
<1>3. Len(output[r]) + 1 \in 1..Len(req[r].item)
  BY <1>2 DEF TypeOK
<1> QED
  BY <1>1, <1>2, <1>3 DEF Current, EncodesPlain

(* The bytes of an upload in progress.                                     *)
LEMMA UploadFacts ==
    ASSUME IInv, NEW r \in Request, pc[r] \in {"uploading", "stored"}
    PROVE  /\ req[r] \in RequestRecord
           /\ req[r].op = "encode"
           /\ req[r].ctx \in Context
           /\ Len(output[r]) + 1 \in 1..Len(req[r].item)
           /\ Current(r) \in Plain
           /\ Current(r) = req[r].want[Len(output[r]) + 1]
           /\ blob[r] \in Marshal[Current(r)]
           /\ blob[r] \in Data
           /\ KeyOf(req[r].ctx, blob[r]) \in Key
<1>1. /\ req[r].op = "encode" /\ Len(output[r]) < Len(req[r].item)
      /\ blob[r] \in Marshal[Current(r)]
  BY DEF IInv, RequestInv, UploadInv
<1>2. /\ req[r] \in RequestRecord /\ req[r].ctx \in Context
      /\ Len(output[r]) + 1 \in 1..Len(req[r].item)
      /\ Current(r) \in Plain
      /\ Current(r) = req[r].want[Len(output[r]) + 1]
  BY <1>1, CurrentPlain DEF IInv, RequestInv
<1>3. blob[r] \in Data
  BY <1>1, <1>2, UnmarshalMarshal
<1> QED
  BY <1>1, <1>2, <1>3, KeyType

(* What a download returns is the payload the caller wants.                *)
LEMMA DownloadFacts ==
    ASSUME IInv, NEW r \in Request, AtReference(r),
           bucket[Current(r).key] # None
    PROVE  /\ Unmarshal(bucket[Current(r).key])
                  = req[r].want[Len(output[r]) + 1]
           /\ req[r].want[Len(output[r]) + 1] \in Plain
<1> DEFINE i == Len(output[r]) + 1
           p == req[r].want[i]
<1>1. /\ req[r] \in RequestRecord
      /\ i \in 1..Len(req[r].item)
      /\ pc[r] # "idle" /\ req[r].op = "decode"
  BY CurrentType DEF IInv, AtReference, AtPayload
<1>2. p \in Plain
  BY <1>1 DEF IInv, RequestInv, DecodeInv, RequestRecord
<1>3. Current(r) \in Reference
  BY DEF AtReference, ParsesAsReference
<1>4. [item |-> Current(r), payload |-> p] \in published
  BY <1>1 DEF IInv, RequestInv, DecodeInv, Current
<1>5. Encoded(Current(r), p)
  BY <1>4 DEF IInv, PublishedInv
<1>6. RefersTo(Current(r), p)
  BY <1>2, <1>3, <1>5, ItemAssumption DEF Encoded
<1>7. PICK c \in Context, d \in Marshal[p] : Current(r) = [key |-> KeyOf(c, d)]
  BY <1>6 DEF RefersTo
<1>8. d \in Data /\ Unmarshal(d) = p
  BY <1>2, <1>7, UnmarshalMarshal
<1>9. bucket[KeyOf(c, d)] \in {d, None}
  BY <1>8 DEF IInv, ContentAddressed
<1> QED
  BY <1>2, <1>7, <1>8, <1>9

(* What a decode request finds when the item is no reference.              *)
LEMMA DecodeInlineFacts ==
    ASSUME IInv, NEW r \in Request, AtPayload(r, "decode"),
           ~isS3Reference(Current(r))
    PROVE  Current(r) = req[r].want[Len(output[r]) + 1]
<1> DEFINE i == Len(output[r]) + 1
           p == req[r].want[i]
<1>1. /\ req[r] \in RequestRecord
      /\ i \in 1..Len(req[r].item)
      /\ pc[r] # "idle" /\ req[r].op = "decode"
  BY CurrentType DEF IInv, AtPayload
<1>2. p \in Plain
  BY <1>1 DEF IInv, RequestInv, DecodeInv, RequestRecord
<1>3. [item |-> Current(r), payload |-> p] \in published
  BY <1>1 DEF IInv, RequestInv, DecodeInv, Current
<1>4. Encoded(Current(r), p)
  BY <1>3 DEF IInv, PublishedInv
<1>5. ~RefersTo(Current(r), p)
  <2> SUFFICES ASSUME NEW c \in Context, NEW d \in Marshal[p],
                      Current(r) = [key |-> KeyOf(c, d)]
               PROVE  FALSE
    BY DEF RefersTo
  <2>1. KeyOf(c, d) \in Key
    BY <1>2, UnmarshalMarshal, KeyType
  <2> QED
    BY <2>1 DEF isS3Reference, Reference
<1> QED
  BY <1>4, <1>5 DEF Encoded

LEMMA BatchType ==
    ASSUME NEW S, NEW batch \in Batches(S)
    PROVE  batch \in Seq(S)
BY BoundsAssumption DEF Batches

LEMMA EntriesType ==
    ASSUME TypeOK, NEW entries \in Batches(published)
    PROVE  /\ entries \in Seq(published)
           /\ [i \in 1..Len(entries) |-> entries[i].item] \in Seq(Item)
           /\ [i \in 1..Len(entries) |-> entries[i].payload] \in Seq(Plain)
<1>1. entries \in Seq(published)
  BY BatchType
<1>2. \A i \in 1..Len(entries) : entries[i] \in Entry
  BY <1>1 DEF TypeOK
<1>3. \A i \in 1..Len(entries) : /\ entries[i].item \in Item
                                /\ entries[i].payload \in Plain
  BY <1>2 DEF Entry
<1> QED
  BY <1>1, <1>3
-----------------------------------------------------------------------------
LEMMA TypeInit == Init => TypeOK
<1> SUFFICES ASSUME Init PROVE TypeOK
  OBVIOUS
<1>1. metrics \in [Server -> Counters]
  BY DEF Init, ZeroCounters, Counters
<1> QED
  BY <1>1 DEF Init, TypeOK

(* Every action keeps the types.                                           *)
LEMMA TypeStep == IInv /\ [Next]_vars => TypeOK'
<1> SUFFICES ASSUME IInv, [Next]_vars PROVE TypeOK'
  OBVIOUS
<1> USE DEF IInv
<1>1. ASSUME NEW r \in Request, NEW s \in Server, NEW c \in Context,
             NEW batch \in Batches(Plain), ReceiveEncode(r, s, c, batch)
      PROVE  TypeOK'
  <2>1. batch \in Seq(Plain) /\ batch \in Seq(Item)
    BY BatchType DEF Item
  <2>2. req'[r] \in RequestRecord
    BY <1>1, <2>1 DEF ReceiveEncode, Start, RequestRecord, TypeOK
  <2> QED
    BY <1>1, <2>2 DEF ReceiveEncode, Start, TypeOK, Running
<1>2. ASSUME NEW r \in Request, NEW s \in Server,
             NEW entries \in Batches(published), ReceiveDecode(r, s, entries)
      PROVE  TypeOK'
  <2>1. /\ [i \in 1..Len(entries) |-> entries[i].item] \in Seq(Item)
        /\ [i \in 1..Len(entries) |-> entries[i].payload] \in Seq(Plain)
    BY EntriesType
  <2>2. req'[r] \in RequestRecord
    BY <1>2, <2>1 DEF ReceiveDecode, Start, RequestRecord, TypeOK
  <2> QED
    BY <1>2, <2>2 DEF ReceiveDecode, Start, TypeOK, Running
<1>3. ASSUME NEW r \in Request, EncodeInline(r) PROVE TypeOK'
  <2>1. Current(r) \in Item
    BY <1>3, CurrentType DEF EncodeInline
  <2> QED
    BY <1>3, <2>1 DEF EncodeInline, Emit, TypeOK
<1>4. ASSUME NEW r \in Request, StartUpload(r) PROVE TypeOK'
  <2>1. /\ Current(r) \in Plain /\ req[r].ctx \in Context
    BY <1>4, CurrentPlain DEF RequestInv, StartUpload, AtPayload
  <2>2. PICK d \in Marshal[Current(r)] :
           /\ blob' = [blob EXCEPT ![r] = d]
           /\ wire' = wire \cup {[from |-> r, key |-> KeyOf(req[r].ctx, d),
                                  data |-> d]}
    BY <1>4 DEF StartUpload
  <2>3. d \in Data
    BY <2>1, UnmarshalMarshal
  <2>4. [from |-> r, key |-> KeyOf(req[r].ctx, d), data |-> d] \in Put
    BY <2>1, <2>3, KeyType DEF Put
  <2> QED
    BY <1>4, <2>2, <2>3, <2>4 DEF StartUpload, AtPayload, TypeOK, Running
<1>5. ASSUME NEW put \in wire, ApplyPut(put) PROVE TypeOK'
  <2>1. put \in Put
    BY DEF TypeOK
  <2> QED
    BY <1>5, <2>1 DEF ApplyPut, TypeOK, Running, Put
<1>6. ASSUME NEW r \in Request, UploadOk(r) PROVE TypeOK'
  <2>1. [key |-> KeyOf(req[r].ctx, blob[r])] \in Item
    BY <1>6, UploadFacts DEF UploadOk, Item, Reference
  <2>2. metrics' \in [Server -> Counters]
    BY <1>6, RecordTransferType DEF UploadOk
  <2> QED
    BY <1>6, <2>1, <2>2 DEF UploadOk, Emit, TypeOK, Running
<1>7. ASSUME NEW r \in Request, UploadFail(r) PROVE TypeOK'
  <2>1. metrics' \in [Server -> Counters]
    BY <1>7, RecordTransferType DEF UploadFail
  <2> QED
    BY <1>7, <2>1 DEF UploadFail, TypeOK, Running
<1>8. ASSUME NEW r \in Request, DecodeInline(r) PROVE TypeOK'
  <2>1. Current(r) \in Item
    BY <1>8, CurrentType DEF DecodeInline
  <2> QED
    BY <1>8, <2>1 DEF DecodeInline, Emit, TypeOK
<1>9. ASSUME NEW r \in Request, DecodeMalformed(r) PROVE TypeOK'
  BY <1>9 DEF DecodeMalformed, AtPayload, TypeOK, Running
<1>10. ASSUME NEW r \in Request, DownloadOk(r) PROVE TypeOK'
  <2>1. Unmarshal(bucket[Current(r).key]) \in Item
    BY <1>10, DownloadFacts DEF DownloadOk, Item
  <2>2. metrics' \in [Server -> Counters]
    BY <1>10, RecordTransferType DEF DownloadOk, AtReference, AtPayload
  <2> QED
    BY <1>10, <2>1, <2>2 DEF DownloadOk, Emit, TypeOK
<1>11. ASSUME NEW r \in Request, DownloadFail(r) PROVE TypeOK'
  <2>1. metrics' \in [Server -> Counters]
    BY <1>11, RecordTransferType DEF DownloadFail, AtReference, AtPayload
  <2> QED
    BY <1>11, <2>1 DEF DownloadFail, AtReference, AtPayload, TypeOK, Running
<1>12. ASSUME NEW r \in Request, Return(r) PROVE TypeOK'
  <2>1. metrics' \in [Server -> Counters]
    BY <1>12, RecordRequestType DEF Return
  <2> QED
    BY <1>12, <2>1 DEF Return, TypeOK, Running
<1>18. ASSUME NEW r \in Request, Fail(r) PROVE TypeOK'
  <2>1. metrics' \in [Server -> Counters]
    BY <1>18, RecordRequestType DEF Fail
  <2> QED
    BY <1>18, <2>1 DEF Fail, TypeOK, Ended
<1>13. ASSUME NEW r \in Request, Deliver(r) PROVE TypeOK'
  <2>1. req[r] \in RequestRecord /\ Len(output[r]) = Len(req[r].want)
    BY <1>13 DEF Deliver, TypeOK, RequestInv, OutputInv, DecodeInv, Running
  <2>2. \A i \in 1..Len(output[r]) :
           [item |-> output[r][i], payload |-> req[r].want[i]] \in Entry
    BY <2>1 DEF TypeOK, RequestRecord, Entry
  <2> QED
    BY <1>13, <2>2 DEF Deliver, TypeOK, Ended
<1>14. ASSUME NEW r \in Request, LoseReply(r) PROVE TypeOK'
  BY <1>14 DEF LoseReply, TypeOK, Ended
<1>15. ASSUME NEW s \in Server, Crash(s) PROVE TypeOK'
  <2>1. metrics' \in [Server -> Counters]
    BY <1>15 DEF Crash, TypeOK, ZeroCounters, Counters
  <2>2. output' \in [Request -> Seq(Item)]
    BY <1>15 DEF Crash, TypeOK
  <2>3. pc' \in [Request -> {"idle"} \cup Running \cup Ended]
    BY <1>15 DEF Crash, TypeOK, Ended
  <2>4. \A r \in Request : pc'[r] # "idle" => pc[r] # "idle"
    BY <1>15 DEF Crash, ServedBy, Running
  <2> QED
    BY <1>15, <2>1, <2>2, <2>3, <2>4 DEF Crash, TypeOK
<1>16. ASSUME NEW keys \in SUBSET Stored, RemoveObjects(keys) PROVE TypeOK'
  BY <1>16 DEF RemoveObjects, Stored, TypeOK
<1>17. CASE UNCHANGED vars
  BY <1>17 DEF vars, TypeOK
<1> QED
  BY <1>1, <1>2, <1>3, <1>4, <1>5, <1>6, <1>7, <1>8, <1>9, <1>10, <1>11,
     <1>12, <1>18, <1>13, <1>14, <1>15, <1>16, <1>17
     DEF Next, Receive, Work, Answer, Rest
-----------------------------------------------------------------------------
(***************************************************************************)
(* What no step takes away: an object that was stored is kept, an answer   *)
(* that was published stays published.                                     *)
(***************************************************************************)
LEMMA BucketStep ==
    ASSUME [Next]_vars
    PROVE  \/ \E put \in wire : ApplyPut(put)
           \/ \E keys \in SUBSET Stored : RemoveObjects(keys)
           \/ UNCHANGED <<bucket, removed>>
BY DEF Next, Receive, Work, Answer, Rest, vars, ReceiveEncode, ReceiveDecode,
       Start, EncodeInline, StartUpload, UploadOk, UploadFail, DecodeInline,
       DecodeMalformed, DownloadOk, DownloadFail, Return, Fail, Deliver,
       LoseReply, Crash

LEMMA PublishedStep ==
    ASSUME [Next]_vars
    PROVE  \/ \E r \in Request : Deliver(r)
           \/ UNCHANGED published
BY DEF Next, Receive, Work, Answer, Rest, vars, ReceiveEncode, ReceiveDecode,
       Start, EncodeInline, StartUpload, UploadOk, UploadFail, DecodeInline,
       DecodeMalformed, DownloadOk, DownloadFail, Return, Fail, ApplyPut,
       LoseReply, Crash, RemoveObjects

LEMMA KeptStep ==
    ASSUME IInv, [Next]_vars, NEW k \in Key, Kept(k)
    PROVE  Kept(k)'
<1>1. ASSUME NEW put \in wire, ApplyPut(put) PROVE Kept(k)'
  <2>1. put.data \in Data /\ put.data # None
    BY ItemAssumption DEF IInv, TypeOK, Put
  <2> QED
    BY <1>1, <2>1 DEF ApplyPut, Kept, IInv, TypeOK
<1>2. ASSUME NEW keys \in SUBSET Stored, RemoveObjects(keys)
      PROVE  Kept(k)'
  BY <1>2 DEF RemoveObjects, Kept, IInv, TypeOK
<1>3. CASE UNCHANGED <<bucket, removed>>
  BY <1>3 DEF Kept
<1> QED
  BY <1>1, <1>2, <1>3, BucketStep

LEMMA EncodedStep ==
    ASSUME IInv, [Next]_vars, NEW p \in Plain, NEW x, Encoded(x, p)
    PROVE  Encoded(x, p)'
<1>1. CASE x = p
  BY <1>1 DEF Encoded
<1>2. CASE RefersTo(x, p) /\ Kept(x.key)
  <2>1. PICK c \in Context, d \in Marshal[p] : x = [key |-> KeyOf(c, d)]
    BY <1>2 DEF RefersTo
  <2>2. x.key \in Key
    BY <2>1, UnmarshalMarshal, KeyType
  <2>3. Kept(x.key)'
    BY <1>2, <2>2, KeptStep
  <2>4. RefersTo(x, p)'
    BY <1>2 DEF RefersTo
  <2> QED
    BY <2>3, <2>4 DEF Encoded
<1> QED
  BY <1>1, <1>2 DEF Encoded

LEMMA PublishedGrows ==
    ASSUME [Next]_vars
    PROVE  published \subseteq published'
BY PublishedStep DEF Deliver
-----------------------------------------------------------------------------
(***************************************************************************)
(* ContentAddressed, PublishedInv and WireInv.                             *)
(***************************************************************************)
LEMMA ContentStep == IInv /\ [Next]_vars => ContentAddressed'
<1> SUFFICES ASSUME IInv, [Next]_vars PROVE ContentAddressed'
  OBVIOUS
<1>1. ASSUME NEW put \in wire, ApplyPut(put) PROVE ContentAddressed'
  <2>1. PICK c \in Context : put.key = KeyOf(c, put.data)
    BY DEF IInv, ContentAddressed
  <2>2. put.data \in Data /\ put.key \in Key
    BY DEF IInv, TypeOK, Put
  <2>3. \A c2 \in Context, d2 \in Data :
           KeyOf(c2, d2) = put.key => d2 = put.data
    BY <2>1, <2>2, KeyDeterminesData
  <2>4. \A c2 \in Context, d2 \in Data :
           bucket'[KeyOf(c2, d2)] \in {d2, None}
    BY <1>1, <2>2, <2>3, KeyType DEF ApplyPut, IInv, TypeOK, ContentAddressed
  <2> QED
    BY <1>1, <2>4 DEF ApplyPut, IInv, ContentAddressed
<1>2. ASSUME NEW r \in Request, StartUpload(r) PROVE ContentAddressed'
  <2>1. req[r].ctx \in Context
    BY <1>2, CurrentPlain DEF IInv, RequestInv, StartUpload, AtPayload
  <2> QED
    BY <1>2, <2>1 DEF StartUpload, IInv, ContentAddressed
<1>3. ASSUME NEW keys \in SUBSET Stored, RemoveObjects(keys)
      PROVE  ContentAddressed'
  BY <1>3, KeyType DEF RemoveObjects, IInv, TypeOK, ContentAddressed
<1>4. CASE UNCHANGED <<bucket, wire>>
  BY <1>4 DEF IInv, ContentAddressed
<1> QED
  BY <1>1, <1>2, <1>3, <1>4
     DEF Next, Receive, Work, Answer, Rest, vars, ReceiveEncode,
         ReceiveDecode, Start, EncodeInline, UploadOk, UploadFail,
         DecodeInline, DecodeMalformed, DownloadOk, DownloadFail, Return,
         Fail, Deliver, LoseReply, Crash

LEMMA HistoryStep == IInv /\ [Next]_vars => PublishedInv'
<1> SUFFICES ASSUME IInv, [Next]_vars, NEW e \in published'
             PROVE  Encoded(e.item, e.payload)'
  BY DEF PublishedInv
<1>1. CASE e \in published
  <2>1. e.payload \in Plain /\ Encoded(e.item, e.payload)
    BY <1>1 DEF IInv, TypeOK, Entry, PublishedInv
  <2> QED
    BY <2>1, EncodedStep
<1>2. CASE e \notin published
  <2>1. PICK r \in Request : Deliver(r) /\ req[r].op = "encode"
    BY <1>2, PublishedStep DEF Deliver
  <2>2. PICK i \in 1..Len(output[r]) :
           e = [item |-> output[r][i], payload |-> req[r].want[i]]
    BY <1>2, <2>1 DEF Deliver
  <2>3. /\ req[r] \in RequestRecord
        /\ Len(output[r]) = Len(req[r].want)
        /\ Encoded(output[r][i], req[r].want[i])
    BY <2>1, <2>2 DEF Deliver, IInv, TypeOK, RequestInv, OutputInv, DecodeInv,
                      Right, Running
  <2>4. req[r].want[i] \in Plain
    BY <2>2, <2>3 DEF RequestRecord, IInv, TypeOK
  <2> QED
    BY <2>2, <2>3, <2>4, EncodedStep
<1> QED
  BY <1>1, <1>2

LEMMA PutEqual ==
    ASSUME NEW a \in Put, NEW b \in Put,
           a.from = b.from, a.key = b.key, a.data = b.data
    PROVE  a = b
BY DEF Put

(* The PUTs on the wire: a request sends one at a time and gives up after  *)
(* the first that fails, so a PUT it waits for is never confused with an   *)
(* older one.                                                              *)
LEMMA WireStep == IInv /\ [Next]_vars => WireInv'
<1> SUFFICES ASSUME IInv, [Next]_vars PROVE WireInv'
  OBVIOUS
<1> USE DEF IInv, TypeOK, WireInv
<1>0. \A put \in wire : put \in Put /\ put.from \in Request
  BY DEF Put
<1>1. ASSUME NEW r \in Request, NEW record, Start(r, record) PROVE WireInv'
  BY <1>0, <1>1 DEF Start
<1>2. ASSUME NEW r \in Request, StartUpload(r) PROVE WireInv'
  <2>1. PICK d \in Marshal[Current(r)] :
           /\ blob' = [blob EXCEPT ![r] = d]
           /\ wire' = wire \cup {[from |-> r, key |-> KeyOf(req[r].ctx, d),
                                  data |-> d]}
    BY <1>2 DEF StartUpload
  <2> QED
    BY <1>0, <1>2, <2>1 DEF StartUpload, AtPayload
<1>3. ASSUME NEW put \in wire, ApplyPut(put) PROVE WireInv'
  <2> SUFFICES ASSUME NEW other \in wire, other # put
               PROVE  /\ pc'[other.from] \in {"uploading", "failing", "failed", "lost"}
                      /\ req[other.from].op = "encode"
                      /\ pc'[other.from] = "uploading" =>
                             /\ other.key = KeyOf(req[other.from].ctx, blob[other.from])
                             /\ other.data = blob[other.from]
    BY <1>3 DEF ApplyPut
  <2>1. CASE pc[put.from] = "uploading" /\ other.from = put.from
    <3>1. other.key = put.key /\ other.data = put.data
      BY <2>1
    <3> QED
      BY <1>0, <2>1, <3>1, PutEqual
  <2>2. CASE pc[put.from] # "uploading" \/ other.from # put.from
    BY <1>0, <1>3, <2>2 DEF ApplyPut
  <2> QED
    BY <2>1, <2>2
<1>4. ASSUME NEW r \in Request, UploadOk(r) PROVE WireInv'
  BY <1>0, <1>4 DEF UploadOk
<1>5. ASSUME NEW r \in Request, UploadFail(r) PROVE WireInv'
  BY <1>0, <1>5 DEF UploadFail
<1>6. ASSUME NEW r \in Request, DecodeMalformed(r) \/ DownloadFail(r)
      PROVE  WireInv'
  BY <1>0, <1>6 DEF DecodeMalformed, DownloadFail, AtReference, AtPayload
<1>7. ASSUME NEW r \in Request, Return(r) PROVE WireInv'
  BY <1>0, <1>7 DEF Return
<1>8. ASSUME NEW r \in Request, Fail(r) PROVE WireInv'
  BY <1>0, <1>8 DEF Fail
<1>9. ASSUME NEW r \in Request, Deliver(r) \/ LoseReply(r) PROVE WireInv'
  BY <1>0, <1>9 DEF Deliver, LoseReply
<1>10. ASSUME NEW s \in Server, Crash(s) PROVE WireInv'
  BY <1>0, <1>10 DEF Crash, ServedBy, Running
<1>11. CASE UNCHANGED <<pc, req, blob, wire>>
  BY <1>11
<1> QED
  BY <1>1, <1>2, <1>3, <1>4, <1>5, <1>6, <1>7, <1>8, <1>9, <1>10, <1>11
     DEF Next, Receive, Work, Answer, Rest, vars, ReceiveEncode,
         ReceiveDecode, EncodeInline, DecodeInline, DownloadOk, RemoveObjects
-----------------------------------------------------------------------------
(***************************************************************************)
(* RequestInv: first what the steps have in common.                        *)
(***************************************************************************)

(* What a request asks for does not change once it is under way.           *)
LEMMA StaticStep ==
    ASSUME IInv, [Next]_vars, NEW r \in Request, pc[r] # "idle",
           req'[r] = req[r]
    PROVE  EncodesPlain(r)' /\ DecodeInv(r)'
BY PublishedGrows DEF IInv, RequestInv, EncodesPlain, DecodeInv

LEMMA RightStep ==
    ASSUME IInv, [Next]_vars, NEW r \in Request, pc[r] # "idle",
           req'[r] = req[r], NEW x, NEW i \in 1..Len(req[r].item),
           Right(r, x, i)
    PROVE  Right(r, x, i)'
<1>1. req[r].want[i] \in Plain
  BY DEF IInv, TypeOK, RequestInv, DecodeInv, RequestRecord
<1>2. CASE req[r].op = "encode"
  <2>1. \A p \in Plain : Encoded(x, p) => Encoded(x, p)'
    BY EncodedStep
  <2> QED
    BY <1>1, <1>2, <2>1 DEF Right, Encoded, RefersTo
<1>3. CASE req[r].op # "encode"
  BY <1>3 DEF Right
<1> QED
  BY <1>2, <1>3

(* Steps that leave the answer of a request as it is.                      *)
LEMMA OutputKept ==
    ASSUME IInv, [Next]_vars, NEW r \in Request, pc[r] # "idle",
           req'[r] = req[r], output'[r] = output[r],
           pc'[r] \in Running \cup {"done"} => pc[r] \in Running \cup {"done"},
           pc'[r] \in {"returned", "done"} => Len(output[r]) = Len(req[r].item),
           pc'[r] # "idle"
    PROVE  OutputInv(r)'
<1> SUFFICES ASSUME pc[r] \in Running \cup {"done"}
             PROVE  /\ Len(output[r]) <= Len(req[r].item)
                    /\ \A i \in 1..Len(output[r]) : Right(r, output[r][i], i)'
  BY DEF OutputInv
<1>1. /\ Len(output[r]) <= Len(req[r].item)
      /\ \A i \in 1..Len(output[r]) : Right(r, output[r][i], i)
  BY DEF IInv, RequestInv, OutputInv
<1>2. \A i \in 1..Len(output[r]) : i \in 1..Len(req[r].item)
  BY <1>1 DEF IInv, TypeOK, RequestRecord
<1> QED
  BY <1>1, <1>2, RightStep

(* Steps that add the right next payload to it.                            *)
LEMMA OutputEmitted ==
    ASSUME IInv, [Next]_vars, NEW r \in Request,
           pc[r] \in {"running", "stored"}, pc'[r] = "running",
           Len(output[r]) < Len(req[r].item), req'[r] = req[r],
           NEW x \in Item, Emit(r, x), Right(r, x, Len(output[r]) + 1)
    PROVE  OutputInv(r)'
<1> DEFINE n == Len(output[r])
<1>1. /\ output[r] \in Seq(Item)
      /\ output'[r] = Append(output[r], x)
      /\ req[r] \in RequestRecord
  BY DEF Emit, IInv, TypeOK
<1>2. /\ Len(output'[r]) = n + 1
      /\ \A i \in 1..n : output'[r][i] = output[r][i]
      /\ output'[r][n + 1] = x
      /\ n \in Nat /\ Len(req[r].item) \in Nat
  BY <1>1 DEF RequestRecord
<1>3. \A i \in 1..n : Right(r, output[r][i], i)
  BY DEF IInv, RequestInv, OutputInv, Running
<1>4. \A i \in 1..(n + 1) : /\ i \in 1..Len(req[r].item)
                           /\ Right(r, output'[r][i], i)
  BY <1>2, <1>3
<1>5. \A i \in 1..(n + 1) : Right(r, output[r][i], i)'
  <2> SUFFICES ASSUME NEW i \in 1..(n + 1), NEW y, y = output'[r][i]
               PROVE  Right(r, y, i)'
    BY DEF Right
  <2> QED
    BY <1>4, RightStep
<1> QED
  BY <1>2, <1>5 DEF OutputInv

(* Steps of another request.                                               *)
LEMMA Frame ==
    ASSUME IInv, [Next]_vars, NEW r \in Request, pc'[r] = pc[r],
           req'[r] = req[r], output'[r] = output[r], blob'[r] = blob[r]
    PROVE  RequestInv(r)'
<1>1. CASE pc[r] = "idle"
  BY <1>1 DEF IInv, RequestInv, EncodesPlain, UploadInv, OutputInv, DecodeInv,
              Running
<1>2. CASE pc[r] # "idle"
  <2>1. EncodesPlain(r)' /\ DecodeInv(r)'
    BY <1>2, StaticStep
  <2>2. OutputInv(r)'
    BY <1>2, OutputKept DEF IInv, RequestInv, OutputInv
  <2>3. UploadInv(r)'
    <3>1. CASE pc[r] \in {"uploading", "stored"}
      <4>1. Kept(KeyOf(req[r].ctx, blob[r])) => Kept(KeyOf(req[r].ctx, blob[r]))'
        <5>1. KeyOf(req[r].ctx, blob[r]) \in Key
          BY <3>1, UploadFacts
        <5>2. \A k \in Key : Kept(k) => Kept(k)'
          BY KeptStep
        <5> QED
          BY <5>1, <5>2 DEF Kept, KeyOf
      <4> QED
        BY <3>1, <4>1 DEF IInv, RequestInv, UploadInv, Current
    <3>2. CASE pc[r] \notin {"uploading", "stored"}
      BY <3>2 DEF UploadInv
    <3> QED
      BY <3>1, <3>2
  <2> QED
    BY <2>1, <2>2, <2>3 DEF RequestInv
<1> QED
  BY <1>1, <1>2

LEMMA RequestStep ==
    IInv /\ [Next]_vars => \A q \in Request : RequestInv(q)'
<1> SUFFICES ASSUME IInv, [Next]_vars, NEW q \in Request
             PROVE  RequestInv(q)'
  OBVIOUS
<1> DEFINE Same == /\ pc'[q] = pc[q] /\ req'[q] = req[q]
                   /\ output'[q] = output[q] /\ blob'[q] = blob[q]
<1>0. /\ pc \in [Request -> {"idle"} \cup Running \cup Ended]
      /\ \A r \in Request : pc[r] # "idle" => req[r] \in RequestRecord
      /\ output \in [Request -> Seq(Item)]
      /\ blob \in [Request -> Data \cup {None}]
      /\ req \in [Request -> RequestRecord \cup {None}]
      /\ RequestInv(q)
  BY DEF IInv, TypeOK
<1>1. ASSUME NEW s \in Server, NEW c \in Context,
             NEW batch \in Batches(Plain), ReceiveEncode(q, s, c, batch)
      PROVE  RequestInv(q)'
  <2>1. batch \in Seq(Plain)
    BY BatchType
  <2>2. /\ pc'[q] = "running" /\ output'[q] = << >>
        /\ req'[q].op = "encode"
        /\ req'[q].item = batch /\ req'[q].want = batch
    BY <1>0, <1>1 DEF ReceiveEncode, Start, RequestInv, OutputInv
  <2> QED
    BY <2>1, <2>2 DEF RequestInv, EncodesPlain, UploadInv, OutputInv,
                      DecodeInv, Running
<1>2. ASSUME NEW s \in Server, NEW entries \in Batches(published),
             ReceiveDecode(q, s, entries)
      PROVE  RequestInv(q)'
  <2>1. /\ entries \in Seq(published)
        /\ [i \in 1..Len(entries) |-> entries[i].item] \in Seq(Item)
        /\ [i \in 1..Len(entries) |-> entries[i].payload] \in Seq(Plain)
    BY EntriesType DEF IInv
  <2>2. /\ pc'[q] = "running" /\ output'[q] = << >>
        /\ req'[q].op = "decode"
        /\ req'[q].item = [i \in 1..Len(entries) |-> entries[i].item]
        /\ req'[q].want = [i \in 1..Len(entries) |-> entries[i].payload]
        /\ published' = published
    BY <1>0, <1>2 DEF ReceiveDecode, Start, RequestInv, OutputInv
  <2>3. \A i \in 1..Len(entries) :
           [item |-> entries[i].item, payload |-> entries[i].payload]
               \in published
    BY <2>1 DEF IInv, TypeOK, Entry
  <2> QED
    BY <2>1, <2>2, <2>3 DEF RequestInv, EncodesPlain, UploadInv, OutputInv,
                            DecodeInv, Running
<1>3. ASSUME EncodeInline(q) PROVE RequestInv(q)'
  <2>1. /\ pc[q] = "running" /\ pc'[q] = "running" /\ req'[q] = req[q]
        /\ req[q].op = "encode"
        /\ Len(output[q]) < Len(req[q].item)
    BY <1>3 DEF EncodeInline, AtPayload
  <2>2. /\ Current(q) \in Item
        /\ Current(q) = req[q].want[Len(output[q]) + 1]
    BY <1>0, <2>1, CurrentPlain DEF IInv, RequestInv, Item
  <2>3. OutputInv(q)'
    BY <1>3, <2>1, <2>2, OutputEmitted DEF EncodeInline, Right, Encoded
  <2> QED
    BY <2>1, <2>3, StaticStep DEF RequestInv, UploadInv
<1>4. ASSUME StartUpload(q) PROVE RequestInv(q)'
  <2>1. /\ pc[q] = "running" /\ req[q].op = "encode"
        /\ Len(output[q]) < Len(req[q].item)
        /\ pc'[q] = "uploading" /\ req'[q] = req[q] /\ output'[q] = output[q]
    BY <1>0, <1>4 DEF StartUpload, AtPayload
  <2>2. blob'[q] \in Marshal[Current(q)]
    BY <1>0, <1>4 DEF StartUpload
  <2>3. UploadInv(q)'
    BY <2>1, <2>2 DEF UploadInv, Current
  <2>4. OutputInv(q)'
    BY <2>1, OutputKept DEF Running
  <2> QED
    BY <2>1, <2>3, <2>4, StaticStep DEF RequestInv
<1>5. ASSUME NEW put \in wire, ApplyPut(put) PROVE RequestInv(q)'
  <2>1. CASE put.from = q /\ pc[q] = "uploading"
    <3>1. /\ pc'[q] = "stored" /\ req'[q] = req[q]
          /\ output'[q] = output[q] /\ blob'[q] = blob[q]
      BY <1>0, <1>5, <2>1 DEF ApplyPut
    <3>2. /\ put.key = KeyOf(req[q].ctx, blob[q])
          /\ put.key \in Key /\ put.data \in Data
      BY <2>1 DEF IInv, TypeOK, WireInv, Put
    <3>3. bucket'[KeyOf(req[q].ctx, blob[q])] # None
      BY <1>5, <3>2, ItemAssumption DEF ApplyPut, IInv, TypeOK
    <3>4. UploadInv(q)'
      BY <1>0, <2>1, <3>1, <3>3 DEF RequestInv, UploadInv, Kept, Current, KeyOf
    <3>5. OutputInv(q)'
      BY <2>1, <3>1, OutputKept DEF Running
    <3> QED
      BY <2>1, <3>1, <3>4, <3>5, StaticStep DEF RequestInv
  <2>2. CASE ~(put.from = q /\ pc[q] = "uploading")
    <3>1. Same
      BY <1>0, <1>5, <2>2 DEF ApplyPut
    <3> QED
      BY <3>1, Frame
  <2> QED
    BY <2>1, <2>2
<1>6. ASSUME UploadOk(q) PROVE RequestInv(q)'
  <2> DEFINE x == [key |-> KeyOf(req[q].ctx, blob[q])]
  <2>1. /\ pc[q] = "stored" /\ pc'[q] = "running" /\ req'[q] = req[q]
    BY <1>0, <1>6 DEF UploadOk
  <2>2. /\ req[q].op = "encode"
        /\ Len(output[q]) < Len(req[q].item)
        /\ Kept(KeyOf(req[q].ctx, blob[q]))
    BY <1>0, <2>1 DEF RequestInv, UploadInv
  <2>3. /\ x \in Item
        /\ RefersTo(x, req[q].want[Len(output[q]) + 1])
    BY <2>1, UploadFacts DEF RefersTo, Item, Reference
  <2>4. Right(q, x, Len(output[q]) + 1)
    BY <2>2, <2>3 DEF Right, Encoded
  <2>5. OutputInv(q)'
    BY <1>6, <2>1, <2>2, <2>3, <2>4, OutputEmitted DEF UploadOk
  <2> QED
    BY <2>1, <2>5, StaticStep DEF RequestInv, UploadInv
<1>7. ASSUME UploadFail(q) \/ DecodeMalformed(q) \/ DownloadFail(q)
      PROVE  RequestInv(q)'
  <2>1. /\ pc[q] \in Running /\ pc'[q] = "failing" /\ req'[q] = req[q]
        /\ output'[q] = output[q]
    BY <1>0, <1>7 DEF UploadFail, DecodeMalformed, DownloadFail, AtReference,
                      AtPayload, Running
  <2>2. OutputInv(q)'
    BY <2>1, OutputKept DEF Running
  <2> QED
    BY <2>1, <2>2, StaticStep DEF RequestInv, UploadInv, Running
<1>8. ASSUME DecodeInline(q) PROVE RequestInv(q)'
  <2>1. /\ pc[q] = "running" /\ pc'[q] = "running" /\ req'[q] = req[q]
        /\ req[q].op = "decode"
        /\ Len(output[q]) < Len(req[q].item)
    BY <1>8 DEF DecodeInline, AtPayload
  <2>2. /\ Current(q) \in Item
        /\ Current(q) = req[q].want[Len(output[q]) + 1]
    BY <1>8, CurrentType, DecodeInlineFacts DEF IInv, DecodeInline
  <2>3. OutputInv(q)'
    BY <1>8, <2>1, <2>2, OutputEmitted DEF DecodeInline, Right
  <2> QED
    BY <2>1, <2>3, StaticStep DEF RequestInv, UploadInv
<1>9. ASSUME DownloadOk(q) PROVE RequestInv(q)'
  <2> DEFINE x == Unmarshal(bucket[Current(q).key])
  <2>1. /\ pc[q] = "running" /\ pc'[q] = "running" /\ req'[q] = req[q]
        /\ req[q].op = "decode"
        /\ Len(output[q]) < Len(req[q].item)
    BY <1>9 DEF DownloadOk, AtReference, AtPayload
  <2>2. x \in Item /\ x = req[q].want[Len(output[q]) + 1]
    BY <1>9, DownloadFacts DEF DownloadOk, Item
  <2>3. Emit(q, x) /\ Right(q, x, Len(output[q]) + 1)
    BY <1>9, <2>1, <2>2 DEF DownloadOk, Right
  <2> HIDE DEF x
  <2>4. OutputInv(q)'
    BY <2>1, <2>2, <2>3, OutputEmitted
  <2> QED
    BY <2>1, <2>4, StaticStep DEF RequestInv, UploadInv
<1>10. ASSUME Return(q) PROVE RequestInv(q)'
  <2>1. /\ pc[q] = "running" /\ pc'[q] = "returned" /\ req'[q] = req[q]
        /\ output'[q] = output[q] /\ Len(output[q]) = Len(req[q].item)
    BY <1>0, <1>10 DEF Return
  <2>2. OutputInv(q)'
    BY <2>1, OutputKept DEF Running
  <2> QED
    BY <2>1, <2>2, StaticStep DEF RequestInv, UploadInv
<1>11. ASSUME Deliver(q) PROVE RequestInv(q)'
  <2>1. /\ pc[q] = "returned" /\ pc'[q] = "done" /\ req'[q] = req[q]
        /\ output'[q] = output[q]
    BY <1>0, <1>11 DEF Deliver
  <2>2. Len(output[q]) = Len(req[q].item)
    BY <1>0, <2>1 DEF RequestInv, OutputInv, Running
  <2>3. OutputInv(q)'
    BY <2>1, <2>2, OutputKept DEF Running
  <2> QED
    BY <2>1, <2>3, StaticStep DEF RequestInv, UploadInv
<1>12. ASSUME pc[q] # "idle", pc'[q] \in {"failed", "lost"}, req'[q] = req[q]
       PROVE  RequestInv(q)'
  BY <1>12, StaticStep DEF RequestInv, UploadInv, OutputInv, Running
<1>13. ASSUME Fail(q) \/ LoseReply(q) PROVE RequestInv(q)'
  BY <1>0, <1>12, <1>13 DEF Fail, LoseReply
<1>14. ASSUME NEW s \in Server, Crash(s) PROVE RequestInv(q)'
  <2>1. CASE q \in ServedBy(s)
    BY <1>12, <1>14, <2>1 DEF Crash, ServedBy, Running
  <2>2. CASE q \notin ServedBy(s)
    BY <1>14, <2>2, Frame DEF Crash
  <2> QED
    BY <2>1, <2>2
<1>15. ASSUME NEW r \in Request, r # q,
              \/ Receive(r) \/ Work(r) \/ Answer(r)
       PROVE  RequestInv(q)'
  <2>1. Same
    BY <1>0, <1>15 DEF Receive, Work, Answer, ReceiveEncode, ReceiveDecode,
         Start, EncodeInline, StartUpload, UploadOk, UploadFail, DecodeInline,
         DecodeMalformed, DownloadOk, DownloadFail, Return, Fail, Deliver,
         LoseReply, Emit
  <2> QED
    BY <2>1, Frame
<1>16. ASSUME UNCHANGED <<pc, req, output, blob>> PROVE RequestInv(q)'
  BY <1>16, Frame
<1> QED
  BY <1>1, <1>2, <1>3, <1>4, <1>5, <1>6, <1>7, <1>8, <1>9, <1>10, <1>11,
     <1>13, <1>14, <1>15, <1>16
     DEF Next, Receive, Work, Answer, Rest, vars, RemoveObjects
-----------------------------------------------------------------------------
(***************************************************************************)
(* The theorems.                                                           *)
(***************************************************************************)
LEMMA InvInit == Init => IInv
<1> SUFFICES ASSUME Init PROVE IInv
  OBVIOUS
<1>1. TypeOK
  BY TypeInit
<1>2. ContentAddressed /\ WireInv /\ PublishedInv
  BY KeyType DEF Init, ContentAddressed, WireInv, PublishedInv
<1>3. \A r \in Request : RequestInv(r)
  BY DEF Init, RequestInv, EncodesPlain, UploadInv, OutputInv, DecodeInv,
         Running
<1> QED
  BY <1>1, <1>2, <1>3 DEF IInv

LEMMA InvStep == IInv /\ [Next]_vars => IInv'
BY TypeStep, ContentStep, WireStep, HistoryStep, RequestStep DEF IInv

(* IInv is an invariant of the codec server.                               *)
THEOREM Invariance == Spec => []IInv
BY InvInit, InvStep, PTL DEF Spec

(* Variables keep their types: in particular whatever a download yields is *)
(* a payload, because the bucket never holds bytes nobody serialised.      *)
THEOREM TypeCorrect == Spec => []TypeOK
<1>1. IInv => TypeOK
  BY DEF IInv
<1> QED
  BY <1>1, Invariance, PTL

(* What is stored under a key, or on its way there, has the hash the key   *)
(* ends with, for every interleaving of uploads on every replica.          *)
THEOREM StoreIsContentAddressed == Spec => []ContentAddressed
<1>1. IInv => ContentAddressed
  BY DEF IInv
<1> QED
  BY <1>1, Invariance, PTL

(* No reference in the workflow history is ahead of its object, and the    *)
(* object holds the payload the reference stands for until it is removed.  *)
THEOREM ReferencesAreRetrievable == Spec => []PublishedRetrievable
<1>1. IInv => PublishedRetrievable
  <2> SUFFICES ASSUME IInv, NEW e \in published, e.item \in Reference
               PROVE  StoredIn(e.item, e.payload)
    BY DEF PublishedRetrievable
  <2>1. e.payload \in Plain /\ Encoded(e.item, e.payload)
    BY DEF IInv, TypeOK, Entry, PublishedInv
  <2>2. RefersTo(e.item, e.payload) /\ Kept(e.item.key)
    BY <2>1, ItemAssumption DEF Encoded
  <2>3. PICK c \in Context, d \in Marshal[e.payload] :
           e.item = [key |-> KeyOf(c, d)]
    BY <2>2 DEF RefersTo
  <2>4. d \in Data
    BY <2>1, <2>3, UnmarshalMarshal
  <2>5. bucket[KeyOf(c, d)] \in {d, None}
    BY <2>4 DEF IInv, ContentAddressed
  <2> QED
    BY <2>2, <2>3, <2>5 DEF Kept, StoredIn
<1> QED
  BY <1>1, Invariance, PTL

(* A decode that is answered returns the payloads that were encoded, in    *)
(* order: transparent retrieval.                                           *)
THEOREM DecodeReturnsOriginals == Spec => []RoundTrip
<1>1. IInv => RoundTrip
  <2> SUFFICES ASSUME IInv, NEW r \in Request,
                      pc[r] = "done", req[r].op = "decode"
               PROVE  output[r] = req[r].want
    BY DEF RoundTrip
  <2>1. /\ output[r] \in Seq(Item) /\ req[r].want \in Seq(Plain)
        /\ Len(output[r]) = Len(req[r].want)
        /\ \A i \in 1..Len(output[r]) : output[r][i] = req[r].want[i]
    BY DEF IInv, TypeOK, RequestRecord, RequestInv, OutputInv, DecodeInv,
           Right, Running
  <2> QED
    BY <2>1
<1> QED
  BY <1>1, Invariance, PTL
-----------------------------------------------------------------------------
(***************************************************************************)
(* No request goes back.                                                   *)
(***************************************************************************)

(* The steps left for the payload in hand.                                 *)
After(place) ==
    CASE place = "running" -> 4 [] place = "uploading" -> 3
      [] place = "stored" -> 2 [] OTHER -> 1

(* The measure of a request at work.                                       *)
LEMMA StepsLeftOf ==
    ASSUME IInv, NEW r \in Request, pc[r] \in Running
    PROVE  /\ output[r] \in Seq(Item)
           /\ After(pc[r]) \in 1..4
           /\ \E total \in Nat, made \in Nat :
                  /\ made <= total
                  /\ total = Len(req[r].item) /\ made = Len(output[r])
                  /\ StepsLeft(r) = 3 * (total - made) + After(pc[r])
<1> DEFINE total == Len(req[r].item)
           made == Len(output[r])
<1>1. req[r] \in RequestRecord /\ output[r] \in Seq(Item)
  BY DEF IInv, TypeOK, Running
<1>2. total \in Nat /\ made \in Nat
  BY <1>1 DEF RequestRecord
<1>3. made <= total
  BY DEF IInv, RequestInv, OutputInv
<1>4. StepsLeft(r) = 3 * (total - made) + After(pc[r])
  BY DEF StepsLeft, After
<1>5. After(pc[r]) \in 1..4
  BY DEF After
<1>6. total = Len(req[r].item) /\ made = Len(output[r])
  OBVIOUS
<1> HIDE DEF total, made
<1> QED
  BY <1>1, <1>2, <1>3, <1>4, <1>5, <1>6

LEMMA AdvanceStep ==
    ASSUME IInv, [Next]_vars, NEW q \in Request, pc[q] \in Running
    PROVE  Unmoved(q) \/ StepsLeft(q)' \in 0..(StepsLeft(q) - 1)
<1> DEFINE Nearer == StepsLeft(q)' \in 0..(StepsLeft(q) - 1)
<1>0. /\ pc \in [Request -> {"idle"} \cup Running \cup Ended]
      /\ req \in [Request -> RequestRecord \cup {None}]
      /\ output \in [Request -> Seq(Item)]
  BY DEF IInv, TypeOK
<1>1. output[q] \in Seq(Item) /\ After(pc[q]) \in 1..4
  BY StepsLeftOf
<1>2. PICK total \in Nat, made \in Nat :
          /\ made <= total
          /\ total = Len(req[q].item) /\ made = Len(output[q])
          /\ StepsLeft(q) = 3 * (total - made) + After(pc[q])
  BY StepsLeftOf
<1>3. made <= total /\ StepsLeft(q) = 3 * (total - made) + After(pc[q])
  BY <1>2
<1>4. StepsLeft(q) \in Nat \ {0}
  BY <1>1, <1>3
<1>5. /\ After("running") = 4 /\ After("uploading") = 3
      /\ After("stored") = 2 /\ After("failing") = 1 /\ After("returned") = 1
  BY DEF After
(* The end of a request, however it comes.                                 *)
<1>6. ASSUME pc'[q] \in Ended PROVE Nearer
  <2>1. StepsLeft(q)' = 0
    BY <1>6 DEF StepsLeft, Running, Ended
  <2> QED
    BY <1>4, <2>1
(* On to a later step with the payload in hand.                            *)
<1>7. ASSUME pc'[q] \in Running, UNCHANGED <<req, output>>,
             After(pc'[q]) < After(pc[q]), After(pc'[q]) \in 1..4
      PROVE  Nearer
  <2>1. StepsLeft(q)' = 3 * (total - made) + After(pc'[q])
    BY <1>7, <1>2 DEF StepsLeft, After
  <2> QED
    BY <1>1, <1>3, <1>7, <2>1
(* On to the next payload.                                                 *)
<1>8. ASSUME pc[q] \in {"running", "stored"}, pc'[q] = "running",
             UNCHANGED req, made < total, NEW x, Emit(q, x)
      PROVE  Nearer
  <2>1. output'[q] = Append(output[q], x)
    BY <1>0, <1>8 DEF Emit
  <2>2. Len(output'[q]) = made + 1
    BY <1>1, <1>2, <2>1
  <2>3. StepsLeft(q)' = 3 * (total - (made + 1)) + 4
    BY <1>8, <1>2, <2>2 DEF StepsLeft, Running
  <2>4. After(pc[q]) >= 2
    BY <1>5, <1>8
  <2> QED
    BY <1>1, <1>3, <1>8, <2>3, <2>4
<1>9. CASE EncodeInline(q) \/ DecodeInline(q) \/ DownloadOk(q)
  <2>1. /\ pc[q] = "running" /\ pc'[q] = "running" /\ UNCHANGED req
        /\ made < total
    BY <1>9, <1>2 DEF EncodeInline, DecodeInline, DownloadOk, AtReference,
                      AtPayload
  <2>2. \E x : Emit(q, x)
    BY <1>9 DEF EncodeInline, DecodeInline, DownloadOk
  <2> QED
    BY <1>8, <2>1, <2>2
<1>10. CASE UploadOk(q)
  <2>1. pc[q] = "stored" /\ pc'[q] = "running" /\ UNCHANGED req
    BY <1>0, <1>10 DEF UploadOk
  <2>2. made < total
    BY <2>1, <1>2 DEF IInv, RequestInv, UploadInv
  <2>3. \E x : Emit(q, x)
    BY <1>10 DEF UploadOk
  <2> QED
    BY <1>8, <2>1, <2>2, <2>3
<1>11. CASE StartUpload(q) \/ Return(q) \/ UploadFail(q) \/ DecodeMalformed(q)
           \/ DownloadFail(q)
  <2>1. /\ UNCHANGED <<req, output>>
        /\ \/ pc[q] = "running" /\ pc'[q] \in {"uploading", "returned", "failing"}
           \/ pc[q] \in {"uploading", "stored"} /\ pc'[q] = "failing"
    BY <1>0, <1>11 DEF StartUpload, Return, UploadFail, DecodeMalformed,
                      DownloadFail, AtReference, AtPayload
  <2>2. pc'[q] \in Running /\ After(pc'[q]) < After(pc[q])
        /\ After(pc'[q]) \in 1..4
    BY <1>5, <2>1 DEF Running
  <2> QED
    BY <1>7, <2>1, <2>2
<1>12. CASE Fail(q) \/ Deliver(q) \/ LoseReply(q)
  BY <1>0, <1>6, <1>12 DEF Fail, Deliver, LoseReply, Ended
<1>13. CASE Receive(q)
  BY <1>13 DEF Receive, ReceiveEncode, ReceiveDecode, Start, Running
<1>14. ASSUME NEW put \in wire, ApplyPut(put) PROVE Unmoved(q) \/ Nearer
  <2>1. UNCHANGED <<req, output>>
    BY <1>14 DEF ApplyPut
  <2>2. CASE put.from = q /\ pc[q] = "uploading"
    <3>1. pc'[q] = "stored"
      BY <1>0, <1>14, <2>2 DEF ApplyPut
    <3> QED
      BY <1>5, <1>7, <2>1, <2>2, <3>1 DEF Running
  <2>3. CASE ~(put.from = q /\ pc[q] = "uploading")
    BY <1>0, <1>14, <2>1, <2>3 DEF ApplyPut, Unmoved
  <2> QED
    BY <2>2, <2>3
<1>15. ASSUME NEW s \in Server, Crash(s) PROVE Unmoved(q) \/ Nearer
  <2>1. CASE q \in ServedBy(s)
    BY <1>6, <1>15, <2>1 DEF Crash, Ended
  <2>2. CASE q \notin ServedBy(s)
    BY <1>15, <2>2 DEF Crash, Unmoved
  <2> QED
    BY <2>1, <2>2
<1>16. ASSUME NEW r \in Request, r # q, Receive(r) \/ Work(r) \/ Answer(r)
       PROVE  Unmoved(q)
  BY <1>0, <1>16 DEF Receive, Work, Answer, ReceiveEncode, ReceiveDecode,
       Start, EncodeInline, StartUpload, UploadOk, UploadFail, DecodeInline,
       DecodeMalformed, DownloadOk, DownloadFail, Return, Fail, Deliver,
       LoseReply, Emit, Unmoved
<1>17. CASE UNCHANGED <<pc, req, output>>
  BY <1>17 DEF Unmoved
<1> QED
  BY <1>9, <1>10, <1>11, <1>12, <1>13, <1>14, <1>15, <1>16, <1>17
     DEF Next, Receive, Work, Answer, Rest, vars, RemoveObjects

(* Every step of a request brings it nearer to its end, whatever S3, the   *)
(* callers and crashes do: what remains for a request to end is that its   *)
(* goroutine is scheduled.                                                 *)
THEOREM RequestsMoveOn == Spec => RequestsAdvance
<1>1. ASSUME IInv, [Next]_vars
      PROVE  [\A r \in Request : pc[r] \in Running =>
                 Unmoved(r) \/ StepsLeft(r)' \in 0..(StepsLeft(r) - 1)]_vars
  BY <1>1, AdvanceStep
<1> QED
  BY <1>1, Invariance, PTL DEF Spec, RequestsAdvance
=============================================================================
