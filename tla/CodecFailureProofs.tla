------------------------- MODULE CodecFailureProofs -------------------------
(***************************************************************************)
(* Theorems about what failures leave behind in the codec server: in its   *)
(* error counters, and in the bucket.                                      *)
(***************************************************************************)
EXTENDS CodecServerProofs, FiniteSetTheorems

-----------------------------------------------------------------------------
(***************************************************************************)
(* Counting failing requests.                                              *)
(***************************************************************************)
LEMMA FailingFinite ==
    ASSUME NEW s, NEW op
    PROVE  /\ IsFiniteSet(FailingOn(s, op))
           /\ Cardinality(FailingOn(s, op)) \in Nat
           /\ Cardinality(FailingOn(s, op))' \in Nat
<1>1. FailingOn(s, op) \subseteq Request /\ FailingOn(s, op)' \subseteq Request
  BY DEF FailingOn, ServedBy
<1> QED
  BY <1>1, BoundsAssumption, FS_Subset, FS_CardinalityType

(* Failing requests, when the step of another one is taken.                *)
LEMMA FailingKept ==
    ASSUME \A r \in Request : /\ pc[r] = "failing" <=> pc'[r] = "failing"
                              /\ pc[r] = "failing" => req'[r] = req[r],
           NEW s, NEW op
    PROVE  FailingOn(s, op)' = FailingOn(s, op)
BY DEF FailingOn, ServedBy, Running

(* A request that begins to fail is counted on its replica, once.          *)
LEMMA FailingEnters ==
    ASSUME TypeOK, NEW r \in Request, pc[r] \in Running, pc[r] # "failing",
           pc' = [pc EXCEPT ![r] = "failing"], req' = req,
           NEW s, NEW op
    PROVE  Cardinality(FailingOn(s, op))' =
               Cardinality(FailingOn(s, op)) +
                   IF ServerOf(r) = s /\ req[r].op = op THEN 1 ELSE 0
<1>0. pc \in [Request -> {"idle"} \cup Running \cup Ended]
  BY DEF TypeOK
<1>1. CASE ServerOf(r) = s /\ req[r].op = op
  <2>1. FailingOn(s, op)' = FailingOn(s, op) \cup {r} /\ r \notin FailingOn(s, op)
    BY <1>0, <1>1 DEF FailingOn, ServedBy, ServerOf, Running
  <2> QED
    BY <1>1, <2>1, FailingFinite, FS_AddElement
<1>2. CASE ~(ServerOf(r) = s /\ req[r].op = op)
  <2>1. FailingOn(s, op)' = FailingOn(s, op)
    BY <1>0, <1>2 DEF FailingOn, ServedBy, ServerOf, Running
  <2> QED
    BY <1>2, <2>1, FailingFinite
<1> QED
  BY <1>1, <1>2

LEMMA FailingLeaves ==
    ASSUME TypeOK, NEW r \in Request, pc[r] = "failing",
           pc' = [pc EXCEPT ![r] = "failed"], req' = req,
           NEW s, NEW op
    PROVE  Cardinality(FailingOn(s, op)) =
               Cardinality(FailingOn(s, op))' +
                   IF ServerOf(r) = s /\ req[r].op = op THEN 1 ELSE 0
<1>0. pc \in [Request -> {"idle"} \cup Running \cup Ended]
  BY DEF TypeOK
<1>1. CASE ServerOf(r) = s /\ req[r].op = op
  <2>1. FailingOn(s, op)' = FailingOn(s, op) \ {r} /\ r \in FailingOn(s, op)
    BY <1>0, <1>1 DEF FailingOn, ServedBy, ServerOf, Running
  <2>2. Cardinality(FailingOn(s, op) \ {r}) = Cardinality(FailingOn(s, op)) - 1
    BY <2>1, FailingFinite, FS_RemoveElement
  <2> QED
    BY <1>1, <2>1, <2>2, FailingFinite
<1>2. CASE ~(ServerOf(r) = s /\ req[r].op = op)
  <2>1. FailingOn(s, op)' = FailingOn(s, op)
    BY <1>0, <1>2 DEF FailingOn, ServedBy, ServerOf, Running
  <2> QED
    BY <1>2, <2>1, FailingFinite
<1> QED
  BY <1>1, <1>2
-----------------------------------------------------------------------------
(***************************************************************************)
(* The error counters.                                                     *)
(***************************************************************************)
Errors == {"encodeErrors", "decodeErrors", "s3UploadErrors", "s3DownloadErrors"}

(* What the Record functions do to the error counters.                     *)
LEMMA ErrorsRecorded ==
    ASSUME NEW m \in Counters, NEW n \in Nat, NEW b \in BOOLEAN, NEW e \in Errors
    PROVE  /\ m[e] \in Nat
           /\ ZeroCounters[e] = 0
           /\ RecordEncode(m, n, b)[e]
                  = m[e] + IF e = "encodeErrors" THEN One(b) ELSE 0
           /\ RecordDecode(m, n, b)[e]
                  = m[e] + IF e = "decodeErrors" THEN One(b) ELSE 0
           /\ RecordS3Upload(m, b)[e]
                  = m[e] + IF e = "s3UploadErrors" THEN One(b) ELSE 0
           /\ RecordS3Download(m, b)[e]
                  = m[e] + IF e = "s3DownloadErrors" THEN One(b) ELSE 0
<1>0. m[e] \in Nat /\ e \in Counter /\ ZeroCounters[e] = 0 /\ One(b) \in Nat
  BY DEF Counters, Errors, Counter, ZeroCounters, One
<1>1. \A k \in Counters, c \in Counter, i \in Nat :
          /\ Add(k, c, i) \in Counters
          /\ e = c => Add(k, c, i)[e] = k[e] + i
          /\ e # c => Add(k, c, i)[e] = k[e]
          /\ k[e] \in Nat
  BY <1>0 DEF Add, Counters
<1>2. \A c \in Counter \ Errors : \A i \in Nat :
          Add(m, c, i) \in Counters /\ Add(m, c, i)[e] = m[e]
  BY <1>0, <1>1
<1>3. \A c, d \in Counter \ Errors : \A i, j \in Nat :
          /\ Add(Add(m, c, i), d, j) \in Counters
          /\ Add(Add(m, c, i), d, j)[e] = m[e]
  <2> SUFFICES ASSUME NEW c \in Counter \ Errors, NEW d \in Counter \ Errors,
                      NEW i \in Nat, NEW j \in Nat
               PROVE  /\ Add(Add(m, c, i), d, j) \in Counters
                      /\ Add(Add(m, c, i), d, j)[e] = m[e]
    OBVIOUS
  <2>1. Add(m, c, i) \in Counters /\ Add(m, c, i)[e] = m[e]
    BY <1>2
  <2> QED
    BY <1>0, <1>1, <2>1
<1>4. /\ {"encodeRequests", "decodeRequests", "payloadsEncoded",
          "payloadsDecoded", "s3Uploads", "s3Downloads"}
             \subseteq Counter \ Errors
      /\ Errors \subseteq Counter
  BY DEF Counter, Errors
<1>5. RecordEncode(m, n, b)[e] = m[e] + IF e = "encodeErrors" THEN One(b) ELSE 0
  <2> DEFINE k == Add(Add(m, "encodeRequests", 1), "payloadsEncoded", n)
  <2>1. k \in Counters /\ k[e] = m[e]
    BY <1>3, <1>4
  <2>2. RecordEncode(m, n, b) = Add(k, "encodeErrors", One(b))
    BY DEF RecordEncode
  <2> HIDE DEF k
  <2>3. "encodeErrors" \in Counter
    BY DEF Counter
  <2>4. CASE e = "encodeErrors"
    BY <1>0, <2>1, <2>2, <2>3, <2>4 DEF Add, Counters
  <2>5. CASE e # "encodeErrors"
    BY <1>0, <2>1, <2>2, <2>3, <2>5 DEF Add, Counters
  <2> QED
    BY <2>4, <2>5
<1>6. RecordDecode(m, n, b)[e] = m[e] + IF e = "decodeErrors" THEN One(b) ELSE 0
  <2> DEFINE k == Add(Add(m, "decodeRequests", 1), "payloadsDecoded", n)
  <2>1. k \in Counters /\ k[e] = m[e]
    BY <1>3, <1>4
  <2>2. RecordDecode(m, n, b) = Add(k, "decodeErrors", One(b))
    BY DEF RecordDecode
  <2> HIDE DEF k
  <2>3. "decodeErrors" \in Counter
    BY DEF Counter
  <2>4. CASE e = "decodeErrors"
    BY <1>0, <2>1, <2>2, <2>3, <2>4 DEF Add, Counters
  <2>5. CASE e # "decodeErrors"
    BY <1>0, <2>1, <2>2, <2>3, <2>5 DEF Add, Counters
  <2> QED
    BY <2>4, <2>5
<1>7. RecordS3Upload(m, b)[e]
          = m[e] + IF e = "s3UploadErrors" THEN One(b) ELSE 0
  <2> DEFINE k == Add(m, "s3Uploads", 1)
  <2>1. k \in Counters /\ k[e] = m[e]
    BY <1>2, <1>4
  <2>2. RecordS3Upload(m, b) = Add(k, "s3UploadErrors", One(b))
    BY DEF RecordS3Upload
  <2> HIDE DEF k
  <2>3. "s3UploadErrors" \in Counter
    BY DEF Counter
  <2>4. CASE e = "s3UploadErrors"
    BY <1>0, <2>1, <2>2, <2>3, <2>4 DEF Add, Counters
  <2>5. CASE e # "s3UploadErrors"
    BY <1>0, <2>1, <2>2, <2>3, <2>5 DEF Add, Counters
  <2> QED
    BY <2>4, <2>5
<1>8. RecordS3Download(m, b)[e]
          = m[e] + IF e = "s3DownloadErrors" THEN One(b) ELSE 0
  <2> DEFINE k == Add(m, "s3Downloads", 1)
  <2>1. k \in Counters /\ k[e] = m[e]
    BY <1>2, <1>4
  <2>2. RecordS3Download(m, b) = Add(k, "s3DownloadErrors", One(b))
    BY DEF RecordS3Download
  <2> HIDE DEF k
  <2>3. "s3DownloadErrors" \in Counter
    BY DEF Counter
  <2>4. CASE e = "s3DownloadErrors"
    BY <1>0, <2>1, <2>2, <2>3, <2>4 DEF Add, Counters
  <2>5. CASE e # "s3DownloadErrors"
    BY <1>0, <2>1, <2>2, <2>3, <2>5 DEF Add, Counters
  <2> QED
    BY <2>4, <2>5
<1> QED
  BY <1>0, <1>5, <1>6, <1>7, <1>8

(* The error counters of all replicas stay as they are.                    *)
ErrorsKept == \A s \in Server, e \in Errors : metrics'[s][e] = metrics[s][e]

LEMMA ErrorsSurfaceKept ==
    ASSUME ErrorsSurface, ErrorsKept,
           \A r \in Request : /\ pc[r] = "failing" <=> pc'[r] = "failing"
                              /\ pc[r] = "failing" => req'[r] = req[r]
    PROVE  ErrorsSurface'
<1>1. \A s \in Server, op \in {"encode", "decode"} :
          FailingOn(s, op)' = FailingOn(s, op)
  BY FailingKept
<1> QED
  BY <1>1 DEF ErrorsSurface, ErrorsKept, Errors

(* A Record call adds to one counter of one replica.                       *)
LEMMA ErrorsOfRecord ==
    ASSUME TypeOK, NEW r \in Request, pc[r] # "idle",
           NEW counters, Record(r, counters), NEW s \in Server
    PROVE  /\ metrics[ServerOf(r)] \in Counters
           /\ metrics'[s] = IF s = ServerOf(r) THEN counters ELSE metrics[s]
BY DEF TypeOK, RequestRecord, ServerOf, Record

LEMMA RequestFacts ==
    ASSUME TypeOK, NEW r \in Request, pc[r] # "idle"
    PROVE  /\ req[r].op \in {"encode", "decode"}
           /\ Len(req[r].item) \in Nat
           /\ ServerOf(r) \in Server
           /\ metrics[ServerOf(r)] \in Counters
BY DEF TypeOK, RequestRecord, ServerOf

(* The deferred Record call.                                               *)
LEMMA ErrorsOfRequest ==
    ASSUME TypeOK, NEW r \in Request, pc[r] # "idle",
           NEW b \in BOOLEAN, RecordRequest(r, b), NEW s \in Server
    PROVE  \A e \in Errors :
               metrics'[s][e] = metrics[s][e] +
                   IF /\ s = ServerOf(r)
                      /\ e = IF req[r].op = "encode" THEN "encodeErrors"
                                                     ELSE "decodeErrors"
                   THEN One(b) ELSE 0
<1> DEFINE m == metrics[ServerOf(r)]
           n == Len(req[r].item)
<1>0. metrics[s] \in Counters /\ \A e \in Errors : metrics[s][e] \in Nat
  BY ErrorsRecorded DEF TypeOK
<1>1. CASE req[r].op = "encode"
  <2>1. Record(r, RecordEncode(m, n, b))
    BY <1>1 DEF RecordRequest
  <2>2. metrics'[s] = IF s = ServerOf(r) THEN RecordEncode(m, n, b)
                                         ELSE metrics[s]
    BY <2>1, ErrorsOfRecord
  <2>3. \A e \in Errors :
            RecordEncode(m, n, b)[e]
                = m[e] + IF e = "encodeErrors" THEN One(b) ELSE 0
    BY RequestFacts, ErrorsRecorded
  <2> HIDE DEF m, n
  <2>4. m = metrics[ServerOf(r)]
    BY DEF m
  <2> QED
    BY <1>0, <1>1, <2>2, <2>3, <2>4
<1>2. CASE req[r].op # "encode"
  <2>1. Record(r, RecordDecode(m, n, b))
    BY <1>2 DEF RecordRequest
  <2>2. metrics'[s] = IF s = ServerOf(r) THEN RecordDecode(m, n, b)
                                         ELSE metrics[s]
    BY <2>1, ErrorsOfRecord
  <2>3. \A e \in Errors :
            RecordDecode(m, n, b)[e]
                = m[e] + IF e = "decodeErrors" THEN One(b) ELSE 0
    BY RequestFacts, ErrorsRecorded
  <2> HIDE DEF m, n
  <2>4. m = metrics[ServerOf(r)]
    BY DEF m
  <2> QED
    BY <1>0, <1>2, <2>2, <2>3, <2>4
<1> QED
  BY <1>1, <1>2

(* The Record call of a transfer.                                          *)
LEMMA ErrorsOfTransfer ==
    ASSUME TypeOK, NEW r \in Request, pc[r] # "idle", NEW b \in BOOLEAN,
           NEW s \in Server, NEW e \in Errors
    PROVE  /\ Record(r, RecordS3Upload(metrics[ServerOf(r)], b)) =>
                  metrics'[s][e] = metrics[s][e] +
                      IF s = ServerOf(r) /\ e = "s3UploadErrors"
                      THEN One(b) ELSE 0
           /\ Record(r, RecordS3Download(metrics[ServerOf(r)], b)) =>
                  metrics'[s][e] = metrics[s][e] +
                      IF s = ServerOf(r) /\ e = "s3DownloadErrors"
                      THEN One(b) ELSE 0
<1>1. metrics[s] \in Counters /\ metrics[s][e] \in Nat
  BY ErrorsRecorded DEF TypeOK
<1>2. ASSUME Record(r, RecordS3Upload(metrics[ServerOf(r)], b))
      PROVE  metrics'[s][e] = metrics[s][e] +
                 IF s = ServerOf(r) /\ e = "s3UploadErrors"
                 THEN One(b) ELSE 0
  BY <1>1, <1>2, ErrorsOfRecord, ErrorsRecorded
<1>3. ASSUME Record(r, RecordS3Download(metrics[ServerOf(r)], b))
      PROVE  metrics'[s][e] = metrics[s][e] +
                 IF s = ServerOf(r) /\ e = "s3DownloadErrors"
                 THEN One(b) ELSE 0
  BY <1>1, <1>3, ErrorsOfRecord, ErrorsRecorded
<1> QED
  BY <1>2, <1>3

LEMMA ErrorsInit == Init => ErrorsSurface
<1> SUFFICES ASSUME Init, NEW s \in Server
             PROVE  /\ metrics[s].s3UploadErrors = metrics[s].encodeErrors
                    /\ metrics[s].s3DownloadErrors = metrics[s].decodeErrors
                    /\ Cardinality({}) = 0 /\ metrics[s].decodeErrors = 0
                    /\ metrics[s].encodeErrors = 0
                    /\ \A op \in {"encode", "decode"} : FailingOn(s, op) = {}
  BY DEF ErrorsSurface
<1>1. \A op \in {"encode", "decode"} : FailingOn(s, op) = {}
  BY DEF Init, FailingOn, ServedBy
<1>2. \A e \in Errors : metrics[s][e] = 0
  BY DEF Init, ZeroCounters, Errors, Counter
<1> QED
  BY <1>1, <1>2, FS_EmptySet DEF Errors

LEMMA ErrorsStep == IInv /\ ErrorsSurface /\ [Next]_vars => ErrorsSurface'
<1> SUFFICES ASSUME IInv, ErrorsSurface, [Next]_vars PROVE ErrorsSurface'
  OBVIOUS
<1>0. /\ TypeOK
      /\ pc \in [Request -> {"idle"} \cup Running \cup Ended]
      /\ \A s \in Server, e \in Errors : metrics[s][e] \in Nat
  BY ErrorsRecorded DEF IInv, TypeOK
<1>1. ASSUME UNCHANGED metrics,
             \A r \in Request : /\ pc[r] = "failing" <=> pc'[r] = "failing"
                                /\ pc[r] = "failing" => req'[r] = req[r]
      PROVE  ErrorsSurface'
  BY <1>1, ErrorsSurfaceKept DEF ErrorsKept
<1>2. ASSUME NEW r \in Request, Receive(r) \/ Answer(r) \/ EncodeInline(r)
                 \/ StartUpload(r) \/ DecodeInline(r)
      PROVE  ErrorsSurface'
  BY <1>0, <1>1, <1>2
     DEF Receive, ReceiveEncode, ReceiveDecode, Start, Answer, Deliver,
         LoseReply, EncodeInline, StartUpload, DecodeInline, AtPayload, TypeOK
<1>3. ASSUME NEW r \in Request, UploadOk(r) PROVE ErrorsSurface'
  <2>1. ASSUME NEW s \in Server, NEW e \in Errors
        PROVE  metrics'[s][e] = metrics[s][e]
    <3>1. /\ Record(r, RecordS3Upload(metrics[ServerOf(r)], FALSE))
          /\ pc[r] # "idle" /\ metrics[s][e] \in Nat
      BY <1>0, <1>3 DEF UploadOk, One
    <3>2. metrics'[s][e] = metrics[s][e] + 0
      BY <1>0, <3>1, ErrorsOfTransfer DEF One
    <3> QED
      BY <3>1, <3>2
  <2> QED
    BY <1>0, <1>3, <2>1, ErrorsSurfaceKept DEF UploadOk, ErrorsKept
<1>4. ASSUME NEW r \in Request, DownloadOk(r) PROVE ErrorsSurface'
  <2>1. ASSUME NEW s \in Server, NEW e \in Errors
        PROVE  metrics'[s][e] = metrics[s][e]
    <3>1. /\ Record(r, RecordS3Download(metrics[ServerOf(r)], FALSE))
          /\ pc[r] # "idle" /\ metrics[s][e] \in Nat
      BY <1>0, <1>4 DEF DownloadOk, AtReference, AtPayload, One
    <3>2. metrics'[s][e] = metrics[s][e] + 0
      BY <1>0, <3>1, ErrorsOfTransfer DEF One
    <3> QED
      BY <3>1, <3>2
  <2> QED
    BY <1>0, <1>4, <2>1, ErrorsSurfaceKept DEF DownloadOk, ErrorsKept
<1>5. ASSUME NEW r \in Request, Return(r) PROVE ErrorsSurface'
  <2>1. ASSUME NEW s \in Server, NEW e \in Errors
        PROVE  metrics'[s][e] = metrics[s][e]
    <3>1. /\ RecordRequest(r, FALSE)
          /\ pc[r] # "idle" /\ metrics[s][e] \in Nat
      BY <1>0, <1>5 DEF Return, One
    <3>2. metrics'[s][e] = metrics[s][e] + 0
      BY <1>0, <3>1, ErrorsOfRequest DEF One
    <3> QED
      BY <3>1, <3>2
  <2> QED
    BY <1>0, <1>5, <2>1, ErrorsSurfaceKept DEF Return, ErrorsKept
<1>6. ASSUME NEW r \in Request, UploadFail(r), NEW s \in Server
      PROVE  /\ metrics'[s].s3UploadErrors = metrics'[s].encodeErrors
                     + Cardinality(FailingOn(s, "encode"))'
             /\ metrics'[s].s3DownloadErrors <= metrics'[s].decodeErrors
                     + Cardinality(FailingOn(s, "decode"))'
  <2>1. /\ pc[r] \in Running /\ pc[r] # "failing" /\ req[r].op = "encode"
        /\ pc' = [pc EXCEPT ![r] = "failing"] /\ req' = req
    BY <1>6 DEF UploadFail, Running, IInv, RequestInv, UploadInv
  <2>2. \A op \in {"encode", "decode"} :
            Cardinality(FailingOn(s, op))' =
               Cardinality(FailingOn(s, op)) +
                   IF ServerOf(r) = s /\ req[r].op = op THEN 1 ELSE 0
    BY <1>0, <2>1, FailingEnters
  <2>3. \A e \in Errors :
            metrics'[s][e] = metrics[s][e] +
                IF s = ServerOf(r) /\ e = "s3UploadErrors" THEN 1 ELSE 0
    BY <1>0, <1>6, ErrorsOfTransfer DEF UploadFail, One
  <2>4. /\ metrics[s].s3UploadErrors = metrics[s].encodeErrors
                     + Cardinality(FailingOn(s, "encode"))
        /\ metrics[s].s3DownloadErrors <= metrics[s].decodeErrors
                     + Cardinality(FailingOn(s, "decode"))
    BY DEF ErrorsSurface
  <2> QED
    BY <1>0, <2>1, <2>2, <2>3, <2>4, FailingFinite DEF Errors
<1>7. ASSUME NEW r \in Request, DownloadFail(r) \/ DecodeMalformed(r),
             NEW s \in Server
      PROVE  /\ metrics'[s].s3UploadErrors = metrics'[s].encodeErrors
                     + Cardinality(FailingOn(s, "encode"))'
             /\ metrics'[s].s3DownloadErrors <= metrics'[s].decodeErrors
                     + Cardinality(FailingOn(s, "decode"))'
  <2>1. /\ pc[r] \in Running /\ pc[r] # "failing" /\ req[r].op = "decode"
        /\ pc' = [pc EXCEPT ![r] = "failing"] /\ req' = req
    BY <1>7 DEF DownloadFail, DecodeMalformed, AtReference, AtPayload, Running
  <2>2. \A op \in {"encode", "decode"} :
            Cardinality(FailingOn(s, op))' =
               Cardinality(FailingOn(s, op)) +
                   IF ServerOf(r) = s /\ req[r].op = op THEN 1 ELSE 0
    BY <1>0, <2>1, FailingEnters
  <2>3. PICK n \in 0..1 :
            \A e \in Errors :
                metrics'[s][e] = metrics[s][e] +
                    IF s = ServerOf(r) /\ e = "s3DownloadErrors" THEN n ELSE 0
    <3>1. CASE DownloadFail(r)
      <4>1. /\ Record(r, RecordS3Download(metrics[ServerOf(r)], TRUE))
            /\ pc[r] # "idle" /\ One(TRUE) = 1
        BY <3>1, <2>1 DEF DownloadFail, One, Running
      <4>2. \A e \in Errors :
                metrics'[s][e] = metrics[s][e] +
                    IF s = ServerOf(r) /\ e = "s3DownloadErrors" THEN 1 ELSE 0
        BY <1>0, <4>1, ErrorsOfTransfer
      <4> QED
        BY <4>2
    <3>2. CASE DecodeMalformed(r)
      BY <1>0, <3>2 DEF DecodeMalformed
    <3> QED
      BY <1>7, <3>1, <3>2
  <2>4. /\ metrics[s].s3UploadErrors = metrics[s].encodeErrors
                     + Cardinality(FailingOn(s, "encode"))
        /\ metrics[s].s3DownloadErrors <= metrics[s].decodeErrors
                     + Cardinality(FailingOn(s, "decode"))
    BY DEF ErrorsSurface
  <2> QED
    BY <1>0, <2>1, <2>2, <2>3, <2>4, FailingFinite DEF Errors
<1>8. ASSUME NEW r \in Request, Fail(r), NEW s \in Server
      PROVE  /\ metrics'[s].s3UploadErrors = metrics'[s].encodeErrors
                     + Cardinality(FailingOn(s, "encode"))'
             /\ metrics'[s].s3DownloadErrors <= metrics'[s].decodeErrors
                     + Cardinality(FailingOn(s, "decode"))'
  <2>1. /\ pc[r] = "failing" /\ req[r].op \in {"encode", "decode"}
        /\ pc' = [pc EXCEPT ![r] = "failed"] /\ req' = req
    BY <1>0, <1>8, RequestFacts DEF Fail
  <2>2. \A op \in {"encode", "decode"} :
            Cardinality(FailingOn(s, op)) =
               Cardinality(FailingOn(s, op))' +
                   IF ServerOf(r) = s /\ req[r].op = op THEN 1 ELSE 0
    BY <1>0, <2>1, FailingLeaves
  <2>3. \A e \in Errors :
            metrics'[s][e] = metrics[s][e] +
                IF /\ s = ServerOf(r)
                   /\ e = IF req[r].op = "encode" THEN "encodeErrors"
                                                  ELSE "decodeErrors"
                THEN 1 ELSE 0
    BY <1>0, <1>8, ErrorsOfRequest DEF Fail, One
  <2>4. /\ metrics[s].s3UploadErrors = metrics[s].encodeErrors
                     + Cardinality(FailingOn(s, "encode"))
        /\ metrics[s].s3DownloadErrors <= metrics[s].decodeErrors
                     + Cardinality(FailingOn(s, "decode"))
    BY DEF ErrorsSurface
  <2> QED
    BY <1>0, <2>1, <2>2, <2>3, <2>4, FailingFinite DEF Errors
<1>9. ASSUME NEW s \in Server, Crash(s) PROVE ErrorsSurface'
  <2> SUFFICES ASSUME NEW t \in Server
               PROVE  /\ metrics'[t].s3UploadErrors = metrics'[t].encodeErrors
                             + Cardinality(FailingOn(t, "encode"))'
                      /\ metrics'[t].s3DownloadErrors
                             <= metrics'[t].decodeErrors
                                + Cardinality(FailingOn(t, "decode"))'
    BY DEF ErrorsSurface
  <2>1. CASE t = s
    <3>1. \A op \in {"encode", "decode"} : FailingOn(t, op)' = {}
      BY <1>9, <2>1 DEF Crash, FailingOn, ServedBy, Running
    <3>2. \A e \in Errors : metrics'[t][e] = 0
      BY <1>0, <1>9, <2>1 DEF Crash, TypeOK, ZeroCounters, Errors, Counter
    <3> QED
      BY <3>1, <3>2, FS_EmptySet DEF Errors
  <2>2. CASE t # s
    <3>1. \A op \in {"encode", "decode"} :
              FailingOn(t, op)' = FailingOn(t, op)
      BY <1>9, <2>2 DEF Crash, FailingOn, ServedBy
    <3>2. metrics'[t] = metrics[t]
      BY <1>0, <1>9, <2>2 DEF Crash, TypeOK
    <3> QED
      BY <3>1, <3>2 DEF ErrorsSurface
  <2> QED
    BY <2>1, <2>2
<1>10. ASSUME NEW put \in wire, ApplyPut(put) PROVE ErrorsSurface'
  BY <1>0, <1>1, <1>10 DEF ApplyPut
<1>11. CASE UNCHANGED <<pc, req, metrics>>
  BY <1>1, <1>11
<1>12. ASSUME NEW r \in Request, UploadFail(r) \/ DownloadFail(r)
                 \/ DecodeMalformed(r) \/ Fail(r)
       PROVE  ErrorsSurface'
  BY <1>6, <1>7, <1>8, <1>12 DEF ErrorsSurface
<1> QED
  BY <1>2, <1>3, <1>4, <1>5, <1>9, <1>10, <1>11, <1>12
     DEF Next, Work, Rest, vars, RemoveObjects

(* No failure goes uncounted, and none is counted twice: on every replica  *)
(* the S3 errors and the request errors agree, up to the requests between  *)
(* the failed S3 call and their deferred Record call.                      *)
THEOREM FailuresAreCounted == Spec => []ErrorsSurface
BY Invariance, ErrorsInit, ErrorsStep, PTL DEF Spec
-----------------------------------------------------------------------------
(***************************************************************************)
(* Objects and the references that name them.                              *)
(***************************************************************************)

(* A request keeps what it was asked, and a failure stays visible.         *)
LEMMA RequestLasts ==
    ASSUME TypeOK, [Next]_vars, NEW q \in Request, pc[q] # "idle"
    PROVE  /\ req'[q] = req[q] /\ pc'[q] # "idle"
           /\ pc[q] \in {"failing", "failed", "lost"} =>
                  pc'[q] \in {"failing", "failed", "lost"}
<1> DEFINE Lasts ==
        /\ req'[q] = req[q] /\ pc'[q] # "idle"
        /\ pc[q] \in {"failing", "failed", "lost"} =>
               pc'[q] \in {"failing", "failed", "lost"}
<1> USE DEF TypeOK
<1>1. ASSUME NEW r \in Request, Receive(r) PROVE Lasts
  BY <1>1 DEF Receive, ReceiveEncode, ReceiveDecode, Start
<1>2. ASSUME NEW r \in Request, Work(r) PROVE Lasts
  BY <1>2 DEF Work, EncodeInline, StartUpload, UploadOk, UploadFail,
              DecodeInline, DecodeMalformed, DownloadOk, DownloadFail, Return,
              Fail, AtReference, AtPayload
<1>3. ASSUME NEW r \in Request, Answer(r) PROVE Lasts
  BY <1>3 DEF Answer, Deliver, LoseReply
<1>4. ASSUME NEW put \in wire, ApplyPut(put) PROVE Lasts
  BY <1>4 DEF ApplyPut
<1>5. ASSUME NEW s \in Server, Crash(s) PROVE Lasts
  BY <1>5 DEF Crash
<1>6. CASE UNCHANGED <<pc, req>>
  BY <1>6
<1> QED
  BY <1>1, <1>2, <1>3, <1>4, <1>5, <1>6 DEF Next, Rest, vars, RemoveObjects

(* Keys come from the payloads of the request that handles them: those it  *)
(* has put into its answer, and those it has sent to S3.                   *)
OwnKeys(r) ==
    (pc[r] # "idle" /\ req[r].op = "encode") =>
        \A i \in 1..Len(output[r]), k \in Key :
            output[r][i] = [key |-> k] => UploadOf(r, k)

OwnPuts == \A put \in wire : UploadOf(put.from, put.key)

KeysInv == OwnPuts /\ \A r \in Request : OwnKeys(r)

LEMMA UploadLasts ==
    ASSUME TypeOK, [Next]_vars, NEW r \in Request, pc[r] # "idle", NEW k,
           UploadOf(r, k)
    PROVE  UploadOf(r, k)'
BY RequestLasts DEF UploadOf

(* The upload of the payload at hand is one of its request.                *)
LEMMA CurrentUpload ==
    ASSUME IInv, NEW r \in Request, pc[r] # "idle", req[r].op = "encode",
           Len(output[r]) < Len(req[r].item), NEW d \in Marshal[Current(r)]
    PROVE  UploadOf(r, KeyOf(req[r].ctx, d))
BY CurrentPlain DEF IInv, RequestInv, UploadOf, Current

LEMMA OwnPutsStep == IInv /\ KeysInv /\ [Next]_vars => OwnPuts'
<1> SUFFICES ASSUME IInv, KeysInv, [Next]_vars, NEW put \in wire'
             PROVE  UploadOf(put.from, put.key)'
  BY DEF OwnPuts
<1>0. TypeOK
  BY DEF IInv
<1>1. CASE put \in wire
  <2>1. put.from \in Request /\ pc[put.from] # "idle"
    BY <1>0, <1>1 DEF IInv, WireInv, TypeOK, Put
  <2> QED
    BY <1>0, <1>1, <2>1, UploadLasts DEF KeysInv, OwnPuts
<1>2. ASSUME NEW r \in Request, StartUpload(r) PROVE UploadOf(put.from, put.key)'
  <2>1. PICK d \in Marshal[Current(r)] :
            wire' = wire \cup {[from |-> r, key |-> KeyOf(req[r].ctx, d),
                                data |-> d]}
    BY <1>2 DEF StartUpload
  <2>2. pc[r] # "idle" /\ UploadOf(r, KeyOf(req[r].ctx, d))
    BY <1>2, CurrentUpload DEF StartUpload, AtPayload
  <2>3. UploadOf(r, KeyOf(req[r].ctx, d))'
    <3>1. PICK k : k = KeyOf(req[r].ctx, d)
      OBVIOUS
    <3>2. req'[r] = req[r] /\ UploadOf(r, k)'
      BY <1>0, <2>2, <3>1, UploadLasts, RequestLasts
    <3> QED
      BY <3>1, <3>2
  <2> QED
    BY <1>1, <1>0, <2>1, <2>2, <2>3, RequestLasts
<1>3. ASSUME ~\E r \in Request : StartUpload(r) PROVE wire' \subseteq wire
  BY <1>3 DEF Next, Receive, Work, Answer, Rest, vars, ReceiveEncode,
       ReceiveDecode, Start, EncodeInline, UploadOk, UploadFail, DecodeInline,
       DecodeMalformed, DownloadOk, DownloadFail, Return, Fail, Deliver,
       LoseReply, ApplyPut, Crash, RemoveObjects
<1> QED
  BY <1>1, <1>2, <1>3

(* How the answer of an encode request changes.                            *)
LEMMA EncodeOutput ==
    ASSUME IInv, [Next]_vars, NEW q \in Request, pc[q] # "idle",
           req[q].op = "encode"
    PROVE  \/ output'[q] = output[q] \/ output'[q] = << >>
           \/ EncodeInline(q) \/ UploadOk(q)
<1>0. output \in [Request -> Seq(Item)]
  BY DEF IInv, TypeOK
<1>1. ASSUME NEW r \in Request, Receive(r) \/ Work(r) \/ Answer(r), r # q
      PROVE  output'[q] = output[q]
  BY <1>0, <1>1 DEF Receive, Work, Answer, ReceiveEncode, ReceiveDecode, Start,
       EncodeInline, StartUpload, UploadOk, UploadFail, DecodeInline,
       DecodeMalformed, DownloadOk, DownloadFail, Return, Fail, Deliver,
       LoseReply, Emit
<1>2. ASSUME Receive(q) \/ Work(q) \/ Answer(q)
      PROVE  \/ output'[q] = output[q] \/ output'[q] = << >>
             \/ EncodeInline(q) \/ UploadOk(q)
  BY <1>0, <1>2 DEF Receive, Work, Answer, ReceiveEncode, ReceiveDecode, Start,
       StartUpload, UploadFail, DecodeInline, DecodeMalformed, DownloadOk,
       DownloadFail, AtReference, AtPayload, Return, Fail, Deliver, LoseReply
<1>3. ASSUME NEW s \in Server, Crash(s)
      PROVE  output'[q] = output[q] \/ output'[q] = << >>
  BY <1>3 DEF Crash
<1>4. ASSUME NEW put \in wire, ApplyPut(put) PROVE output'[q] = output[q]
  BY <1>4 DEF ApplyPut
<1> QED
  BY <1>1, <1>2, <1>3, <1>4 DEF Next, Rest, vars, RemoveObjects

LEMMA OwnKeysStep ==
    ASSUME IInv, KeysInv, [Next]_vars, NEW q \in Request
    PROVE  OwnKeys(q)'
<1>0. TypeOK /\ RequestInv(q) /\ output[q] \in Seq(Item)
      /\ output \in [Request -> Seq(Item)]
  BY DEF IInv, TypeOK
<1>1. CASE pc[q] = "idle"
  <2>1. output[q] = << >>
    BY <1>0, <1>1 DEF RequestInv, OutputInv
  <2>2. output'[q] = << >>
    BY <1>0, <1>1, <2>1 DEF Next, Receive, Work, Answer, Rest, vars,
       ReceiveEncode, ReceiveDecode, Start, EncodeInline, StartUpload,
       UploadOk, UploadFail, DecodeInline, DecodeMalformed, DownloadOk,
       DownloadFail, AtReference, AtPayload, Return, Fail, Deliver, LoseReply,
       Emit, ApplyPut, Crash, RemoveObjects
  <2> QED
    BY <2>2 DEF OwnKeys
<1>2. CASE pc[q] # "idle"
  <2> SUFFICES ASSUME req[q].op = "encode", NEW i \in 1..Len(output'[q]),
                      NEW k \in Key, output'[q][i] = [key |-> k]
               PROVE  UploadOf(q, k)'
    BY <1>0, <1>2, RequestLasts DEF OwnKeys
  <2>1. ASSUME NEW j \in 1..Len(output[q]), output[q][j] = [key |-> k]
        PROVE  UploadOf(q, k)'
    BY <1>0, <1>2, <2>1, UploadLasts DEF KeysInv, OwnKeys
  <2>2. ASSUME NEW x \in Item, Emit(q, x), x # [key |-> k]
        PROVE  UploadOf(q, k)'
    <3>1. output'[q] = Append(output[q], x)
      BY <1>0, <2>2 DEF Emit
    <3>2. i \in 1..Len(output[q]) /\ output[q][i] = output'[q][i]
      BY <1>0, <2>2, <3>1
    <3> QED
      BY <2>1, <3>2
  <2>3. CASE EncodeInline(q)
    <3>1. Current(q) \in Plain /\ Emit(q, Current(q))
      BY <1>0, <2>3, CurrentPlain DEF EncodeInline, AtPayload, RequestInv
    <3>2. Current(q) # [key |-> k] /\ Current(q) \in Item
      BY <3>1, ItemAssumption DEF Reference, Item
    <3> QED
      BY <2>2, <3>1, <3>2
  <2>4. CASE UploadOk(q)
    <3> DEFINE own == KeyOf(req[q].ctx, blob[q])
    <3>1. /\ Emit(q, [key |-> own]) /\ own \in Key
          /\ UploadOf(q, own)
      BY <1>0, <1>2, <2>4, UploadFacts, CurrentUpload
         DEF UploadOk, RequestInv, UploadInv
    <3> HIDE DEF own
    <3>2. CASE k = own
      BY <1>0, <1>2, <3>1, <3>2, UploadLasts
    <3>3. CASE k # own
      BY <2>2, <3>1, <3>3 DEF Item, Reference
    <3> QED
      BY <3>2, <3>3
  <2>5. CASE output'[q] = output[q]
    BY <2>1, <2>5
  <2>6. CASE output'[q] = << >>
    BY <2>6
  <2> QED
    BY <1>2, <2>3, <2>4, <2>5, <2>6, EncodeOutput
<1> QED
  BY <1>1, <1>2

(* What names an object among what one request holds.                      *)
NamedBy(r, k) ==
    /\ pc[r] \in Running
    /\ \/ \E i \in 1..Len(output[r]) : output[r][i] = [key |-> k]
       \/ pc[r] = "stored" /\ KeyOf(req[r].ctx, blob[r]) = k

(* A request hands its names on, in its answer or in the history, as long  *)
(* as it does not fail.                                                    *)
LEMMA NamesHandedOn ==
    ASSUME IInv, [Next]_vars, NEW r \in Request, NEW k \in Key, NamedBy(r, k),
           pc'[r] \notin {"failing", "failed", "lost"}
    PROVE  Named(k)'
<1>0. /\ TypeOK /\ RequestInv(r)
      /\ pc \in [Request -> {"idle"} \cup Running \cup Ended]
      /\ output[r] \in Seq(Item) /\ output \in [Request -> Seq(Item)]
      /\ req[r] \in RequestRecord
      /\ pc[r] \in Running
  BY DEF IInv, TypeOK, NamedBy, Running
<1>1. ASSUME NamedBy(r, k)' PROVE Named(k)'
  BY <1>1 DEF NamedBy, Named
<1>2. ASSUME pc'[r] \in Running, req'[r] = req[r], pc[r] # "stored",
             NEW x \in Item, Emit(r, x)
      PROVE  Named(k)'
  <2>1. output'[r] = Append(output[r], x)
    BY <1>0, <1>2 DEF Emit
  <2>2. PICK i \in 1..Len(output[r]) : output[r][i] = [key |-> k]
    BY <1>2 DEF NamedBy
  <2>3. i \in 1..Len(output'[r]) /\ output'[r][i] = [key |-> k]
    BY <1>0, <2>1, <2>2
  <2> QED
    BY <1>1, <1>2, <2>3 DEF NamedBy
<1>3. ASSUME UploadOk(r) PROVE Named(k)'
  <2> DEFINE x == [key |-> KeyOf(req[r].ctx, blob[r])]
  <2>1. x \in Item /\ output'[r] = Append(output[r], x)
    BY <1>0, <1>3, UploadFacts DEF UploadOk, Emit, Item, Reference
  <2>2. x = [key |-> k] \/ \E i \in 1..Len(output[r]) : output[r][i] = [key |-> k]
    BY DEF NamedBy
  <2> HIDE DEF x
  <2>3. \E i \in 1..Len(output'[r]) : output'[r][i] = [key |-> k]
    <3>1. CASE x = [key |-> k]
      <4>1. /\ Len(output[r]) + 1 \in 1..Len(output'[r])
            /\ output'[r][Len(output[r]) + 1] = x
        BY <1>0, <2>1
      <4> QED
        BY <3>1, <4>1
    <3>2. CASE \E i \in 1..Len(output[r]) : output[r][i] = [key |-> k]
      <4>1. PICK i \in 1..Len(output[r]) : output[r][i] = [key |-> k]
        BY <3>2
      <4>2. i \in 1..Len(output'[r]) /\ output'[r][i] = [key |-> k]
        BY <1>0, <2>1, <4>1
      <4> QED
        BY <4>2
    <3> QED
      BY <2>2, <3>1, <3>2
  <2> QED
    BY <1>0, <1>1, <1>3, <2>3 DEF UploadOk, NamedBy, Running
<1>4. ASSUME EncodeInline(r) \/ DecodeInline(r) PROVE Named(k)'
  BY <1>0, <1>2, <1>4, CurrentType DEF EncodeInline, DecodeInline, AtPayload
<1>5. ASSUME DownloadOk(r) PROVE Named(k)'
  <2>1. Unmarshal(bucket[Current(r).key]) \in Item
    BY <1>5, DownloadFacts DEF DownloadOk, Item
  <2> QED
    BY <1>0, <1>2, <1>5, <2>1 DEF DownloadOk, AtReference, AtPayload
<1>6. ASSUME StartUpload(r) \/ Return(r) PROVE Named(k)'
  BY <1>0, <1>1, <1>6 DEF StartUpload, Return, AtPayload, NamedBy, Running
<1>7. ASSUME Deliver(r) PROVE Named(k)'
  <2>1. PICK i \in 1..Len(output[r]) : output[r][i] = [key |-> k]
    BY <1>7 DEF Deliver, NamedBy
  <2>2. CASE req[r].op = "encode"
    <3>1. [item |-> output[r][i], payload |-> req[r].want[i]] \in published'
      BY <1>7, <2>2 DEF Deliver
    <3> QED
      BY <2>1, <3>1 DEF Named
  <2>3. CASE req[r].op = "decode"
    <3>1. output[r][i] = req[r].want[i] /\ req[r].want[i] \in Plain
      BY <1>0, <2>1, <2>3
         DEF RequestInv, OutputInv, DecodeInv, Right, RequestRecord, Running
    <3> QED
      BY <2>1, <3>1, ItemAssumption DEF Reference
  <2> QED
    BY <1>0, <2>2, <2>3 DEF RequestRecord
<1>8. ASSUME pc'[r] = pc[r], UNCHANGED <<req, output, blob>>
      PROVE  Named(k)'
  BY <1>1, <1>8 DEF NamedBy
<1>9. ASSUME NEW q \in Request, q # r, Receive(q) \/ Work(q) \/ Answer(q)
      PROVE  Named(k)'
  <2>1. /\ pc'[r] = pc[r] /\ req'[r] = req[r]
        /\ output'[r] = output[r] /\ blob'[r] = blob[r]
    BY <1>0, <1>9 DEF TypeOK, Receive, Work, Answer, ReceiveEncode,
       ReceiveDecode, Start, EncodeInline, StartUpload, UploadOk, UploadFail,
       DecodeInline, DecodeMalformed, DownloadOk, DownloadFail, Return, Fail,
       Deliver, LoseReply, Emit
  <2> QED
    BY <1>1, <2>1 DEF NamedBy
<1>10. ASSUME NEW put \in wire, ApplyPut(put) PROVE Named(k)'
  <2>1. /\ pc'[r] \in Running
        /\ pc[r] = "stored" => pc'[r] = "stored"
        /\ req'[r] = req[r] /\ output'[r] = output[r] /\ blob'[r] = blob[r]
    BY <1>0, <1>10 DEF ApplyPut, Running
  <2> QED
    BY <1>1, <2>1 DEF NamedBy
<1>11. ASSUME NEW s \in Server, Crash(s) PROVE Named(k)'
  <2>1. r \notin ServedBy(s)
    BY <1>11 DEF Crash
  <2> QED
    BY <1>1, <1>11, <2>1 DEF Crash, NamedBy
<1>12. ASSUME UploadFail(r) \/ DecodeMalformed(r) \/ DownloadFail(r) \/ Fail(r)
                 \/ LoseReply(r)
       PROVE  FALSE
  BY <1>0, <1>12
     DEF UploadFail, DecodeMalformed, DownloadFail, Fail, LoseReply
<1>13. ASSUME Receive(r) PROVE FALSE
  BY <1>0, <1>13
     DEF Receive, ReceiveEncode, ReceiveDecode, Start, Running
<1> QED
  BY <1>3, <1>4, <1>5, <1>6, <1>7, <1>8, <1>9, <1>10, <1>11, <1>12, <1>13
     DEF Next, Work, Answer, Rest, vars, RemoveObjects

LEMMA OrphansStep ==
    IInv /\ KeysInv /\ OrphansOnlyAfterFailure /\ [Next]_vars =>
        OrphansOnlyAfterFailure'
<1> SUFFICES ASSUME IInv, KeysInv, OrphansOnlyAfterFailure, [Next]_vars,
                    NEW k \in Key, bucket'[k] # None
             PROVE  Named(k)' \/ \E r \in Request : LeftBy(r, k)'
  BY DEF OrphansOnlyAfterFailure, Stored
<1>0. TypeOK
  BY DEF IInv
(* Who fails leaves what he has named or sent.                             *)
<1>1. ASSUME NEW r \in Request, pc[r] # "idle", UploadOf(r, k),
             pc'[r] \in {"failing", "failed", "lost"}
      PROVE  LeftBy(r, k)'
  BY <1>0, <1>1, UploadLasts DEF LeftBy
<1>2. ASSUME NEW r \in Request, NamedBy(r, k),
             pc'[r] \in {"failing", "failed", "lost"}
      PROVE  LeftBy(r, k)'
  <2>1. pc[r] \in Running /\ pc[r] # "idle" /\ RequestInv(r)
        /\ req[r] \in RequestRecord
    BY <1>2 DEF NamedBy, Running, IInv, TypeOK
  <2>2. CASE req[r].op = "decode"
    <3>1. PICK i \in 1..Len(output[r]) : output[r][i] = [key |-> k]
      BY <1>2, <2>1, <2>2 DEF NamedBy, RequestInv, UploadInv
    <3>2. output[r][i] = req[r].want[i] /\ req[r].want[i] \in Plain
      BY <2>1, <2>2, <3>1
         DEF RequestInv, OutputInv, DecodeInv, Right, RequestRecord
    <3> QED
      BY <3>1, <3>2, ItemAssumption DEF Reference
  <2>3. CASE req[r].op = "encode"
    <3>1. CASE \E i \in 1..Len(output[r]) : output[r][i] = [key |-> k]
      BY <1>1, <1>2, <2>1, <2>3, <3>1 DEF KeysInv, OwnKeys
    <3>2. CASE pc[r] = "stored" /\ KeyOf(req[r].ctx, blob[r]) = k
      BY <1>1, <1>2, <2>1, <2>3, <3>2, CurrentUpload DEF RequestInv, UploadInv
    <3> QED
      BY <1>2, <3>1, <3>2 DEF NamedBy
  <2> QED
    BY <2>1, <2>2, <2>3 DEF RequestRecord
<1>3. ASSUME bucket[k] # None
      PROVE  Named(k)' \/ \E r \in Request : LeftBy(r, k)'
  <2>1. Named(k) \/ \E r \in Request : LeftBy(r, k)
    BY <1>3 DEF OrphansOnlyAfterFailure, Stored
  <2>2. CASE \E e \in published : e.item = [key |-> k]
    BY <2>2, PublishedGrows DEF Named
  <2>3. ASSUME NEW r \in Request, NamedBy(r, k)
        PROVE  Named(k)' \/ LeftBy(r, k)'
    BY <1>2, <2>3, NamesHandedOn
  <2>4. ASSUME NEW r \in Request, LeftBy(r, k) PROVE LeftBy(r, k)'
    BY <1>0, <1>1, <2>4, RequestLasts DEF LeftBy
  <2> QED
    BY <2>1, <2>2, <2>3, <2>4 DEF Named, NamedBy
<1>4. ASSUME NEW put \in wire, ApplyPut(put), bucket[k] = None
      PROVE  Named(k)' \/ \E r \in Request : LeftBy(r, k)'
  <2>1. put.key = k /\ put.from \in Request /\ UploadOf(put.from, k)
    BY <1>0, <1>4 DEF ApplyPut, TypeOK, Put, KeysInv, OwnPuts
  <2>2. CASE pc[put.from] = "uploading"
    <3>1. KeyOf(req[put.from].ctx, blob[put.from]) = k
      BY <2>1, <2>2 DEF IInv, WireInv
    <3> QED
      BY <1>0, <1>4, <2>1, <2>2, <3>1 DEF ApplyPut, TypeOK, Named, Running
  <2>3. CASE pc[put.from] # "uploading"
    <3>1. pc[put.from] \in {"failing", "failed", "lost"}
      BY <2>3 DEF IInv, WireInv
    <3> QED
      BY <1>0, <1>1, <2>1, <3>1, RequestLasts
  <2> QED
    BY <2>2, <2>3
<1>5. ASSUME NEW keys \in SUBSET Stored, RemoveObjects(keys), bucket[k] = None
      PROVE  FALSE
  BY <1>0, <1>5 DEF RemoveObjects, TypeOK
<1> QED
  BY <1>3, <1>4, <1>5, BucketStep

(* Each failure answers for its own garbage: whatever is in the bucket is  *)
(* named by the history or by a request that is still at work, or is of a  *)
(* payload of an encode request that failed or whose answer was lost, for  *)
(* any number of such failures, crashes and late PUTs.                     *)
THEOREM GarbageComesFromFailure == Spec => []OrphansOnlyAfterFailure
<1>1. Init => KeysInv /\ OrphansOnlyAfterFailure
  BY DEF Init, KeysInv, OwnPuts, OwnKeys, OrphansOnlyAfterFailure, Stored
<1>2. IInv /\ KeysInv /\ [Next]_vars => KeysInv'
  BY OwnPutsStep, OwnKeysStep DEF KeysInv
<1> QED
  BY <1>1, <1>2, Invariance, OrphansStep, PTL DEF Spec
=============================================================================
