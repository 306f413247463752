------------------------------- MODULE Metrics ------------------------------
(***************************************************************************)
(* The request and transfer counters each codec server process keeps       *)
(* (codec-server/internal/metrics/metrics.go).  Every Record call holds    *)
(* the mutex throughout, so it is one step of the caller.  Sizes and       *)
(* latencies are left out.                                                 *)
(***************************************************************************)
EXTENDS Naturals

Counter == {"encodeRequests", "decodeRequests",
            "payloadsEncoded", "payloadsDecoded",
            "encodeErrors", "decodeErrors",
            "s3Uploads", "s3Downloads",
            "s3UploadErrors", "s3DownloadErrors"}

Counters == [Counter -> Nat]

(* A process starts counting from nothing.                                 *)
ZeroCounters == [c \in Counter |-> 0]

Add(m, c, n) == [m EXCEPT ![c] = @ + n]

One(hasError) == IF hasError THEN 1 ELSE 0

RecordEncode(m, payloadCount, hasError) ==
    Add(Add(Add(m, "encodeRequests", 1),
                   "payloadsEncoded", payloadCount),
                   "encodeErrors", One(hasError))

RecordDecode(m, payloadCount, hasError) ==
    Add(Add(Add(m, "decodeRequests", 1),
                   "payloadsDecoded", payloadCount),
                   "decodeErrors", One(hasError))

RecordS3Upload(m, hasError) ==
    Add(Add(m, "s3Uploads", 1), "s3UploadErrors", One(hasError))

RecordS3Download(m, hasError) ==
    Add(Add(m, "s3Downloads", 1), "s3DownloadErrors", One(hasError))
=============================================================================
