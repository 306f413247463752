---------------------------- MODULE CodecServer -----------------------------
(***************************************************************************)
(* The codec server: replicas of one process in front of one S3 bucket,    *)
(* and what Temporal keeps of their answers.  A request is one call of the *)
(* gRPC or HTTP Encode or Decode handler; its goroutine walks the payloads *)
(* in order (codec.go, Encode and Decode) and talks to S3 under a 30 s     *)
(* timeout per payload.                                                    *)
(*                                                                         *)
(* Around it: clients (the data converters of Temporal SDKs) that send a   *)
(* request once, any number of them at the same time; an S3 call whose     *)
(* answer may never come although the object was written, or is written    *)
(* later; process crashes; lost answers; and the removal of objects by     *)
(* someone else (the cleanup worker).                                      *)
(***************************************************************************)
EXTENDS Payloads, Metrics, FiniteSets

CONSTANTS
    Request,        \* requests, each sent at most once
    Server,         \* codec server replicas
    MaxBatch,       \* payloads in a request
    MaxCrashes,     \* bound on process crashes
    MaxRemovals     \* bound on objects removed by others

ASSUME BoundsAssumption ==
    /\ IsFiniteSet(Request)
    /\ MaxBatch \in Nat /\ MaxCrashes \in Nat /\ MaxRemovals \in Nat

VARIABLES
    pc,         \* where the goroutine of each request is
    req,        \* what each request asks for
    output,     \* encoded or decoded: the payloads done so far
    blob,       \* the bytes a request is uploading
    bucket,     \* the objects in S3
    wire,       \* PUTs sent and not applied, of live requests or not
    published,  \* answers of encode requests that reached Temporal
    removed,    \* history: keys somebody removed
    metrics,    \* the counters of each replica
    crashes     \* crashes so far

vars == <<pc, req, output, blob, bucket, wire, published, removed, metrics,
          crashes>>

(* A batch is at most MaxBatch payloads; the code takes any number         *)
(* (HTTP: MaxPayloadsPerRequest), the empty batch included.                *)
Batches(S) == UNION {[1..n -> S] : n \in 0..MaxBatch}

(* What a decode request may carry: an answer Temporal stored, with the    *)
(* payload it was the answer for.                                          *)
Entry == [item : Item, payload : Plain]

(* "item" is what the request carries.  "want" is what the caller expects  *)
(* to get back in the end: a history variable.                             *)
RequestRecord ==
    [op : {"encode"}, want : Seq(Plain), item : Seq(Item),
     srv : Server, ctx : Context]
    \cup
    [op : {"decode"}, want : Seq(Plain), item : Seq(Item), srv : Server]

Running == {"running", "uploading", "stored", "failing", "returned"}
Ended == {"done", "failed", "lost"}

Put == [from : Request, key : Key, data : Data]

TypeOK ==
    /\ pc \in [Request -> {"idle"} \cup Running \cup Ended]
    /\ req \in [Request -> RequestRecord \cup {None}]
    /\ \A r \in Request : pc[r] # "idle" => req[r] \in RequestRecord
    /\ output \in [Request -> Seq(Item)]
    /\ blob \in [Request -> Data \cup {None}]
    /\ bucket \in [Key -> Data \cup {None}]
    /\ wire \subseteq Put
    /\ published \subseteq Entry
    /\ removed \subseteq Key
    /\ metrics \in [Server -> Counters]
    /\ crashes \in Nat

Init ==
    /\ pc = [r \in Request |-> "idle"]
    /\ req = [r \in Request |-> None]
    /\ output = [r \in Request |-> << >>]
    /\ blob = [r \in Request |-> None]
    /\ bucket = [k \in Key |-> None]
    /\ wire = {}
    /\ published = {}
    /\ removed = {}
    /\ metrics = [s \in Server |-> ZeroCounters]
    /\ crashes = 0
-----------------------------------------------------------------------------
(***************************************************************************)
(* Requests come in.                                                       *)
(***************************************************************************)
Start(r, record) ==
    /\ pc[r] = "idle"
    /\ pc' = [pc EXCEPT ![r] = "running"]
    /\ req' = [req EXCEPT ![r] = record]
    /\ UNCHANGED <<output, blob, bucket, wire, published, removed, metrics,
                   crashes>>

ReceiveEncode(r, s, c, batch) ==
    Start(r, [op |-> "encode", want |-> batch, item |-> batch,
              srv |-> s, ctx |-> c])

(* A worker, a client or the UI asks for payloads read from the history.   *)
(* A decode request names no workflow.                                     *)
ReceiveDecode(r, s, entries) ==
    Start(r, [op |-> "decode",
              want |-> [i \in 1..Len(entries) |-> entries[i].payload],
              item |-> [i \in 1..Len(entries) |-> entries[i].item],
              srv |-> s])

(***************************************************************************)
(* The loop over the payloads.                                             *)
(***************************************************************************)
ServerOf(r) == req[r].srv

AtPayload(r, op) ==
    /\ pc[r] = "running"
    /\ req[r].op = op
    /\ Len(output[r]) < Len(req[r].item)

Current(r) == req[r].item[Len(output[r]) + 1]

Emit(r, x) == output' = [output EXCEPT ![r] = Append(@, x)]

Record(r, counters) == metrics' = [metrics EXCEPT ![ServerOf(r)] = counters]

(* Encode, a payload below the threshold: it stays as it is.               *)
EncodeInline(r) ==
    /\ AtPayload(r, "encode")
    /\ ~NeedsStore(Current(r))
    /\ Emit(r, Current(r))
    /\ UNCHANGED <<pc, req, blob, bucket, wire, published, removed, metrics,
                   crashes>>

(* Encode, storePayload: serialise, name the object after the hash, send   *)
(* the PUT.                                                                *)
StartUpload(r) ==
    /\ AtPayload(r, "encode")
    /\ NeedsStore(Current(r))
    /\ \E d \in Marshal[Current(r)] :
           /\ blob' = [blob EXCEPT ![r] = d]
           /\ wire' = wire \cup {[from |-> r, key |-> KeyOf(req[r].ctx, d),
                                  data |-> d]}
    /\ pc' = [pc EXCEPT ![r] = "uploading"]
    /\ UNCHANGED <<req, output, bucket, published, removed, metrics, crashes>>

(* S3 applies a PUT: an overwrite of whatever is there.  The request may   *)
(* have given up long ago.                                                 *)
ApplyPut(put) ==
    /\ bucket' = [bucket EXCEPT ![put.key] = put.data]
    /\ wire' = wire \ {put}
    /\ pc' = IF pc[put.from] = "uploading"
             THEN [pc EXCEPT ![put.from] = "stored"]
             ELSE pc
    /\ UNCHANGED <<req, output, blob, published, removed, metrics, crashes>>

(* Upload returned nil: the reference takes the place of the payload.      *)
MutUploadNamesRun(r) ==
    /\ pc[r] = "stored"
    /\ Emit(r, [key |-> MutKeyWithoutHash(req[r].ctx, blob[r])])
    /\ blob' = [blob EXCEPT ![r] = None]
    /\ pc' = [pc EXCEPT ![r] = "running"]
    /\ Record(r, RecordS3Upload(metrics[ServerOf(r)], FALSE))
    /\ UNCHANGED <<req, bucket, wire, published, removed, crashes>>

MutUploadNotAwaited(r) ==
    /\ pc[r] \in {"uploading", "stored"}
    /\ Emit(r, [key |-> KeyOf(req[r].ctx, blob[r])])
    /\ blob' = [blob EXCEPT ![r] = None]
    /\ pc' = [pc EXCEPT ![r] = "running"]
    /\ Record(r, RecordS3Upload(metrics[ServerOf(r)], FALSE))
    /\ UNCHANGED <<req, bucket, wire, published, removed, crashes>>

UploadOk(r) ==
    /\ pc[r] = "stored"
    /\ Emit(r, [key |-> KeyOf(req[r].ctx, blob[r])])
    /\ blob' = [blob EXCEPT ![r] = None]
    /\ pc' = [pc EXCEPT ![r] = "running"]
    /\ Record(r, RecordS3Upload(metrics[ServerOf(r)], FALSE))
    /\ UNCHANGED <<req, bucket, wire, published, removed, crashes>>

(* Upload returned an error: S3 refused, the 30 s are over or the client   *)
(* is gone.  Whether the object was written is not known; if the PUT is    *)
(* still on the wire it may be applied later, or never.                    *)
MutUploadRetried(r) ==
    /\ pc[r] \in {"uploading", "stored"}
    /\ blob' = [blob EXCEPT ![r] = None]
    /\ pc' = [pc EXCEPT ![r] = "running"]
    /\ Record(r, RecordS3Upload(metrics[ServerOf(r)], FALSE))
    /\ wire' = {put \in wire : put.from # r}
    /\ UNCHANGED <<req, output, bucket, published, removed, crashes>>

MutUploadWithoutTimeout(r) ==
    /\ pc[r] = "stored"
    /\ blob' = [blob EXCEPT ![r] = None]
    /\ pc' = [pc EXCEPT ![r] = "failing"]
    /\ Record(r, RecordS3Upload(metrics[ServerOf(r)], TRUE))
    /\ UNCHANGED <<req, output, bucket, wire, published, removed, crashes>>

UploadFail(r) ==
    /\ pc[r] \in {"uploading", "stored"}
    /\ blob' = [blob EXCEPT ![r] = None]
    /\ pc' = [pc EXCEPT ![r] = "failing"]
    /\ Record(r, RecordS3Upload(metrics[ServerOf(r)], TRUE))
    /\ UNCHANGED <<req, output, bucket, wire, published, removed, crashes>>

(* Decode, a payload that is no reference: it stays as it is.              *)
DecodeInline(r) ==
    /\ AtPayload(r, "decode")
    /\ ~isS3Reference(Current(r))
    /\ Emit(r, Current(r))
    /\ UNCHANGED <<pc, req, blob, bucket, wire, published, removed, metrics,
                   crashes>>

(* Decode, retrievePayload: no JSON in it, an error before any S3 call.    *)
DecodeMalformed(r) ==
    /\ AtPayload(r, "decode")
    /\ isS3Reference(Current(r))
    /\ ~ParsesAsReference(Current(r))
    /\ pc' = [pc EXCEPT ![r] = "failing"]
    /\ UNCHANGED <<req, output, blob, bucket, wire, published, removed,
                   metrics, crashes>>

AtReference(r) ==
    /\ AtPayload(r, "decode")
    /\ isS3Reference(Current(r))
    /\ ParsesAsReference(Current(r))

(* Decode, retrievePayload: S3 returns the object, its bytes are the       *)
(* payload.  Neither the bucket nor the hash in the reference is looked at.*)
DownloadOk(r) ==
    /\ AtReference(r)
    /\ bucket[Current(r).key] # None
    /\ Emit(r, Unmarshal(bucket[Current(r).key]))
    /\ Record(r, RecordS3Download(metrics[ServerOf(r)], FALSE))
    /\ UNCHANGED <<pc, req, blob, bucket, wire, published, removed, crashes>>

(* NoSuchKey, an S3 error or the 30 s timeout.                             *)
DownloadFail(r) ==
    /\ AtReference(r)
    /\ pc' = [pc EXCEPT ![r] = "failing"]
    /\ Record(r, RecordS3Download(metrics[ServerOf(r)], TRUE))
    /\ UNCHANGED <<req, output, blob, bucket, wire, published, removed,
                   crashes>>

(***************************************************************************)
(* The deferred Record call, then the answer.                              *)
(***************************************************************************)
RecordRequest(r, hasError) ==
    Record(r, IF req[r].op = "encode"
              THEN RecordEncode(metrics[ServerOf(r)], Len(req[r].item),
                                hasError)
              ELSE RecordDecode(metrics[ServerOf(r)], Len(req[r].item),
                                hasError))

Return(r) ==
    /\ pc[r] = "running"
    /\ Len(output[r]) = Len(req[r].item)
    /\ pc' = [pc EXCEPT ![r] = "returned"]
    /\ RecordRequest(r, FALSE)
    /\ UNCHANGED <<req, output, blob, bucket, wire, published, removed,
                   crashes>>

(* The handler answers with an error and nothing else: the payloads done   *)
(* before the failing one are dropped, their objects stay in S3.           *)
MutFailAnswersPartly(r) ==
    /\ pc[r] = "failing"
    /\ pc' = [pc EXCEPT ![r] = "returned"]
    /\ RecordRequest(r, TRUE)
    /\ UNCHANGED <<req, output, blob, bucket, wire, published, removed,
                   crashes>>

MutFailUncounted(r) ==
    /\ pc[r] = "failing"
    /\ pc' = [pc EXCEPT ![r] = "failed"]
    /\ output' = [output EXCEPT ![r] = << >>]
    /\ RecordRequest(r, FALSE)
    /\ UNCHANGED <<req, blob, bucket, wire, published, removed, crashes>>

Fail(r) ==
    /\ pc[r] = "failing"
    /\ pc' = [pc EXCEPT ![r] = "failed"]
    /\ output' = [output EXCEPT ![r] = << >>]
    /\ RecordRequest(r, TRUE)
    /\ UNCHANGED <<req, blob, bucket, wire, published, removed, crashes>>

(* The answer reaches the caller; that of an encode request goes into the  *)
(* workflow history, payload by payload.                                   *)
Deliver(r) ==
    /\ pc[r] = "returned"
    /\ pc' = [pc EXCEPT ![r] = "done"]
    /\ published' =
           IF req[r].op = "encode"
           THEN published \cup {[item |-> output[r][i],
                                 payload |-> req[r].want[i]] :
                                    i \in 1..Len(output[r])}
           ELSE published
    /\ UNCHANGED <<req, output, blob, bucket, wire, removed, metrics, crashes>>

(* Or does not: the connection broke, the client stopped waiting or the    *)
(* HTTP write timeout of 30 s is over.                                     *)
LoseReply(r) ==
    /\ pc[r] = "returned"
    /\ pc' = [pc EXCEPT ![r] = "lost"]
    /\ output' = [output EXCEPT ![r] = << >>]
    /\ UNCHANGED <<req, blob, bucket, wire, published, removed, metrics,
                   crashes>>

(***************************************************************************)
(* The environment.                                                        *)
(***************************************************************************)
ServedBy(s) == {r \in Request : pc[r] \in Running /\ req[r].srv = s}

(* A replica dies and is started again: its requests and counters are gone.*)
Crash(s) ==
    /\ crashes < MaxCrashes
    /\ crashes' = crashes + 1
    /\ pc' = [r \in Request |-> IF r \in ServedBy(s) THEN "lost" ELSE pc[r]]
    /\ output' = [r \in Request |->
                     IF r \in ServedBy(s) THEN << >> ELSE output[r]]
    /\ blob' = [r \in Request |-> IF r \in ServedBy(s) THEN None ELSE blob[r]]
    /\ metrics' = [metrics EXCEPT ![s] = ZeroCounters]
    /\ UNCHANGED <<req, bucket, wire, published, removed>>

(* Somebody removes objects: the cleanup worker, see module System.        *)
Stored == {k \in Key : bucket[k] # None}

RemoveObjects(keys) ==
    /\ Cardinality(removed \cup keys) <= MaxRemovals
    /\ bucket' = [k \in Key |-> IF k \in keys THEN None ELSE bucket[k]]
    /\ removed' = removed \cup keys
    /\ UNCHANGED <<pc, req, output, blob, wire, published, metrics, crashes>>

(* Every request has ended: the system may rest.                           *)
Rest ==
    /\ \A r \in Request : pc[r] \in Ended
    /\ UNCHANGED vars
-----------------------------------------------------------------------------
Receive(r) ==
    \E s \in Server :
        \/ \E c \in Context, batch \in Batches(Plain) :
               ReceiveEncode(r, s, c, batch)
        \/ \E entries \in Batches(published) : ReceiveDecode(r, s, entries)

(* What the goroutine of a request does on its own account: each S3 call   *)
(* ends, with an answer or with the timeout.                               *)
Work(r) ==
    \/ EncodeInline(r) \/ StartUpload(r) \/ UploadOk(r) \/ UploadFail(r)
    \/ DecodeInline(r) \/ DecodeMalformed(r) \/ DownloadOk(r)
    \/ DownloadFail(r)
    \/ Return(r) \/ Fail(r)

Answer(r) == Deliver(r) \/ LoseReply(r)

Next ==
    \/ \E r \in Request : Receive(r) \/ Work(r) \/ Answer(r)
    \/ \E put \in wire : ApplyPut(put)
    \/ \E s \in Server : Crash(s)
    \/ \E keys \in SUBSET Stored : RemoveObjects(keys)
    \/ Rest

Spec == Init /\ [][Next]_vars

(* The Go scheduler runs every goroutine, each S3 call has a deadline and  *)
(* a connection breaks or not.  Nothing makes S3 apply a PUT, a client     *)
(* send a request or a replica crash.                                      *)
Fairness == \A r \in Request : WF_vars(Work(r)) /\ WF_vars(Answer(r))

FairSpec == Spec /\ Fairness
-----------------------------------------------------------------------------
(***************************************************************************)
(* Properties.                                                             *)
(***************************************************************************)

(* Whatever is stored under a key, or is on its way there, hashes to the   *)
(* last segment of the key: concurrent, repeated and late PUTs to one key  *)
(* all carry the same bytes, even when two contexts produce the same key.  *)
ContentAddressed ==
    /\ \A c \in Context, d \in Data : bucket[KeyOf(c, d)] \in {d, None}
    /\ \A put \in wire :
           \E c \in Context : put.key = KeyOf(c, put.data)

(* A reference in the workflow history is never ahead of its object: the   *)
(* object was in S3 before the answer left, holds the payload the          *)
(* reference stands for, and is there until somebody removes it.           *)
StoredIn(x, p) == x.key \in removed \/ bucket[x.key] \in Marshal[p]

PublishedRetrievable ==
    \A e \in published : e.item \in Reference => StoredIn(e.item, e.payload)

(* A decode that succeeds returns what was encoded, payload by payload, in *)
(* order, whatever replicas, crashes and failed uploads lie in between.    *)
RoundTrip ==
    \A r \in Request :
        (pc[r] = "done" /\ req[r].op = "decode") => output[r] = req[r].want

(* S3 errors and request errors agree on every replica, up to the requests *)
(* between the S3 call and the deferred Record call: each failed upload    *)
(* fails exactly one encode request, each failed download one decode.      *)
FailingOn(s, op) ==
    {r \in ServedBy(s) : pc[r] = "failing" /\ req[r].op = op}

ErrorsSurface ==
    \A s \in Server :
        /\ metrics[s].s3UploadErrors
               = metrics[s].encodeErrors + Cardinality(FailingOn(s, "encode"))
        /\ metrics[s].s3DownloadErrors
               <= metrics[s].decodeErrors + Cardinality(FailingOn(s, "decode"))

(* Garbage comes from failure only, and each failure answers for its own:  *)
(* an object that is named neither by a reference that Temporal holds nor  *)
(* by one that a request still at work will hand out is that of a payload  *)
(* of an encode request that failed or whose answer was lost, under the    *)
(* context of that request.                                                *)
Named(k) ==
    \/ \E e \in published : e.item = [key |-> k]
    \/ \E r \in Request :
           /\ pc[r] \in Running
           /\ \/ \E i \in 1..Len(output[r]) : output[r][i] = [key |-> k]
              \/ pc[r] = "stored" /\ KeyOf(req[r].ctx, blob[r]) = k

UploadOf(r, k) ==
    /\ req[r].op = "encode"
    /\ \E i \in 1..Len(req[r].item) :
           \E d \in Marshal[req[r].item[i]] : k = KeyOf(req[r].ctx, d)

LeftBy(r, k) == pc[r] \in {"failing", "failed", "lost"} /\ UploadOf(r, k)

OrphansOnlyAfterFailure ==
    \A k \in Stored : Named(k) \/ \E r \in Request : LeftBy(r, k)

(* No request goes back: whatever happens to one at work brings it nearer  *)
(* to its end, and it takes at most three steps for each payload and four  *)
(* more, however uploads and downloads fail.                               *)
StepsLeft(r) ==
    IF pc[r] \in Running
    THEN 3 * (Len(req[r].item) - Len(output[r])) +
             (CASE pc[r] = "running" -> 4 [] pc[r] = "uploading" -> 3
                [] pc[r] = "stored" -> 2 [] OTHER -> 1)
    ELSE 0

Unmoved(r) == UNCHANGED <<pc[r], req[r], output[r]>>

RequestsAdvance ==
    [][\A r \in Request : pc[r] \in Running =>
           Unmoved(r) \/ StepsLeft(r)' \in 0..(StepsLeft(r) - 1)]_vars

(* No request stays with the codec server for ever, even when S3 answers   *)
(* nothing.                                                                *)
EveryRequestEnds ==
    \A r \in Request : pc[r] = "running" ~> pc[r] \in Ended

(* IMPLEMENTATION_SUMMARY.md:18 promises "Hash-based payload               *)
(* deduplication": one payload of one workflow run is stored once.         *)
Deduplicated ==
    \A c \in Context, d, e \in Data :
        /\ bucket[KeyOf(c, d)] # None
        /\ bucket[KeyOf(c, e)] # None
        /\ Unmarshal(bucket[KeyOf(c, d)]) = Unmarshal(bucket[KeyOf(c, e)])
        => d = e
=============================================================================
