# Formal model of large-files-temporal

TLA+ modules, TLC configurations and TLAPS proofs for the codec server, which
moves large Temporal payloads to S3, and for the cleanup worker, which removes
them again.

## The system

| Component | Code | State | Operations | What makes it correct |
|---|---|---|---|---|
| Payload codec | `codec-server/internal/codec` | none between requests; per request the batch, the payloads done, the bytes in flight | `Encode`, `Decode` | decode returns what was encoded; all or nothing per batch; a reference never precedes its object |
| S3 storage | `codec-server/internal/storage` | the bucket | `Upload`, `Download` (`Delete`, `DeletePrefix`, `ListObjects` have no caller), `ensureBucket` at start | writes to one key agree |
| Metrics | `codec-server/internal/metrics` | counters, size extremes, latency windows of one process | `Record*`, `GetSnapshot` | errors counted are errors answered |
| HTTP and gRPC front ends | `codec-server/internal/http`, `internal/grpc` | none | validate, convert, call the codec, answer | conversions are inverse to each other; an answer is complete or an error |
| Authentication | same | none | compare a key | - |
| Rate limiter | `codec-server/internal/ratelimit` | one token bucket per client | `GetLimiter`, `CleanupStale`, `Middleware` | no client gets more than its rate and burst |
| Server life cycle and configuration | `codec-server/cmd/server`, `internal/config` | two servers | validate, check the bucket, start, graceful shutdown | a start comes to something, requests in flight end, the shutdown ends |
| Cleanup workflow | `cleanup-worker/internal/workflows` | position in the list | list, check, delete, per execution | ends; one bad execution does not stop the others |
| Cleanup activities and S3 client | `cleanup-worker/internal/activities`, `internal/storage` | none | `GetCompletedWorkflows`, `CheckIfArchived`, `DeleteS3Objects` | removes what is due, all of it, and nothing else |
| Cleanup scheduler | `cleanup-worker/cmd/worker` | a ticker | one cleanup a day | - |
| Remote codecs | `samples/go-worker/internal/codec`, `samples/typescript-worker/src/codec` | none | extract the workflow context, call the codec server | the context names the workflow that cleanup will see |

How they interact. A data converter (remote codec) calls the codec server over
gRPC or HTTP. The server stores payloads of `PAYLOAD_SIZE_THRESHOLD_BYTES` or
more in S3 under `{namespace}/{workflowID}/{runID}/{sha256}` and answers with a
reference, which Temporal keeps in the workflow history; a decode call follows
the reference. Replicas share the bucket and nothing else. The cleanup worker
shares the bucket and Temporal's visibility with them: it lists closed
executions and removes everything under `{namespace}/{workflowID}/`. Nothing
synchronises the two.

What is hard. Concurrent uploads to one key; uploads whose outcome nobody knows
and that take effect late; batches that fail half way; replicas that crash;
answers that get lost; cleanups that repeat activities, overlap, work from an
old listing and leave deletions behind that S3 applies late; a window of days
outside of which objects are never removed; key prefixes that cover more than
was meant. `PROJECT.json` lists each hazard at its line with the property that
would catch it.

## Modules

| Module | What it is |
|---|---|
| `ObjectKeys` | names of S3 objects as sequences of slash-separated segments: `KeyOf`, `WorkflowPrefix`, prefix match |
| `Payloads` | payloads, their serialisations, the size threshold, references |
| `Metrics` | counters and the four `Record*` functions |
| `CodecServer` | requests on replicas, one bucket, unreliable PUTs, crashes, removals |
| `TransparentCodec` | abstract specification: what a caller of the codec server may rely on |
| `CodecRefinement` | the mapping under which `CodecServer` implements `TransparentCodec` |
| `CodecServerProofs` | inductive invariant and theorems about `CodecServer` |
| `CodecRefinementProofs` | `CodecServer` implements `TransparentCodec`, step by step |
| `CodecFailureProofs` | what failures leave in the counters and in the bucket |
| `MCCodecServer` | instances of the codec server for TLC |
| `Cleanup` | executions, days, the cleanup workflow and its activities |
| `CleanupProofs` | theorems about `Cleanup`: the grace period, and that nothing leaks |
| `MCCleanup` | instances of the cleanup worker for TLC |
| `RemoteCodecs` | the Go and the TypeScript data converter, their wire forms and workflow contexts |
| `RemoteCodecsProofs` | inductive invariant and theorems about `RemoteCodecs` |
| `MCRemoteCodecs` | instances of the remote codecs for TLC |
| `System` | `CodecServer` and `Cleanup` on one bucket |
| `SystemProofs` | the composition is a codec server and a cleanup worker; payloads survive the grace period, and nothing leaks |
| `MCSystem` | an instance of the composition for TLC |
| `RateLimiter` | the table of limiters of one process and the requests that go through it |
| `FrontEnd` | the life of one codec server process around `RateLimiter` |
| `NumberLemmas` | least and greatest elements of sets of numbers |
| `FrontEndProofs` | inductive invariant and theorems about `FrontEnd` and its `RateLimiter` |
| `MCFrontEnd` | instances of the front end for TLC |

### CodecServer and the code

`pc[r]` is the position of the goroutine of request `r`:

| `pc` | Code |
|---|---|
| `running` | the loop of `Encode` or `Decode`, `Len(output[r])` payloads done |
| `uploading` | inside `storage.Upload`, the PUT not applied |
| `stored` | inside `storage.Upload`, the PUT applied, its answer not read |
| `failing` | `storePayload` or `retrievePayload` returned an error |
| `returned` | the deferred `Record*` call has run, the answer is being written |
| `done`, `failed`, `lost` | answered; answered with an error; nobody got the answer |

`StartUpload`, `UploadOk` and `UploadFail` are the two ends of
`storePayload`; `ApplyPut` is S3. `UploadFail` leaves the PUT on `wire`, so that
it may be applied after the request has failed, or never. `DecodeMalformed`,
`DownloadOk` and `DownloadFail` are the exits of `retrievePayload`.
`published` holds what Temporal keeps of encode answers: pairs of an item and
the payload it was the answer for. Decode requests carry published items.
Each `Record*` call holds a mutex throughout and is part of the step of its
caller. `want` in a request, and `removed`, are history variables.

Data is abstract. A payload is a value with a size and a set of possible
serialisations, because `proto.Marshal` walks a Go map and is not deterministic.
Identifiers are sequences of segments, because Temporal ids may contain slashes;
this makes keys of different contexts coincide, which the model includes.

### Cleanup and the code

`stage[w]` is the position of a cleanup workflow: `listing`
(`GetCompletedWorkflows`), `loop` (between executions), `checking`
(`CheckIfArchived`), `deleting`, `found` and `removed` (before the listing,
between listing and deletion, and after the deletion within `DeleteS3Objects`).
`AttemptFails` ends an attempt at any of these places, also after its effect,
and starts the activity again from its beginning until `MaximumAttempts`; the
last failure ends the workflow (`listing`) or the work on the current execution.
An attempt that fails between its `DeleteObjects` call and the answer may leave
the call with S3 (`overdue`), which applies it at any time after that, in full
or in part (`LateRemoval`), or never. Executions close or continue as new, which
the listing does not ask for, and payloads may be stored up to `MaxDelay` days
after the end (`MayStore`). `DescribeFails` and `HistoryFails` are the two ways
in which `CheckIfArchived` turns an error into an answer. Time passes in days
(`Tick`). A day on which no cleanup came to its end is a fault, and faults are
bounded by `MaxFaults`: without a bound no property about objects that must go
could hold.

### System and the code

`System` extends `CodecServer` and instantiates `Cleanup` with the keys of the
bucket in the place of `objects`. Two steps belong to both: a PUT that S3
applies is `Cleanup`'s `StoreObject` (`Store`), and a `DeleteObjects` call is
`CodecServer`'s `RemoveObjects` (`CleanUp`), which removes those of the listed
keys that are there now, at once or late (`LateCleanUp`). Everything else of one
module leaves the other alone. Encode requests are for executions for which
`MayStore` holds, and so is a PUT when it is applied.

### RateLimiter, FrontEnd and the code

`ips` is the table of `IPRateLimiter`, and a limiter is a number with a
`level`; one that neither the table nor a request refers to is garbage and
blank, so that few numbers are enough. A request goes from `arrived` to
`asking` (`GetLimiter`, under the lock) to `admitted` (`Allow`), and may hold a
limiter that `CleanupStale` has removed from the table in between. From there
on it is with `AuthMiddleware` and the handler until it is answered.
`recent[n][w]` counts the admissions of a name in the last `w` ticks, those by
removed limiters with the others, and `removed[w]` the removals in the last `w`
ticks: history variables, which nothing but a new process resets.

`main` is the position of `func main`: `checking` and `creating`
(`ensureBucket`), `listening` (before `net.Listen` for gRPC), `waiting` (for the
signal), `draining` (`httpServer.Shutdown`), `stopping` (`GracefulStop`) and
`down`. The two servers start in goroutines of their own, in either order
(`ServeGrpc`, `ServeHttp`): gRPC has its port before (`bound`), HTTP asks for it
then (`starting`), and may find it taken, by the gRPC server itself or by
another process (`TakePort`), which is `log.Fatalf` (`ServeHttpFails`) whatever
runs beside it. A signal before `signal.Notify` is a crash. `waited` counts the
ticks of `shutdownCtx`. `ConnectionAges` is `MaxConnectionAge` and its grace; a
call that ends so has ended, and is not cut by the end of the process. A TLS
file that cannot be read ends the process like any other failed start.

### RemoteCodecs and the code

A value is a batch of payloads that one codec encodes (`GoEncode`,
`TypeScriptEncode`), Temporal keeps (`history`) and either codec decodes, any
number of times. Requests are single steps, because `CodecServer` has their
interleavings; `Encoded`, `Stored` and `Decoded` are the codec's two loops.
Bytes are terms, so that each conversion is what it does to them: protobuf
loses nothing, `jsonToPayloads` and `payloadsToJSON` change nothing, and
`Buffer.from(text, 'base64')` undoes base64 and mangles other texts. In
particular `s3-reference` read as base64 and written again is `s3+reference`.
`SizeOf` is `calculatePayloadSize`: data and every entry of the metadata, the
injected context included, in the form the server sees, so that the same payload
is larger over HTTP, in base64, than over gRPC.
`ContextAfter` is the loop of `extractWorkflowContext` after so many rounds; the
two codecs differ in when they stop. The TypeScript loop takes a field that has
its default value for one it has not found, so that it never stops early for a
workflow of the namespace `default`. `GoEncodeFails`, `TypeScriptEncodeFails`
and `TypeScriptDecodeFails` are any failure on the way: the Go codec hands the
error to the SDK, the TypeScript codec goes on with the payloads it has.
`samples/go-worker/internal/codec` declares `RemotePayloadCodec` in two files;
the model follows `remote_context.go`.

## Runs

| Run | Question | Instance |
|---|---|---|
| `codec_batches` | Are answers complete, ordered and atomic, is the threshold where it should be, does each failure answer for its own garbage only, does no step take a request back, does every request end? | 2 requests of 0 to 2 payloads, sizes below and exactly on the threshold, one payload with 2 serialisations, one that claims to be a reference, 1 replica, weak fairness |
| `codec_replicas` | Do late and concurrent PUTs agree, is every published reference retrievable, do decodes return the originals, do the counters agree? | 3 requests of 0 or 1 payload, two payloads on and above the threshold with one serialisation each, 2 replicas, 1 crash, 1 removal, 2 contexts with the same keys |
| `codec_dedup` | Is a payload stored once? (violated) | 2 requests |
| `cleanup_window` | Is everything removed while `CheckIfArchived` still lets it through, and nothing before the grace period is over? | 2 runs of one id, which may be a chain, 7 days, grace 1, archive age 4, so three tries, payloads a day late, 2 faults, late deletions |
| `cleanup_overlap` | Do removals respect the grace period when cleanups overlap and repeat, does each step bring a cleanup nearer to its end, and does every cleanup end? | 2 cleanups, nested ids, 2 days, 2 attempts, S3 takes 1 key per call, 1 fault, late deletions, weak fairness |
| `cleanup_completed` | Is only removed what belongs to completed, non-archived executions? (violated) | 2 runs of one id |
| `cleanup_limit` | Is everything removed without any fault when there are many objects? (violated) | 2 objects, S3 takes 1 per call |
| `system` | Do references lead to their payloads until the grace period is over, and does nothing leak, with both programs at work? | 2 requests of 0 or 1 payload, 1 crash, 1 execution, 5 days, grace 0, archive age 3, payloads a day late, 1 fault, late deletions |
| `remote_codecs` | What survives which pair of codecs, and which context does a request name? | 1 value of 1 or 2 payloads: below the threshold, below it as base64 unless a context is injected, above it as base64 only, above it; without a context or with one of two, one of them in the namespace `default` |
| `remote_retrieval` | Does a worker get back what a worker of its language encoded? (violated) | the same |
| `front_end` | Does the limiter keep its rate and refuse excess only, does a shutdown end and cut nothing early, does a start come to something? | 2 HTTP requests of a client, 1 gRPC call, 1 request per tick, burst 2, windows of 0 and 1 ticks, at most 1 removal of the limiters in a window, 3 configurations, 1 fault (a taken port included), weak fairness |
| `front_limit` | Does a client address get no more than its burst at once? (violated) | 2 connections of a client |

Why the bounds are enough. Requests meet only in the bucket and in the counters
of their replica; three requests give every pair of overlapping writers to a key
together with a reader. A batch of two has a payload before and one after the
one that fails. Two contexts with equal keys stand for any number, and two large
payloads are enough to be confused with each other. Days 0 to 6 of
`cleanup_window` let an execution close, be taken up on the three days of its
window, two of which may fail, and grow too old. Its bounds are tight: with
three faults, with payloads two days late, or with a retention that is not
longer than the archive age (Temporal then drops the execution from the listing
before the window is over) `NothingLeaks` fails; the same holds of `system` with
a retention of three days. 30 days and 7 days of the real configuration give the
same two thresholds further apart. Two cleanups are the most that work at once
unless one runs for more than a day. Permutations of requests and replicas are a
symmetry of the codec server, since nothing orders them; it is used for safety
only. Values meet in the bucket only, where each finds what it stored itself, so
one value is enough for the remote codecs; two payloads give every order of two
contexts, or of a context and none. One execution is enough for `system`, since
executions meet in the prefixes only, which `cleanup_overlap` has. Two requests
are enough to race for one limiter, and for one of them to hold a removed
limiter while the other gets a new one. Names of clients do not interact but
through the removal of all limiters.

### Violations

- `codec_dedup`: IMPLEMENTATION_SUMMARY.md:18 promises hash-based deduplication.
  The hash is that of `proto.Marshal`'s output (`codec.go:120`), which differs
  from call to call for a payload with several metadata entries, so one payload
  is stored under several keys.
- `cleanup_completed`: README.md:11 promises cleanup for completed non-archived
  executions, README.md:134 that archived ones are skipped. The check looks at
  one run, the prefix (`s3cleanup.go:31`) lacks the run id: the cleanup of a
  closed run removes the objects of a later run that is still running, and
  those of archived ones.
- `cleanup_limit`: one `DeleteObjects` call carries all keys
  (`cleanup-worker/internal/storage/s3.go:109`); S3 refuses more than 1000, each
  day again, until `CheckIfArchived` takes the execution for archived.
- `remote_retrieval`: README.md:9 promises transparent retrieval, for workers in
  Go and TypeScript. The HTTP handlers neither decode nor encode base64
  (`http/server.go:455`), so the reference in their answer is mangled by the
  TypeScript codec, and nobody recognises it when it comes back.
- `front_limit`: the comments at `ratelimit.go:11` and `ratelimit.go:21` speak of
  limiters per IP address and of requests allowed at once. `RemoteAddr`
  (`ratelimit.go:102`) has the port in it, so each connection has a limiter.

## Fairness

`CodecServer!Fairness` is weak fairness of each request's own steps (the Go
scheduler runs every goroutine, and `context.WithTimeout` ends every S3 call)
and of its answer being delivered or lost (a connection works or breaks).
Nothing is assumed of S3, clients, crashes or removals. `Cleanup!FairSpec` is
weak fairness of each cleanup's next step: Temporal schedules workflow tasks
and ends every attempt at `StartToCloseTimeout`. Failing attempts are not fair,
and bounded. `FrontEnd!Fairness` is weak fairness of the start (an orchestrator
restarts what has ended, `main` runs), of the two shutdown calls returning when
they can, of time, and of the gRPC library closing old connections
(`MaxConnectionAge` and `MaxConnectionAgeGrace`, main.go:64). HTTP handlers may
hang, and clients need not end their streams. Signals are not fair.

## Proofs

All theorems hold for every value of the constants that meets the assumptions
below, so for any number of requests, replicas, executions, cleanups and days.
TLC checked the invariants on the instances of the runs before they were
proved. The proof of a step goes action by action, and in a module with several
inductive invariants the later ones use the earlier.

| Theorem | States |
|---|---|
| `CodecServerProofs!TypeCorrect` | `TypeOK` |
| `CodecServerProofs!StoreIsContentAddressed` | `ContentAddressed` |
| `CodecServerProofs!ReferencesAreRetrievable` | `PublishedRetrievable` |
| `CodecServerProofs!DecodeReturnsOriginals` | `RoundTrip` |
| `CodecServerProofs!RequestsMoveOn` | `RequestsAdvance` |
| `CodecRefinementProofs!CodecServerIsTransparent` | `ImplementsTransparentCodec` |
| `CodecFailureProofs!FailuresAreCounted` | `ErrorsSurface` |
| `CodecFailureProofs!GarbageComesFromFailure` | `OrphansOnlyAfterFailure` |
| `CleanupProofs!TypeCorrect` | `TypeOK` of `Cleanup` |
| `CleanupProofs!RemovalsRespectGrace` | `GraceRespected` |
| `CleanupProofs!NoObjectLeaks` | `NothingLeaks` of `Cleanup`, under `WideWindow` |
| `CleanupProofs!CleanupsMoveOn` | `CleanupsAdvance`, for finitely many executions |
| `SystemProofs!SystemIsCodecServer`, `SystemIsCleanup` | each half of the composition behaves as it does alone |
| `SystemProofs!SystemIsTransparent` | `ImplementsTransparentCodec`, with the cleanup worker at work |
| `SystemProofs!PayloadsSurviveGrace` | `SafeUntilGrace` |
| `SystemProofs!NoUploadLeaks` | `NothingLeaks` of `System`, under `WideWindow` |
| `FrontEndProofs!TypeCorrect` | `TypeOK` of `FrontEnd` |
| `FrontEndProofs!RateIsKept` | `AtMostRate` |
| `FrontEndProofs!RefusalsAreAtRate` | `RefusesOnlyExcess` |
| `FrontEndProofs!HealthMeansBoth` | `HealthyServesBoth` |
| `FrontEndProofs!NothingIsCut` | `RequestsRunToTheEnd` |
| `RemoteCodecsProofs!GoSurvives` | `GoIsTransparent` |
| `RemoteCodecsProofs!SmallSurvives` | `SmallUnharmed` |
| `RemoteCodecsProofs!RequestsNameOne` | `NamesItsWorkflow` |

Assumptions, all named in the modules that declare the constants: identifiers
are non-empty (`ContextAssumption`), SHA-256 has no collisions
(`HashAssumption`), two payloads have no serialisation in common
(`MarshalAssumption`), applications do not hand references to encode
(`ItemAssumption`), and the types of the parameters (`BoundsAssumption`,
`CleanupAssumption`, `SystemAssumption`, `LimiterAssumption`,
`RemoteAssumption`: an injected context has all three fields, as `InjectContext`
writes them, with any values). `None` is none of the values it stands beside.

### The codec server

None of its properties is inductive. `IInv` adds to them what they rest on:
every PUT on the wire carries bytes of the hash its key ends with (`WireInv`),
published items are references that are retrievable or payloads that stand for
themselves (`PublishedInv`), and per request: encode requests carry plain
payloads, a request in `stored` has its own bytes under its key or somebody
removed them (`UploadInv`), every output so far stands for the payload that was
asked for (`OutputInv`), and a decode request carries published items
(`DecodeInv`). The central lemma is `KeyDeterminesData`: a key ends with the
hash of its bytes, so that keys that coincide, of different contexts too, carry
the same bytes, and an overwrite changes nothing. `Invariance` then goes action
by action.

`CodecServerIsTransparent` maps each step to one of `TransparentCodec` or to a
stutter: `Deliver` is the answer, a failure the error, and everything between
the start of a request and its end is invisible. It needs `SizesInv` besides
`IInv`: batches keep their bound, and an encode answer holds a payload as it is
only below the threshold.

`FailuresAreCounted` is about cardinalities of sets of requests: a request that
begins to fail enters the set of failing ones of its replica and kind and adds
one to an S3 counter, and one that runs its deferred `Record*` call leaves the
set and adds one to a request counter (`FailingEnters`, `FailingLeaves`). A
crash resets the counters and empties the sets of its replica together.
`GarbageComesFromFailure` has two halves. A key in an output, or of a PUT on the
wire, is that of a payload of the request that handles it (`KeysInv`), so that
what S3 applies late is of a request that has failed by then. And a name is
handed on from the bytes in flight to the output, the answer and the history, or
its request fails (`NamesHandedOn`).

`RequestsMoveOn` is the part of `EveryRequestEnds` that needs no fairness. A
request has `StepsLeft`: at most three steps for each payload (start, PUT,
answer) and four more, which bound what follows the last payload or a failure.
Every step that moves the request lowers it, and steps of others leave it alone,
so that a request can only stop by never being scheduled again. A late PUT does
not touch the request any more that left it on the wire, which is why failures
cannot restart it.

### The cleanup worker

`IInv` of `CleanupProofs` is `TypeOK` with what time does (`TimeInv`) and where
a cleanup stands (`PlaceInv`): it has one execution in hand within the loop
and none outside, everything on its list is closed for the grace period, and
the keys it found lie under the prefix of the one in hand. That a listed
execution stays closed is why an old listing is harmless, and so is a call that
S3 applies late (`OverdueInv`), and `RemovalsRespectGrace` follows.

`NoObjectLeaks` rests on `LeakInv`. As long as objects of an execution that is
due remain, Temporal still lists it; `DaysDue`, the days since it became due,
are at most one more than the faults so far; if a cleanup came to its end today
they are no more than the faults; and each cleanup that began today still has
the execution ahead of it, or every day is accounted for. The listing of a day
then has the execution on it, and its deletion takes all that remains, since
nothing is added to it (`RemainingShrinks`). The window has more days than there
are faults, so the objects are gone at its end.

The theorem has `WideWindow` as its hypothesis, because the code guarantees no
part of it (the tight bounds above, and `cleanup_limit`, show four of them
missed). Payloads come at most a grace period late; Temporal's retention is
longer than the archive age; cleanup fails on fewer days than there are between
grace period and archive age (23 with the defaults of 7 and 30 days); the
objects under a workflow's prefix fit into one `DeleteObjects` call (see
`cleanup_limit`); and two executions have no key in common, which holds as long
as identifiers contain no slashes. The instance of `cleanup_window` meets it.

`CleanupsMoveOn` is the same kind of measure as that of the codec server, in
three levels: executions on the list (`Load`), attempts left for the activity at
hand, and the place within the attempt (`StepsFrom`). A failed attempt goes back
to the beginning of its activity, but costs an attempt, and taking an execution
off the list pays for all attempts on it. The hypothesis
`IsFiniteSet(Execution)` says that a listing has an end; it does, being one
answer of Temporal held in memory.

### The composition

`SystemIsCodecServer` carries the theorems about the codec server over to
`System`. For `PayloadsSurviveGrace`, `GraceInv` says what the codec server
alone does not: executions on the list of a cleanup are closed for the grace
period (`ListInv`), and so the keys it found, and in the end removed
(`RemovedInv`), are covered by such an execution. `ClosedForever` is the fact
that makes an old listing harmless, and `WorkStep` what all nine steps of a
cleanup have in common. `SystemIsCleanup` does the same for the other half, with
the keys of the bucket as objects: a PUT that S3 applies is a payload that is
stored, and a request that fails on its way is none. `SystemIsTransparent`
follows from `SystemIsCodecServer`: what the cleanup removes turns answers into
errors and never changes one. `NoUploadLeaks` is `NoObjectLeaks`, instantiated:
what failed requests, lost answers and late PUTs leave behind goes with the
rest.

### The front end

`LimiterInv`: a limiter is the one of a single name, in the table or in the
hands of requests (`TableInv`), and two bounds hold for every name and window
(`UsageInv`). The upper one, `RateOf`, is `AtMostRate` made inductive. What a
name may still be admitted with (`Potential`) is what its limiter has, or the
full one it would get, and one request for each that holds a removed limiter;
admissions and `Potential` together are within the allowance. An admission moves
a request from one to the other, a tick adds the rate to both sides, and a
removal adds at most a burst and a request per slot, and grants as much, since
`removed` counts it. (A request asks the limiter it holds once, so that a
removed limiter admits no more than one for each request that holds it.) The
comment at `ratelimit.go:51` calls the removal safe; that is what it costs.

`FreshLimiter` is the fact about the model that garbage always suffices: table
and requests refer to fewer limiters than there are numbers, by the pigeonhole
principle. The least free one exists because `<` is well founded on the
naturals, which `NumberLemmas` derives from the library.

Refusals are the other direction: a lower bound on the level (`FloorOf`), for
removed limiters too. A limiter has everything of the rate that its name left
unused in the last `w` ticks, or was full within them and has what was left
unused since. From it follows `RefusesOnlyExcess`, for any burst: when a name is
refused, then in each window that ends now it has used what the rate gave it in
that time, or in a shorter one more than burst and rate allow. More cannot be
said within finitely many windows: a limiter may have been refilled in part for
longer than any of them.

`MainInv` says, for each position of `func main`, which of the servers is open
and what may still be at work. Both `HealthMeansBoth` and `NothingIsCut` are
read off it. The latter states its one exception: an HTTP server that never
opened and finds its port with another process ends the process, gRPC calls or
not (`main.go:164`). A configuration with one port for both servers is not part
of it, since `Validate` refuses it.

### The remote codecs

`IInv` of `RemoteCodecsProofs` relates the history of a value to its batch: what
either codec encodes leaves payloads below the threshold unharmed (`Unharmed`),
what the Go codec encodes is exactly `Encoded` of the context it named, and what
Go decodes from that is the batch. That a payload which is small in base64 is
small as protobuf, entry by entry of its metadata, is `SizeOfSmall`.
`LastContextCounts` is the fact about both extraction loops: whenever they stop,
they have the whole context of one payload, never a mixture, or the default.

### Only model-checked

- `EveryRequestEnds`, `CleanupEnds`, `ShutdownEnds` and `ReplicaServes` are liveness under
  fairness, which is out of the prover's reach. Of the first two, the theorems about
  `RequestsAdvance` and `CleanupsAdvance` leave to TLC that a fair step is enabled as long as
  there is something to do.
- The five violations, which are counterexamples.

## Abstractions

- Conversions on the wire are in `RemoteCodecs` only; requests that fail
  validation or authentication are requests that are not sent.
- The handlers never hand nil payloads to the codec; `proto.Marshal` of a payload
  and `proto.Unmarshal` of marshalled bytes do not fail.
- Clients send each request once. A retry of the application is another request.
- Attempts of an activity and repetitions of an S3 call inside one attempt are not told apart.
- Retries of PUTs inside the S3 SDK carry the same bytes to the same key, so one
  PUT on the wire stands for them.
- S3 is strongly consistent, as it has been since 2020. A listing in pages is one step.
- Visibility is read as it is, without delay.
- A PUT is applied by S3 no later than `MaxDelay` days after its execution has ended.
- Time at the front end is in ticks, and the rate a whole number of units per
  tick; `golang.org/x/time/rate` counts in floating point.
- HTTP requests to `/health`, which pass neither limiter nor authentication,
  are left out.
- Outside us-east-1 a bucket is created by other means or not at all.
- Sizes, latencies, logging and object metadata are left out.

## Words and code

Where the repository's words and its code differ and no run is about it, the
model follows the code. README.md:8 says that payloads "exceeding 2MB" are
stored; `codec.go:56` stores those of exactly the threshold too, which
`ImplementsTransparentCodec` states independently of `NeedsStore`. README.md:132
says that cleanup runs every 6 hours; the worker has a ticker of 24 hours
(`cleanup-worker/cmd/worker/main.go:107`). The comment at `ratelimit.go:45` says
that limiters go which "haven't been used recently"; all of them go.

## Plan

Done: the codec server, the abstract codec, the cleanup worker, the remote
codecs, the rate limiter and the life cycle of the codec server, the
composition of codec server and cleanup worker, and proofs of every safety
and action property of these. What is left:

1. `RemoteCodecs` refined to `TransparentCodec`, for Go workers.
2. Objects of unknown workflows, which no cleanup lists, in `System`.

## Not modelled

Deployment files, monitoring, scripts, sample workflows and load tests have no
program logic of their own. Comparing an API key is stateless, parsing
environment variables is pure. Byte counts, latency windows and averages in
`Metrics` are written under one lock and read by the metrics handler only.

Sizes other than the threshold, the batch and the listing are not modelled
either: namespace, workflow id and run id may have 1512 bytes together where an
S3 key has 1024, so such a workflow fails on every large payload
(`http/server.go:33`), and a codec client of the Go worker receives at most 4 MB
where the server may send 100 MB (`remote_context.go:48`). Keys and messages
have no length here, so no run can show it. Nor is the health check's effect on
the orchestrator (`http/server.go:304`): it does not ask S3, so a replica
without S3 stays in service. There is one bucket, so a bucket that changes while
references to the old one exist is not modelled (`codec.go:190`).
