------------------------------ MODULE FrontEnd ------------------------------
(***************************************************************************)
(* The life of one codec server process, with the requests it has taken:   *)
(* configuration, bucket check, start of the gRPC and of the HTTP server,  *)
(* the way of an HTTP request to its handler, graceful shutdown and exit   *)
(* (codec-server/cmd/server/main.go, internal/config, internal/storage     *)
(* NewS3Storage, internal/http AuthMiddleware).                            *)
(*                                                                         *)
(* What happens between a handler's start and its end is module            *)
(* CodecServer.  Around the process: an orchestrator that starts it again  *)
(* whenever it has ended, other replicas, S3 calls that fail, and somebody *)
(* else who may take the HTTP port.                                        *)
(***************************************************************************)
EXTENDS RateLimiter

CONSTANTS
    GrpcCall,           \* gRPC calls in the process at the same time
    Setting,            \* configurations it may be given
    ShutdownTimeout,    \* ticks of shutdownCtx: 30 s
    MaxFaults,          \* bound on crashes, failed calls to S3 and for the
                        \* gRPC port, and on the times HTTP's port is taken
    MaxRemovals         \* bound on the removals of limiters in the horizon

ASSUME FrontEndAssumption ==
    /\ ShutdownTimeout \in Nat /\ MaxFaults \in Nat /\ MaxRemovals \in Nat

VARIABLES
    main,           \* where the main goroutine is
    http,           \* the HTTP server: its goroutine starts, it takes
                    \* requests, it does not
    grpc,           \* the gRPC server: not yet or no longer there, its port
                    \* is bound, it takes calls
    waited,         \* ticks since the signal, as far as shutdownCtx
    call,           \* the gRPC calls
    bucketExists,
    usEast1,        \* whether S3_REGION is us-east-1
    portTaken,      \* whether somebody else listens on the HTTP port
    faults

servers == <<http, grpc>>
world == <<bucketExists, usEast1, portTaken, config>>
vars == <<limiterVars, main, servers, waited, call, world, faults>>

(* "waiting" for the signal, with the servers in goroutines of their own   *)
Main == {"down", "checking", "creating", "listening", "waiting", "draining",
         "stopping"}

(* "stream" is a call of the reflection service, which ends when its       *)
(* client wants.                                                           *)
CallState == {"idle", "unary", "stream"}

TypeOK ==
    /\ LimiterTypeOK
    /\ main \in Main
    /\ http \in {"closed", "starting", "open"}
    /\ grpc \in {"closed", "bound", "serving"}
    /\ waited \in 0..ShutdownTimeout
    /\ call \in [GrpcCall -> CallState]
    /\ bucketExists \in BOOLEAN /\ usEast1 \in BOOLEAN
    /\ portTaken \in BOOLEAN
    /\ config \in Setting
    /\ faults \in Nat

Init ==
    /\ config \in Setting
    /\ LimiterInit
    /\ main = "down"
    /\ http = "closed" /\ grpc = "closed"
    /\ waited = 0
    /\ call = [g \in GrpcCall |-> "idle"]
    /\ bucketExists \in BOOLEAN /\ usEast1 \in BOOLEAN
    /\ portTaken = FALSE
    /\ faults = 0
-----------------------------------------------------------------------------
(***************************************************************************)
(* Start.                                                                  *)
(***************************************************************************)
Port == 1..65535
MaxThreshold == 100 * 1024 * 1024
MaxRps == 10000
MaxBurst == 20000

RateInRange(c) == c.rps \in 0..MaxRps /\ c.burst \in 1..MaxBurst

(* "complete": bucket, region and a known log level are given, and the TLS *)
(* files if TLS is on.                                                     *)
InRange(c) ==
    /\ c.grpcPort \in Port /\ c.httpPort \in Port
    /\ c.threshold \in 1024..MaxThreshold
    /\ RateInRange(c)

MutValidate(c) == InRange(c) /\ c.complete

Validate(c) == InRange(c) /\ c.complete /\ c.grpcPort # c.httpPort

Goto(place) ==
    /\ main' = place
    /\ UNCHANGED <<limiterVars, waited, call>>

(* An invalid configuration makes LoadConfig panic, each time again.       *)
LoadConfig ==
    /\ main = "down"
    /\ Validate(config)
    /\ Goto("checking")
    /\ UNCHANGED <<servers, world, faults>>

(* ensureBucket.  Any error of HeadBucket counts as "no bucket".           *)
MutHeadBucket ==
    /\ main = "checking"
    /\ Goto("creating")
    /\ UNCHANGED <<servers, world, faults>>

HeadBucket ==
    /\ main = "checking"
    /\ Goto(IF bucketExists THEN "listening" ELSE "creating")
    /\ UNCHANGED <<servers, world, faults>>

Fault == faults < MaxFaults /\ faults' = faults + 1

HeadBucketFails ==
    /\ main = "checking"
    /\ Fault
    /\ Goto("creating")
    /\ UNCHANGED <<servers, world>>

(* Creating a bucket one has is no error in us-east-1.  Elsewhere S3 wants *)
(* a LocationConstraint, which the request does not have.                  *)
CreateBucket ==
    /\ main = "creating"
    /\ usEast1
    /\ bucketExists' = TRUE
    /\ Goto("listening")
    /\ UNCHANGED <<servers, usEast1, portTaken, config, faults>>

(* The process is gone, with everything it had.                            *)
Exit ==
    /\ main' = "down"
    /\ http' = "closed" /\ grpc' = "closed"
    /\ waited' = 0
    /\ call' = [g \in GrpcCall |-> "idle"]
    /\ ips' = [n \in Name |-> None]
    /\ level' = [l \in Limiter |-> 0]
    /\ slot' = [q \in Slot |-> Idle]
    /\ recent' = NothingAdmitted /\ removed' = Never
    /\ UNCHANGED world

(* log.Fatalf                                                              *)
CreateBucketFails ==
    /\ main = "creating"
    /\ IF usEast1 THEN Fault ELSE UNCHANGED faults
    /\ Exit

(* net.Listen for gRPC, in the main goroutine.  What follows until main    *)
(* waits for the signal starts the goroutines of the two servers.          *)
Listen ==
    /\ main = "listening"
    /\ grpc' = "bound" /\ http' = "starting"
    /\ Goto("waiting")
    /\ UNCHANGED <<world, faults>>

ListenFails ==
    /\ main = "listening"
    /\ Fault
    /\ Exit

(* The goroutines run in either order, or when the signal has come.  Serve *)
(* that comes after GracefulStop fails and ends the process, which then    *)
(* ends anyway.                                                            *)
ServeGrpc ==
    /\ main \in {"waiting", "draining"}
    /\ grpc = "bound"
    /\ grpc' = "serving"
    /\ Goto(main)
    /\ UNCHANGED <<http, world, faults>>

PortInUse == portTaken \/ config.httpPort = config.grpcPort

ServeHttp ==
    /\ main = "waiting"
    /\ http = "starting" /\ ~PortInUse
    /\ http' = "open"
    /\ Goto(main)
    /\ UNCHANGED <<grpc, world, faults>>

(* log.Fatalf, whatever gRPC calls are at work.  ListenAndServe may be     *)
(* past its check for a shutdown when the signal comes.                    *)
ServeHttpFails ==
    /\ main \in {"waiting", "draining", "stopping"}
    /\ http = "starting" /\ PortInUse
    /\ Exit
    /\ UNCHANGED faults
-----------------------------------------------------------------------------
(***************************************************************************)
(* Requests.                                                               *)
(***************************************************************************)
Request == UNCHANGED <<main, servers, waited, world, faults>>

ReceiveHttp(q) ==
    /\ http = "open"
    /\ \E source \in Source : Arrive(q, source)
    /\ Request /\ UNCHANGED call

Middleware(q) ==
    /\ GetLimiter(q) \/ Admit(q) \/ Refuse(q)
    /\ Request /\ UNCHANGED call

(* 401 from AuthMiddleware or the answer of the handler behind it: both    *)
(* have cost the client a request.                                         *)
AuthMiddleware(q) ==
    /\ slot[q].at = "admitted"
    /\ Answered(q)
    /\ UNCHANGED <<ips, level, history, call>>
    /\ Request

ReceiveGrpc(g) ==
    /\ grpc = "serving"
    /\ call[g] = "idle"
    /\ \E kind \in {"unary", "stream"} : call' = [call EXCEPT ![g] = kind]
    /\ Request /\ UNCHANGED limiterVars

EndCall(g, kinds) ==
    /\ call[g] \in kinds
    /\ call' = [call EXCEPT ![g] = "idle"]
    /\ Request /\ UNCHANGED limiterVars

(* With the handler's answer or the error of AuthInterceptor.              *)
CallReturns(g) == EndCall(g, {"unary"})

ClientEndsStream(g) == EndCall(g, {"stream"})

(* MaxConnectionAge and MaxConnectionAgeGrace end a connection whatever    *)
(* still runs on it.                                                       *)
MutConnectionAges(g) == EndCall(g, {"unary"})

ConnectionAges(g) == EndCall(g, {"unary", "stream"})
-----------------------------------------------------------------------------
(***************************************************************************)
(* Time and the end.                                                       *)
(***************************************************************************)
Tick ==
    /\ Elapse
    /\ waited' = IF main = "draining"
                 THEN Min({ShutdownTimeout, waited + 1}) ELSE waited
    /\ UNCHANGED <<main, servers, call, world, faults>>

HourlyCleanup ==
    /\ main \in {"waiting", "draining", "stopping"}
    /\ removed[Horizon] < MaxRemovals
    /\ CleanupStale
    /\ UNCHANGED <<main, servers, waited, call, world, faults>>

(* Shutdown of the HTTP server comes first; one that has not started will  *)
(* not.                                                                    *)
MutSignal ==
    /\ main = "waiting"
    /\ main' = "draining"
    /\ grpc' = "closed"
    /\ UNCHANGED <<limiterVars, http, waited, call, world, faults>>

Signal ==
    /\ main = "waiting"
    /\ main' = "draining"
    /\ http' = IF http = "open" THEN "closed" ELSE http
    /\ UNCHANGED <<limiterVars, grpc, waited, call, world, faults>>

(* It returns when no request is left or shutdownCtx is over.              *)
ShutdownReturns ==
    /\ main = "draining"
    /\ (\A q \in Slot : slot[q].at = "idle") \/ waited = ShutdownTimeout
    /\ grpc' = "closed"
    /\ main' = "stopping"
    /\ UNCHANGED <<limiterVars, http, waited, call, world, faults>>

(* GracefulStop waits for every call, and main returns.                    *)
GracefulStopReturns ==
    /\ main = "stopping"
    /\ \A g \in GrpcCall : call[g] = "idle"
    /\ Exit
    /\ UNCHANGED faults

Crash ==
    /\ main # "down"
    /\ Fault
    /\ Exit

OtherReplicaCreatesBucket ==
    /\ usEast1 /\ ~bucketExists
    /\ bucketExists' = TRUE
    /\ UNCHANGED <<limiterVars, main, servers, waited, call, usEast1,
                   portTaken, config, faults>>

(* Somebody else takes the HTTP port while it is free, or gives it up.     *)
TakePort ==
    /\ http # "open" /\ ~portTaken
    /\ portTaken' = TRUE
    /\ Fault
    /\ UNCHANGED <<limiterVars, main, servers, waited, call, bucketExists,
                   usEast1, config>>

FreePort ==
    /\ portTaken
    /\ portTaken' = FALSE
    /\ UNCHANGED <<limiterVars, main, servers, waited, call, bucketExists,
                   usEast1, config, faults>>
-----------------------------------------------------------------------------
StartUp ==
    \/ LoadConfig \/ HeadBucket \/ CreateBucket \/ CreateBucketFails
    \/ Listen \/ ServeGrpc \/ ServeHttp \/ ServeHttpFails

ShutDown == ShutdownReturns \/ GracefulStopReturns

Http(q) == Middleware(q) \/ AuthMiddleware(q)

Next ==
    \/ StartUp \/ HeadBucketFails \/ ListenFails
    \/ \E q \in Slot : ReceiveHttp(q) \/ Http(q)
    \/ \E g \in GrpcCall : \/ ReceiveGrpc(g) \/ CallReturns(g)
                           \/ ClientEndsStream(g) \/ ConnectionAges(g)
    \/ Tick \/ HourlyCleanup
    \/ Signal \/ ShutDown \/ Crash
    \/ OtherReplicaCreatesBucket \/ TakePort \/ FreePort

Spec == Init /\ [][Next]_vars

(* The orchestrator starts a process that has ended, time passes, and the  *)
(* gRPC library ends old connections.  HTTP handlers may hang.             *)
Fairness ==
    /\ WF_vars(StartUp) /\ WF_vars(ShutDown) /\ WF_vars(Tick)
    /\ \A g \in GrpcCall : WF_vars(ConnectionAges(g))

FairSpec == Spec /\ Fairness
-----------------------------------------------------------------------------
(***************************************************************************)
(* Properties.                                                             *)
(***************************************************************************)

(* A process that ends, other than by a crash, cuts no gRPC call, and no   *)
(* HTTP request that has not had the time of shutdownCtx: neither at       *)
(* shutdown nor because its configuration comes to nothing half way.  The  *)
(* one exception is log.Fatalf of an HTTP server that never opened because *)
(* somebody else has its port: that cuts gRPC calls, and nothing else      *)
(* does.  (A call that the gRPC library ends with its old connection is no *)
(* longer at work.)                                                        *)
RequestsRunToTheEnd ==
    [][(main # "down" /\ main' = "down" /\ UNCHANGED faults) =>
           /\ \/ \A g \in GrpcCall : call[g] = "idle"
              \/ http = "starting" /\ portTaken
           /\ \/ \A q \in Slot : slot[q].at = "idle"
              \/ waited = ShutdownTimeout]_vars

(* Health checks go to the HTTP server.  Whenever it answers them, the     *)
(* gRPC server has its port and has not begun to stop, at the start and at *)
(* the end as well.                                                        *)
HealthyServesBoth == http = "open" => grpc # "closed"

(* A shutdown ends, although GracefulStop has no deadline, HTTP handlers   *)
(* may hang and reflection clients may stay.                               *)
ShutdownEnds == main \in {"draining", "stopping"} ~> main = "down"

(* A process with a valid configuration comes to serve on both ports (or   *)
(* is asked to stop first), whatever other replicas do to the bucket at    *)
(* the same time and whatever HeadBucket failed for, unless there is no    *)
(* bucket and it cannot create one, or somebody else has its HTTP port.    *)
CanHaveBucket == bucketExists \/ usEast1

ReplicaServes ==
    (main = "down" /\ Validate(config) /\ CanHaveBucket) ~>
        \/ http = "open" /\ grpc = "serving"
        \/ main = "draining" \/ portTaken
=============================================================================
