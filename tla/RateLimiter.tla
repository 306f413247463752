----------------------------- MODULE RateLimiter ----------------------------
(***************************************************************************)
(* The rate limiter in front of the HTTP handlers of one codec server      *)
(* process (codec-server/internal/ratelimit/ratelimit.go): a table of      *)
(* token buckets by the name getIP gives a client, which is emptied every  *)
(* hour by each of the three Middleware calls in main.go.                  *)
(*                                                                         *)
(* A request takes its limiter out of the table in one step and asks it in *)
(* another, so that it may hold one that is no longer in the table.        *)
(* Time is counted in ticks; a limiter gains config.rps units per tick and *)
(* a request takes Cost of them, so that Cost is the ticks in a second.    *)
(***************************************************************************)
EXTENDS Integers, FiniteSets, FiniteSetsExt, Functions

CONSTANTS
    Slot,       \* HTTP requests in the process at the same time
    Source,     \* where they come from: [client, forwarded, realIP, remote]
    Cost,       \* units that one request takes
    Horizon,    \* ticks for which admissions are counted
    None        \* no header, no limiter, no source

ASSUME LimiterAssumption ==
    /\ IsFiniteSet(Slot) /\ IsFiniteSet(Source)
    /\ Cost \in Nat \ {0} /\ Horizon \in Nat
    /\ None \notin Nat

VARIABLES
    config,     \* the configuration of the process
    ips,        \* the limiter of each name, in the table
    level,      \* the units each limiter has
    slot,       \* the HTTP requests
    recent,     \* history: requests admitted per name in the last w ticks
    removed     \* history: removals of the limiters in the last w ticks

history == <<recent, removed>>
limiterVars == <<ips, level, slot, history>>

(* The headers, whole, before the address, which has the port in it.       *)
getIP(source) ==
    IF source.forwarded # None THEN source.forwarded
    ELSE IF source.realIP # None THEN source.realIP
    ELSE source.remote

Name == {getIP(source) : source \in Source}

(* Limiters are in the table or held by a request; the others are garbage. *)
Limiter == 1..(Cardinality(Name) + Cardinality(Slot))

RequestAt(place, source, held) ==
    [at |-> place, source |-> source, held |-> held]

Idle == RequestAt("idle", None, None)

Admitted == RequestAt("admitted", None, None)

(* A request that is "admitted" is with AuthMiddleware or the handler.     *)
Places == {"arrived", "asking", "admitted"}

HttpRequest ==
    [at : Places, source : Source \cup {None}, held : Limiter \cup {None}]

LimiterTypeOK ==
    /\ ips \in [Name -> Limiter \cup {None}]
    /\ level \in [Limiter -> Nat]
    /\ slot \in [Slot -> HttpRequest \cup {Idle}]
    /\ recent \in [Name -> [0..Horizon -> Nat]]
    /\ removed \in [0..Horizon -> Nat]

Full == config.burst * Cost

Never == [w \in 0..Horizon |-> 0]
Counted(windows) == [w \in 0..Horizon |-> windows[w] + 1]
OneTickOn(windows) ==
    [w \in 0..Horizon |-> IF w = 0 THEN 0 ELSE windows[w - 1]]

NothingAdmitted == [n \in Name |-> Never]

LimiterInit ==
    /\ ips = [n \in Name |-> None]
    /\ level = [l \in Limiter |-> 0]
    /\ slot = [q \in Slot |-> Idle]
    /\ recent = NothingAdmitted
    /\ removed = Never
-----------------------------------------------------------------------------
NameOf(q) == getIP(slot[q].source)

Live(table, requests) ==
    (Range(table) \cup {requests[q].held : q \in Slot}) \ {None}

(* The garbage collector: what nobody refers to any more is blank.         *)
Collect == level' = [l \in Limiter |-> IF l \in Live(ips', slot')
                                       THEN level[l] ELSE 0]

Answered(q) == slot' = [slot EXCEPT ![q] = Idle]

Arrive(q, source) ==
    /\ slot[q].at = "idle"
    /\ slot' = [slot EXCEPT ![q] = RequestAt("arrived", source, None)]
    /\ UNCHANGED <<ips, level, history>>

Take(q, l) ==
    slot' = [slot EXCEPT ![q] = RequestAt("asking", @.source, l)]

(* The lock is held from the look-up to the insertion; without the         *)
(* insertion each request has a limiter of its own.                        *)
MutGetLimiter(q) ==
    /\ slot[q].at = "arrived"
    /\ IF ips[NameOf(q)] # None
       THEN Take(q, ips[NameOf(q)]) /\ UNCHANGED <<ips, level>>
       ELSE LET fresh == Min(Limiter \ Live(ips, slot)) IN
            /\ Take(q, fresh)
            /\ level' = [level EXCEPT ![fresh] = Full]
            /\ UNCHANGED ips
    /\ UNCHANGED history

(* A new limiter starts with nothing.                                      *)
MutLimiterStartsEmpty(q) ==
    /\ slot[q].at = "arrived"
    /\ IF ips[NameOf(q)] # None
       THEN Take(q, ips[NameOf(q)]) /\ UNCHANGED ips
       ELSE LET fresh == Min(Limiter \ Live(ips, slot)) IN
            /\ Take(q, fresh)
            /\ ips' = [ips EXCEPT ![NameOf(q)] = fresh]
    /\ UNCHANGED <<level, history>>

GetLimiter(q) ==
    /\ slot[q].at = "arrived"
    /\ IF ips[NameOf(q)] # None
       THEN Take(q, ips[NameOf(q)]) /\ UNCHANGED <<ips, level>>
       ELSE LET fresh == Min(Limiter \ Live(ips, slot)) IN
            /\ Take(q, fresh)
            /\ ips' = [ips EXCEPT ![NameOf(q)] = fresh]
            /\ level' = [level EXCEPT ![fresh] = Full]
    /\ UNCHANGED history

(* Allow is atomic.  An admission is booked on the name, also when the     *)
(* limiter that gave it is no longer in the table.                         *)
Book(q) ==
    /\ recent' = [recent EXCEPT ![NameOf(q)] = Counted(@)]
    /\ UNCHANGED removed

Spend(q, units) ==
    level' = [l \in Limiter |->
                 IF l \notin Live(ips', slot') THEN 0
                 ELSE IF l = slot[q].held THEN level[l] - units ELSE level[l]]

MutAdmit(q) ==
    /\ slot[q].at = "asking"
    /\ slot' = [slot EXCEPT ![q] = Admitted]
    /\ Book(q)
    /\ UNCHANGED ips
    /\ Spend(q, Cost)

Admit(q) ==
    /\ slot[q].at = "asking"
    /\ level[slot[q].held] >= Cost
    /\ slot' = [slot EXCEPT ![q] = Admitted]
    /\ Book(q)
    /\ UNCHANGED ips
    /\ Spend(q, Cost)

(* 429.  A refusal costs nothing.                                          *)
Refuse(q) ==
    /\ slot[q].at = "asking"
    /\ level[slot[q].held] < Cost
    /\ Answered(q)
    /\ UNCHANGED <<ips, history>>
    /\ Collect

(* Every hour, three times, whoever is on the way: a request that has its  *)
(* limiter goes on to ask it.                                              *)
CleanupStale ==
    /\ ips' = [n \in Name |-> None]
    /\ removed' = Counted(removed)
    /\ UNCHANGED <<slot, recent>>
    /\ Collect

(* Time passes for the limiters and the history.                           *)
Elapse ==
    /\ level' = [l \in Limiter |->
                    IF l \in Live(ips, slot)
                    THEN Min({Full, level[l] + config.rps}) ELSE 0]
    /\ recent' = [n \in Name |-> OneTickOn(recent[n])]
    /\ removed' = OneTickOn(removed)
    /\ UNCHANGED <<ips, slot>>
-----------------------------------------------------------------------------
(***************************************************************************)
(* Properties.                                                             *)
(***************************************************************************)

(* What a name gets in any window of time, from limiters in the table and  *)
(* from removed ones, however its requests interleave with each other and  *)
(* with the removals: what the rate adds, and one burst with one request   *)
(* per slot (those on their way to a limiter that is removed) to begin     *)
(* with and again for each removal in the window.                          *)
AtMostRate ==
    \A n \in Name, w \in 0..Horizon :
        recent[n][w] > 0 =>
            recent[n][w] * Cost <=
                (1 + removed[w]) * (Full + Cardinality(Slot) * Cost)
                + config.rps * w

(* A request is refused, by whatever limiter it holds, only if its name    *)
(* has used what the rate gave it, however far one looks back, or more     *)
(* than burst and rate allow in a shorter time than that.                  *)
RefusesOnlyExcess ==
    \A q \in Slot : (slot[q].at = "asking" /\ level[slot[q].held] < Cost) =>
        \A w \in 0..Horizon :
            \/ (recent[NameOf(q)][w] + 1) * Cost > config.rps * w
            \/ \E v \in 0..w :
                   (recent[NameOf(q)][v] + 1) * Cost > Full + config.rps * v

(* ratelimit.go:11, "manages rate limiters per IP address", and            *)
(* ratelimit.go:21, "maximum number of requests allowed at once": without  *)
(* a removal one client address gets no more than the burst in one tick.   *)
NamesOf(client) ==
    {getIP(source) : source \in {x \in Source : x.client = client}}

BurstPerAddress ==
    \A source \in Source :
        MapThenSumSet(LAMBDA n : recent[n][0], NamesOf(source.client))
            <= config.burst
=============================================================================
