---------------------------- MODULE CleanupProofs ---------------------------
(***************************************************************************)
(* Theorems about the cleanup worker, for every number of overlapping      *)
(* cleanups, every set of executions and payloads and every configuration. *)
(***************************************************************************)
EXTENDS Cleanup, TLAPS, FiniteSetTheorems

-----------------------------------------------------------------------------
(***************************************************************************)
(* Keys and prefixes.                                                      *)
(***************************************************************************)
LEMMA StrictlyExtended ==
    ASSUME NEW S, NEW s \in Seq(S), NEW t \in Seq(S), NEW u \in Seq(S),
           t # << >>
    PROVE  IsStrictPrefix(s, (s \o t) \o u)
<1>1. Len(s) \in Nat /\ Len(t) \in Nat \ {0} /\ Len(u) \in Nat
  OBVIOUS
<1>2. /\ s \o t \in Seq(S)
      /\ Len(s \o t) = Len(s) + Len(t)
      /\ \A i \in 1..Len(s) : (s \o t)[i] = s[i]
  OBVIOUS
<1>3. /\ (s \o t) \o u \in Seq(S)
      /\ Len((s \o t) \o u) = Len(s) + Len(t) + Len(u)
      /\ \A i \in 1..Len(s) : ((s \o t) \o u)[i] = s[i]
  BY <1>1, <1>2
<1> DEFINE w == (s \o t) \o u
<1>4. s # w
  BY <1>1, <1>3
<1>5. SubSeq(w, 1, Len(s)) = SubSeq(s, 1, Len(s))
  <2> HIDE DEF w
  <2>1. w \in Seq(S) /\ Len(w) >= Len(s) /\ \A i \in 1..Len(s) : w[i] = s[i]
    BY <1>1, <1>3 DEF w
  <2> QED
    BY <1>1, <2>1
<1>6. Len(s) <= Len(w)
  BY <1>1, <1>3
<1> QED
  BY <1>4, <1>5, <1>6 DEF IsStrictPrefix, IsPrefix

(* The objects of every run of a workflow id lie under its prefix.         *)
LEMMA RunsUnderPrefix ==
    ASSUME NEW c \in Execution, NEW e \in Execution, SameWorkflow(c, e),
           NEW d \in Data
    PROVE  /\ KeyOf(c, d) \in Key
           /\ UnderPrefix(KeyOf(c, d), WorkflowPrefix(e))
<1> DEFINE s == c.ns \o c.wf
<1>1. /\ s \in Seq(Segment) /\ <<Hash[d]>> \in Seq(Segment)
      /\ c.run \in Seq(Segment) /\ c.run # << >>
  BY ContextAssumption, HashAssumption DEF Execution
<1>2. KeyOf(c, d) = (s \o c.run) \o <<Hash[d]>>
  BY DEF KeyOf
<1>3. WorkflowPrefix(e) = s
  BY DEF WorkflowPrefix, SameWorkflow
<1> HIDE DEF s
<1>4. IsStrictPrefix(s, (s \o c.run) \o <<Hash[d]>>)
  BY <1>1, StrictlyExtended
<1> QED
  BY <1>2, <1>3, <1>4 DEF UnderPrefix, Key, Execution
-----------------------------------------------------------------------------
(***************************************************************************)
(* The inductive invariant of safety.  Time: executions close before       *)
(* today, cleanups start before today, and what is dropped has been kept   *)
(* for its retention.  Place: a cleanup has one execution in hand from     *)
(* NextWorkflow to Continue and none outside; on its list and in its hand  *)
(* are executions closed for the grace period; the keys it has found lie   *)
(* under the prefix of the one in hand, and so did those that S3 has still *)
(* to remove.                                                              *)
(***************************************************************************)
TimeInv ==
    /\ faults <= MaxFaults
    /\ \A c \in Execution :
           /\ closeDay[c] <= now
           /\ status[c] = "dropped" => closeDay[c] + Retention <= now
    /\ \A w \in Worker : startedOn[w] <= now

InHand == {"checking", "deleting", "found", "removed"}

Listed(w) == todo[w] \cup current[w]

PlaceInv(w) ==
    /\ IF stage[w] \in InHand THEN \E c \in Execution : current[w] = {c}
                              ELSE current[w] = {}
    /\ \A c \in Listed(w) : ClosedForGrace(c)
    /\ \A k \in found[w] :
           \E c \in current[w] : UnderPrefix(k, WorkflowPrefix(c))

Covered(k) ==
    \E c \in Execution : ClosedForGrace(c) /\ UnderPrefix(k, WorkflowPrefix(c))

OverdueInv == \A keys \in overdue : \A k \in keys : Covered(k)

IInv ==
    /\ TypeOK
    /\ TimeInv
    /\ \A w \in Worker : PlaceInv(w)
    /\ OverdueInv

LEMMA InvInit == Init => IInv
<1> SUFFICES ASSUME Init PROVE IInv
  OBVIOUS
<1>1. TypeOK
  <2>1. 1 \in 1..MaxAttempts
    BY CleanupAssumption
  <2>2. attempt \in [Worker -> 1..MaxAttempts]
    BY <2>1 DEF Init
  <2> QED
    BY <2>2 DEF Init, TypeOK, Stages
<1>2. TimeInv
  BY CleanupAssumption DEF Init, TimeInv
<1>3. \A w \in Worker : PlaceInv(w)
  BY DEF Init, PlaceInv, InHand, Listed
<1>4. OverdueInv
  BY DEF Init, OverdueInv
<1> QED
  BY <1>1, <1>2, <1>3, <1>4 DEF IInv
-----------------------------------------------------------------------------
(***************************************************************************)
(* Steps of Temporal and the applications, and steps of the workers.       *)
(***************************************************************************)
World ==
    \/ \E c \in Execution :
           \/ StartExecution(c) \/ CloseExecution(c) \/ DropExecution(c)
           \/ \E e \in Execution : ContinueAsNew(c, e)
    \/ Tick

worldVars == <<now, temporal>>
listVars == <<stage, todo, current, found, startedOn>>

LEMMA FaultType ==
    ASSUME TypeOK, TimeInv, Fault \/ UNCHANGED faults
    PROVE  faults' \in Nat /\ faults' <= MaxFaults /\ faults' >= faults
BY CleanupAssumption DEF Fault, TypeOK, TimeInv

(* The types of what a step of the world changes.                          *)
LEMMA WorldTypes ==
    ASSUME TypeOK, TimeInv, World
    PROVE  TypeOK' /\ TimeInv'
<1> USE DEF TypeOK, TimeInv
<1>1. ASSUME NEW c \in Execution, StartExecution(c) PROVE TypeOK' /\ TimeInv'
  BY <1>1 DEF StartExecution, worker
<1>2. ASSUME NEW c \in Execution, CloseExecution(c) PROVE TypeOK' /\ TimeInv'
  BY <1>2 DEF CloseExecution, End, worker
<1>3. ASSUME NEW c \in Execution, DropExecution(c) PROVE TypeOK' /\ TimeInv'
  BY <1>3 DEF DropExecution, worker
<1>4. ASSUME NEW c \in Execution, NEW e \in Execution, ContinueAsNew(c, e)
      PROVE  TypeOK' /\ TimeInv'
  BY <1>4 DEF ContinueAsNew, End, worker
<1>5. CASE Tick
  <2>1. faults' \in Nat /\ faults' <= MaxFaults
    BY <1>5, FaultType DEF Tick
  <2>2. now' = now + 1 /\ UNCHANGED <<temporal, objects, overdue, worker>>
        /\ cleaned' \in BOOLEAN
    BY <1>5 DEF Tick
  <2>3. TypeOK'
    BY <2>1, <2>2 DEF temporal, worker
  <2>4. TimeInv'
    BY <2>1, <2>2, CleanupAssumption DEF temporal, worker
  <2> QED
    BY <2>3, <2>4
<1> QED
  BY <1>1, <1>2, <1>3, <1>4, <1>5 DEF World

(* Once closed for the grace period, closed for it for ever, and since the *)
(* same day.                                                               *)
LEMMA ClosedForever ==
    ASSUME TypeOK, TimeInv, World \/ UNCHANGED worldVars,
           NEW c \in Execution, ClosedForGrace(c)
    PROVE  ClosedForGrace(c)' /\ closeDay'[c] = closeDay[c]
<1> USE CleanupAssumption DEF TypeOK, ClosedForGrace
<1>1. CASE UNCHANGED worldVars
  BY <1>1 DEF worldVars, temporal
<1>2. ASSUME NEW e \in Execution, StartExecution(e)
      PROVE  ClosedForGrace(c)' /\ closeDay'[c] = closeDay[c]
  BY <1>2 DEF StartExecution
<1>3. ASSUME NEW e \in Execution, CloseExecution(e)
      PROVE  ClosedForGrace(c)' /\ closeDay'[c] = closeDay[c]
  BY <1>3 DEF CloseExecution, End
<1>4. ASSUME NEW e \in Execution, DropExecution(e)
      PROVE  ClosedForGrace(c)' /\ closeDay'[c] = closeDay[c]
  BY <1>4 DEF DropExecution
<1>5. ASSUME NEW e \in Execution, NEW n \in Execution, ContinueAsNew(e, n)
      PROVE  ClosedForGrace(c)' /\ closeDay'[c] = closeDay[c]
  BY <1>5 DEF ContinueAsNew, End
<1>6. CASE Tick
  BY <1>6 DEF Tick, temporal
<1> QED
  BY <1>1, <1>2, <1>3, <1>4, <1>5, <1>6 DEF World

(* The world leaves the workers alone.                                     *)
LEMMA WorldLeavesWork ==
    ASSUME World
    PROVE  UNCHANGED worker /\ UNCHANGED <<objects, overdue>>
BY DEF World, StartExecution, CloseExecution, DropExecution, ContinueAsNew,
       End, Tick, worker

(* And the workers the world.                                              *)
LEMMA WorkLeavesWorld ==
    ASSUME NEW w \in Worker, StartCleanup(w) \/ Step(w) \/ Trouble(w)
    PROVE  UNCHANGED worldVars /\ (Fault \/ UNCHANGED faults)
BY DEF Step, Trouble, StartCleanup, GetCompletedWorkflows, NextWorkflow,
       Finish, CheckIfArchived, ListObjectsByPrefix, DeleteObjects,
       DeleteRefused, DeletionReported, DescribeFails, HistoryFails,
       DeleteObjectsPartly, AttemptFails, RemoveFound, worldVars

(* What a step of one worker leaves alone of the others, and the types of  *)
(* what it changes.                                                        *)
WorkOnly(v) ==
    /\ stage' \in [Worker -> Stages]
    /\ todo' \in [Worker -> SUBSET Execution]
    /\ current' \in [Worker -> SUBSET Execution]
    /\ found' \in [Worker -> SUBSET Key]
    /\ attempt' \in [Worker -> 1..MaxAttempts]
    /\ startedOn' \in [Worker -> Nat]
    /\ \A w \in Worker \ {v} :
           /\ stage'[w] = stage[w] /\ todo'[w] = todo[w]
           /\ current'[w] = current[w] /\ found'[w] = found[w]
           /\ startedOn'[w] = startedOn[w]
    /\ objects' \subseteq objects
    /\ overdue' \subseteq overdue \cup {found[v]}
    /\ cleaned' \in BOOLEAN
    /\ startedOn'[v] \in {startedOn[v], now}

LEMMA GotoStep ==
    ASSUME TypeOK, NEW v \in Worker, NEW place \in Stages, Goto(v, place)
    PROVE  /\ stage' \in [Worker -> Stages] /\ stage'[v] = place
           /\ attempt' \in [Worker -> 1..MaxAttempts]
           /\ \A w \in Worker \ {v} : stage'[w] = stage[w]
<1>1. 1 \in 1..MaxAttempts
  BY CleanupAssumption
<1> QED
  BY <1>1 DEF TypeOK, Goto

LEMMA ContinueStep ==
    ASSUME TypeOK, NEW v \in Worker, Continue(v), objects' \subseteq objects,
           overdue' \subseteq overdue \cup {found[v]}, cleaned' \in BOOLEAN
    PROVE  /\ WorkOnly(v)
           /\ stage'[v] = "loop" /\ current'[v] = {} /\ found'[v] = {}
           /\ UNCHANGED <<todo, startedOn>>
<1>1. "loop" \in Stages
  BY DEF Stages
<1> QED
  BY <1>1, GotoStep DEF Continue, TypeOK, WorkOnly

(* The end of an attempt that is not the last one of a listing.            *)
LEMMA AttemptStep ==
    ASSUME TypeOK, NEW v \in Worker, AttemptEnds(v), objects' \subseteq objects,
           overdue' \subseteq overdue \cup {found[v]}, cleaned' \in BOOLEAN,
           stage[v] \in InHand \cup {"listing"}
    PROVE  /\ WorkOnly(v)
           /\ UNCHANGED <<todo, startedOn>>
           /\ \/ /\ UNCHANGED current
                 /\ \/ stage'[v] = stage[v] /\ stage[v] \notin {"found", "removed"}
                    \/ stage'[v] = "deleting" /\ stage[v] \in {"found", "removed"}
                 /\ found'[v] = {}
              \/ /\ UNCHANGED <<current, found>>
                 /\ stage[v] = "listing" /\ stage'[v] = "idle"
              \/ stage'[v] = "loop" /\ current'[v] = {} /\ found'[v] = {}
<1>1. CASE attempt[v] < MaxAttempts
  <2>1. attempt' \in [Worker -> 1..MaxAttempts]
    BY <1>1, CleanupAssumption DEF AttemptEnds, TypeOK
  <2>2. stage' \in [Worker -> Stages]
    BY <1>1 DEF AttemptEnds, TypeOK, Stages
  <2> QED
    BY <1>1, <2>1, <2>2 DEF AttemptEnds, TypeOK, WorkOnly
<1>2. CASE attempt[v] >= MaxAttempts /\ stage[v] = "listing"
  <2>1. Goto(v, "idle") /\ UNCHANGED <<todo, current, found, startedOn>>
    BY <1>2, CleanupAssumption DEF AttemptEnds, TypeOK
  <2>2. "idle" \in Stages
    BY DEF Stages
  <2> QED
    BY <1>2, <2>1, <2>2, GotoStep DEF TypeOK, WorkOnly
<1>3. CASE attempt[v] >= MaxAttempts /\ stage[v] # "listing"
  <2>1. Continue(v)
    BY <1>3, CleanupAssumption DEF AttemptEnds, TypeOK
  <2> QED
    BY <2>1, ContinueStep
<1> QED
  BY <1>1, <1>2, <1>3, CleanupAssumption DEF TypeOK
-----------------------------------------------------------------------------
(***************************************************************************)
(* One step of a worker: what it does to the list, the hand and the keys.  *)
(***************************************************************************)

(* From the listing onto the list, from the list into the hand, and under  *)
(* the prefix of the hand to the keys; or out of the hand.                 *)
Moves(v) ==
    \/ (* nothing moves *)
       /\ UNCHANGED <<todo, current, found>>
       /\ stage'[v] \in InHand <=> stage[v] \in InHand
    \/ (* listed *)
       /\ todo'[v] = {c \in Execution : Due(c)}
       /\ UNCHANGED <<current, found>>
       /\ stage[v] = "listing" /\ stage'[v] = "loop"
    \/ (* taken *)
       /\ \E c \in todo[v] : current'[v] = {c} /\ todo'[v] = todo[v] \ {c}
       /\ found' = found
       /\ stage[v] = "loop" /\ stage'[v] \in InHand
    \/ (* looked up *)
       /\ \E c \in current[v] :
              found'[v] = {k \in objects : UnderPrefix(k, WorkflowPrefix(c))}
       /\ UNCHANGED <<todo, current>>
       /\ stage[v] = "deleting" /\ stage'[v] = "found"
    \/ (* tried again *)
       /\ found'[v] = {}
       /\ UNCHANGED <<todo, current>>
       /\ stage'[v] \in InHand <=> stage[v] \in InHand
    \/ (* put down *)
       /\ UNCHANGED todo
       /\ current'[v] = {} /\ found'[v] = {}
       /\ stage'[v] = "loop"

LEMMA WorkerStep ==
    ASSUME TypeOK, NEW v \in Worker, StartCleanup(v) \/ Step(v) \/ Trouble(v)
    PROVE  WorkOnly(v) /\ Moves(v)
<1>0. {"listing", "idle", "loop"} \cup InHand \subseteq Stages
  BY DEF Stages, InHand
<1> USE DEF TypeOK
<1>1. CASE StartCleanup(v)
  BY <1>0, <1>1, GotoStep DEF StartCleanup, WorkOnly, Moves, InHand
<1>2. CASE GetCompletedWorkflows(v)
  BY <1>0, <1>2, GotoStep DEF GetCompletedWorkflows, WorkOnly, Moves
<1>3. CASE NextWorkflow(v)
  <2>1. PICK place \in {"checking", "deleting"} : Goto(v, place)
    BY <1>3 DEF NextWorkflow
  <2> QED
    BY <1>0, <1>3, <2>1, GotoStep DEF NextWorkflow, WorkOnly, Moves, InHand
<1>4. CASE Finish(v)
  <2>1. cleaned' \in BOOLEAN
    BY <1>4 DEF Finish
  <2> QED
    BY <1>0, <1>4, <2>1, GotoStep DEF Finish, WorkOnly, Moves, InHand
<1>5. ASSUME Continue(v), UNCHANGED <<objects, overdue, cleaned>>
      PROVE  WorkOnly(v) /\ Moves(v)
  BY <1>5, ContinueStep DEF Moves
<1>6. ASSUME Goto(v, "deleting"), stage[v] = "checking",
             UNCHANGED <<todo, current, found, startedOn, objects, overdue,
                         cleaned>>
      PROVE  WorkOnly(v) /\ Moves(v)
  BY <1>0, <1>6, GotoStep DEF WorkOnly, Moves, InHand
<1>7. CASE CheckIfArchived(v) \/ HistoryFails(v) \/ DescribeFails(v)
           \/ DeletionReported(v)
  BY <1>5, <1>6, <1>7
     DEF CheckIfArchived, HistoryFails, DescribeFails, DeletionReported
<1>8. CASE ListObjectsByPrefix(v)
  <2>1. PICK c \in current[v] :
            LET keys == {k \in objects : UnderPrefix(k, WorkflowPrefix(c))}
            IN  \/ Continue(v)
                \/ /\ stage' = [stage EXCEPT ![v] = "found"]
                   /\ found' = [found EXCEPT ![v] = keys]
                   /\ UNCHANGED <<todo, current, attempt, startedOn>>
    BY <1>8 DEF ListObjectsByPrefix
  <2> DEFINE keys == {k \in objects : UnderPrefix(k, WorkflowPrefix(c))}
  <2>2. CASE /\ stage' = [stage EXCEPT ![v] = "found"]
             /\ found' = [found EXCEPT ![v] = keys]
             /\ UNCHANGED <<todo, current, attempt, startedOn>>
    <3>1. keys \subseteq Key
      OBVIOUS
    <3>2. found'[v] = keys
      BY <2>2
    <3>3. stage[v] = "deleting" /\ UNCHANGED <<objects, overdue, cleaned>>
      BY <1>8 DEF ListObjectsByPrefix
    <3>4. Moves(v)
      BY <2>2, <3>2, <3>3 DEF Moves
    <3> HIDE DEF keys
    <3>5. WorkOnly(v)
      BY <1>0, <2>2, <3>1, <3>3 DEF WorkOnly, InHand
    <3> QED
      BY <3>4, <3>5
  <2> QED
    BY <1>5, <1>8, <2>1, <2>2 DEF ListObjectsByPrefix
<1>9. CASE DeleteObjects(v) \/ DeleteObjectsPartly(v)
  BY <1>0, <1>9
     DEF DeleteObjects, DeleteObjectsPartly, RemoveFound, WorkOnly, Moves,
         InHand
<1>10. CASE DeleteRefused(v) \/ AttemptFails(v)
  <2>1. /\ AttemptEnds(v) /\ UNCHANGED <<objects, cleaned>>
        /\ overdue' \subseteq overdue \cup {found[v]}
        /\ stage[v] \in InHand \cup {"listing"}
    BY <1>10 DEF DeleteRefused, AttemptFails, InHand
  <2> QED
    BY <2>1, AttemptStep DEF Moves, InHand
<1> QED
  BY <1>1, <1>2, <1>3, <1>4, <1>7, <1>8, <1>9, <1>10 DEF Step, Trouble

LEMMA StepKinds ==
    ASSUME [Next]_vars
    PROVE  \/ World
           \/ \E c \in Execution, d \in Data : StoreObject(c, d)
           \/ \E v \in Worker : StartCleanup(v) \/ Step(v) \/ Trouble(v)
           \/ LateRemoval
           \/ UNCHANGED vars
BY DEF Next, Environment, World

LEMMA InvStep == IInv /\ [Next]_vars => IInv'
<1> SUFFICES ASSUME IInv, [Next]_vars PROVE IInv'
  OBVIOUS
<1>0. TypeOK /\ TimeInv
  BY DEF IInv
<1>1. ASSUME World PROVE IInv'
  <2>1. TypeOK' /\ TimeInv'
    BY <1>0, <1>1, WorldTypes
  <2>2. UNCHANGED <<stage, todo, current, found, overdue>>
    BY <1>1, WorldLeavesWork DEF worker
  <2>3. \A c \in Execution : ClosedForGrace(c) => ClosedForGrace(c)'
    BY <1>0, <1>1, ClosedForever
  <2>4. \A w \in Worker : Listed(w) \subseteq Execution
    BY <1>0 DEF TypeOK, Listed
  <2>5. \A w \in Worker : PlaceInv(w)'
    BY <2>2, <2>3, <2>4 DEF IInv, PlaceInv, Listed
  <2>6. OverdueInv'
    BY <2>2, <2>3 DEF IInv, OverdueInv, Covered
  <2> QED
    BY <2>1, <2>5, <2>6 DEF IInv
<1>2. ASSUME NEW c \in Execution, NEW d \in Data, StoreObject(c, d)
      PROVE  IInv'
  <2>1. KeyOf(c, d) \in Key
    BY DEF Key, Execution
  <2> QED
    BY <1>0, <1>2, <2>1
       DEF IInv, TypeOK, TimeInv, PlaceInv, OverdueInv, Covered, Listed,
           ClosedForGrace, StoreObject, temporal, worker
<1>3. ASSUME NEW v \in Worker, StartCleanup(v) \/ Step(v) \/ Trouble(v)
      PROVE  IInv'
  <2>1. UNCHANGED <<now, status, closeDay, archived>>
        /\ (Fault \/ UNCHANGED faults)
    BY <1>3, WorkLeavesWorld DEF worldVars, temporal
  <2>2. WorkOnly(v) /\ Moves(v)
    BY <1>0, <1>3, WorkerStep
  <2>3. faults' \in Nat /\ faults' <= MaxFaults
    BY <1>0, <2>1, FaultType
  <2>4. TypeOK' /\ TimeInv'
    BY <1>0, <2>1, <2>2, <2>3 DEF TypeOK, TimeInv, WorkOnly
  <2>5. \A c \in Execution : ClosedForGrace(c)' = ClosedForGrace(c)
    BY <2>1 DEF ClosedForGrace
  <2>6. ASSUME NEW w \in Worker \ {v} PROVE PlaceInv(w)'
    BY <1>0, <2>2, <2>5 DEF IInv, TypeOK, PlaceInv, Listed, WorkOnly
  <2>7. PlaceInv(v)'
    <3>0. /\ PlaceInv(v) /\ Listed(v) \subseteq Execution
          /\ \A c \in Execution : Due(c) => ClosedForGrace(c)
      BY <1>0 DEF IInv, TypeOK, Listed, Due, ClosedForGrace
    <3> QED
      BY <1>0, <2>2, <2>5, <3>0
         DEF Moves, PlaceInv, Listed, InHand, TypeOK
  <2>8. OverdueInv'
    <3>1. \A k \in found[v] : Covered(k)
      BY <1>0 DEF IInv, TypeOK, PlaceInv, Listed, Covered
    <3> QED
      BY <2>2, <2>5, <3>1 DEF IInv, WorkOnly, OverdueInv, Covered
  <2> QED
    BY <2>4, <2>6, <2>7, <2>8 DEF IInv
<1>4. CASE LateRemoval
  <2>1. /\ objects' \subseteq objects /\ overdue' \subseteq overdue
        /\ UNCHANGED <<now, temporal, worker, cleaned, faults>>
    BY <1>4 DEF LateRemoval
  <2> QED
    BY <2>1 DEF IInv, TypeOK, TimeInv, PlaceInv, OverdueInv, Covered, Listed,
                ClosedForGrace, temporal, worker
<1>5. CASE UNCHANGED vars
  BY <1>5 DEF IInv, TypeOK, TimeInv, PlaceInv, OverdueInv, Covered, Listed,
              ClosedForGrace, vars, temporal, worker
<1> QED
  BY <1>1, <1>2, <1>3, <1>4, <1>5, StepKinds

LEMMA Invariance == Spec => []IInv
BY InvInit, InvStep, PTL DEF Spec

(* Variables keep their types, and attempts stay within MaxAttempts.       *)
THEOREM TypeCorrect == Spec => []TypeOK
<1>1. IInv => TypeOK
  BY DEF IInv
<1> QED
  BY <1>1, Invariance, PTL

(* No object is removed before a run under whose workflow id it lies has   *)
(* been closed for longer than the grace period: for cleanups that         *)
(* overlap, listings that are old, attempts that are repeated and calls    *)
(* that S3 gets round to when nobody waits for them any more.              *)
THEOREM RemovalsRespectGrace == Spec => GraceRespected
<1> DEFINE Respects ==
        \A k \in objects \ objects' :
            \E c \in Execution : /\ ClosedForGrace(c)
                                 /\ UnderPrefix(k, WorkflowPrefix(c))
<1>1. ASSUME IInv, [Next]_vars PROVE [Respects]_vars
  <2>1. ASSUME NEW v \in Worker, NEW keys \in SUBSET found[v],
               RemoveFound(v, keys)
        PROVE  Respects
    <3>1. objects' = objects \ keys
      BY <2>1 DEF RemoveFound
    <3>2. \A k \in objects \ objects' : k \in found[v]
      BY <3>1
    <3>3. \A c \in current[v] : c \in Execution /\ ClosedForGrace(c)
      BY <1>1 DEF IInv, TypeOK, PlaceInv, Listed
    <3> QED
      BY <1>1, <3>2, <3>3 DEF IInv, PlaceInv
  <2>2. CASE \E v \in Worker : DeleteObjects(v) \/ DeleteObjectsPartly(v)
    BY <2>1, <2>2 DEF DeleteObjects, DeleteObjectsPartly
  <2>3. CASE objects \subseteq objects'
    BY <2>3
  <2>4. ASSUME ~\E v \in Worker : DeleteObjects(v) \/ DeleteObjectsPartly(v),
               ~LateRemoval
        PROVE  objects \subseteq objects'
    BY <1>1, <2>4, WorldLeavesWork, StepKinds
       DEF StoreObject, StartCleanup, Step, Trouble, GetCompletedWorkflows,
           NextWorkflow, Finish, CheckIfArchived, ListObjectsByPrefix,
           DeleteRefused, DeletionReported, DescribeFails, HistoryFails,
           AttemptFails, vars
  <2>5. CASE LateRemoval
    <3>1. PICK keys \in overdue : objects \ objects' \subseteq keys
      BY <2>5 DEF LateRemoval
    <3> QED
      BY <1>1, <3>1 DEF IInv, OverdueInv, Covered
  <2> QED
    BY <2>2, <2>3, <2>4, <2>5
<1> QED
  BY <1>1, Invariance, PTL DEF Spec, GraceRespected
-----------------------------------------------------------------------------
(***************************************************************************)
(* Nothing leaks, if the configuration leaves cleanup the time it needs.   *)
(***************************************************************************)

(* The last payload of an execution is stored before cleanup looks at it;  *)
(* Temporal lists an execution for as long as CheckIfArchived lets it      *)
(* through; cleanup fails less often than there are days between grace     *)
(* period and archive age; the objects of a workflow id fit into one       *)
(* DeleteObjects call; no two executions share a key.                      *)
WideWindow ==
    /\ MaxDelay <= Grace
    /\ ArchiveAge < Retention
    /\ MaxFaults < ArchiveAge - Grace
    /\ \A e \in Execution :
           LET keys == {k \in Key : UnderPrefix(k, WorkflowPrefix(e))}
           IN  IsFiniteSet(keys) /\ Cardinality(keys) <= DeleteLimit
    /\ \A c, e \in Execution, d, f \in Data :
           KeyOf(c, d) = KeyOf(e, f) => c = e

(* The objects that e, once it is closed for the grace period, makes due.  *)
Remaining(e) ==
    {k \in objects :
        \E c \in Execution, d \in Data : EndedBy(c, e) /\ k = KeyOf(c, d)}

(* Every day since then has cost a fault, or today has.                    *)
DaysDue(e) == now - closeDay[e] - Grace

Missed(e) == faults >= DaysDue(e)

(* A cleanup that was started today still has e ahead of it.               *)
Ahead(w, e) ==
    \/ e \in todo[w]
    \/ /\ e \in current[w]
       /\ stage[w] # "removed"
       /\ stage[w] = "found" => Remaining(e) \subseteq found[w]

UnderWay(w) == startedOn[w] = now /\ stage[w] \notin {"idle", "listing"}

LeakInv(e) ==
    (ClosedForGrace(e) /\ Remaining(e) # {}) =>
        /\ status[e] = "closed"
        /\ faults >= DaysDue(e) - 1
        /\ cleaned => Missed(e)
        /\ \A w \in Worker : UnderWay(w) => Missed(e) \/ Ahead(w, e)

LEMMA WindowBounds ==
    ASSUME TypeOK, TimeInv, WideWindow, NEW e \in Execution, ClosedForGrace(e)
    PROVE  /\ DaysDue(e) \in Nat \ {0} /\ faults \in Nat
           /\ faults >= DaysDue(e) - 1 => ~OlderThanArchiveAge(e)
           /\ OlderThanArchiveAge(e) => ~Missed(e)
BY CleanupAssumption
   DEF TypeOK, TimeInv, WideWindow, ClosedForGrace, DaysDue, Missed,
       OlderThanArchiveAge

LEMMA RemainingUnderPrefix ==
    ASSUME TypeOK, NEW e \in Execution
    PROVE  Remaining(e) \subseteq
               {k \in objects : UnderPrefix(k, WorkflowPrefix(e))}
BY RunsUnderPrefix DEF Remaining, EndedBy

(* Nothing is added to what remains of an execution that is due.           *)
LEMMA RemainingShrinks ==
    ASSUME IInv, [Next]_vars, WideWindow, NEW e \in Execution,
           ClosedForGrace(e)
    PROVE  Remaining(e)' \subseteq Remaining(e)
<1>0. /\ TypeOK /\ TimeInv
      /\ closeDay[e] \in Nat /\ closeDay[e] + Grace < now
      /\ now \in Nat /\ Grace \in Nat
      /\ closeDay \in [Execution -> Nat]
      /\ status \in [Execution -> {"absent", "running", "continued", "closed",
                                   "dropped"}]
  BY CleanupAssumption DEF IInv, TypeOK, ClosedForGrace
<1>1. ASSUME \A c \in Execution : EndedBy(c, e)' => EndedBy(c, e),
             objects' \subseteq objects
      PROVE  Remaining(e)' \subseteq Remaining(e)
  BY <1>1 DEF Remaining
<1>2. ASSUME NEW v \in Worker, StartCleanup(v) \/ Step(v) \/ Trouble(v)
      PROVE  Remaining(e)' \subseteq Remaining(e)
  BY <1>0, <1>1, <1>2, WorkLeavesWorld, WorkerStep
     DEF worldVars, temporal, EndedBy, WorkOnly
<1>3. ASSUME NEW c \in Execution, NEW d \in Data, StoreObject(c, d)
      PROVE  Remaining(e)' \subseteq Remaining(e)
  <2>1. ~EndedBy(c, e)
    <3> SUFFICES ASSUME EndedBy(c, e) PROVE FALSE
      OBVIOUS
    <3>1. now <= closeDay[c] + MaxDelay /\ closeDay[c] <= closeDay[e]
      BY <1>3 DEF EndedBy, StoreObject, MayStore
    <3> QED
      BY <1>0, <3>1, CleanupAssumption DEF WideWindow
  <2>2. \A b \in Execution, f \in Data : KeyOf(b, f) = KeyOf(c, d) => b = c
    BY DEF WideWindow
  <2>3. \A b \in Execution : EndedBy(b, e)' => EndedBy(b, e)
    BY <1>3 DEF StoreObject, temporal, EndedBy
  <2>4. objects' = objects \cup {KeyOf(c, d)}
    BY <1>3 DEF StoreObject
  <2> QED
    BY <2>1, <2>2, <2>3, <2>4 DEF Remaining
<1>4. CASE World
  <2>1. \A c \in Execution : EndedBy(c, e)' => EndedBy(c, e)
    <3> SUFFICES ASSUME NEW c \in Execution, EndedBy(c, e)' PROVE EndedBy(c, e)
      OBVIOUS
    <3>1. closeDay'[e] = closeDay[e]
      BY <1>0, <1>4, ClosedForever
    <3>2. ASSUME NEW b \in Execution, StartExecution(b) PROVE EndedBy(c, e)
      BY <1>0, <3>2 DEF StartExecution, EndedBy
    <3>3. ASSUME NEW b \in Execution, CloseExecution(b) PROVE EndedBy(c, e)
      BY <1>0, <3>1, <3>3 DEF CloseExecution, End, EndedBy
    <3>4. ASSUME NEW b \in Execution, DropExecution(b) PROVE EndedBy(c, e)
      BY <1>0, <3>4 DEF DropExecution, EndedBy
    <3>5. ASSUME NEW b \in Execution, NEW n \in Execution, ContinueAsNew(b, n)
          PROVE  EndedBy(c, e)
      BY <1>0, <3>1, <3>5 DEF ContinueAsNew, End, EndedBy
    <3>6. CASE Tick
      BY <3>6 DEF Tick, temporal, EndedBy
    <3> QED
      BY <1>4, <3>2, <3>3, <3>4, <3>5, <3>6 DEF World
  <2> QED
    BY <1>1, <1>4, <2>1, WorldLeavesWork
<1>5. CASE LateRemoval
  BY <1>1, <1>5 DEF LateRemoval, temporal, EndedBy
<1>6. CASE UNCHANGED vars
  BY <1>6 DEF vars, temporal, Remaining, EndedBy
<1> QED
  BY <1>2, <1>3, <1>4, <1>5, <1>6, StepKinds

(* A step that leaves every other worker alone, and today as it is.        *)
LEMMA DebtStep ==
    ASSUME IInv, [Next]_vars, WideWindow, NEW e \in Execution, LeakInv(e),
           ClosedForGrace(e), NEW v \in Worker,
           StartCleanup(v) \/ Step(v) \/ Trouble(v),
           UNCHANGED faults,
           cleaned' => cleaned \/ Missed(e) \/ Remaining(e) = {},
           (UnderWay(v)' /\ Remaining(e) # {}) =>
               Missed(e) \/ Ahead(v, e)' \/ Remaining(e)' = {}
    PROVE  LeakInv(e)'
<1>1. /\ UNCHANGED <<now, status, closeDay>> /\ WorkOnly(v)
      /\ ClosedForGrace(e)' /\ Remaining(e)' \subseteq Remaining(e)
      /\ Missed(e)' = Missed(e)
  BY WorkLeavesWorld, WorkerStep, RemainingShrinks
     DEF IInv, worldVars, temporal, ClosedForGrace, Missed, DaysDue
<1> SUFFICES ASSUME Remaining(e)' # {}
             PROVE  /\ status'[e] = "closed"
                    /\ faults' >= DaysDue(e)' - 1
                    /\ cleaned' => Missed(e)
                    /\ \A w \in Worker :
                           UnderWay(w)' => Missed(e) \/ Ahead(w, e)'
  BY <1>1 DEF LeakInv
<1>2. /\ status[e] = "closed"
      /\ faults >= DaysDue(e) - 1
      /\ cleaned => Missed(e)
      /\ \A w \in Worker : UnderWay(w) => Missed(e) \/ Ahead(w, e)
      /\ Remaining(e) # {}
  BY <1>1 DEF LeakInv
<1>3. \A w \in Worker \ {v} : UnderWay(w)' => Missed(e) \/ Ahead(w, e)'
  BY <1>1, <1>2 DEF UnderWay, Ahead, WorkOnly
<1> QED
  BY <1>1, <1>2, <1>3 DEF DaysDue

(* A fault pays for today.                                                 *)
LEMMA FaultPays ==
    ASSUME IInv, [Next]_vars, WideWindow, NEW e \in Execution, LeakInv(e),
           ClosedForGrace(e), UNCHANGED worldVars, Fault
    PROVE  LeakInv(e)'
<1>1. /\ UNCHANGED <<now, status, closeDay>> /\ ClosedForGrace(e)'
      /\ faults' = faults + 1 /\ Remaining(e)' \subseteq Remaining(e)
  BY RemainingShrinks DEF worldVars, temporal, ClosedForGrace, Fault
<1>2. DaysDue(e) \in Nat /\ faults \in Nat
  BY WindowBounds DEF IInv
<1> SUFFICES ASSUME Remaining(e)' # {}
             PROVE  /\ status'[e] = "closed"
                    /\ faults' >= DaysDue(e)' - 1
                    /\ Missed(e)'
  BY <1>1 DEF LeakInv
<1>3. status[e] = "closed" /\ faults >= DaysDue(e) - 1
  BY <1>1 DEF LeakInv
<1> QED
  BY <1>1, <1>2, <1>3 DEF DaysDue, Missed

(* The steps of one cleanup, without a fault: what is due is listed, what  *)
(* is listed is taken, what is taken is removed.                           *)
LEMMA WorkPays ==
    ASSUME IInv, [Next]_vars, WideWindow, NEW e \in Execution, LeakInv(e),
           ClosedForGrace(e), NEW v \in Worker, StartCleanup(v) \/ Step(v)
    PROVE  LeakInv(e)'
<1>0. /\ TypeOK /\ TimeInv /\ PlaceInv(v)
      /\ stage \in [Worker -> Stages]
      /\ todo \in [Worker -> SUBSET Execution]
      /\ current \in [Worker -> SUBSET Execution]
      /\ found \in [Worker -> SUBSET Key]
      /\ startedOn \in [Worker -> Nat]
  BY DEF IInv, TypeOK
<1>1. UNCHANGED <<now, status, closeDay>>
  BY WorkLeavesWorld DEF worldVars, temporal
<1>2. Remaining(e)' \subseteq Remaining(e)
  BY RemainingShrinks
<1>3. Remaining(e) # {} =>
          /\ status[e] = "closed" /\ ~OlderThanArchiveAge(e)
          /\ UnderWay(v) => Missed(e) \/ Ahead(v, e)
  BY <1>0, WindowBounds DEF LeakInv
<1>4. ASSUME StartCleanup(v) PROVE LeakInv(e)'
  <2>1. ~UnderWay(v)' /\ UNCHANGED <<faults, cleaned>>
    BY <1>0, <1>4 DEF StartCleanup, Goto, UnderWay
  <2> QED
    BY <2>1, DebtStep
<1>5. ASSUME GetCompletedWorkflows(v) PROVE LeakInv(e)'
  <2>1. UNCHANGED <<faults, cleaned>>
    BY <1>5 DEF GetCompletedWorkflows
  <2>2. Remaining(e) # {} => e \in todo'[v]
    BY <1>0, <1>3, <1>5 DEF GetCompletedWorkflows, Due, ClosedForGrace
  <2> QED
    BY <2>1, <2>2, DebtStep DEF Ahead
<1>6. ASSUME NextWorkflow(v) PROVE LeakInv(e)'
  <2>1. UNCHANGED <<faults, cleaned, startedOn>>
    BY <1>6 DEF NextWorkflow
  <2>2. stage[v] = "loop" /\ current[v] = {}
        /\ stage'[v] \in {"checking", "deleting"}
    BY <1>0, <1>6 DEF NextWorkflow, Goto, PlaceInv, InHand
  <2>3. e \in todo[v] => e \in todo'[v] \/ e \in current'[v]
    BY <1>0, <1>6 DEF NextWorkflow
  <2>4. UnderWay(v)' => UnderWay(v)
    BY <1>1, <2>1, <2>2 DEF UnderWay
  <2>5. Ahead(v, e) => Ahead(v, e)'
    BY <2>2, <2>3 DEF Ahead
  <2> QED
    BY <1>3, <2>1, <2>4, <2>5, DebtStep
<1>7. ASSUME Finish(v) PROVE LeakInv(e)'
  <2>1. UNCHANGED faults /\ ~UnderWay(v)'
    BY <1>0, <1>7 DEF Finish, Goto, UnderWay
  <2>2. stage[v] = "loop" /\ todo[v] = {} /\ current[v] = {}
    BY <1>0, <1>7 DEF Finish, PlaceInv, InHand
  <2>3. startedOn[v] = now => Missed(e) \/ Remaining(e) = {}
    BY <1>3, <2>2 DEF UnderWay, Ahead
  <2>4. cleaned' => cleaned \/ Missed(e) \/ Remaining(e) = {}
    BY <1>7, <2>3 DEF Finish
  <2> QED
    BY <2>1, <2>4, DebtStep
<1>8. ASSUME Continue(v), UNCHANGED <<faults, cleaned>>, stage[v] \in InHand,
             (e \in current[v] /\ Ahead(v, e) /\ e \notin todo[v])
                 => Remaining(e) = {}
      PROVE  LeakInv(e)'
  <2>1. UnderWay(v)' => UnderWay(v)
    BY <1>0, <1>1, <1>8 DEF UnderWay, Continue, InHand
  <2>2. e \in todo[v] => Ahead(v, e)'
    BY <1>8 DEF Ahead, Continue
  <2>3. Ahead(v, e) => e \in todo[v] \/ Remaining(e) = {}
    BY <1>8 DEF Ahead
  <2> QED
    BY <1>3, <1>8, <2>1, <2>2, <2>3, DebtStep
<1>9. ASSUME CheckIfArchived(v) PROVE LeakInv(e)'
  <2>1. PICK c \in current[v] :
            IF status[c] = "dropped" \/ OlderThanArchiveAge(c)
            THEN Continue(v)
            ELSE /\ Goto(v, "deleting")
                 /\ UNCHANGED <<todo, current, found, startedOn>>
    BY <1>9 DEF CheckIfArchived
  <2>2. UNCHANGED <<faults, cleaned>> /\ stage[v] = "checking"
    BY <1>9 DEF CheckIfArchived
  <2>3. CASE status[c] = "dropped" \/ OlderThanArchiveAge(c)
    <3>1. e \in current[v] => e = c
      BY <1>0, <2>1, <2>2 DEF PlaceInv, InHand
    <3> QED
      BY <1>3, <1>8, <2>1, <2>2, <2>3, <3>1 DEF InHand
  <2>4. CASE ~(status[c] = "dropped" \/ OlderThanArchiveAge(c))
    <3>1. stage'[v] = "deleting" /\ UNCHANGED <<todo, current, startedOn>>
      BY <1>0, <2>1, <2>4 DEF Goto
    <3>2. UnderWay(v)' => UnderWay(v)
      BY <1>1, <2>2, <3>1 DEF UnderWay
    <3>3. Ahead(v, e) => Ahead(v, e)'
      BY <3>1 DEF Ahead
    <3> QED
      BY <1>3, <2>2, <3>2, <3>3, DebtStep
  <2> QED
    BY <2>3, <2>4
<1>10. ASSUME ListObjectsByPrefix(v) PROVE LeakInv(e)'
  <2>1. PICK c \in current[v] :
            LET keys == {k \in objects : UnderPrefix(k, WorkflowPrefix(c))}
            IN  IF keys = {}
                THEN Continue(v)
                ELSE /\ stage' = [stage EXCEPT ![v] = "found"]
                     /\ found' = [found EXCEPT ![v] = keys]
                     /\ UNCHANGED <<todo, current, attempt, startedOn>>
    BY <1>10 DEF ListObjectsByPrefix
  <2> DEFINE keys == {k \in objects : UnderPrefix(k, WorkflowPrefix(c))}
  <2>2. UNCHANGED <<faults, cleaned>> /\ stage[v] = "deleting"
    BY <1>10 DEF ListObjectsByPrefix
  <2>3. e \in current[v] => e = c /\ Remaining(e) \subseteq keys
    BY <1>0, <2>1, <2>2, RemainingUnderPrefix DEF PlaceInv, InHand
  <2>4. CASE Continue(v) /\ keys = {}
    <3> HIDE DEF keys
    <3> QED
      BY <1>8, <2>2, <2>3, <2>4 DEF InHand
  <2>5. CASE /\ stage' = [stage EXCEPT ![v] = "found"]
             /\ found' = [found EXCEPT ![v] = keys]
             /\ UNCHANGED <<todo, current, attempt, startedOn>>
    <3> HIDE DEF keys
    <3>1. /\ stage'[v] = "found" /\ found'[v] = keys
          /\ UNCHANGED <<todo, current, startedOn>>
      BY <1>0, <2>5
    <3>2. UnderWay(v)' => UnderWay(v)
      BY <1>1, <2>2, <3>1 DEF UnderWay
    <3>3. Ahead(v, e) => Ahead(v, e)'
      BY <1>2, <2>3, <3>1 DEF Ahead
    <3> QED
      BY <1>3, <2>2, <3>2, <3>3, DebtStep
  <2> QED
    BY <2>1, <2>4, <2>5
<1>11. ASSUME DeleteObjects(v) PROVE LeakInv(e)'
  <2>1. /\ UNCHANGED <<faults, cleaned, todo, current, startedOn>>
        /\ stage[v] = "found" /\ stage'[v] = "removed"
        /\ objects' = objects \ found[v]
    BY <1>0, <1>11 DEF DeleteObjects, RemoveFound
  <2>2. Remaining(e) \subseteq found[v] => Remaining(e)' = {}
    <3>1. Remaining(e)' \subseteq objects'
      BY DEF Remaining
    <3> QED
      BY <1>2, <2>1, <3>1
  <2>3. Ahead(v, e) => Ahead(v, e)' \/ Remaining(e)' = {}
    BY <2>1, <2>2 DEF Ahead
  <2>4. UnderWay(v)' => UnderWay(v)
    BY <1>1, <2>1 DEF UnderWay
  <2> QED
    BY <1>3, <2>1, <2>3, <2>4, DebtStep
<1>12. ASSUME DeletionReported(v) PROVE LeakInv(e)'
  <2>1. /\ Continue(v) /\ UNCHANGED <<faults, cleaned>>
        /\ stage[v] = "removed"
    BY <1>12 DEF DeletionReported
  <2> QED
    BY <1>8, <2>1 DEF Ahead, InHand
<1>13. ASSUME DeleteRefused(v) PROVE FALSE
  <2>1. stage[v] = "found" /\ Cardinality(found[v]) > DeleteLimit
    BY <1>13 DEF DeleteRefused
  <2>2. PICK c \in Execution : current[v] = {c}
    BY <1>0, <2>1 DEF PlaceInv, InHand
  <2> DEFINE keys == {k \in Key : UnderPrefix(k, WorkflowPrefix(c))}
  <2>3. found[v] \subseteq keys
    BY <1>0, <2>2 DEF PlaceInv
  <2>4. IsFiniteSet(keys) /\ Cardinality(keys) <= DeleteLimit
    BY DEF WideWindow
  <2> HIDE DEF keys
  <2>5. /\ Cardinality(found[v]) <= Cardinality(keys)
        /\ Cardinality(found[v]) \in Nat /\ Cardinality(keys) \in Nat
    BY <2>3, <2>4, FS_Subset, FS_CardinalityType
  <2> QED
    BY <2>1, <2>4, <2>5, CleanupAssumption
<1> QED
  BY <1>4, <1>5, <1>6, <1>7, <1>9, <1>10, <1>11, <1>12, <1>13 DEF Step

(* The steps of Temporal: a day has been paid for before it passes, and an *)
(* execution whose objects are not gone is still on the list.              *)
LEMMA WorldPays ==
    ASSUME IInv, [Next]_vars, WideWindow, NEW e \in Execution, LeakInv(e),
           ClosedForGrace(e), World
    PROVE  LeakInv(e)'
<1>0. /\ TypeOK /\ TimeInv
      /\ ClosedForGrace(e)' /\ closeDay'[e] = closeDay[e]
      /\ Remaining(e)' \subseteq Remaining(e)
      /\ UNCHANGED <<stage, todo, current, found, startedOn>>
      /\ DaysDue(e) \in Nat /\ faults \in Nat
      /\ now \in Nat /\ closeDay[e] \in Nat /\ Grace \in Nat
      /\ status \in [Execution -> {"absent", "running", "continued", "closed",
                                   "dropped"}]
  BY ClosedForever, RemainingShrinks, WorldLeavesWork, WindowBounds,
     CleanupAssumption DEF IInv, worker, TypeOK
<1> SUFFICES ASSUME Remaining(e)' # {}
             PROVE  /\ status'[e] = "closed"
                    /\ faults' >= DaysDue(e)' - 1
                    /\ cleaned' => Missed(e)'
                    /\ \A w \in Worker :
                           UnderWay(w)' => Missed(e)' \/ Ahead(w, e)'
  BY DEF LeakInv
<1>1. /\ status[e] = "closed"
      /\ faults >= DaysDue(e) - 1
      /\ cleaned => Missed(e)
      /\ \A w \in Worker : UnderWay(w) => Missed(e) \/ Ahead(w, e)
      /\ ~OlderThanArchiveAge(e)
  BY <1>0, WindowBounds DEF LeakInv
<1>2. ASSUME UNCHANGED <<now, faults, cleaned>>, status'[e] = "closed"
      PROVE  /\ status'[e] = "closed"
             /\ faults' >= DaysDue(e)' - 1
             /\ cleaned' => Missed(e)'
             /\ \A w \in Worker :
                    UnderWay(w)' => Missed(e)' \/ Ahead(w, e)'
  <2>1. DaysDue(e)' = DaysDue(e) /\ Missed(e)' = Missed(e)
    BY <1>0, <1>2 DEF DaysDue, Missed
  <2>2. \A w \in Worker : UnderWay(w)' => UnderWay(w)
    BY <1>0, <1>2 DEF UnderWay
  <2>3. \A w \in Worker : Ahead(w, e) => Ahead(w, e)'
    BY <1>0 DEF Ahead
  <2> QED
    BY <1>1, <1>2, <2>1, <2>2, <2>3
<1>3. ASSUME NEW c \in Execution, StartExecution(c)
      PROVE  UNCHANGED <<now, faults, cleaned>> /\ status'[e] = "closed"
  BY <1>0, <1>1, <1>3 DEF StartExecution
<1>4. ASSUME NEW c \in Execution, CloseExecution(c)
      PROVE  UNCHANGED <<now, faults, cleaned>> /\ status'[e] = "closed"
  BY <1>0, <1>1, <1>4 DEF CloseExecution, End
<1>5. ASSUME NEW c \in Execution, DropExecution(c)
      PROVE  UNCHANGED <<now, faults, cleaned>> /\ status'[e] = "closed"
  <2>1. c # e
    BY <1>0, <1>1, <1>5, CleanupAssumption
       DEF DropExecution, OlderThanArchiveAge, WideWindow
  <2> QED
    BY <1>0, <1>1, <1>5, <2>1 DEF DropExecution
<1>6. ASSUME NEW c \in Execution, NEW n \in Execution, ContinueAsNew(c, n)
      PROVE  UNCHANGED <<now, faults, cleaned>> /\ status'[e] = "closed"
  BY <1>0, <1>1, <1>6 DEF ContinueAsNew, End
<1>7. CASE Tick
  <2>1. /\ now' = now + 1 /\ ~cleaned' /\ status'[e] = "closed"
        /\ IF cleaned THEN faults' = faults ELSE faults' = faults + 1
    BY <1>1, <1>7 DEF Tick, Fault, temporal
  <2>2. DaysDue(e)' = DaysDue(e) + 1
    BY <1>0, <2>1 DEF DaysDue
  <2>3. faults' >= DaysDue(e)
    BY <1>0, <1>1, <2>1 DEF Missed
  <2>4. \A w \in Worker : ~UnderWay(w)'
    BY <1>0, <2>1 DEF UnderWay, TimeInv, TypeOK
  <2> QED
    BY <1>0, <2>1, <2>2, <2>3, <2>4
<1> QED
  BY <1>2, <1>3, <1>4, <1>5, <1>6, <1>7 DEF World

(* The first day on which an execution is due is not a day missed.         *)
LEMMA FirstDay ==
    ASSUME IInv, [Next]_vars, WideWindow, NEW e \in Execution,
           ~ClosedForGrace(e)
    PROVE  LeakInv(e)'
<1>0. /\ TypeOK /\ TimeInv
      /\ now \in Nat /\ closeDay[e] \in Nat /\ Grace \in Nat
      /\ closeDay \in [Execution -> Nat] /\ faults \in Nat
      /\ status \in [Execution -> {"absent", "running", "continued", "closed",
                                   "dropped"}]
  BY CleanupAssumption DEF IInv, TypeOK
<1> SUFFICES ASSUME ClosedForGrace(e)' PROVE LeakInv(e)'
  BY DEF LeakInv
<1>1. CASE Tick
  <2>1. /\ now' = now + 1 /\ ~cleaned' /\ UNCHANGED <<status, closeDay, startedOn>>
    BY <1>1 DEF Tick, temporal, worker
  <2>2. faults' \in Nat
    BY <1>0, <1>1, FaultType DEF Tick
  <2>3. closeDay[e] + Grace = now /\ status[e] \in {"closed", "dropped"}
    BY <1>0, <2>1 DEF ClosedForGrace
  <2>4. status[e] = "closed"
    BY <1>0, <2>3, CleanupAssumption DEF TimeInv, WideWindow
  <2>5. DaysDue(e)' = 1
    BY <1>0, <2>1, <2>3 DEF DaysDue
  <2>6. \A w \in Worker : ~UnderWay(w)'
    BY <1>0, <2>1 DEF UnderWay, TimeInv, TypeOK
  <2> QED
    BY <2>1, <2>2, <2>4, <2>5, <2>6 DEF LeakInv
<1>2. ASSUME NEW c \in Execution, StartExecution(c) PROVE FALSE
  BY <1>0, <1>2 DEF StartExecution, ClosedForGrace
<1>3. ASSUME NEW c \in Execution, CloseExecution(c) PROVE FALSE
  BY <1>0, <1>3 DEF CloseExecution, End, ClosedForGrace
<1>4. ASSUME NEW c \in Execution, DropExecution(c) PROVE FALSE
  BY <1>0, <1>4 DEF DropExecution, ClosedForGrace
<1>5. ASSUME NEW c \in Execution, NEW n \in Execution, ContinueAsNew(c, n)
      PROVE  FALSE
  BY <1>0, <1>5 DEF ContinueAsNew, End, ClosedForGrace
<1>6. ASSUME UNCHANGED worldVars PROVE FALSE
  BY <1>6 DEF worldVars, temporal, ClosedForGrace
<1>7. ASSUME NEW c \in Execution, NEW d \in Data, StoreObject(c, d)
      PROVE  FALSE
  BY <1>6, <1>7 DEF StoreObject, worldVars
<1>8. CASE LateRemoval \/ UNCHANGED vars
  BY <1>6, <1>8 DEF LateRemoval, vars, worldVars
<1> QED
  BY <1>1, <1>2, <1>3, <1>4, <1>5, <1>6, <1>7, <1>8, StepKinds,
     WorkLeavesWorld DEF World

LEMMA LeakStep ==
    ASSUME WideWindow, IInv, [Next]_vars, NEW e \in Execution, LeakInv(e)
    PROVE  LeakInv(e)'
<1>1. CASE ~ClosedForGrace(e)
  BY <1>1, FirstDay
<1>2. CASE ClosedForGrace(e)
  <2>1. CASE World
    BY <1>2, <2>1, WorldPays
  <2>2. ASSUME NEW v \in Worker, StartCleanup(v) \/ Step(v) PROVE LeakInv(e)'
    BY <1>2, <2>2, WorkPays
  <2>3. ASSUME NEW v \in Worker, Trouble(v) PROVE LeakInv(e)'
    <3>1. Fault /\ UNCHANGED worldVars
      BY <2>3, WorkLeavesWorld
         DEF Trouble, DescribeFails, HistoryFails, DeleteObjectsPartly,
             AttemptFails
    <3> QED
      BY <1>2, <3>1, FaultPays
  <2>4. ASSUME UNCHANGED <<now, status, closeDay, worker, cleaned, faults>>
        PROVE  LeakInv(e)'
    <3>1. Remaining(e)' \subseteq Remaining(e)
      BY <1>2, RemainingShrinks
    <3> QED
      BY <1>2, <2>4, <3>1
         DEF LeakInv, ClosedForGrace, DaysDue, Missed, UnderWay, Ahead, worker
  <2> QED
    BY <2>1, <2>2, <2>3, <2>4, StepKinds
       DEF StoreObject, LateRemoval, temporal, vars
<1> QED
  BY <1>1, <1>2

(* Nothing leaks, whatever goes wrong in fewer days than the window has:   *)
(* when an execution gets too old for cleanup, its objects and those of    *)
(* all earlier runs of its workflow id are gone.                           *)
THEOREM NoObjectLeaks ==
    ASSUME WideWindow
    PROVE  Spec => []NothingLeaks
<1> DEFINE LInv == \A e \in Execution : LeakInv(e)
<1>1. Init => LInv
  BY DEF Init, LeakInv, ClosedForGrace
<1>2. IInv /\ LInv /\ [Next]_vars => LInv'
  BY LeakStep
<1>3. IInv /\ LInv => NothingLeaks
  <2> SUFFICES ASSUME IInv, LInv, NEW e \in Execution, WindowMissed(e),
                      NEW c \in Execution, NEW d \in Data, EndedBy(c, e),
                      KeyOf(c, d) \in objects
               PROVE  FALSE
    BY DEF NothingLeaks
  <2>1. ClosedForGrace(e) /\ OlderThanArchiveAge(e)
    BY CleanupAssumption
       DEF WindowMissed, ClosedForGrace, OlderThanArchiveAge, WideWindow, IInv,
           TypeOK
  <2>2. Remaining(e) # {}
    BY DEF Remaining
  <2>3. faults >= DaysDue(e) - 1
    BY <2>1, <2>2 DEF LeakInv
  <2> QED
    BY <2>1, <2>3, WindowBounds DEF IInv
<1> HIDE DEF LInv
<1> QED
  BY <1>1, <1>2, <1>3, Invariance, PTL DEF Spec
-----------------------------------------------------------------------------
(***************************************************************************)
(* Every step of a cleanup brings it nearer to its end.                    *)
(***************************************************************************)

(* The steps for n executions.                                             *)
Load(n) == n * (4 * MaxAttempts + 1)

LEMMA LoadGrows ==
    /\ \A n \in Nat : /\ Load(n) \in Nat
                      /\ Load(n + 1) = Load(n) + 4 * MaxAttempts + 1
    /\ \A m, n \in Nat : m <= n => Load(m) <= Load(n)
<1> DEFINE each == 4 * MaxAttempts + 1
<1>1. each \in Nat
  BY CleanupAssumption
<1>2. \A n \in Nat : Load(n) = n * each
  BY DEF Load
<1>3. each = 4 * MaxAttempts + 1
  OBVIOUS
<1> HIDE DEF each
<1>4. ASSUME NEW n \in Nat
      PROVE  Load(n) \in Nat /\ Load(n + 1) = Load(n) + each
  <2>1. n * each \in Nat /\ (n + 1) * each = n * each + each
    BY <1>1
  <2> QED
    BY <1>2, <2>1
<1>5. ASSUME NEW m \in Nat, NEW n \in Nat, m <= n PROVE Load(m) <= Load(n)
  <2>1. PICK d \in Nat : n = m + d
    <3>1. n - m \in Nat /\ n = m + (n - m)
      BY <1>5
    <3> QED
      BY <3>1
  <2>2. /\ (m + d) * each = m * each + d * each
        /\ m * each \in Nat /\ d * each \in Nat
    BY <1>1
  <2> QED
    BY <1>2, <2>1, <2>2
<1> QED
  BY <1>1, <1>3, <1>4, <1>5, CleanupAssumption

LEMMA ListSize ==
    ASSUME TypeOK, IsFiniteSet(Execution), NEW w \in Worker
    PROVE  /\ Cardinality(Execution) \in Nat /\ Cardinality(todo[w]) \in Nat
           /\ IsFiniteSet(todo[w])
           /\ Cardinality(todo[w]) <= Cardinality(Execution)
BY FS_Subset, FS_CardinalityType DEF TypeOK

(* The measure, written with it.                                           *)
LEMMA StepsFromIs ==
    ASSUME IsFiniteSet(Execution), NEW n \in Nat, NEW t \in Nat
    PROVE  /\ Load(Cardinality(Execution)) \in Nat /\ Load(n) \in Nat
           /\ MaxAttempts \in Nat \ {0}
           /\ StepsFrom("idle", n, t) = 0
           /\ StepsFrom("listing", n, t) = Load(Cardinality(Execution)) + 2 + t
           /\ StepsFrom("loop", n, t) = Load(n) + 1
           /\ StepsFrom("checking", n, t) = Load(n) + 3 * MaxAttempts + t + 2
           /\ StepsFrom("deleting", n, t) = Load(n) + 3 * t + 4
           /\ StepsFrom("found", n, t) = Load(n) + 3 * t + 3
           /\ StepsFrom("removed", n, t) = Load(n) + 3 * t + 2
<1>1. /\ Load(Cardinality(Execution)) \in Nat /\ Load(n) \in Nat
      /\ MaxAttempts \in Nat \ {0}
  BY FS_CardinalityType, LoadGrows, CleanupAssumption
<1>2. /\ StepsFrom("idle", n, t) = 0
      /\ StepsFrom("listing", n, t) = Load(Cardinality(Execution)) + 2 + t
      /\ StepsFrom("loop", n, t) = Load(n) + 1
      /\ StepsFrom("checking", n, t) = Load(n) + 1 + 3 * MaxAttempts + t + 1
      /\ StepsFrom("deleting", n, t) = Load(n) + 1 + 3 * t + 3
      /\ StepsFrom("found", n, t) = Load(n) + 1 + 3 * t + 2
      /\ StepsFrom("removed", n, t) = Load(n) + 1 + 3 * t + 1
  BY DEF StepsFrom, Load
<1> QED
  BY <1>1, <1>2

(* What one cleanup does leaves the others where they are.                 *)
LEMMA OthersUnmoved ==
    ASSUME TypeOK, NEW v \in Worker, StartCleanup(v) \/ Step(v) \/ Trouble(v),
           NEW w \in Worker \ {v}
    PROVE  Unmoved(w)
<1>1. WorkOnly(v)
  BY WorkerStep
<1>2. attempt'[w] = attempt[w]
  BY DEF TypeOK, Step, Trouble, StartCleanup, GetCompletedWorkflows,
         NextWorkflow, Finish, CheckIfArchived, ListObjectsByPrefix,
         DeleteObjects, DeleteRefused, DeletionReported, DescribeFails,
         HistoryFails, DeleteObjectsPartly, AttemptFails, RemoveFound,
         AttemptEnds, Continue, Goto
<1> QED
  BY <1>1, <1>2 DEF WorkOnly, Unmoved

LEMMA CleanupStep ==
    ASSUME IInv, [Next]_vars, IsFiniteSet(Execution), NEW v \in Worker,
           Step(v) \/ Trouble(v)
    PROVE  StepsLeft(v)' \in 0..(StepsLeft(v) - 1)
<1> DEFINE Nearer == StepsLeft(v)' \in 0..(StepsLeft(v) - 1)
           left == Cardinality(todo[v])
           tries == MaxAttempts - attempt[v]
<1>0. /\ TypeOK
      /\ stage \in [Worker -> Stages]
      /\ todo \in [Worker -> SUBSET Execution]
      /\ attempt \in [Worker -> 1..MaxAttempts]
      /\ MaxAttempts \in Nat \ {0}
      /\ left \in Nat /\ tries \in Nat /\ tries <= MaxAttempts - 1
  BY ListSize, CleanupAssumption DEF IInv, TypeOK
<1>1. StepsLeft(v) = StepsFrom(stage[v], left, tries)
  BY DEF StepsLeft
<1>2. StepsLeft(v)' = StepsFrom(stage'[v], Cardinality(todo'[v]),
                                MaxAttempts - attempt'[v])
  BY DEF StepsLeft
<1> HIDE DEF left, tries
(* The value of the measure here.                                         *)
<1>3. /\ stage[v] = "listing" =>
             StepsLeft(v) = Load(Cardinality(Execution)) + 2 + tries
      /\ stage[v] = "loop" => StepsLeft(v) = Load(left) + 1
      /\ stage[v] = "checking" =>
             StepsLeft(v) = Load(left) + 3 * MaxAttempts + tries + 2
      /\ stage[v] = "deleting" => StepsLeft(v) = Load(left) + 3 * tries + 4
      /\ stage[v] = "found" => StepsLeft(v) = Load(left) + 3 * tries + 3
      /\ stage[v] = "removed" => StepsLeft(v) = Load(left) + 3 * tries + 2
      /\ Load(Cardinality(Execution)) \in Nat /\ Load(left) \in Nat
  <2>1. /\ Load(Cardinality(Execution)) \in Nat /\ Load(left) \in Nat
        /\ StepsFrom("listing", left, tries)
               = Load(Cardinality(Execution)) + 2 + tries
        /\ StepsFrom("loop", left, tries) = Load(left) + 1
        /\ StepsFrom("checking", left, tries)
               = Load(left) + 3 * MaxAttempts + tries + 2
        /\ StepsFrom("deleting", left, tries) = Load(left) + 3 * tries + 4
        /\ StepsFrom("found", left, tries) = Load(left) + 3 * tries + 3
        /\ StepsFrom("removed", left, tries) = Load(left) + 3 * tries + 2
    BY <1>0, StepsFromIs
  <2> QED
    BY <1>1, <2>1
(* Back to the loop, and the end.                                          *)
<1>4. ASSUME stage[v] \in InHand, UNCHANGED todo, stage'[v] = "loop",
             attempt'[v] = 1
      PROVE  Nearer
  <2>1. StepsLeft(v)' = StepsFrom("loop", left, MaxAttempts - 1)
    BY <1>2, <1>4 DEF left
  <2>2. MaxAttempts - 1 \in Nat
    BY <1>0
  <2>3. StepsLeft(v)' = Load(left) + 1
    BY <1>0, StepsFromIs, <2>1, <2>2
  <2> QED
    BY <1>0, <1>3, <1>4, <2>3 DEF InHand
<1>5. ASSUME stage[v] \in InHand, Continue(v) PROVE Nearer
  BY <1>0, <1>4, <1>5 DEF Continue, Goto
<1>6. ASSUME stage[v] # "idle", stage'[v] = "idle" PROVE Nearer
  <2>1. PICK n, t : StepsLeft(v)' = StepsFrom("idle", n, t)
    BY <1>2, <1>6
  <2>2. StepsLeft(v)' = 0
    BY <2>1 DEF StepsFrom
  <2> QED
    BY <1>0, <1>3, <1>6, <2>2 DEF Stages
(* From one place to the next with the same execution and attempt.         *)
<1>7. ASSUME UNCHANGED <<todo, attempt>>,
             \/ stage[v] = "deleting" /\ stage'[v] = "found"
             \/ stage[v] = "found" /\ stage'[v] = "removed"
      PROVE  Nearer
  <2>1. StepsLeft(v)' = StepsFrom(stage'[v], left, tries)
    BY <1>2, <1>7 DEF left, tries
  <2>2. /\ StepsFrom("found", left, tries) = Load(left) + 3 * tries + 3
        /\ StepsFrom("removed", left, tries) = Load(left) + 3 * tries + 2
    BY <1>0, StepsFromIs
  <2>3. /\ stage'[v] = "found" => StepsLeft(v)' = Load(left) + 3 * tries + 3
        /\ stage'[v] = "removed" => StepsLeft(v)' = Load(left) + 3 * tries + 2
    BY <2>1, <2>2
  <2> QED
    BY <1>0, <1>3, <1>7, <2>3
<1>8. CASE GetCompletedWorkflows(v)
  <2> DEFINE listed == {c \in Execution : Due(c)}
  <2>1. /\ stage[v] = "listing" /\ stage'[v] = "loop" /\ attempt'[v] = 1
        /\ todo'[v] = listed
    BY <1>0, <1>8 DEF GetCompletedWorkflows, Goto
  <2>2. /\ Cardinality(listed) \in Nat /\ Cardinality(Execution) \in Nat
        /\ Cardinality(listed) <= Cardinality(Execution)
    BY FS_Subset, FS_CardinalityType
  <2> HIDE DEF listed
  <2>3. StepsLeft(v)' = StepsFrom("loop", Cardinality(listed), MaxAttempts - 1)
    BY <1>2, <2>1
  <2>4. MaxAttempts - 1 \in Nat
    BY <1>0
  <2>5. StepsLeft(v)' = Load(Cardinality(listed)) + 1
    BY StepsFromIs, <2>2, <2>3, <2>4
  <2>6. /\ Load(Cardinality(listed)) \in Nat
        /\ Load(Cardinality(listed)) <= Load(Cardinality(Execution))
    BY <2>2, LoadGrows
  <2> QED
    BY <1>0, <1>3, <2>1, <2>5, <2>6
<1>9. CASE NextWorkflow(v)
  <2>1. PICK c \in todo[v] : todo' = [todo EXCEPT ![v] = @ \ {c}]
    BY <1>9 DEF NextWorkflow
  <2>2. /\ stage[v] = "loop" /\ stage'[v] \in {"checking", "deleting"}
        /\ attempt'[v] = 1 /\ todo'[v] = todo[v] \ {c}
    BY <1>0, <1>9, <2>1 DEF NextWorkflow, Goto
  <2>3. Cardinality(todo[v] \ {c}) = left - 1 /\ left - 1 \in Nat
    <3>1. IsFiniteSet(todo[v])
      BY <1>0, ListSize
    <3>2. Cardinality(todo[v] \ {c}) = left - 1
      BY <3>1, FS_RemoveElement DEF left
    <3>3. Cardinality(todo[v] \ {c}) \in Nat
      BY <3>1, FS_Subset, FS_CardinalityType
    <3> QED
      BY <3>2, <3>3
  <2>4. MaxAttempts - 1 \in Nat
    BY <1>0
  <2>5. StepsLeft(v)' = StepsFrom(stage'[v], left - 1, MaxAttempts - 1)
    BY <1>2, <2>2, <2>3
  <2>6. /\ Load(left - 1) \in Nat
        /\ Load(left) = Load(left - 1) + 4 * MaxAttempts + 1
    BY <2>3, <1>0, LoadGrows
  <2>7. /\ StepsFrom("checking", left - 1, MaxAttempts - 1)
               = Load(left - 1) + 3 * MaxAttempts + (MaxAttempts - 1) + 2
        /\ StepsFrom("deleting", left - 1, MaxAttempts - 1)
               = Load(left - 1) + 3 * (MaxAttempts - 1) + 4
    BY StepsFromIs, <2>3, <2>4
  <2>8. \/ StepsLeft(v)'
               = Load(left - 1) + 3 * MaxAttempts + (MaxAttempts - 1) + 2
        \/ StepsLeft(v)' = Load(left - 1) + 3 * (MaxAttempts - 1) + 4
    BY <2>2, <2>5, <2>7
  <2> QED
    BY <1>0, <1>3, <2>2, <2>3, <2>6, <2>8
<1>10. CASE Finish(v)
  BY <1>0, <1>6, <1>10 DEF Finish, Goto
(* To the deletion.                                                        *)
<1>11. ASSUME stage[v] = "checking", Goto(v, "deleting"), UNCHANGED todo
       PROVE  Nearer
  <2>1. StepsLeft(v)' = StepsFrom("deleting", left, MaxAttempts - 1)
    BY <1>0, <1>2, <1>11 DEF left, Goto
  <2>2. MaxAttempts - 1 \in Nat
    BY <1>0
  <2>3. StepsLeft(v)' = Load(left) + 3 * (MaxAttempts - 1) + 4
    BY <1>0, StepsFromIs, <2>1, <2>2
  <2> QED
    BY <1>0, <1>3, <1>11, <2>3
<1>12. CASE CheckIfArchived(v) \/ DescribeFails(v) \/ HistoryFails(v)
            \/ DeletionReported(v)
  BY <1>5, <1>11, <1>12
     DEF CheckIfArchived, DescribeFails, HistoryFails, DeletionReported, InHand
<1>13. CASE ListObjectsByPrefix(v)
  <2>1. stage[v] = "deleting"
    BY <1>13 DEF ListObjectsByPrefix
  <2>2. \/ Continue(v)
        \/ /\ stage' = [stage EXCEPT ![v] = "found"]
           /\ UNCHANGED <<todo, attempt>>
    BY <1>13 DEF ListObjectsByPrefix
  <2> QED
    BY <1>0, <1>5, <1>7, <2>1, <2>2 DEF InHand
<1>14. CASE DeleteObjects(v) \/ DeleteObjectsPartly(v)
  BY <1>0, <1>7, <1>14 DEF DeleteObjects, DeleteObjectsPartly, RemoveFound
(* The end of an attempt.                                                  *)
<1>15. CASE DeleteRefused(v) \/ AttemptFails(v)
  <2>1. AttemptEnds(v) /\ stage[v] \in InHand \cup {"listing"}
    BY <1>15 DEF DeleteRefused, AttemptFails, InHand
  <2>2. CASE attempt[v] < MaxAttempts
    <3>1. /\ attempt'[v] = attempt[v] + 1 /\ UNCHANGED todo
          /\ stage'[v] = IF stage[v] \in {"found", "removed"}
                         THEN "deleting" ELSE stage[v]
      BY <1>0, <2>1, <2>2 DEF AttemptEnds
    <3>2. MaxAttempts - attempt'[v] = tries - 1 /\ tries - 1 \in Nat
      BY <1>0, <2>2, <3>1 DEF tries
    <3>3. StepsLeft(v)' = StepsFrom(stage'[v], left, tries - 1)
      BY <1>2, <3>1, <3>2 DEF left
    <3>4. /\ StepsFrom("listing", left, tries - 1)
                 = Load(Cardinality(Execution)) + 2 + (tries - 1)
          /\ StepsFrom("checking", left, tries - 1)
                 = Load(left) + 3 * MaxAttempts + (tries - 1) + 2
          /\ StepsFrom("deleting", left, tries - 1)
                 = Load(left) + 3 * (tries - 1) + 4
      BY <1>0, <3>2, StepsFromIs
    <3>5. /\ stage[v] = "listing" =>
                 StepsLeft(v)' = Load(Cardinality(Execution)) + 2 + (tries - 1)
          /\ stage[v] = "checking" =>
                 StepsLeft(v)' = Load(left) + 3 * MaxAttempts + (tries - 1) + 2
          /\ stage[v] \in {"deleting", "found", "removed"} =>
                 StepsLeft(v)' = Load(left) + 3 * (tries - 1) + 4
      BY <3>1, <3>3, <3>4
    <3> QED
      BY <1>0, <1>3, <2>1, <3>2, <3>5 DEF InHand
  <2>3. CASE ~(attempt[v] < MaxAttempts) /\ stage[v] = "listing"
    BY <1>0, <1>6, <2>1, <2>3 DEF AttemptEnds, Goto
  <2>4. CASE ~(attempt[v] < MaxAttempts) /\ stage[v] # "listing"
    BY <1>5, <2>1, <2>4 DEF AttemptEnds
  <2> QED
    BY <2>2, <2>3, <2>4
<1> QED
  BY <1>8, <1>9, <1>10, <1>12, <1>13, <1>14, <1>15 DEF Step, Trouble

(* Every step of a cleanup brings it nearer to its end, those that fail    *)
(* included, for every finite number of executions: what remains for a     *)
(* cleanup to end is that Temporal keeps scheduling it.                    *)
THEOREM CleanupsMoveOn ==
    ASSUME IsFiniteSet(Execution)
    PROVE  Spec => CleanupsAdvance
<1> DEFINE Advances ==
        \A w \in Worker : stage[w] # "idle" =>
            Unmoved(w) \/ StepsLeft(w)' \in 0..(StepsLeft(w) - 1)
<1>1. ASSUME IInv, [Next]_vars PROVE [Advances]_vars
  <2>1. ASSUME UNCHANGED worker PROVE Advances
    BY <2>1 DEF worker, Unmoved
  <2>2. ASSUME NEW v \in Worker, StartCleanup(v) \/ Step(v) \/ Trouble(v)
        PROVE  Advances
    <3>1. \A w \in Worker \ {v} : Unmoved(w)
      BY <1>1, <2>2, OthersUnmoved DEF IInv
    <3>2. stage[v] # "idle" => StepsLeft(v)' \in 0..(StepsLeft(v) - 1)
      BY <1>1, <2>2, CleanupStep DEF StartCleanup
    <3> QED
      BY <3>1, <3>2
  <2>3. CASE World
    BY <2>1, <2>3, WorldLeavesWork
  <2>4. CASE LateRemoval \/ \E c \in Execution, d \in Data : StoreObject(c, d)
    BY <2>1, <2>4 DEF StoreObject, LateRemoval
  <2> QED
    BY <1>1, <2>2, <2>3, <2>4, StepKinds DEF vars
<1> QED
  BY <1>1, Invariance, PTL DEF Spec, CleanupsAdvance
=============================================================================
