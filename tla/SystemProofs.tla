---------------------------- MODULE SystemProofs ----------------------------
(***************************************************************************)
(* The composition is a codec server whose environment is the cleanup      *)
(* worker, so that what CodecServerProofs proves holds of it; and the      *)
(* cleanup worker removes nothing before its time.                         *)
(***************************************************************************)
EXTENDS System, CodecRefinementProofs

(* Every step of the composition is one of the codec server or leaves it   *)
(* alone.                                                                  *)
LEMMA StepIsCodecStep ==
    ASSUME SystemNext
    PROVE  [Next]_vars
<1>1. ASSUME NEW r \in Request, Ask(r) PROVE Next
  BY <1>1 DEF Ask, Decode, EncodeFor, Receive, Next
<1>2. ASSUME NEW r \in Request, Serve(r) PROVE Next
  BY <1>2 DEF Serve, Next
<1>3. ASSUME NEW put \in wire, Store(put) PROVE Next
  BY <1>3 DEF Store, Next
<1>4. ASSUME NEW s \in Server, ReplicaCrashes(s) PROVE Next
  BY <1>4 DEF ReplicaCrashes, Next
<1>5. ASSUME NEW w \in Worker, CleanUp(w) PROVE Next
  BY <1>5 DEF CleanUp, Next
<1>6. ASSUME NEW w \in Worker, CleanUpAlone(w) PROVE UNCHANGED vars
  BY <1>6 DEF CleanUpAlone, Alone
<1>7. CASE LateCleanUp
  <2>1. PICK keys \in SUBSET (Stored \cap UNION overdue) : RemoveObjects(keys)
    BY <1>7 DEF LateCleanUp
  <2>2. keys \in SUBSET Stored
    BY <2>1
  <2> QED
    BY <2>1, <2>2 DEF Next
<1>8. CASE Alone
  BY <1>8 DEF Alone
<1> QED
  BY <1>1, <1>2, <1>3, <1>4, <1>5, <1>6, <1>7, <1>8 DEF SystemNext

(* The codec server with the cleanup worker beside it behaves like the     *)
(* codec server from whose bucket somebody may remove objects.             *)
THEOREM SystemIsCodecServer == SystemSpec => Spec
<1>1. SystemInit => Init
  BY DEF SystemInit
<1>2. [SystemNext]_allVars => [Next]_vars
  <2>1. CASE SystemNext
    BY <2>1, StepIsCodecStep
  <2>2. CASE UNCHANGED allVars
    BY <2>2 DEF allVars
  <2> QED
    BY <2>1, <2>2
<1> QED
  BY <1>1, <1>2, PTL DEF SystemSpec, Spec
-----------------------------------------------------------------------------
(***************************************************************************)
(* Nothing is removed before its time: on the list of a cleanup are        *)
(* executions closed for the grace period, so that what it finds under     *)
(* their prefixes, and in the end removes, is covered by them; and once    *)
(* closed for the grace period, an execution is so for ever.               *)
(***************************************************************************)
CleanupTypes ==
    /\ now \in Nat
    /\ closeDay \in [Context -> Nat]
    /\ status \in [Context -> {"absent", "running", "continued", "closed",
                               "dropped"}]
    /\ todo \in [Worker -> SUBSET Context]
    /\ current \in [Worker -> SUBSET Context]
    /\ found \in [Worker -> SUBSET Key]
    /\ overdue \subseteq SUBSET Key

Listed(w) == todo[w] \cup current[w]

ListInv ==
    \A w \in Worker :
        /\ \A c \in Listed(w) : C!ClosedForGrace(c)
        /\ \A k \in found[w] : Covered(k)

RemovedInv == \A k \in removed \cup UNION overdue : Covered(k)

GraceInv == CleanupTypes /\ ListInv /\ RemovedInv

(* The steps of Temporal and the applications.                             *)
TemporalStep ==
    \/ \E c \in Context :
           \/ C!StartExecution(c) \/ C!CloseExecution(c) \/ C!DropExecution(c)
           \/ \E e \in Context : C!ContinueAsNew(c, e)
    \/ C!Tick

(* What a step does to the lists of a cleanup: from the listing, on to the *)
(* executions at work, on to the keys under their prefixes.                *)
WorkStep(w) ==
    /\ todo'[w] \subseteq todo[w] \cup {c \in Context : C!ClosedForGrace(c)}
    /\ current'[w] \subseteq Listed(w)
    /\ found'[w] \subseteq
           found[w] \cup {k \in Key : \E c \in current[w] :
                                          UnderPrefix(k, WorkflowPrefix(c))}

WorkSteps ==
    /\ todo' \in [Worker -> SUBSET Context]
    /\ current' \in [Worker -> SUBSET Context]
    /\ found' \in [Worker -> SUBSET Key]
    /\ \A w \in Worker : WorkStep(w)
    /\ overdue' \subseteq overdue \cup {found[w] : w \in Worker}

worldVars == <<now, status, closeDay>>
listVars == <<todo, current, found, overdue>>

LEMMA IdleLists ==
    ASSUME CleanupTypes, UNCHANGED listVars
    PROVE  WorkSteps
BY DEF CleanupTypes, listVars, WorkSteps, WorkStep, Listed

LEMMA TemporalLeavesLists ==
    ASSUME TemporalStep
    PROVE  UNCHANGED listVars
BY DEF TemporalStep, listVars, C!StartExecution, C!CloseExecution,
       C!DropExecution, C!ContinueAsNew, C!End, C!Tick, C!worker

LEMMA WorkerKeepsWorld ==
    ASSUME NEW v \in Worker, C!StartCleanup(v) \/ C!Step(v) \/ C!Trouble(v)
    PROVE  UNCHANGED worldVars
BY DEF C!Step, C!Trouble, C!StartCleanup, C!GetCompletedWorkflows,
       C!NextWorkflow, C!Finish, C!CheckIfArchived, C!ListObjectsByPrefix,
       C!DeleteObjects, C!DeleteRefused, C!DeletionReported,
       C!DescribeFails, C!HistoryFails, C!DeleteObjectsPartly,
       C!AttemptFails, C!RemoveFound, C!temporal, worldVars

LEMMA WorkerStep ==
    ASSUME CleanupTypes, NEW v \in Worker,
           C!StartCleanup(v) \/ C!Step(v) \/ C!Trouble(v)
    PROVE  WorkSteps
<1>0. ASSUME UNCHANGED overdue
      PROVE  overdue' \subseteq overdue \cup {found[w] : w \in Worker}
  BY <1>0
<1>1. CASE C!StartCleanup(v)
  BY <1>1, IdleLists DEF C!StartCleanup, listVars
<1>2. CASE C!GetCompletedWorkflows(v)
  BY <1>2 DEF C!GetCompletedWorkflows, C!Due, C!Execution, C!ClosedForGrace,
              CleanupTypes, WorkSteps, WorkStep, Listed
<1>3. CASE C!NextWorkflow(v)
  BY <1>3 DEF C!NextWorkflow, CleanupTypes, WorkSteps, WorkStep, Listed
<1>4. CASE C!Finish(v)
  BY <1>4, IdleLists DEF C!Finish, listVars
<1>5. ASSUME C!Continue(v),
             overdue' \subseteq overdue \cup {found[w] : w \in Worker}
      PROVE  WorkSteps
  BY <1>5 DEF C!Continue, CleanupTypes, WorkSteps, WorkStep, Listed
<1>6. CASE C!CheckIfArchived(v)
  BY <1>6, <1>5, IdleLists DEF C!CheckIfArchived, listVars
<1>7. CASE C!ListObjectsByPrefix(v)
  <2>1. PICK c \in current[v] :
            LET keys == {k \in Stored : C!UnderPrefix(k, C!WorkflowPrefix(c))}
            IN  \/ C!Continue(v)
                \/ /\ found' = [found EXCEPT ![v] = keys]
                   /\ UNCHANGED <<todo, current>>
    BY <1>7 DEF C!ListObjectsByPrefix
  <2> DEFINE keys == {k \in Stored : C!UnderPrefix(k, C!WorkflowPrefix(c))}
  <2>2. keys \subseteq {k \in Key : \E e \in current[v] :
                                        UnderPrefix(k, WorkflowPrefix(e))}
    BY DEF Stored, C!UnderPrefix, C!WorkflowPrefix, C!IsStrictPrefix,
           C!IsPrefix, UnderPrefix, WorkflowPrefix, IsStrictPrefix, IsPrefix
  <2> HIDE DEF keys
  <2>3. UNCHANGED overdue
    BY <1>7 DEF C!ListObjectsByPrefix
  <2>4. CASE found' = [found EXCEPT ![v] = keys] /\ UNCHANGED <<todo, current>>
    BY <2>2, <2>3, <2>4 DEF CleanupTypes, WorkSteps, WorkStep, Listed
  <2> QED
    BY <1>5, <2>1, <2>3, <2>4 DEF keys
<1>8. CASE C!DeleteObjects(v) \/ C!DeleteObjectsPartly(v)
  BY <1>8, IdleLists
     DEF C!DeleteObjects, C!DeleteObjectsPartly, C!RemoveFound, listVars
<1>9. ASSUME C!AttemptEnds(v),
             overdue' \subseteq overdue \cup {found[w] : w \in Worker}
      PROVE  WorkSteps
  <2>1. CASE found' = [found EXCEPT ![v] = {}] /\ UNCHANGED <<todo, current>>
    BY <1>9, <2>1 DEF CleanupTypes, WorkSteps, WorkStep, Listed
  <2>2. CASE UNCHANGED <<todo, current, found>>
    BY <1>9, <2>2 DEF CleanupTypes, WorkSteps, WorkStep, Listed
  <2> QED
    BY <1>9, <1>5, <2>1, <2>2 DEF C!AttemptEnds
<1>10. CASE C!DeleteRefused(v) \/ C!AttemptFails(v)
  BY <1>10, <1>9 DEF C!DeleteRefused, C!AttemptFails
<1>11. CASE C!DeletionReported(v) \/ C!DescribeFails(v)
  BY <1>11, <1>5 DEF C!DeletionReported, C!DescribeFails
<1>12. CASE C!HistoryFails(v)
  BY <1>12, IdleLists DEF C!HistoryFails, listVars
<1> QED
  BY <1>1, <1>2, <1>3, <1>4, <1>6, <1>7, <1>8, <1>10, <1>11, <1>12
     DEF C!Step, C!Trouble

(* A step of the composition is one of Temporal's, which leaves the lists  *)
(* alone, or happens within a day.                                         *)
LEMMA StepKinds ==
    ASSUME CleanupTypes, [SystemNext]_allVars
    PROVE  /\ TemporalStep \/ UNCHANGED worldVars
           /\ WorkSteps
<1>1. ASSUME UNCHANGED cleanupVars
      PROVE  UNCHANGED worldVars /\ WorkSteps
  BY <1>1, IdleLists DEF cleanupVars, worldVars, listVars
<1>2. CASE \/ \E r \in Request : Ask(r) \/ Serve(r)
           \/ \E s \in Server : ReplicaCrashes(s)
           \/ UNCHANGED allVars
  BY <1>1, <1>2 DEF Ask, Serve, ReplicaCrashes, allVars
<1>3. ASSUME NEW c, NEW d, C!StoreObject(c, d)
      PROVE  UNCHANGED worldVars /\ WorkSteps
  BY <1>3, IdleLists
     DEF C!StoreObject, C!temporal, C!worker, worldVars, listVars
<1>4. CASE \E put \in wire : Store(put)
  BY <1>3, <1>4 DEF Store
<1>5. CASE \E w \in Worker : CleanUp(w) \/ CleanUpAlone(w)
  BY <1>5, WorkerStep, WorkerKeepsWorld
     DEF CleanUp, CleanUpAlone, C!Step, C!Trouble
<1>6. ASSUME C!LateRemoval PROVE UNCHANGED worldVars /\ WorkSteps
  <2>1. overdue' \subseteq overdue /\ UNCHANGED <<todo, current, found>>
    BY <1>6 DEF C!LateRemoval, C!worker
  <2>2. WorkSteps
    BY <2>1 DEF CleanupTypes, WorkSteps, WorkStep, Listed
  <2> QED
    BY <1>6, <2>2 DEF C!LateRemoval, C!temporal, worldVars
<1>7. CASE C!Environment
  <2>1. \/ TemporalStep \/ C!LateRemoval
        \/ \E c \in Context, d \in Data : C!StoreObject(c, d)
    BY <1>7 DEF C!Environment, C!Execution, TemporalStep
  <2> QED
    BY <1>3, <1>6, <2>1, TemporalLeavesLists, IdleLists
<1> QED
  BY <1>2, <1>4, <1>5, <1>6, <1>7 DEF SystemNext, LateCleanUp

LEMMA WorldTypes ==
    ASSUME CleanupTypes, TemporalStep \/ UNCHANGED worldVars
    PROVE  /\ now' \in Nat
           /\ closeDay' \in [Context -> Nat]
           /\ status' \in [Context -> {"absent", "running", "continued",
                                       "closed", "dropped"}]
BY DEF CleanupTypes, TemporalStep, worldVars, C!StartExecution,
       C!CloseExecution, C!DropExecution, C!ContinueAsNew, C!End, C!Tick,
       C!temporal

LEMMA ClosedForever ==
    ASSUME CleanupTypes, TemporalStep \/ UNCHANGED worldVars,
           NEW c \in Context, C!ClosedForGrace(c)
    PROVE  C!ClosedForGrace(c)'
<1> USE SystemAssumption DEF CleanupTypes, C!ClosedForGrace
<1>1. CASE UNCHANGED worldVars
  BY <1>1 DEF worldVars
<1>2. ASSUME NEW e \in Context, C!StartExecution(e)
      PROVE  C!ClosedForGrace(c)'
  BY <1>2 DEF C!StartExecution
<1>3. ASSUME NEW e \in Context, C!CloseExecution(e)
      PROVE  C!ClosedForGrace(c)'
  BY <1>3 DEF C!CloseExecution, C!End
<1>4. ASSUME NEW e \in Context, C!DropExecution(e)
      PROVE  C!ClosedForGrace(c)'
  BY <1>4 DEF C!DropExecution
<1>5. ASSUME NEW e \in Context, NEW n \in Context, C!ContinueAsNew(e, n)
      PROVE  C!ClosedForGrace(c)'
  BY <1>5 DEF C!ContinueAsNew, C!End
<1>6. CASE C!Tick
  BY <1>6 DEF C!Tick, C!temporal
<1> QED
  BY <1>1, <1>2, <1>3, <1>4, <1>5, <1>6 DEF TemporalStep

(* What a step adds to the removed keys some cleanup has or had found.     *)
LEMMA RemovedWereFound ==
    ASSUME [SystemNext]_allVars
    PROVE  \A k \in removed' :
               \/ k \in removed \cup UNION overdue
               \/ \E w \in Worker : k \in found[w]
<1>1. CASE UNCHANGED vars
  BY <1>1 DEF vars
<1>2. ASSUME NEW r \in Request, Ask(r) \/ Serve(r) PROVE removed' = removed
  BY <1>2 DEF Ask, Decode, EncodeFor, Serve, Work, Answer, ReceiveEncode,
              ReceiveDecode, Start, EncodeInline, StartUpload, UploadOk,
              UploadFail, DecodeInline, DecodeMalformed, DownloadOk,
              DownloadFail, Return, Fail, Deliver, LoseReply
<1>3. ASSUME NEW put \in wire, Store(put) PROVE removed' = removed
  BY <1>3 DEF Store, ApplyPut
<1>4. ASSUME NEW s \in Server, ReplicaCrashes(s) PROVE removed' = removed
  BY <1>4 DEF ReplicaCrashes, Crash
<1>5. ASSUME NEW w \in Worker, CleanUp(w)
      PROVE  removed' \subseteq removed \cup found[w]
  BY <1>5 DEF CleanUp, RemoveObjects
<1>6. CASE LateCleanUp
  BY <1>6 DEF LateCleanUp, RemoveObjects
<1> QED
  BY <1>1, <1>2, <1>3, <1>4, <1>5, <1>6
     DEF SystemNext, CleanUpAlone, Alone, allVars

LEMMA GraceInit == SystemInit => GraceInv
BY DEF SystemInit, Init, C!Init, C!Execution, GraceInv, CleanupTypes, ListInv,
       RemovedInv, Listed

LEMMA GraceStep == GraceInv /\ [SystemNext]_allVars => GraceInv'
<1> SUFFICES ASSUME GraceInv, [SystemNext]_allVars PROVE GraceInv'
  OBVIOUS
<1>1. TemporalStep \/ UNCHANGED worldVars
  BY StepKinds DEF GraceInv
<1>2. WorkSteps
  BY StepKinds DEF GraceInv
<1>3. CleanupTypes'
  BY <1>1, <1>2, WorldTypes DEF GraceInv, CleanupTypes, WorkSteps
<1>4. ASSUME NEW c \in Context, C!ClosedForGrace(c) PROVE C!ClosedForGrace(c)'
  BY <1>1, <1>4, ClosedForever DEF GraceInv
<1>5. ASSUME NEW k, Covered(k) PROVE Covered(k)'
  BY <1>4, <1>5 DEF Covered
<1>6. ASSUME NEW w \in Worker, NEW k \in found'[w] PROVE Covered(k)
  <2>1. CASE k \in found[w]
    BY <2>1 DEF GraceInv, ListInv
  <2>2. ASSUME NEW c \in current[w], UnderPrefix(k, WorkflowPrefix(c))
        PROVE  Covered(k)
    BY <2>2 DEF GraceInv, ListInv, Listed, CleanupTypes, Covered
  <2> QED
    BY <1>2, <2>1, <2>2 DEF WorkSteps, WorkStep
<1>7. ASSUME NEW w \in Worker, NEW c \in Listed(w)'
      PROVE  c \in Context /\ C!ClosedForGrace(c)
  BY <1>2, <1>7 DEF GraceInv, ListInv, Listed, CleanupTypes, WorkSteps, WorkStep
<1>8. ListInv'
  BY <1>4, <1>5, <1>6, <1>7 DEF ListInv
<1>9. RemovedInv'
  <2>1. \A k \in UNION overdue' :
            \/ k \in UNION overdue
            \/ \E w \in Worker : k \in found[w]
    BY <1>2 DEF WorkSteps
  <2>2. \A k \in removed' \cup UNION overdue' : Covered(k)
    BY <2>1, RemovedWereFound DEF GraceInv, ListInv, RemovedInv
  <2> QED
    BY <1>5, <2>2 DEF RemovedInv
<1> QED
  BY <1>3, <1>8, <1>9 DEF GraceInv

(* The end-to-end promise, for any number of requests, replicas, cleanups, *)
(* executions and days: a published reference leads to its payload until a *)
(* run that covers its object has been closed for the grace period.        *)
THEOREM PayloadsSurviveGrace == SystemSpec => []SafeUntilGrace
<1>1. SystemSpec => []PublishedRetrievable
  BY SystemIsCodecServer, ReferencesAreRetrievable, PTL
<1>2. SystemSpec => []GraceInv
  BY GraceInit, GraceStep, PTL DEF SystemSpec
<1>3. PublishedRetrievable /\ GraceInv => SafeUntilGrace
  BY DEF PublishedRetrievable, StoredIn, GraceInv, RemovedInv, SafeUntilGrace
<1> QED
  BY <1>1, <1>2, <1>3, PTL

(* Beside the cleanup worker, too, the codec server is to its callers the  *)
(* transparent codec: an answer is right or there is none, and cleanup may *)
(* turn answers into errors but never change one.                          *)
THEOREM SystemIsTransparent == SystemSpec => ImplementsTransparentCodec
BY SystemIsCodecServer, CodecServerIsTransparent
-----------------------------------------------------------------------------
(***************************************************************************)
(* The composition is also a cleanup worker whose applications store what  *)
(* S3 applies of the codec server's PUTs, so that what CleanupProofs       *)
(* proves holds of it.                                                     *)
(***************************************************************************)
LEMMA RequestsStoreNothing ==
    ASSUME NEW r \in Request, Receive(r) \/ Work(r) \/ Answer(r)
    PROVE  UNCHANGED bucket
BY DEF Receive, Work, Answer, ReceiveEncode, ReceiveDecode, Start,
       EncodeInline, StartUpload, UploadOk, UploadFail, DecodeInline,
       DecodeMalformed, DownloadOk, DownloadFail, Return, Fail, Deliver,
       LoseReply

(* A PUT is that of an encode request, for an execution.                   *)
LEMMA PutsAreStored ==
    ASSUME IInv, NEW put \in wire, Store(put)
    PROVE  C!Environment
<1>1. /\ put.from \in Request /\ put.data \in Data
      /\ pc[put.from] # "idle" /\ req[put.from].op = "encode"
  BY DEF IInv, TypeOK, Put, WireInv
<1>2. req[put.from].ctx \in Context
  BY <1>1 DEF IInv, TypeOK, RequestRecord
<1> QED
  BY <1>1, <1>2 DEF Store, C!Environment, C!Execution

LEMMA StepIsCleanupStep ==
    ASSUME IInv, [SystemNext]_allVars
    PROVE  [C!Next]_C!vars
<1>1. ASSUME UNCHANGED <<bucket, cleanupVars>> PROVE UNCHANGED C!vars
  BY <1>1 DEF cleanupVars, Stored, C!vars, C!temporal, C!worker
<1>2. ASSUME NEW r \in Request, Ask(r) \/ Serve(r) PROVE UNCHANGED C!vars
  BY <1>1, <1>2, RequestsStoreNothing
     DEF Ask, Decode, EncodeFor, Serve, Receive
<1>3. ASSUME NEW put \in wire, Store(put) PROVE C!Next
  BY <1>3, PutsAreStored DEF C!Next
<1>4. ASSUME NEW s \in Server, ReplicaCrashes(s) PROVE UNCHANGED C!vars
  BY <1>1, <1>4 DEF ReplicaCrashes, Crash
<1>5. ASSUME NEW w \in Worker, CleanUp(w) \/ CleanUpAlone(w) PROVE C!Next
  BY <1>5 DEF CleanUp, CleanUpAlone, C!Step, C!Trouble, C!Next
<1>6. CASE LateCleanUp \/ (Alone /\ C!Environment)
  BY <1>6 DEF LateCleanUp, C!Environment, C!Next
<1>7. CASE UNCHANGED allVars
  BY <1>1, <1>7 DEF allVars, vars
<1> QED
  BY <1>2, <1>3, <1>4, <1>5, <1>6, <1>7 DEF SystemNext

(* The cleanup worker with the codec server beside it behaves like the     *)
(* cleanup worker beside whose work somebody stores objects.               *)
THEOREM SystemIsCleanup == SystemSpec => C!Spec
<1>1. SystemSpec => []IInv
  BY SystemIsCodecServer, Invariance, PTL
<1>2. SystemInit => C!Init
  BY DEF SystemInit
<1>3. IInv /\ [SystemNext]_allVars => [C!Next]_C!vars
  BY StepIsCleanupStep
<1> QED
  BY <1>1, <1>2, <1>3, PTL DEF SystemSpec, C!Spec

Proofs == INSTANCE CleanupProofs WITH objects <- Stored

(* The cleanup worker of the composition is the one of the proofs.         *)
LEMMA SameCleanup ==
    /\ C!Init <=> Proofs!Init
    /\ [C!Next]_C!vars <=> [Proofs!Next]_Proofs!vars
    /\ C!NothingLeaks <=> Proofs!NothingLeaks
<1> USE DEF C!temporal, Proofs!temporal, C!worker, Proofs!worker,
            C!Execution, Proofs!Execution, C!Fault, Proofs!Fault,
            C!Goto, Proofs!Goto, C!Continue, Proofs!Continue,
            C!AttemptEnds, Proofs!AttemptEnds, C!End, Proofs!End,
            C!RemoveFound, Proofs!RemoveFound, C!SameWorkflow,
            Proofs!SameWorkflow
<1>1. C!Init <=> Proofs!Init
  BY DEF C!Init, Proofs!Init
<1>2. C!Environment <=> Proofs!Environment
  BY DEF C!Environment, Proofs!Environment, C!StartExecution,
         Proofs!StartExecution, C!CloseExecution, Proofs!CloseExecution,
         C!DropExecution, Proofs!DropExecution, C!StoreObject,
         Proofs!StoreObject, C!MayStore, Proofs!MayStore, C!KeyOf,
         Proofs!KeyOf, C!ContinueAsNew, Proofs!ContinueAsNew, C!Tick,
         Proofs!Tick, C!LateRemoval, Proofs!LateRemoval
<1>3. ASSUME NEW w \in Worker PROVE C!StartCleanup(w) <=> Proofs!StartCleanup(w)
  BY DEF C!StartCleanup, Proofs!StartCleanup
<1>4. ASSUME NEW w \in Worker PROVE C!Step(w) <=> Proofs!Step(w)
  <2>1. C!GetCompletedWorkflows(w) <=> Proofs!GetCompletedWorkflows(w)
    BY DEF C!GetCompletedWorkflows, Proofs!GetCompletedWorkflows,
           C!Due, Proofs!Due
  <2>2. C!NextWorkflow(w) <=> Proofs!NextWorkflow(w)
    BY DEF C!NextWorkflow, Proofs!NextWorkflow
  <2>3. C!Finish(w) <=> Proofs!Finish(w)
    BY DEF C!Finish, Proofs!Finish
  <2>4. C!CheckIfArchived(w) <=> Proofs!CheckIfArchived(w)
    BY DEF C!CheckIfArchived, Proofs!CheckIfArchived,
           C!OlderThanArchiveAge, Proofs!OlderThanArchiveAge
  <2>5. C!ListObjectsByPrefix(w) <=> Proofs!ListObjectsByPrefix(w)
    BY DEF C!ListObjectsByPrefix, Proofs!ListObjectsByPrefix,
           C!UnderPrefix, Proofs!UnderPrefix, C!IsStrictPrefix,
           Proofs!IsStrictPrefix, C!IsPrefix, Proofs!IsPrefix,
           C!WorkflowPrefix, Proofs!WorkflowPrefix
  <2>6. C!DeleteObjects(w) <=> Proofs!DeleteObjects(w)
    BY DEF C!DeleteObjects, Proofs!DeleteObjects, C!Cardinality,
           Proofs!Cardinality
  <2>7. C!DeleteRefused(w) <=> Proofs!DeleteRefused(w)
    BY DEF C!DeleteRefused, Proofs!DeleteRefused, C!Cardinality,
           Proofs!Cardinality
  <2>8. C!DeletionReported(w) <=> Proofs!DeletionReported(w)
    BY DEF C!DeletionReported, Proofs!DeletionReported
  <2> QED
    BY <2>1, <2>2, <2>3, <2>4, <2>5, <2>6, <2>7, <2>8
       DEF C!Step, Proofs!Step
<1>5. ASSUME NEW w \in Worker PROVE C!Trouble(w) <=> Proofs!Trouble(w)
  <2>1. C!DescribeFails(w) <=> Proofs!DescribeFails(w)
    BY DEF C!DescribeFails, Proofs!DescribeFails
  <2>2. C!HistoryFails(w) <=> Proofs!HistoryFails(w)
    BY DEF C!HistoryFails, Proofs!HistoryFails
  <2>3. C!DeleteObjectsPartly(w) <=> Proofs!DeleteObjectsPartly(w)
    BY DEF C!DeleteObjectsPartly, Proofs!DeleteObjectsPartly,
           C!Cardinality, Proofs!Cardinality
  <2>4. C!AttemptFails(w) <=> Proofs!AttemptFails(w)
    BY DEF C!AttemptFails, Proofs!AttemptFails, C!Cardinality,
           Proofs!Cardinality
  <2> QED
    BY <2>1, <2>2, <2>3, <2>4 DEF C!Trouble, Proofs!Trouble
<1>6. [C!Next]_C!vars <=> [Proofs!Next]_Proofs!vars
  BY <1>2, <1>3, <1>4, <1>5 DEF C!Next, Proofs!Next, C!vars, Proofs!vars
<1>7. C!NothingLeaks <=> Proofs!NothingLeaks
  BY DEF C!NothingLeaks, Proofs!NothingLeaks, C!WindowMissed,
         Proofs!WindowMissed, C!EndedBy, Proofs!EndedBy, C!KeyOf, Proofs!KeyOf
<1> QED
  BY <1>1, <1>6, <1>7

(* What failed requests, lost answers and late PUTs have left in the       *)
(* bucket is removed with the rest, if the configuration leaves cleanup    *)
(* the time it needs (see CleanupProofs, WideWindow).                      *)
THEOREM NoUploadLeaks ==
    ASSUME Proofs!WideWindow
    PROVE  SystemSpec => []NothingLeaks
<1>1. Proofs!WideWindow => (Proofs!Spec => []Proofs!NothingLeaks)
  BY SystemAssumption, ContextAssumption, HashAssumption,
     Proofs!NoObjectLeaks, PTL
<1>2. C!Spec => Proofs!Spec
  BY SameCleanup, PTL DEF C!Spec, Proofs!Spec
<1>3. NothingLeaks <=> Proofs!NothingLeaks
  BY SameCleanup DEF NothingLeaks
<1> QED
  BY <1>1, <1>2, <1>3, SystemIsCleanup, PTL
=============================================================================
