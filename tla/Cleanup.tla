------------------------------- MODULE Cleanup ------------------------------
(***************************************************************************)
(* The cleanup worker: a Temporal workflow that, once a day, lists the     *)
(* executions closed for longer than the grace period, asks of each of     *)
(* them whether it is archived, and removes the objects of those that are  *)
(* not (cleanup-worker/internal/workflows/cleanup.go and                   *)
(* internal/activities).  Each of the three calls is a Temporal activity   *)
(* with its own retries: an attempt may fail, or succeed and be repeated   *)
(* because nobody learned of it.                                           *)
(*                                                                         *)
(* Around it: executions that start, store payloads (activities that       *)
(* outlive their execution do so late), close or continue as new, and are  *)
(* dropped by Temporal when their retention is over (into the archive if   *)
(* the namespace has one).  Time is counted in days.                       *)
(***************************************************************************)
EXTENDS Naturals, FiniteSets, ObjectKeys

CONSTANTS
    Worker,         \* cleanup workflow instances that may overlap
    Grace,          \* CLEANUP_GRACE_PERIOD_DAYS
    CheckArchive,   \* CHECK_ARCHIVE_BEFORE_DELETE
    ArchiveAge,     \* archivalAgeDays: 30
    MaxAttempts,    \* RetryPolicy.MaximumAttempts: 3
    DeleteLimit,    \* keys S3 takes in one DeleteObjects call: 1000
    Retention,      \* days Temporal keeps a closed execution
    Archival,       \* whether the namespace archives histories
    MaxDelay,       \* bound on days between the end and the last payload
    MaxDay,         \* bound on time
    MaxFaults       \* bound on failed attempts and on days without cleanup

ASSUME CleanupAssumption ==
    /\ Grace \in Nat /\ ArchiveAge \in Nat /\ Retention \in Nat
    /\ MaxAttempts \in Nat \ {0} /\ DeleteLimit \in Nat
    /\ MaxDelay \in Nat /\ MaxDay \in Nat /\ MaxFaults \in Nat
    /\ CheckArchive \in BOOLEAN /\ Archival \in BOOLEAN

(* A workflow execution is the context its payloads are stored under.      *)
Execution == Context

SameWorkflow(c, e) == c.ns = e.ns /\ c.wf = e.wf

VARIABLES
    now,        \* today
    status,     \* of each execution, as Temporal has it
    closeDay,   \* when it closed or continued as new
    archived,   \* executions whose history is in the archive
    objects,    \* keys in the bucket
    overdue,    \* keys of DeleteObjects calls nobody waits for any more
    stage,      \* where each cleanup workflow is
    todo,       \* completedWorkflows not processed yet
    current,    \* the one it is processing
    found,      \* keys that DeleteS3Objects has listed
    attempt,    \* attempt of the running activity
    startedOn,  \* day it was started, which its workflow id names
    cleaned,    \* whether a cleanup started today has come to its end
    faults      \* faults so far

temporal == <<status, closeDay, archived>>
worker == <<stage, todo, current, found, attempt, startedOn>>
vars == <<now, temporal, objects, overdue, worker, cleaned, faults>>

Stages == {"idle", "listing", "loop", "checking", "deleting", "found", "removed"}

TypeOK ==
    /\ now \in Nat
    /\ status \in [Execution -> {"absent", "running", "continued", "closed",
                                "dropped"}]
    /\ closeDay \in [Execution -> Nat]
    /\ archived \subseteq Execution
    /\ objects \subseteq Key
    /\ overdue \subseteq SUBSET Key
    /\ stage \in [Worker -> Stages]
    /\ todo \in [Worker -> SUBSET Execution]
    /\ current \in [Worker -> SUBSET Execution]
    /\ found \in [Worker -> SUBSET Key]
    /\ attempt \in [Worker -> 1..MaxAttempts]
    /\ startedOn \in [Worker -> Nat]
    /\ cleaned \in BOOLEAN
    /\ faults \in Nat

Init ==
    /\ now = 0
    /\ status = [c \in Execution |-> "absent"]
    /\ closeDay = [c \in Execution |-> 0]
    /\ archived = {}
    /\ objects = {}
    /\ overdue = {}
    /\ stage = [w \in Worker |-> "idle"]
    /\ todo = [w \in Worker |-> {}]
    /\ current = [w \in Worker |-> {}]
    /\ found = [w \in Worker |-> {}]
    /\ attempt = [w \in Worker |-> 1]
    /\ startedOn = [w \in Worker |-> 0]
    /\ cleaned = FALSE
    /\ faults = 0
-----------------------------------------------------------------------------
(***************************************************************************)
(* Temporal and the applications.                                          *)
(***************************************************************************)

(* At most one run of a workflow id is open at a time.                     *)
StartExecution(c) ==
    /\ status[c] = "absent"
    /\ \A e \in Execution : SameWorkflow(c, e) => status[e] # "running"
    /\ status' = [status EXCEPT ![c] = "running"]
    /\ UNCHANGED <<now, closeDay, archived, objects, overdue, worker, cleaned,
                   faults>>

(* The codec server stores a payload of a running execution, or of one     *)
(* that ended while an activity or a request was still at work.            *)
MayStore(c) ==
    /\ status[c] # "absent"
    /\ status[c] # "running" => now <= closeDay[c] + MaxDelay

StoreObject(c, d) ==
    /\ MayStore(c)
    /\ objects' = objects \cup {KeyOf(c, d)}
    /\ UNCHANGED <<now, temporal, overdue, worker, cleaned, faults>>

End(c, statuses) ==
    /\ status[c] = "running"
    /\ status' = statuses
    /\ closeDay' = [closeDay EXCEPT ![c] = now]
    /\ UNCHANGED <<now, archived, objects, overdue, worker, cleaned, faults>>

CloseExecution(c) == End(c, [status EXCEPT ![c] = "closed"])

(* The next run of the workflow id starts at once.  The old one ends with  *)
(* a status that the visibility query does not ask for.                    *)
ContinueAsNew(c, e) ==
    /\ SameWorkflow(c, e)
    /\ status[e] = "absent"
    /\ End(c, [status EXCEPT ![c] = "continued", ![e] = "running"])

(* Retention is over: Temporal forgets the execution, or archives it first.*)
DropExecution(c) ==
    /\ status[c] = "closed"
    /\ closeDay[c] + Retention <= now
    /\ status' = [status EXCEPT ![c] = "dropped"]
    /\ archived' = IF Archival THEN archived \cup {c} ELSE archived
    /\ UNCHANGED <<now, closeDay, objects, overdue, worker, cleaned, faults>>

Fault == faults < MaxFaults /\ faults' = faults + 1

(* A day passes.  scheduleCleanup starts a cleanup every 24 hours; a day   *)
(* on which none came to its end (the worker was down, or Temporal) is a   *)
(* fault.                                                                  *)
Tick ==
    /\ now < MaxDay
    /\ now' = now + 1
    /\ cleaned' = FALSE
    /\ IF cleaned THEN UNCHANGED faults ELSE Fault
    /\ UNCHANGED <<temporal, objects, overdue, worker>>
-----------------------------------------------------------------------------
(***************************************************************************)
(* The cleanup workflow.                                                   *)
(***************************************************************************)
Goto(w, place) ==
    /\ stage' = [stage EXCEPT ![w] = place]
    /\ attempt' = [attempt EXCEPT ![w] = 1]

(* runCleanupWorkflow: the workflow id holds the date, so a second start   *)
(* on a day joins the cleanup still running.  Cleanups of two days overlap *)
(* when the worker was restarted or there are several.                     *)
StartCleanup(w) ==
    /\ stage[w] = "idle"
    /\ \A v \in Worker : stage[v] # "idle" => startedOn[v] # now
    /\ startedOn' = [startedOn EXCEPT ![w] = now]
    /\ Goto(w, "listing")
    /\ UNCHANGED <<now, temporal, objects, overdue, todo, current, found,
                   cleaned, faults>>

(* CloseTime < now - grace, and one of the five closed statuses            *)
MutDueWithoutGrace(c) == status[c] = "closed" /\ closeDay[c] <= now

Due(c) == status[c] = "closed" /\ closeDay[c] + Grace < now

GetCompletedWorkflows(w) ==
    /\ stage[w] = "listing"
    /\ todo' = [todo EXCEPT ![w] = {c \in Execution : Due(c)}]
    /\ Goto(w, "loop")
    /\ UNCHANGED <<now, temporal, objects, overdue, current, found, startedOn,
                   cleaned, faults>>

(* for _, wf := range completedWorkflows, in the order of the listing      *)
NextWorkflow(w) ==
    /\ stage[w] = "loop"
    /\ \E c \in todo[w] :
           /\ todo' = [todo EXCEPT ![w] = @ \ {c}]
           /\ current' = [current EXCEPT ![w] = {c}]
    /\ Goto(w, IF CheckArchive THEN "checking" ELSE "deleting")
    /\ UNCHANGED <<now, temporal, objects, overdue, found, startedOn, cleaned,
                   faults>>

Finish(w) ==
    /\ stage[w] = "loop"
    /\ todo[w] = {}
    /\ Goto(w, "idle")
    /\ cleaned' = (cleaned \/ startedOn[w] = now)
    /\ UNCHANGED <<now, temporal, objects, overdue, todo, current, found,
                   startedOn, faults>>

(* "continue": on to the next execution                                    *)
Continue(w) ==
    /\ Goto(w, "loop")
    /\ current' = [current EXCEPT ![w] = {}]
    /\ found' = [found EXCEPT ![w] = {}]
    /\ UNCHANGED <<todo, startedOn>>

(* CheckIfArchived answers by age once Temporal has described the          *)
(* execution and read its history.                                         *)
MutOlderThanArchiveAge(c) == closeDay[c] + ArchiveAge > now

OlderThanArchiveAge(c) == closeDay[c] + ArchiveAge < now

CheckIfArchived(w) ==
    /\ stage[w] = "checking"
    /\ \E c \in current[w] :
           IF status[c] = "dropped" \/ OlderThanArchiveAge(c)
           THEN Continue(w)
           ELSE Goto(w, "deleting") /\ UNCHANGED <<todo, current, found, startedOn>>
    /\ UNCHANGED <<now, temporal, objects, overdue, cleaned, faults>>

(* Any error of DescribeWorkflowExecution counts as "archived".            *)
DescribeFails(w) ==
    /\ stage[w] = "checking"
    /\ Fault
    /\ Continue(w)
    /\ UNCHANGED <<now, temporal, objects, overdue, cleaned>>

(* An error while reading the history counts as "not archived".            *)
HistoryFails(w) ==
    /\ stage[w] = "checking"
    /\ \E c \in current[w] : status[c] = "closed"
    /\ Fault
    /\ Goto(w, "deleting")
    /\ UNCHANGED <<now, temporal, objects, overdue, todo, current, found,
                   startedOn, cleaned>>

(* DeleteS3Objects, first half: list the keys with the prefix of the       *)
(* workflow id.  No keys, nothing to do.                                   *)
ListObjectsByPrefix(w) ==
    /\ stage[w] = "deleting"
    /\ \E c \in current[w] :
           LET keys == {k \in objects : UnderPrefix(k, WorkflowPrefix(c))}
           IN  IF keys = {}
               THEN Continue(w)
               ELSE /\ stage' = [stage EXCEPT ![w] = "found"]
                    /\ found' = [found EXCEPT ![w] = keys]
                    /\ UNCHANGED <<todo, current, attempt, startedOn>>
    /\ UNCHANGED <<now, temporal, objects, overdue, cleaned, faults>>

(* Second half: one DeleteObjects call for all of them.                    *)
RemoveFound(w, keys) ==
    /\ stage[w] = "found"
    /\ Cardinality(found[w]) <= DeleteLimit
    /\ objects' = objects \ keys
    /\ stage' = [stage EXCEPT ![w] = "removed"]
    /\ UNCHANGED <<now, temporal, overdue, todo, current, found, attempt,
                   startedOn, cleaned>>

DeleteObjects(w) == RemoveFound(w, found[w]) /\ UNCHANGED faults

(* S3 reports a failure for some of the keys; nobody looks at it.          *)
DeleteObjectsPartly(w) ==
    \E keys \in SUBSET found[w] : keys # found[w] /\ RemoveFound(w, keys) /\ Fault

DeletionReported(w) ==
    /\ stage[w] = "removed"
    /\ Continue(w)
    /\ UNCHANGED <<now, temporal, objects, overdue, cleaned, faults>>

(* An attempt of an activity ends without a result.  The last one ends     *)
(* the workflow (GetCompletedWorkflows) or the work on the current         *)
(* execution; the others start again from the beginning.                   *)
MutUnlimitedAttempts(w) ==
    /\ stage' = [stage EXCEPT ![w] =
                    IF @ \in {"found", "removed"} THEN "deleting" ELSE @]
    /\ UNCHANGED <<todo, current, found, attempt, startedOn>>

MutOneAttemptMore(w) ==
    IF attempt[w] <= MaxAttempts
    THEN /\ attempt' = [attempt EXCEPT ![w] = @ + 1]
         /\ stage' = [stage EXCEPT ![w] =
                         IF @ \in {"found", "removed"} THEN "deleting" ELSE @]
         /\ found' = [found EXCEPT ![w] = {}]
         /\ UNCHANGED <<todo, current, startedOn>>
    ELSE IF stage[w] = "listing"
         THEN Goto(w, "idle") /\ UNCHANGED <<todo, current, found, startedOn>>
         ELSE Continue(w)

AttemptEnds(w) ==
    IF attempt[w] < MaxAttempts
    THEN /\ attempt' = [attempt EXCEPT ![w] = @ + 1]
         /\ stage' = [stage EXCEPT ![w] =
                         IF @ \in {"found", "removed"} THEN "deleting" ELSE @]
         /\ found' = [found EXCEPT ![w] = {}]
         /\ UNCHANGED <<todo, current, startedOn>>
    ELSE IF stage[w] = "listing"
         THEN Goto(w, "idle") /\ UNCHANGED <<todo, current, found, startedOn>>
         ELSE Continue(w)

(* The worker crashed, Temporal or S3 did not answer in time, the result   *)
(* got lost.  S3 may have the DeleteObjects call of the attempt before it. *)
AttemptFails(w) ==
    /\ stage[w] \in {"listing", "checking", "deleting", "found", "removed"}
    /\ Fault
    /\ AttemptEnds(w)
    /\ \/ UNCHANGED overdue
       \/ /\ stage[w] = "found"
          /\ Cardinality(found[w]) <= DeleteLimit
          /\ overdue' = overdue \cup {found[w]}
    /\ UNCHANGED <<now, temporal, objects, cleaned>>

(* S3 gets round to such a call, whatever the cleanups have done since.    *)
LateRemoval ==
    /\ \E keys \in overdue :
           /\ \E gone \in SUBSET keys : objects' = objects \ gone
           /\ overdue' = overdue \ {keys}
    /\ UNCHANGED <<now, temporal, worker, cleaned, faults>>

(* More keys than S3 takes in one call: it refuses, each time.             *)
DeleteRefused(w) ==
    /\ stage[w] = "found"
    /\ Cardinality(found[w]) > DeleteLimit
    /\ AttemptEnds(w)
    /\ UNCHANGED <<now, temporal, objects, overdue, cleaned, faults>>
-----------------------------------------------------------------------------
Step(w) ==
    \/ GetCompletedWorkflows(w) \/ NextWorkflow(w) \/ Finish(w)
    \/ CheckIfArchived(w) \/ ListObjectsByPrefix(w) \/ DeleteObjects(w)
    \/ DeleteRefused(w) \/ DeletionReported(w)

Trouble(w) ==
    \/ DescribeFails(w) \/ HistoryFails(w) \/ DeleteObjectsPartly(w)
    \/ AttemptFails(w)

Environment ==
    \/ \E c \in Execution :
           \/ StartExecution(c) \/ CloseExecution(c) \/ DropExecution(c)
           \/ \E d \in Data : StoreObject(c, d)
           \/ \E e \in Execution : ContinueAsNew(c, e)
    \/ Tick
    \/ LateRemoval

Next ==
    \/ Environment
    \/ \E w \in Worker : StartCleanup(w) \/ Step(w) \/ Trouble(w)

Spec == Init /\ [][Next]_vars

(* Temporal keeps a workflow going: every activity attempt ends, at the    *)
(* latest with StartToCloseTimeout, and the next step is scheduled.        *)
FairSpec == Spec /\ \A w \in Worker : WF_vars(Step(w))
-----------------------------------------------------------------------------
(***************************************************************************)
(* Properties.                                                             *)
(***************************************************************************)
ClosedForGrace(c) ==
    status[c] \in {"closed", "dropped"} /\ closeDay[c] + Grace < now

(* Whatever is removed lies under the prefix of a workflow id that has a   *)
(* run closed for longer than the grace period, however old the listing    *)
(* the removal goes back to and however often an attempt is repeated.      *)
GraceRespected ==
    [][\A k \in objects \ objects' :
           \E c \in Execution : /\ ClosedForGrace(c)
                                /\ UnderPrefix(k, WorkflowPrefix(c))]_vars

(* Nothing leaks: when an execution gets too old for CheckIfArchived to    *)
(* let it through, its objects are gone, and with them those of all        *)
(* earlier runs of its workflow id, the ones that continued as new         *)
(* included, which no listing ever names.  Cleanup has one try a day in    *)
(* between, so this takes fewer faults than the window has days.           *)
WindowMissed(e) ==
    /\ status[e] \in {"closed", "dropped"}
    /\ closeDay[e] + ArchiveAge < now

EndedBy(c, e) ==
    /\ SameWorkflow(c, e)
    /\ status[c] \notin {"absent", "running"}
    /\ closeDay[c] <= closeDay[e]

NothingLeaks ==
    \A e \in Execution : WindowMissed(e) =>
        \A c \in Execution, d \in Data :
            EndedBy(c, e) => KeyOf(c, d) \notin objects

(* No cleanup does anything for ever: each of its steps brings it nearer   *)
(* to its end, failed attempts and refused deletions included.  The listing*)
(* leads to at most all executions, each execution to at most MaxAttempts  *)
(* checks and MaxAttempts deletions of three steps.                        *)
StepsFrom(place, left, retries) ==
    LET perExecution == 4 * MaxAttempts + 1
        listed == left * perExecution + 1
    IN  CASE place = "idle" -> 0
          [] place = "listing" ->
                 Cardinality(Execution) * perExecution + 2 + retries
          [] place = "loop" -> listed
          [] place = "checking" -> listed + 3 * MaxAttempts + retries + 1
          [] place = "deleting" -> listed + 3 * retries + 3
          [] place = "found" -> listed + 3 * retries + 2
          [] place = "removed" -> listed + 3 * retries + 1

StepsLeft(w) ==
    StepsFrom(stage[w], Cardinality(todo[w]), MaxAttempts - attempt[w])

Unmoved(w) == UNCHANGED <<stage[w], todo[w], current[w], found[w], attempt[w]>>

CleanupsAdvance ==
    [][\A w \in Worker : stage[w] # "idle" =>
           Unmoved(w) \/ StepsLeft(w)' \in 0..(StepsLeft(w) - 1)]_vars

(* Every cleanup comes to its end, also when S3 refuses the deletion for   *)
(* good: an error on one execution is not an error of the cleanup.         *)
CleanupEnds == \A w \in Worker : stage[w] # "idle" ~> stage[w] = "idle"

(* README.md:11, "Periodic cleanup of S3 objects for completed             *)
(* non-archived workflows": what is removed belongs to an execution that   *)
(* is completed and not archived.                                          *)
OnlyCompletedNonArchived ==
    [][\A c \in Execution, d \in Data :
           KeyOf(c, d) \in objects \ objects' =>
               status[c] = "closed" /\ c \notin archived]_vars
=============================================================================
