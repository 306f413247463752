------------------------------- MODULE System -------------------------------
(***************************************************************************)
(* The codec server and the cleanup worker on one bucket.  Neither knows   *)
(* of the other: what they share is the objects, the layout of the keys    *)
(* and the executions in Temporal.  A PUT that S3 applies is, to the       *)
(* cleanup worker, an object stored; its DeleteObjects call is, to the     *)
(* codec server, the removal of objects by somebody.                       *)
(***************************************************************************)
EXTENDS CodecServer

CONSTANTS
    Worker, Grace, CheckArchive, ArchiveAge, MaxAttempts, DeleteLimit,
    Retention, Archival, MaxDelay, MaxDay, MaxFaults    \* see Cleanup

ASSUME SystemAssumption ==
    /\ Grace \in Nat /\ ArchiveAge \in Nat /\ Retention \in Nat
    /\ MaxAttempts \in Nat \ {0} /\ DeleteLimit \in Nat
    /\ MaxDelay \in Nat /\ MaxDay \in Nat /\ MaxFaults \in Nat
    /\ CheckArchive \in BOOLEAN /\ Archival \in BOOLEAN

VARIABLES
    now, status, closeDay, archived, stage, todo, current, found, attempt,
    startedOn, cleaned, overdue, faults                 \* see Cleanup

cleanupVars == <<now, status, closeDay, archived, stage, todo, current,
                 found, attempt, startedOn, cleaned, overdue, faults>>

C == INSTANCE Cleanup WITH objects <- Stored

SystemInit == Init /\ C!Init
-----------------------------------------------------------------------------
(* Payloads are encoded for executions that run, or that ended a short     *)
(* time ago; references are decoded for whoever has them.                  *)
EncodeFor(r, c) ==
    /\ C!MayStore(c)
    /\ \E s \in Server, batch \in Batches(Plain) :
           ReceiveEncode(r, s, c, batch)

Decode(r) ==
    \E s \in Server, entries \in Batches(published) :
        ReceiveDecode(r, s, entries)

Ask(r) ==
    /\ Decode(r) \/ \E c \in Context : EncodeFor(r, c)
    /\ UNCHANGED cleanupVars

Serve(r) == (Work(r) \/ Answer(r)) /\ UNCHANGED cleanupVars

(* A PUT is late by MaxDelay days at most, like the request it is of.      *)
Store(put) == ApplyPut(put) /\ C!StoreObject(req[put.from].ctx, put.data)

ReplicaCrashes(s) == Crash(s) /\ UNCHANGED cleanupVars

(* DeleteObjects for a listing that may be old: some of its keys are gone, *)
(* and some were stored again.                                             *)
CleanUp(w) ==
    /\ \E keys \in SUBSET (found[w] \cap Stored) : RemoveObjects(keys)
    /\ C!DeleteObjects(w) \/ C!DeleteObjectsPartly(w)

(* The same, when nobody waits for it any more.                            *)
LateCleanUp ==
    /\ \E keys \in SUBSET (Stored \cap UNION overdue) : RemoveObjects(keys)
    /\ C!LateRemoval

(* Everything else of the cleanup worker and of Temporal, a deletion of    *)
(* what is gone already included.                                          *)
Alone == UNCHANGED vars

CleanUpAlone(w) ==
    /\ Alone
    /\ C!StartCleanup(w) \/ C!Step(w) \/ C!Trouble(w)

SystemNext ==
    \/ \E r \in Request : Ask(r) \/ Serve(r)
    \/ \E put \in wire : Store(put)
    \/ \E s \in Server : ReplicaCrashes(s)
    \/ \E w \in Worker : CleanUp(w) \/ CleanUpAlone(w)
    \/ LateCleanUp
    \/ Alone /\ C!Environment

allVars == <<vars, cleanupVars>>

SystemSpec == SystemInit /\ [][SystemNext]_allVars
-----------------------------------------------------------------------------
(***************************************************************************)
(* Properties.                                                             *)
(***************************************************************************)

(* Whoever has a reference gets the payload it stands for, until a run     *)
(* under whose workflow id the object lies has been closed for longer than *)
(* the grace period: whatever was uploaded late, listed long before or     *)
(* removed and stored again in the meantime.                               *)
Covered(k) == \E c \in Context : /\ C!ClosedForGrace(c)
                                 /\ UnderPrefix(k, WorkflowPrefix(c))

SafeUntilGrace ==
    \A e \in published : e.item \in Reference =>
        bucket[e.item.key] \in Marshal[e.payload] \/ Covered(e.item.key)

(* What a request that failed, or whose answer was lost, has left behind   *)
(* is removed with the rest.                                               *)
NothingLeaks == C!NothingLeaks
=============================================================================
