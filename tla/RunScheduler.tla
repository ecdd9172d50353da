---------------------------- MODULE RunScheduler ----------------------------
(***************************************************************************)
(* HarnessRunScheduler                                                     *)
(* (services/ai-chat-service/src/harness/run-scheduler.ts): the permits    *)
(* that chat runs and agent tasks share.  Its table survives a restart;    *)
(* every operation is one SQLite transaction.  A caller that waits for its *)
(* permit goes on when its run becomes active and fails when it is         *)
(* cancelled; ChatRuns models the callers.                                 *)
(***************************************************************************)
EXTENDS Naturals, FiniteSets

CONSTANTS Runs,        \* run identifiers
          MaxActive,   \* permits
          MaxQueued,   \* runs that may wait for one
          MaxSeq       \* bound: enqueue operations in a behaviour

ASSUME SchedulerAssumption ==
    /\ MaxActive \in Nat /\ MaxQueued \in Nat /\ MaxSeq \in Nat

VARIABLES runStatus,      \* harness_model_runs: status, "none" without a row
          queueSeq,       \*   and queue_seq
          nextQueueSeq    \* harness_run_scheduler_state

schedulerVars == <<runStatus, queueSeq, nextQueueSeq>>

RunStatus == {"none", "queued", "active", "completed", "cancelled"}

Queued == {r \in Runs : runStatus[r] = "queued"}
Active == {r \in Runs : runStatus[r] = "active"}

SchedulerInit ==
    /\ runStatus = [r \in Runs |-> "none"]
    /\ queueSeq = [r \in Runs |-> 0]
    /\ nextQueueSeq = 1

-----------------------------------------------------------------------------
\* enqueue refuses a run that would have to wait when the queue is full.
Full == Cardinality(Active) >= MaxActive /\ Cardinality(Queued) >= MaxQueued

\* A run that ended may come back: a resumed agent task keeps its identifier.
\* One that is queued or active stays as it is.
Enqueue(r) ==
    /\ r \notin Queued \cup Active
    /\ ~Full /\ nextQueueSeq <= MaxSeq
    /\ runStatus' = [runStatus EXCEPT ![r] =
            IF Cardinality(Active) < MaxActive THEN "active" ELSE "queued"]
    /\ queueSeq' = [queueSeq EXCEPT ![r] = nextQueueSeq]
    /\ nextQueueSeq' = nextQueueSeq + 1

\* q is the queued run that came first.
Oldest(q) == q \in Queued /\ \A p \in Queued : queueSeq[q] <= queueSeq[p]

\* Fault: the permit of a cancelled run is not passed on.
FinishKeepsPermit(r, outcome) ==
    /\ \/ /\ r \in Active /\ outcome = "completed"
          /\ \E q \in Queued :
                /\ Oldest(q)
                /\ runStatus' = [runStatus EXCEPT ![r] = outcome, ![q] = "active"]
       \/ /\ r \in Queued \/ (r \in Active /\ (Queued = {} \/ outcome = "cancelled"))
          /\ runStatus' = [runStatus EXCEPT ![r] = outcome]
       \/ r \notin Queued \cup Active /\ UNCHANGED runStatus
    /\ UNCHANGED <<queueSeq, nextQueueSeq>>

\* finish: the permit of an active run passes to the oldest queued run; what
\* has ended is not touched.
Finish(r, outcome) ==
    /\ \/ /\ r \in Active
          /\ \E q \in Queued :
                /\ Oldest(q)
                /\ runStatus' = [runStatus EXCEPT ![r] = outcome, ![q] = "active"]
       \/ /\ r \in Queued \/ (r \in Active /\ Queued = {})
          /\ runStatus' = [runStatus EXCEPT ![r] = outcome]
       \/ r \notin Queued \cup Active /\ UNCHANGED runStatus
    /\ UNCHANGED <<queueSeq, nextQueueSeq>>

\* The constructor of the next process, and close in this one.
CancelAll ==
    /\ runStatus' = [r \in Runs |-> IF r \in Queued \cup Active THEN "cancelled"
                                    ELSE runStatus[r]]
    /\ UNCHANGED <<queueSeq, nextQueueSeq>>

SchedulerNext ==
    \/ \E r \in Runs : Enqueue(r) \/ Finish(r, "completed") \/ Finish(r, "cancelled")
    \/ CancelAll

SchedulerSpec == SchedulerInit /\ [][SchedulerNext]_schedulerVars

-----------------------------------------------------------------------------
\* The values every variable ranges over.
SchedulerTypeOK ==
    /\ runStatus \in [Runs -> RunStatus]
    /\ queueSeq \in [Runs -> Nat]
    /\ nextQueueSeq \in Nat

\* No more runs are active than there are permits, whatever enqueues, finishes
\* and cancels, in whatever order.
PermitBound == Cardinality(Active) <= MaxActive

\* A run waits only while every permit is out: no permit is lost when its
\* holder ends, is cancelled or never waited for it.
NoIdlePermit == Queued # {} => Cardinality(Active) = MaxActive

\* A queued run is never overtaken by one that came later.
FirstComeFirstServed ==
    [][\A q, r \in Runs :
         /\ runStatus[q] = "queued" /\ runStatus'[q] = "active"
         /\ runStatus[r] = "queued" /\ runStatus'[r] = "queued"
         => queueSeq[q] < queueSeq[r]]_schedulerVars

=============================================================================
