------------------------------ MODULE ChatRuns ------------------------------
(***************************************************************************)
(* How a message, or a request to resume, becomes a run of the model:      *)
(* services/ai-chat-service/src/services/conversation-job-queue.ts,        *)
(* services/chat-session-controller.ts, db/SessionStateDAO.ts (transition) *)
(* and conversation/chat-handler.ts (startRun), on top of RunScheduler.    *)
(*                                                                         *)
(* A message becomes a job: it takes a place in the queue for permits,     *)
(* waits for the lock of its session, then for its permit, and executes up *)
(* to MaxRetries times.  A resume is run by the handler itself: it takes   *)
(* the session first and the permit afterwards, and knows nothing of the   *)
(* lock.  The sessions_state row, updated by compare-and-set on the run    *)
(* that owns it, is what the two have in common.                           *)
(*                                                                         *)
(* An action is a stretch of one call between two awaits.                  *)
(***************************************************************************)
EXTENDS RunScheduler, Sequences

CONSTANTS Sessions,
          Jobs,        \* the runs that are jobs; the others are resumes
          SessionOf,   \* the session a run is made for
          NoRun,
          MaxJobs,     \* maxQueueSize of the job queue
          MaxRetries   \* attempts at one job

Resumes == Runs \ Jobs

ASSUME ChatAssumption ==
    /\ Jobs \subseteq Runs
    /\ SessionOf \in [Runs -> Sessions]
    /\ NoRun \notin Runs
    /\ MaxJobs \in Nat /\ MaxRetries \in Nat \ {0}

VARIABLES
    status, jobId,   \* sessions_state: lifecycle, and the run that owns it
    pauseFor,        \* controlFlags: the run a pause is requested for
    jobStatus,       \* the jobs map of the queue, "none" without an entry
    sessionLock,     \* sessionLocks: the lock, named after the job it was made for
    lockQueue,       \* of every lock: its holder, then the jobs waiting for it
    attempts,        \* failed attempts of a job
    stage,           \* where the call that drives a run is
    handler,         \* ChatHandler.active: the run that has the session open
    aborted          \* runs whose abort signal fired

sessionVars == <<status, jobId, pauseFor>>
queueVars   == <<jobStatus, sessionLock, lockQueue, attempts>>
handlerVars == <<stage, handler, aborted>>

vars == <<schedulerVars, sessionVars, queueVars, handlerVars>>

SessionStatus == {"idle", "running", "paused", "blocked", "interrupted", "cancelled",
                  "completed"}
JobStatus == {"none", "queued", "running", "completed", "failed", "cancelled"}

\* Opened: the handler has the session for this run.
Opened == {"waiting",    \* a resume waits for its permit
           "executing",  \* the turn is under way
           "returned", "failed", "refused"}  \* it ended; the handle is disposed
Stage == Opened \cup {"none", "done",
                      "queued",    \* a job waits for the lock and for its permit
                      "deciding",  \* a job is about to make an attempt
                      "busy"}      \* its attempt found the session open

Init ==
    /\ SchedulerInit
    /\ status = [s \in Sessions |-> "idle"]
    /\ jobId = [s \in Sessions |-> NoRun]
    /\ pauseFor = [s \in Sessions |-> NoRun]
    /\ jobStatus = [j \in Jobs |-> "none"]
    /\ sessionLock = [s \in Sessions |-> NoRun]
    /\ lockQueue = [j \in Jobs |-> << >>]
    /\ attempts = [j \in Jobs |-> 0]
    /\ stage = [r \in Runs |-> "none"]
    /\ handler = [s \in Sessions |-> NoRun]
    /\ aborted = {}

-----------------------------------------------------------------------------
(***************************************************************************)
(* The session controller.                                                 *)
(***************************************************************************)
\* isRunning
Running(r) == jobId[SessionOf[r]] = r /\ status[SessionOf[r]] = "running"

\* Fault: the status is checked, the owner is not.
TransitionOfAnyRun(r, to, from) ==
    LET s == SessionOf[r] IN
    /\ UNCHANGED jobId
    /\ IF status[s] \in from
       THEN /\ status' = [status EXCEPT ![s] = to]
            /\ pauseFor' = IF to # "running" /\ pauseFor[s] = r
                           THEN [pauseFor EXCEPT ![s] = NoRun] ELSE pauseFor
       ELSE UNCHANGED <<status, pauseFor>>

\* transition: a run moves the session it still owns, from the statuses named.
\* A pause request is dropped when the run settles.
Transition(r, to, from) ==
    LET s == SessionOf[r] IN
    /\ UNCHANGED jobId
    /\ IF jobId[s] = r /\ status[s] \in from
       THEN /\ status' = [status EXCEPT ![s] = to]
            /\ pauseFor' = IF to # "running" /\ pauseFor[s] = r
                           THEN [pauseFor EXCEPT ![s] = NoRun] ELSE pauseFor
       ELSE UNCHANGED <<status, pauseFor>>

\* beginRun, when the session is in one of the statuses it may leave.
BeginRun(r) ==
    /\ status' = [status EXCEPT ![SessionOf[r]] = "running"]
    /\ jobId' = [jobId EXCEPT ![SessionOf[r]] = r]
    /\ pauseFor' = [pauseFor EXCEPT ![SessionOf[r]] = NoRun]

\* abort: fires the signal of the run, if the handler has it open.  A resume
\* still in the queue for permits leaves it at once and fails.
Abort(r) ==
    IF r = NoRun \/ handler[SessionOf[r]] # r
    THEN UNCHANGED <<schedulerVars, stage, aborted>>
    ELSE /\ aborted' = aborted \cup {r}
         /\ IF stage[r] = "waiting" /\ r \in Queued
            THEN /\ stage' = [stage EXCEPT ![r] = "failed"]
                 /\ Finish(r, "cancelled")
            ELSE UNCHANGED <<schedulerVars, stage>>

Pause(s) ==
    /\ status[s] = "running"
    /\ pauseFor' = [pauseFor EXCEPT ![s] = jobId[s]]
    /\ UNCHANGED <<schedulerVars, status, jobId, queueVars, handlerVars>>

Interrupt(s) ==
    /\ status[s] = "running"
    /\ Transition(jobId[s], "interrupted", {"running"})
    /\ Abort(jobId[s])
    /\ UNCHANGED <<queueVars, handler>>

Cancel(s) ==
    /\ status[s] \in {"running", "paused", "blocked", "interrupted", "completed"}
    /\ Transition(jobId[s], "cancelled", {status[s]})
    /\ Abort(jobId[s])
    /\ UNCHANGED <<queueVars, handler>>

-----------------------------------------------------------------------------
(***************************************************************************)
(* The job queue.                                                          *)
(***************************************************************************)
Holds(j, lock) == lockQueue[lock] # << >> /\ Head(lockQueue[lock]) = j
HoldsLock(j) == \E lock \in Jobs : Holds(j, lock)

Release(j) == lockQueue' = [lock \in Jobs |->
    IF Holds(j, lock) THEN Tail(lockQueue[lock]) ELSE lockQueue[lock]]

JobsOf(s, wanted) == {j \in Jobs : SessionOf[j] = s /\ jobStatus[j] \in wanted}

\* The entries of the jobs map, settled ones included: nobody calls cleanup.
JobCount == Cardinality({j \in Jobs : jobStatus[j] # "none"})

EnqueueJob(j) ==
    LET s == SessionOf[j]
        lock == IF sessionLock[s] = NoRun THEN j ELSE sessionLock[s] IN
    /\ stage[j] = "none"
    /\ JobCount < MaxJobs
    /\ Enqueue(j)
    /\ jobStatus' = [jobStatus EXCEPT ![j] = "queued"]
    /\ sessionLock' = [sessionLock EXCEPT ![s] = lock]
    /\ lockQueue' = [lockQueue EXCEPT ![lock] = Append(@, j)]
    /\ stage' = [stage EXCEPT ![j] = "queued"]
    /\ UNCHANGED <<sessionVars, attempts, handler, aborted>>

\* Fault: the lock is forgotten while other jobs of the session need it.
CancelJobForgetsLock(j) ==
    LET s == SessionOf[j] IN
    /\ jobStatus[j] = "queued"
    /\ jobStatus' = [jobStatus EXCEPT ![j] = "cancelled"]
    /\ Finish(j, "cancelled")
    /\ sessionLock' = [sessionLock EXCEPT ![s] = NoRun]
    /\ UNCHANGED <<sessionVars, lockQueue, attempts, handlerVars>>

\* cancelJob, for a queued job.  Without another job queued or running the
\* lock of the session is forgotten; a job that comes later makes a new one.
CancelJob(j) ==
    LET s == SessionOf[j] IN
    /\ jobStatus[j] = "queued"
    /\ jobStatus' = [jobStatus EXCEPT ![j] = "cancelled"]
    /\ Finish(j, "cancelled")
    /\ sessionLock' = IF JobsOf(s, {"queued", "running"}) \subseteq {j}
                      THEN [sessionLock EXCEPT ![s] = NoRun] ELSE sessionLock
    /\ UNCHANGED <<sessionVars, lockQueue, attempts, handlerVars>>

\* The call of job j is over: it releases the lock and then its permit.
EndJob(j, outcome) ==
    /\ jobStatus' = [jobStatus EXCEPT ![j] = outcome]
    /\ Release(j)
    /\ Finish(j, "completed")
    /\ stage' = [stage EXCEPT ![j] = "done"]
    /\ UNCHANGED <<sessionLock, aborted>>

\* Fault: the early return does not release the lock.
JobSkippedHolding(j) ==
    /\ HoldsLock(j) /\ stage[j] = "queued" /\ jobStatus[j] = "cancelled"
    /\ Finish(j, "completed")
    /\ stage' = [stage EXCEPT ![j] = "done"]
    /\ UNCHANGED <<sessionVars, queueVars, handler, aborted>>

\* A job cancelled while it waited for the lock or for its permit.
JobSkipped(j) ==
    /\ HoldsLock(j) /\ stage[j] = "queued" /\ jobStatus[j] = "cancelled"
    /\ EndJob(j, "cancelled")
    /\ UNCHANGED <<sessionVars, attempts, handler>>

\* The job takes the session.  One that a resume is running is not waited
\* for: the job fails.
JobBegins(j) ==
    /\ HoldsLock(j) /\ stage[j] = "queued" /\ jobStatus[j] = "queued"
    /\ j \in Active
    /\ IF status[SessionOf[j]] # "running"
       THEN /\ BeginRun(j)
            /\ jobStatus' = [jobStatus EXCEPT ![j] = "running"]
            /\ stage' = [stage EXCEPT ![j] = "deciding"]
            /\ UNCHANGED <<schedulerVars, sessionLock, lockQueue, aborted>>
       ELSE /\ EndJob(j, "failed")
            /\ UNCHANGED sessionVars
    /\ UNCHANGED <<attempts, handler>>

\* Fault: a session the handler has open is opened again.
JobAttemptsRegardless(j) ==
    LET s == SessionOf[j] IN
    /\ stage[j] = "deciding" /\ Running(j)
    /\ stage' = [stage EXCEPT ![j] = "executing"]
    /\ handler' = [handler EXCEPT ![s] = j]
    /\ aborted' = aborted \ {j}
    /\ UNCHANGED <<schedulerVars, sessionVars, queueVars>>

\* startRun for a job: a fresh abort signal, unless the session is open.
JobAttempts(j) ==
    LET s == SessionOf[j] IN
    /\ stage[j] = "deciding" /\ Running(j)
    /\ IF handler[s] = NoRun
       THEN /\ stage' = [stage EXCEPT ![j] = "executing"]
            /\ handler' = [handler EXCEPT ![s] = j]
            /\ aborted' = aborted \ {j}
       ELSE /\ stage' = [stage EXCEPT ![j] = "busy"]
            /\ UNCHANGED <<handler, aborted>>
    /\ UNCHANGED <<schedulerVars, sessionVars, queueVars>>

\* The session was taken from the job between two attempts.
JobGivesUp(j) ==
    /\ stage[j] = "deciding" /\ ~Running(j)
    /\ EndJob(j, "completed")
    /\ UNCHANGED <<sessionVars, attempts, handler>>

\* The handle of an attempt is disposed and the handler lets go of it.
Close(r) == handler' = [s \in Sessions |-> IF handler[s] = r THEN NoRun ELSE handler[s]]

\* complete: the session is completed unless the turn was paused, interrupted
\* or cancelled.
JobReturns(j) ==
    /\ stage[j] = "returned"
    /\ Close(j)
    /\ Transition(j, "completed", {"running"})
    /\ EndJob(j, "completed")
    /\ UNCHANGED attempts

\* Fault: the last failed attempt leaves the session as it is.
JobFailsSilently(j) ==
    /\ stage[j] \in {"failed", "busy"}
    /\ Running(j)
    /\ Close(j)
    /\ attempts' = [attempts EXCEPT ![j] = @ + 1]
    /\ IF attempts[j] + 1 < MaxRetries
       THEN /\ stage' = [stage EXCEPT ![j] = "deciding"]
            /\ UNCHANGED <<schedulerVars, jobStatus, sessionLock, lockQueue, aborted>>
       ELSE EndJob(j, "failed")
    /\ UNCHANGED sessionVars

\* An error that may pass: another attempt, or the session is blocked.
JobFails(j) ==
    /\ stage[j] \in {"failed", "busy"}
    /\ Running(j)
    /\ Close(j)
    /\ attempts' = [attempts EXCEPT ![j] = @ + 1]
    /\ IF attempts[j] + 1 < MaxRetries
       THEN /\ stage' = [stage EXCEPT ![j] = "deciding"]
            /\ UNCHANGED <<schedulerVars, sessionVars, jobStatus, sessionLock, lockQueue,
                           aborted>>
       ELSE /\ Transition(j, "blocked", {"running"})
            /\ EndJob(j, "failed")

\* An error that will not pass blocks the session at once; the job is done.
JobRefused(j) ==
    /\ stage[j] = "refused"
    /\ Running(j)
    /\ Close(j)
    /\ Transition(j, "blocked", {"running"})
    /\ EndJob(j, "completed")
    /\ UNCHANGED attempts

\* Any error, after the session was taken from the job: the job just ends.
JobFailsLate(j) ==
    /\ stage[j] \in {"failed", "busy", "refused"}
    /\ ~Running(j)
    /\ Close(j)
    /\ EndJob(j, "completed")
    /\ UNCHANGED <<sessionVars, attempts>>

-----------------------------------------------------------------------------
(***************************************************************************)
(* The handler: execution for both, and the course of a resume.            *)
(***************************************************************************)
\* resumeSession, up to the wait for the permit.
ResumeBegins(r) ==
    LET s == SessionOf[r] IN
    /\ stage[r] = "none" /\ handler[s] = NoRun
    /\ status[s] \in {"paused", "blocked"}
    /\ BeginRun(r)
    /\ Enqueue(r)
    /\ handler' = [handler EXCEPT ![s] = r]
    /\ stage' = [stage EXCEPT ![r] = "waiting"]
    /\ UNCHANGED <<queueVars, aborted>>

\* The queue for permits is full: the session is blocked again.
ResumeRejected(r) ==
    LET s == SessionOf[r] IN
    /\ stage[r] = "none" /\ handler[s] = NoRun
    /\ status[s] \in {"paused", "blocked"}
    /\ Full
    /\ status' = [status EXCEPT ![s] = "blocked"]
    /\ jobId' = [jobId EXCEPT ![s] = r]
    /\ pauseFor' = [pauseFor EXCEPT ![s] = NoRun]
    /\ stage' = [stage EXCEPT ![r] = "done"]
    /\ UNCHANGED <<schedulerVars, queueVars, handler, aborted>>

ResumeProceeds(r) ==
    /\ stage[r] = "waiting" /\ r \in Active
    /\ stage' = [stage EXCEPT ![r] =
            IF Running(r) /\ r \notin aborted THEN "executing" ELSE "returned"]
    /\ UNCHANGED <<schedulerVars, sessionVars, queueVars, handler, aborted>>

\* The turn ended: normally, blocked (paused) or aborted (interrupted); a
\* requested pause takes effect at this checkpoint.
ExecuteReturns(r) ==
    LET pausing == pauseFor[SessionOf[r]] = r IN
    /\ stage[r] = "executing"
    /\ stage' = [stage EXCEPT ![r] = "returned"]
    /\ \/ IF pausing THEN Transition(r, "paused", {"running"}) ELSE UNCHANGED sessionVars
       \/ Transition(r, "paused", {"running"})
       \/ Transition(r, "interrupted", {"running"})
    /\ UNCHANGED <<schedulerVars, queueVars, handler, aborted>>

\* The turn ended in an error; for a resume the handler blocks the session.
ExecuteThrows(r) ==
    /\ stage[r] = "executing"
    /\ \E error \in {"failed", "refused"} : stage' = [stage EXCEPT ![r] = error]
    /\ IF r \in Resumes THEN Transition(r, "blocked", {"running"}) ELSE UNCHANGED sessionVars
    /\ UNCHANGED <<schedulerVars, queueVars, handler, aborted>>

\* Disposing of the handle fails after a turn that ended well.
DisposeThrows(r) ==
    /\ stage[r] = "returned"
    /\ stage' = [stage EXCEPT ![r] = "failed"]
    /\ IF r \in Resumes THEN Transition(r, "blocked", {"running"}) ELSE UNCHANGED sessionVars
    /\ UNCHANGED <<schedulerVars, queueVars, handler, aborted>>

ResumeEnds(r) ==
    /\ stage[r] \in {"returned", "failed", "refused"}
    /\ IF stage[r] = "returned" THEN Transition(r, "completed", {"running"})
                                ELSE UNCHANGED sessionVars
    /\ Finish(r, "completed")
    /\ Close(r)
    /\ stage' = [stage EXCEPT ![r] = "done"]
    /\ UNCHANGED <<queueVars, aborted>>

-----------------------------------------------------------------------------
\* The process ends and a new one starts: calls, jobs, locks and signals are
\* gone, the permits are taken back, running sessions are blocked.
Restart ==
    /\ CancelAll
    /\ status' = [s \in Sessions |-> IF status[s] = "running" THEN "blocked" ELSE status[s]]
    /\ pauseFor' = [s \in Sessions |-> NoRun]
    /\ jobStatus' = [j \in Jobs |-> "none"]
    /\ sessionLock' = [s \in Sessions |-> NoRun]
    /\ lockQueue' = [j \in Jobs |-> << >>]
    /\ attempts' = [j \in Jobs |-> 0]
    /\ stage' = [r \in Runs |-> IF stage[r] = "none" THEN "none" ELSE "done"]
    /\ handler' = [s \in Sessions |-> NoRun]
    /\ aborted' = {}
    /\ UNCHANGED jobId

\* What the call that drives a run does.
JobStep(j) ==
    \/ JobSkipped(j) \/ JobBegins(j) \/ JobAttempts(j) \/ JobGivesUp(j)
    \/ JobReturns(j) \/ JobFails(j) \/ JobRefused(j) \/ JobFailsLate(j)
ResumeStep(r) == ResumeProceeds(r) \/ ResumeEnds(r)
Execution(r) == ExecuteReturns(r) \/ ExecuteThrows(r) \/ DisposeThrows(r)

RunStep(r) ==
    \/ r \in Jobs /\ JobStep(r)
    \/ r \in Resumes /\ ResumeStep(r)
    \/ Execution(r)

Request ==
    \/ \E j \in Jobs : EnqueueJob(j) \/ CancelJob(j)
    \/ \E r \in Resumes : ResumeBegins(r) \/ ResumeRejected(r)
    \/ \E s \in Sessions : Pause(s) \/ Interrupt(s) \/ Cancel(s)

Next == Request \/ Restart \/ \E r \in Runs : RunStep(r)

Spec == Init /\ [][Next]_vars

(***************************************************************************)
(* A turn ends: the model call and the tools have timeouts.  The rest of a *)
(* call runs when what it awaits is settled.                               *)
(***************************************************************************)
FairSpec == Spec /\ \A r \in Runs : WF_vars(RunStep(r))

-----------------------------------------------------------------------------
(***************************************************************************)
(* Properties.                                                             *)
(***************************************************************************)
\* The values every variable ranges over.
TypeOK ==
    /\ SchedulerTypeOK
    /\ status \in [Sessions -> SessionStatus]
    /\ jobId \in [Sessions -> Runs \cup {NoRun}]
    /\ pauseFor \in [Sessions -> Runs \cup {NoRun}]
    /\ jobStatus \in [Jobs -> JobStatus]
    /\ sessionLock \in [Sessions -> Jobs \cup {NoRun}]
    /\ lockQueue \in [Jobs -> Seq(Jobs)]
    /\ attempts \in [Jobs -> 0..MaxRetries]
    /\ stage \in [Runs -> Stage]
    /\ handler \in [Sessions -> Runs \cup {NoRun}]
    /\ aborted \subseteq Runs

\* A session is open in the harness for one run at a time, also while a run
\* that was cancelled or paused is still letting go of it and a message or a
\* resume has already taken the session.
OneExecutionPerSession ==
    \A q, r \in Runs : /\ SessionOf[q] = SessionOf[r]
                       /\ stage[q] \in Opened /\ stage[r] \in Opened
                       => q = r

\* A turn is made only by the holder of a permit.
ExecutionHasPermit == \A r \in Runs : stage[r] = "executing" => r \in Active

\* No permit is held or asked for by a call that is over.
PermitHasCall == Queued \cup Active \subseteq {r \in Runs : stage[r] \notin {"none", "done"}}

\* A session that says it is running has a call that will settle it: no error
\* path, late callback or restart leaves it running with nobody at work.
RunningIsAlive ==
    \A s \in Sessions : status[s] = "running" =>
        /\ jobId[s] # NoRun /\ SessionOf[jobId[s]] = s
        /\ stage[jobId[s]] \in Opened \cup {"deciding", "busy"}

\* The messages of a session begin in the order they were accepted, also when
\* cancellations make the queue forget the lock of the session.
MessagesInOrder ==
    \A j, k \in Jobs :
        /\ SessionOf[j] = SessionOf[k] /\ queueSeq[j] < queueSeq[k]
        /\ jobStatus[k] \in {"running", "completed", "failed"}
        => jobStatus[j] # "queued"

\* A turn starts only for the run that owns the session and finds it running:
\* a run cancelled, interrupted or replaced while it waited does not start.
ExecutesOnlyWhenRunning ==
    [][\A r \in Runs : stage[r] # "executing" /\ stage'[r] = "executing" => Running(r)]_vars

\* What settled a run stays, but for a cancellation, until another run takes
\* the session: the late callbacks of a run cannot revive or revise it.
SettledIsFinal ==
    [][\A s \in Sessions :
         /\ status[s] \notin {"idle", "running"} /\ status'[s] # status[s]
         => status'[s] = "cancelled" \/ jobId'[s] # jobId[s]]_vars

\* A running session is completed, paused or blocked by a step of the run that
\* owns it: a run that was replaced does not settle its successor.
SettledByOwner ==
    [][\A s \in Sessions :
         status[s] = "running" /\ status'[s] \in {"completed", "paused", "blocked"}
         => stage'[jobId[s]] # stage[jobId[s]]]_vars

\* Every accepted message is settled: the lock of the session, the permits and
\* the retries never wait for one another in a circle.
MessagesAreSettled ==
    \A j \in Jobs : jobStatus[j] = "queued" ~>
                        jobStatus[j] \in {"none", "completed", "failed", "cancelled"}

=============================================================================
