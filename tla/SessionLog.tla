----------------------------- MODULE SessionLog -----------------------------
(***************************************************************************)
(* The durable log of one chat session and what is made of it: the harness  *)
(* session (DSH) a run writes, the public event log HarnessProjectionStore  *)
(* projects it to, the numbers SessionEventsDAO gives the queue's own       *)
(* events in the same log, and HarnessDeletionService, the saga that stops  *)
(* the session, projects what is left, purges the harness log and deletes   *)
(* the row.  ChatRuns models the runs themselves; here a run is the writer. *)
(*                                                                         *)
(* A harness event is its index and becomes index % 3 public events.  An    *)
(* entry of the public log has its sequence number and where it comes from. *)
(* The revision of the harness log, an identity of its file, is how many    *)
(* events the file holds.                                                   *)
(***************************************************************************)
EXTENDS Naturals, Sequences, FiniteSets, SequencesExt, FiniteSetsExt

CONSTANTS MaxHarnessEvents,    \* bound: events of the harness log
          MaxHubEvents, \* bound: events of the job queue
          MaxMessages,  \* bound: messages the queue runs
          MaxResumes,   \* bound: resumptions asked for
          MaxCrashes,   \* bound: restarts
          MaxFailures   \* bound: runs and deletions that fail at an await

ASSUME SessionLogAssumption ==
    /\ MaxHarnessEvents \in Nat /\ MaxHubEvents \in Nat
    /\ MaxMessages \in Nat /\ MaxResumes \in Nat
    /\ MaxCrashes \in Nat /\ MaxFailures \in Nat

VARIABLES row,       \* the session's row exists
          tombstone, \* deleted_at of its projection is set
          status,    \* sessions_state
          run,       \* where the session's run is
          aborted,   \* its abort signal
          resuming,  \* a resumption has passed requireSession and awaits the revision
          memory,    \* events of the open harness session
          durable,   \* events of its file
          cursor,    \* projected_dsh_seq
          log,       \* the public log
          counter,   \* the next number of the allocator; 0: not loaded
          phase,     \* of the deletion job
          expected,  \* expected_revision of the job; 0: none
          saga,      \* where the deletion in this process is
          up,        \* the process
          budget     \* what the bounds leave

sessionLogVars == <<row, tombstone, status, run, aborted, resuming, memory, durable, cursor, log,
          counter, phase, expected, saga, up, budget>>
sessionVars == <<row, tombstone>>
runVars == <<status, run, aborted, resuming, memory>>
logVars == <<cursor, log, counter>>
jobVars == <<phase, expected, saga>>

Status == {"idle", "running", "resumable", "over"}   \* resumable: paused, blocked
RunStep == {"none", "claimed", "opening", "reopening", "writing", "flushed", "ending"}
JobPhase == {"none", "tombstoned", "stopped", "flushed", "purged", "completed"}
SagaStep == {"idle", "at", "draining", "drained", "projected", "removed"}
Process == {"down", "recovering", "resuming", "up"}

HubEvent == 0
FromDsh(i) == [k \in 1 .. (i % 3) |-> i]
Entry == [seq : 1 .. (2 * MaxHarnessEvents + MaxHubEvents), from : 0 .. MaxHarnessEvents]

LastSeq(l) == IF l = <<>> THEN 0 ELSE Last(l).seq
Spend(what) == budget[what] > 0 /\ budget' = [budget EXCEPT ![what] = @ - 1]

-----------------------------------------------------------------------------
\* The projection.

\* the harness events catchUp does not skip
Due == {i \in 1 .. durable : i > cursor}

\* insertPublicEvent numbers an event after the last one in the table
InsertPublic(l, from) == Append(l, [seq |-> LastSeq(l) + 1, from |-> from])

\* observeCommittedSeq
ObserveCommitted(l) == IF l = log THEN counter ELSE LastSeq(l) + 1

\* catchUp, one transaction, and the numbers observed after it
CatchUp ==
    LET due == FlattenSeq([i \in 1 .. Cardinality(Due) |-> FromDsh(Min(Due) + i - 1)])
        l   == FoldLeft(InsertPublic, log, due)
    IN  /\ log' = l /\ cursor' = durable /\ counter' = ObserveCommitted(l)

\* persistAndPublish of an event of the queue; a number already taken is refused
HubAppend ==
    /\ up = "up" /\ row /\ Spend("hub")
    /\ LET seq == IF counter = 0 THEN LastSeq(log) + 1 ELSE counter
       IN  IF \E i \in 1 .. Len(log) : log[i].seq = seq
           THEN counter' = seq /\ UNCHANGED log
           ELSE /\ log' = Append(log, [seq |-> seq, from |-> HubEvent])
                /\ counter' = seq + 1
    /\ UNCHANGED <<sessionVars, runVars, durable, cursor, jobVars, up>>

-----------------------------------------------------------------------------
\* The runs.

\* beginRun of the job queue
ClaimMessage ==
    /\ up = "up" /\ row /\ run = "none" /\ status # "running" /\ Spend("messages")
    /\ status' = "running" /\ run' = "claimed" /\ aborted' = FALSE
    /\ UNCHANGED <<sessionVars, resuming, memory, durable, logVars, jobVars, up>>

\* requireSession
Required == row /\ ~tombstone

\* handleChatSend: the session must be there, and its run still wanted
EnterHandler ==
    /\ run = "claimed"
    /\ IF Required /\ status = "running"
       THEN run' = "opening" /\ UNCHANGED status
       ELSE run' = "none" /\ status' = IF status = "running" THEN "resumable" ELSE status
    /\ UNCHANGED <<sessionVars, aborted, resuming, memory, durable, logVars, jobVars, up, budget>>

\* resumeSession, up to the await of the revision
RequestResume ==
    /\ up = "up" /\ Required /\ ~resuming /\ Spend("resumes")
    /\ resuming' = TRUE
    /\ UNCHANGED <<sessionVars, status, run, aborted, memory, durable, logVars, jobVars, up>>

\* and from there: no log, an active run or another status refuse it
StartResume ==
    /\ resuming /\ resuming' = FALSE
    /\ IF row /\ durable > 0 /\ run = "none" /\ status = "resumable"
       THEN status' = "running" /\ run' = "reopening" /\ aborted' = FALSE
       ELSE UNCHANGED <<status, run, aborted>>
    /\ UNCHANGED <<sessionVars, memory, durable, logVars, jobVars, up, budget>>

\* openSession, and the check before the followup; a resumption needs its log
OpenSession ==
    /\ run \in {"opening", "reopening"}
    /\ IF aborted \/ status # "running" \/ (run = "reopening" /\ durable = 0)
       THEN run' = "ending" /\ UNCHANGED memory
       ELSE run' = "writing" /\ memory' = durable
    /\ UNCHANGED <<sessionVars, status, aborted, resuming, durable, logVars, jobVars, up, budget>>

\* the agent's loop appends an event; after an abort, the end of its turn
WriteHarnessEvent ==
    /\ run = "writing" /\ memory < MaxHarnessEvents
    /\ memory' = memory + 1
    /\ UNCHANGED <<sessionVars, status, run, aborted, resuming, durable, logVars, jobVars, up, budget>>

\* the harness stores events before it is told to
PersistEvent ==
    /\ run = "writing" /\ durable < memory
    /\ durable' = durable + 1
    /\ UNCHANGED <<sessionVars, runVars, logVars, jobVars, up, budget>>

\* flushAndProject, the flush
FlushRun ==
    /\ run = "writing" /\ memory > 0
    /\ durable' = memory /\ run' = "flushed"
    /\ UNCHANGED <<sessionVars, status, aborted, resuming, memory, logVars, jobVars, up, budget>>

\* flushAndProject, the projection; that of a deleted session throws
ProjectRun ==
    /\ run = "flushed" /\ run' = "ending"
    /\ IF tombstone
       THEN /\ status' = IF status = "running" THEN "resumable" ELSE status
            /\ UNCHANGED logVars
       ELSE CatchUp /\ UNCHANGED status
    /\ UNCHANGED <<sessionVars, aborted, resuming, memory, durable, jobVars, up, budget>>

\* an error at an await of a run; what it stored is projected later
RunFails ==
    /\ run \in {"opening", "reopening", "writing", "flushed"} /\ Spend("failures")
    /\ run' = "ending" /\ status' = IF status = "running" THEN "resumable" ELSE status
    /\ UNCHANGED <<sessionVars, aborted, resuming, memory, durable, logVars, jobVars, up>>

\* the handle is disposed of and the run's outcome becomes the session's status
EndRun ==
    /\ run = "ending" /\ run' = "none"
    /\ IF status = "running" THEN status' \in {"over", "resumable"} ELSE UNCHANGED status
    /\ UNCHANGED <<sessionVars, aborted, resuming, memory, durable, logVars, jobVars, up, budget>>

-----------------------------------------------------------------------------
\* The deletion saga.

\* deleteSession: a job of this process is joined, one left open is taken up again
DeleteSession ==
    /\ up = "up" /\ saga = "idle" /\ row
    /\ \/ /\ phase = "none"
          /\ tombstone' = TRUE /\ phase' = "tombstoned" /\ UNCHANGED budget
       \/ /\ phase # "none" /\ Spend("failures")      \* asked again after a failure
          /\ UNCHANGED <<tombstone, phase>>
    /\ saga' = "at"
    /\ UNCHANGED <<row, runVars, durable, logVars, expected, up>>

\* ChatSessionController.cancel, where it applies
Cancelled == IF status = "idle" THEN "idle" ELSE "over"

\* the run the handler has registered
Active == run \in {"opening", "reopening", "writing", "flushed", "ending"}

\* cancelAndDrain: the run is cancelled and awaited, or the status alone is cancelled
Drain ==
    /\ saga = "at" /\ phase = "tombstoned"
    /\ status' = Cancelled
    /\ saga' = IF Active THEN "draining" ELSE "drained"
    /\ aborted' = (aborted \/ Active)
    /\ UNCHANGED <<sessionVars, run, resuming, memory, durable, logVars, phase, expected, up, budget>>

\* Fault: the run's completion is not awaited
DrainedAtOnce ==
    /\ saga = "draining" /\ saga' = "drained"
    /\ UNCHANGED <<sessionVars, runVars, durable, logVars, phase, expected, up, budget>>

\* the run is over, and the job goes on: advance
Drained ==
    /\ saga = "draining" /\ ~Active /\ saga' = "drained"
    /\ UNCHANGED <<sessionVars, runVars, durable, logVars, phase, expected, up, budget>>

Stopped ==
    /\ saga = "drained" /\ saga' = "at" /\ phase' = "stopped"
    /\ UNCHANGED <<sessionVars, runVars, durable, logVars, expected, up, budget>>

\* catchUpDurable, of a deleted session
CatchUpDurable ==
    /\ saga = "at" /\ phase = "stopped" /\ saga' = "projected"
    /\ IF durable = 0 THEN UNCHANGED logVars ELSE CatchUp
    /\ UNCHANGED <<sessionVars, runVars, durable, phase, expected, up, budget>>

Flushed ==
    /\ saga = "projected" /\ saga' = "at" /\ phase' = "flushed"
    /\ expected' = IF cursor = 0 THEN expected ELSE cursor
    /\ UNCHANGED <<sessionVars, runVars, durable, logVars, up, budget>>

\* the saga's failure, recorded in the job; at boot it fails the boot
SagaEnds == saga' = "idle" /\ up' = IF up = "resuming" THEN "down" ELSE up

\* SessionPersistence.purge refuses a log with an owner or of another revision
PurgeRefused == expected # 0 /\ durable # 0 /\ (run \in {"writing", "flushed", "ending"} \/ durable # expected)

Purge ==
    /\ saga = "at" /\ phase = "flushed"
    /\ IF PurgeRefused
       THEN SagaEnds /\ UNCHANGED durable
       ELSE /\ durable' = IF expected = 0 THEN durable ELSE 0
            /\ saga' = "removed" /\ UNCHANGED up
    /\ UNCHANGED <<sessionVars, runVars, logVars, phase, expected, budget>>

Purged ==
    /\ saga = "removed" /\ saga' = "at" /\ phase' = "purged"
    /\ UNCHANGED <<sessionVars, runVars, durable, logVars, expected, up, budget>>

\* finish: the row goes, and its public log with it
Finish ==
    /\ saga = "at" /\ phase = "purged"
    /\ row' = FALSE /\ log' = <<>> /\ phase' = "completed" /\ saga' = "idle"
    /\ UNCHANGED <<tombstone, runVars, durable, cursor, counter, expected, up, budget>>

SagaFails ==
    /\ saga # "idle" /\ Spend("failures") /\ SagaEnds
    /\ UNCHANGED <<sessionVars, runVars, durable, logVars, phase, expected>>

-----------------------------------------------------------------------------
\* The process.

Crash ==
    /\ up # "down" /\ Spend("crashes")
    /\ up' = "down" /\ run' = "none" /\ aborted' = FALSE /\ resuming' = FALSE
    /\ memory' = 0 /\ counter' = 0 /\ saga' = "idle"
    /\ UNCHANGED <<sessionVars, status, durable, cursor, log, phase, expected>>

\* ChatSessionController.initialize
Boot ==
    /\ up = "down" /\ up' = "recovering"
    /\ status' = IF status = "running" THEN "resumable" ELSE status
    /\ UNCHANGED <<sessionVars, run, aborted, resuming, memory, durable, logVars, jobVars, budget>>

\* the jobs resumePending takes up
Unfinished == phase \notin {"none", "completed"}

\* Fault: the boot leaves the projections as they are
RecoverNothing ==
    /\ up = "recovering" /\ up' = "resuming" /\ UNCHANGED logVars
    /\ saga' = IF Unfinished THEN "at" ELSE "idle"
    /\ UNCHANGED <<sessionVars, runVars, durable, phase, expected, budget>>

\* recoverDurableProjections, and the start of resumePending
Recover ==
    /\ up = "recovering" /\ up' = "resuming"
    /\ IF Required /\ durable > 0 THEN CatchUp ELSE UNCHANGED logVars
    /\ saga' = IF Unfinished THEN "at" ELSE "idle"
    /\ UNCHANGED <<sessionVars, runVars, durable, phase, expected, budget>>

\* the boot awaits the resumed deletions
Booted ==
    /\ up = "resuming" /\ saga = "idle" /\ up' = "up"
    /\ UNCHANGED <<sessionVars, runVars, durable, logVars, jobVars, budget>>

-----------------------------------------------------------------------------
SessionLogInit ==
    /\ row = TRUE /\ tombstone = FALSE /\ status = "idle" /\ run = "none"
    /\ aborted = FALSE /\ resuming = FALSE /\ memory = 0 /\ durable = 0 /\ cursor = 0
    /\ log = <<>> /\ counter = 0 /\ phase = "none" /\ expected = 0 /\ saga = "idle"
    /\ up = "up"
    /\ budget = [hub |-> MaxHubEvents, messages |-> MaxMessages, resumes |-> MaxResumes,
                 crashes |-> MaxCrashes, failures |-> MaxFailures]

RunNext == \/ ClaimMessage \/ EnterHandler \/ RequestResume \/ StartResume \/ OpenSession
           \/ WriteHarnessEvent \/ PersistEvent \/ FlushRun \/ ProjectRun \/ RunFails \/ EndRun
SagaNext == \/ DeleteSession \/ Drain \/ Drained \/ Stopped \/ CatchUpDurable \/ Flushed
            \/ Purge \/ Purged \/ Finish \/ SagaFails
ProcessNext == HubAppend \/ Crash \/ Boot \/ Recover \/ Booted

SessionLogNext == RunNext \/ SagaNext \/ ProcessNext

SessionLogSpec == SessionLogInit /\ [][SessionLogNext]_sessionLogVars

\* What the process has begun goes on, and a supervisor starts it again.
RunGoesOn == \/ EnterHandler \/ StartResume \/ OpenSession \/ WriteHarnessEvent
             \/ FlushRun \/ ProjectRun \/ EndRun
SagaGoesOn == \/ Drain \/ Drained \/ Stopped \/ CatchUpDurable \/ Flushed
              \/ Purge \/ Purged \/ Finish
ComesUp == Boot \/ Recover \/ Booted

LiveSessionLog == /\ SessionLogSpec /\ WF_sessionLogVars(RunGoesOn)
                  /\ WF_sessionLogVars(SagaGoesOn) /\ WF_sessionLogVars(ComesUp)

-----------------------------------------------------------------------------
SessionLogTypeOK ==
    /\ row \in BOOLEAN /\ tombstone \in BOOLEAN /\ status \in Status /\ run \in RunStep
    /\ aborted \in BOOLEAN /\ resuming \in BOOLEAN
    /\ memory \in 0 .. MaxHarnessEvents /\ durable \in 0 .. MaxHarnessEvents /\ cursor \in 0 .. MaxHarnessEvents
    /\ log \in Seq(Entry) /\ counter \in Nat
    /\ phase \in JobPhase /\ expected \in 0 .. MaxHarnessEvents /\ saga \in SagaStep /\ up \in Process
    /\ (phase # "none") = tombstone /\ (saga # "idle" => up \in {"resuming", "up"})

\* A session at rest has been projected to the end of its harness log; only an error of
\* a run leaves a suffix to a later run or to the next boot (recoverDurableProjections).
RestIsProjected ==
    up = "up" /\ run = "none" /\ ~tombstone /\ budget.failures = MaxFailures
        => cursor = durable

\* A session that is gone left nothing in the harness's store, whatever messages and
\* resumptions raced its deletion (harness-deletion-service.ts advance).
NothingOrphaned == ~row => durable = 0

\* A deletion begun is completed, over any number of restarts, unless a step fails: then
\* it waits for the next request or the next boot.
DeletionCompletes ==
    (phase = "tombstoned") ~> (phase = "completed" \/ budget.failures < MaxFailures)

=============================================================================
