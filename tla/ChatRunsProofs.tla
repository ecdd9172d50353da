--------------------------- MODULE ChatRunsProofs ---------------------------
(***************************************************************************)
(* Proofs about ChatRuns, for any sessions, jobs and resumes and any       *)
(* limits.  Apart from types, the inductive invariant speaks of one run at *)
(* a time: what the stage of its call says of its permit (CallOf) and of   *)
(* its session (SessionFor).  A step moves the call of one run, and        *)
(* StepOfOne says that the others keep their part of the invariant.        *)
(***************************************************************************)
EXTENDS ChatRuns, RunSchedulerProofs

\* Every call that goes on has an attempt left.
AttemptsLeft == \A j \in Jobs : stage[j] # "done" => attempts[j] < MaxRetries

\* A session that left "idle" is owned, by a run made for it.
Owned == \A s \in Sessions : /\ status[s] # "idle" => jobId[s] # NoRun
                             /\ jobId[s] # NoRun => SessionOf[jobId[s]] = s

TypeInv == TypeOK /\ AttemptsLeft

\* The stages of a job between its start and its end.
Attempting == {"deciding", "busy", "executing", "returned", "failed", "refused"}

\* The call of r and its permit: a job that is at work, and a resume that
\* makes its turn, holds one, and a call that is over or not begun has none.
\* A queued entry of the jobs map belongs to a call that still waits.
CallOf(r) ==
    /\ r \in Jobs => /\ stage[r] # "waiting"
                     /\ jobStatus[r] = "queued" => stage[r] = "queued"
    /\ stage[r] = "executing" \/ (r \in Jobs /\ stage[r] \in Attempting) => r \in Active
    /\ r \in Queued \cup Active => stage[r] \notin {"none", "done"}

\* The call of r and its session: the handler has it open for r, r owns a
\* running session only while it is at work, and has not owned it before.
SessionFor(r) ==
    /\ stage[r] \in Opened => handler[SessionOf[r]] = r
    /\ Running(r) => stage[r] \in Opened \cup {"deciding", "busy"}
    /\ r \in Resumes /\ stage[r] \in {"failed", "refused"} => ~Running(r)
    /\ stage[r] \in {"none", "queued"} => jobId[SessionOf[r]] # r

RunInv == \A r \in Runs : CallOf(r) /\ SessionFor(r)

\* The inductive invariant.
ChatInv == TypeInv /\ Owned /\ RunInv

-----------------------------------------------------------------------------
\* A released lock is still a queue of jobs.
LEMMA ReleaseType ==
    ASSUME NEW j \in Jobs, lockQueue \in [Jobs -> Seq(Jobs)], Release(j)
    PROVE  lockQueue' \in [Jobs -> Seq(Jobs)]
<1>1. ASSUME NEW k \in Jobs
      PROVE  (IF Holds(j, k) THEN Tail(lockQueue[k]) ELSE lockQueue[k]) \in Seq(Jobs)
  BY <1>1 DEF Holds
<1> QED  BY <1>1 DEF Release

\* A transition writes the status and the pause request, never the owner.
LEMMA TransitionType ==
    ASSUME TypeOK, NEW r \in Runs, NEW to \in SessionStatus, NEW from, Transition(r, to, from)
    PROVE  /\ status' \in [Sessions -> SessionStatus]
           /\ pauseFor' \in [Sessions -> Runs \cup {NoRun}]
           /\ jobId' = jobId
<1>1. SessionOf[r] \in Sessions
  BY ChatAssumption
<1> QED  BY <1>1 DEF Transition, TypeOK

\* The end of a job moves the call of that job only.
LEMMA EndJobType ==
    ASSUME TypeOK, NEW j \in Jobs, NEW outcome \in JobStatus, EndJob(j, outcome)
    PROVE  /\ SchedulerTypeOK'
           /\ jobStatus' \in [Jobs -> JobStatus]
           /\ lockQueue' \in [Jobs -> Seq(Jobs)]
           /\ stage' \in [Runs -> Stage]
           /\ stage'[j] = "done" /\ \A r \in Runs \ {j} : stage'[r] = stage[r]
           /\ UNCHANGED <<sessionLock, aborted>>
<1>1. j \in Runs
  BY ChatAssumption
<1> QED  BY <1>1, ReleaseType, FinishType DEF EndJob, TypeOK, Outcomes, Stage

\* An abort moves at most the call it is for, out of the queue for permits.
LEMMA AbortType ==
    ASSUME TypeOK, NEW r \in Runs, Abort(r)
    PROVE  /\ SchedulerTypeOK' /\ stage' \in [Runs -> Stage] /\ aborted' \subseteq Runs
           /\ \A q \in Runs : stage'[q] = stage[q] \/ (q = r /\ stage[q] = "waiting")
<1>1. CASE UNCHANGED <<schedulerVars, stage, aborted>>
  BY <1>1 DEF TypeOK, SchedulerTypeOK, schedulerVars
<1>2. CASE /\ stage' = [stage EXCEPT ![r] = "failed"] /\ stage[r] = "waiting"
           /\ Finish(r, "cancelled") /\ aborted' = aborted \cup {r}
  BY <1>2, FinishType DEF TypeOK, Outcomes, Stage, Opened
<1>3. CASE aborted' = aborted \cup {r} /\ UNCHANGED <<schedulerVars, stage>>
  BY <1>3 DEF TypeOK, SchedulerTypeOK, schedulerVars
<1> QED  BY <1>1, <1>2, <1>3 DEF Abort, schedulerVars

\* Every step keeps the types.
LEMMA TypeStep == TypeInv /\ Owned /\ [Next]_vars => TypeInv'
<1> SUFFICES ASSUME TypeInv, Owned, [Next]_vars  PROVE TypeInv'
  OBVIOUS
<1> USE ChatAssumption
<1>1. ASSUME NEW j \in Jobs, EnqueueJob(j)  PROVE TypeInv'
  <2>1. SchedulerTypeOK'
    BY <1>1, EnqueueType DEF EnqueueJob, TypeInv, TypeOK
  <2>2. j \in Runs /\ SessionOf[j] \in Sessions
    OBVIOUS
  <2> QED  BY <1>1, <2>1, <2>2
            DEF EnqueueJob, TypeInv, TypeOK, AttemptsLeft, JobStatus, Stage, sessionVars
<1>2. ASSUME NEW j \in Jobs, CancelJob(j)  PROVE TypeInv'
  <2>1. SchedulerTypeOK'
    BY <1>2, FinishType DEF CancelJob, TypeInv, TypeOK, Outcomes
  <2> QED  BY <1>2, <2>1
            DEF CancelJob, TypeInv, TypeOK, AttemptsLeft, JobStatus, sessionVars,
                handlerVars
<1>3. ASSUME NEW j \in Jobs, JobSkipped(j)  PROVE TypeInv'
  BY <1>3, EndJobType DEF JobSkipped, TypeInv, TypeOK, AttemptsLeft, JobStatus, sessionVars
<1>4. ASSUME NEW j \in Jobs, JobReturns(j)  PROVE TypeInv'
  BY <1>4, EndJobType, TransitionType
     DEF JobReturns, Close, TypeInv, TypeOK, AttemptsLeft, JobStatus, SessionStatus
<1>5. ASSUME NEW j \in Jobs, JobFails(j)  PROVE TypeInv'
  <2>1. handler' \in [Sessions -> Runs \cup {NoRun}]
    BY <1>5 DEF JobFails, Close, TypeInv, TypeOK
  <2>2. attempts[j] + 1 \in 0..MaxRetries /\ j \in Runs
    <3>1. stage[j] # "done" /\ j \in Runs
      BY <1>5 DEF JobFails
    <3> QED  BY <3>1 DEF TypeInv, TypeOK, AttemptsLeft
  <2>3. CASE attempts[j] + 1 < MaxRetries
    <3>1. /\ stage' = [stage EXCEPT ![j] = "deciding"]
          /\ attempts' = [attempts EXCEPT ![j] = attempts[j] + 1]
          /\ UNCHANGED <<schedulerVars, sessionVars, jobStatus, sessionLock, lockQueue, aborted>>
      BY <1>5, <2>3 DEF JobFails, schedulerVars, sessionVars
    <3>2. stage' \in [Runs -> Stage] /\ attempts' \in [Jobs -> 0..MaxRetries]
      BY <3>1, <2>2 DEF TypeInv, TypeOK, Stage
    <3>3. AttemptsLeft'
      BY <3>1, <2>2, <2>3 DEF TypeInv, TypeOK, AttemptsLeft
    <3> QED  BY <2>1, <3>1, <3>2, <3>3
              DEF TypeInv, TypeOK, SchedulerTypeOK, schedulerVars, sessionVars
  <2>4. CASE ~(attempts[j] + 1 < MaxRetries)
    BY <1>5, <2>1, <2>2, <2>4, EndJobType, TransitionType
       DEF JobFails, TypeInv, TypeOK, AttemptsLeft, JobStatus, SessionStatus
  <2> QED  BY <2>3, <2>4
<1>6. ASSUME NEW j \in Jobs, JobRefused(j)  PROVE TypeInv'
  BY <1>6, EndJobType, TransitionType
     DEF JobRefused, Close, TypeInv, TypeOK, AttemptsLeft, JobStatus, SessionStatus
<1>7. ASSUME NEW j \in Jobs, JobFailsLate(j) \/ JobGivesUp(j)  PROVE TypeInv'
  BY <1>7, EndJobType
    
        DEF JobFailsLate, JobGivesUp, Close, TypeInv, TypeOK, AttemptsLeft, JobStatus,
            sessionVars
<1>8. ASSUME NEW j \in Jobs, JobBegins(j)  PROVE TypeInv'
  <2>1. j \in Runs /\ SessionOf[j] \in Sessions
    OBVIOUS
  <2>2. CASE status[SessionOf[j]] # "running"
    <3>1. /\ status' = [status EXCEPT ![SessionOf[j]] = "running"]
          /\ jobId' = [jobId EXCEPT ![SessionOf[j]] = j]
          /\ pauseFor' = [pauseFor EXCEPT ![SessionOf[j]] = NoRun]
          /\ jobStatus' = [jobStatus EXCEPT ![j] = "running"]
          /\ stage' = [stage EXCEPT ![j] = "deciding"]
          /\ UNCHANGED <<schedulerVars, sessionLock, lockQueue, aborted, attempts, handler>>
      BY <1>8, <2>2 DEF JobBegins, BeginRun, schedulerVars
    <3>2. /\ status' \in [Sessions -> SessionStatus] /\ jobId' \in [Sessions -> Runs \cup {NoRun}]
          /\ pauseFor' \in [Sessions -> Runs \cup {NoRun}]
      BY <2>1, <3>1 DEF TypeInv, TypeOK, SessionStatus
    <3>3. jobStatus' \in [Jobs -> JobStatus] /\ stage' \in [Runs -> Stage]
      BY <2>1, <3>1 DEF TypeInv, TypeOK, JobStatus, Stage
    <3>4. AttemptsLeft'
      BY <1>8, <2>1, <3>1 DEF TypeInv, TypeOK, AttemptsLeft, JobBegins
    <3> QED  BY <3>1, <3>2, <3>3, <3>4 DEF TypeInv, TypeOK, schedulerVars, SchedulerTypeOK
  <2>3. CASE status[SessionOf[j]] = "running"
    BY <1>8, <2>3, EndJobType
       DEF JobBegins, TypeInv, TypeOK, AttemptsLeft, JobStatus, sessionVars
  <2> QED  BY <2>2, <2>3
<1>9. ASSUME NEW j \in Jobs, JobAttempts(j)  PROVE TypeInv'
  <2>1. j \in Runs /\ SessionOf[j] \in Sessions
    OBVIOUS
  <2>2. /\ stage[j] = "deciding"
        /\ \E next \in {"executing", "busy"} : stage' = [stage EXCEPT ![j] = next]
        /\ handler' = handler \/ handler' = [handler EXCEPT ![SessionOf[j]] = j]
        /\ aborted' = aborted \/ aborted' = aborted \ {j}
        /\ UNCHANGED <<schedulerVars, sessionVars, queueVars>>
    BY <1>9 DEF JobAttempts, schedulerVars, sessionVars, queueVars
  <2>3. stage' \in [Runs -> Stage]
    BY <2>2 DEF TypeInv, TypeOK, Stage, Opened
  <2>4. handler' \in [Sessions -> Runs \cup {NoRun}]
    <3>1. CASE handler' = handler
      BY <3>1 DEF TypeInv, TypeOK
    <3>2. CASE handler' = [handler EXCEPT ![SessionOf[j]] = j]
      BY <3>2, <2>1 DEF TypeInv, TypeOK
    <3> QED  BY <2>2, <3>1, <3>2
  <2>6. aborted' \subseteq Runs
    BY <2>2 DEF TypeInv, TypeOK
  <2>5. AttemptsLeft'
    BY <2>1, <2>2 DEF TypeInv, TypeOK, AttemptsLeft, queueVars
  <2> QED  BY <2>2, <2>3, <2>4, <2>5, <2>6
            DEF TypeInv, TypeOK, schedulerVars, sessionVars, queueVars,
              SchedulerTypeOK
<1>10. ASSUME NEW r \in Resumes, ResumeBegins(r)  PROVE TypeInv'
  <2>1. SchedulerTypeOK'
    BY <1>10, EnqueueType DEF ResumeBegins, TypeInv, TypeOK, Resumes
  <2>2. r \in Runs /\ SessionOf[r] \in Sessions
    BY DEF Resumes
  <2> QED  BY <1>10, <2>1, <2>2 DEF ResumeBegins, BeginRun, TypeInv, TypeOK, AttemptsLeft,
              SessionStatus, Stage, Opened, queueVars
<1>11. ASSUME NEW r \in Resumes, ResumeRejected(r)  PROVE TypeInv'
  <2>2. r \in Runs /\ SessionOf[r] \in Sessions
    BY DEF Resumes
  <2> QED  BY <1>11, <2>2 DEF ResumeRejected, TypeInv, TypeOK, AttemptsLeft,
              SessionStatus, Stage, queueVars, schedulerVars, SchedulerTypeOK
<1>12. ASSUME NEW r \in Resumes, ResumeProceeds(r)  PROVE TypeInv'
  BY <1>12 DEF ResumeProceeds, Resumes, TypeInv, TypeOK, AttemptsLeft, Stage, Opened,
     schedulerVars, sessionVars, queueVars, SchedulerTypeOK
<1>13. ASSUME NEW r \in Resumes, ResumeEnds(r)  PROVE TypeInv'
  <2>1. SchedulerTypeOK'
    BY <1>13, FinishType DEF ResumeEnds, TypeInv, TypeOK, Outcomes, Resumes
  <2> QED  BY <1>13, <2>1, TransitionType DEF ResumeEnds, Close, Resumes, TypeInv, TypeOK,
              AttemptsLeft, SessionStatus, Stage, sessionVars, queueVars
<1>14. ASSUME NEW r \in Runs, Execution(r)  PROVE TypeInv'
  <2>1. /\ status' \in [Sessions -> SessionStatus] /\ jobId' \in [Sessions -> Runs \cup {NoRun}]
        /\ pauseFor' \in [Sessions -> Runs \cup {NoRun}]
    BY <1>14, TransitionType DEF Execution, ExecuteReturns, ExecuteThrows, DisposeThrows,
       TypeInv, TypeOK, SessionStatus, sessionVars
  <2>2. /\ stage[r] # "done"
        /\ \E next \in {"returned", "failed", "refused"} : stage' = [stage EXCEPT ![r] = next]
        /\ UNCHANGED <<schedulerVars, queueVars, handler, aborted>>
    BY <1>14
       DEF Execution, ExecuteReturns, ExecuteThrows, DisposeThrows, schedulerVars, queueVars
  <2>3. stage' \in [Runs -> Stage]
    BY <2>2 DEF TypeInv, TypeOK, Stage, Opened
  <2>4. AttemptsLeft'
    BY <2>2 DEF TypeInv, TypeOK, AttemptsLeft, queueVars
  <2> QED  BY <2>1, <2>2, <2>3, <2>4
            DEF TypeInv, TypeOK, schedulerVars, queueVars, SchedulerTypeOK
<1>15. ASSUME NEW s \in Sessions, Pause(s)  PROVE TypeInv'
  BY <1>15 DEF Pause, TypeInv, TypeOK, AttemptsLeft, schedulerVars, queueVars, handlerVars,
     SchedulerTypeOK
<1>16. ASSUME NEW s \in Sessions, Interrupt(s) \/ Cancel(s)  PROVE TypeInv'
  <2>1. jobId[s] \in Runs
    BY <1>16 DEF Interrupt, Cancel, TypeInv, TypeOK, Owned
  <2>2. /\ Abort(jobId[s])
        /\ \E to \in SessionStatus, from \in SUBSET SessionStatus : Transition(jobId[s], to, from)
        /\ UNCHANGED <<queueVars, handler>>
    BY <1>16 DEF Interrupt, Cancel, SessionStatus, queueVars
  <2>3. /\ SchedulerTypeOK' /\ stage' \in [Runs -> Stage] /\ aborted' \subseteq Runs
        /\ \A r \in Runs : stage'[r] = stage[r] \/ stage[r] = "waiting"
    BY <2>1, <2>2, AbortType DEF TypeInv
  <2>4. /\ status' \in [Sessions -> SessionStatus]
        /\ pauseFor' \in [Sessions -> Runs \cup {NoRun}]
        /\ jobId' = jobId
    BY <2>1, <2>2, TransitionType DEF TypeInv
  <2>5. AttemptsLeft'
    BY <2>2, <2>3 DEF TypeInv, AttemptsLeft, queueVars
  <2> QED  BY <2>2, <2>3, <2>4, <2>5 DEF TypeInv, TypeOK, queueVars
<1>17. CASE Restart
  <2>1. SchedulerTypeOK'
    BY <1>17 DEF Restart, CancelAll, TypeInv, TypeOK, SchedulerTypeOK, RunStatus
  <2> QED  BY <1>17, <2>1
            DEF Restart, TypeInv, TypeOK, AttemptsLeft, SessionStatus, JobStatus, Stage
<1>18. CASE UNCHANGED vars
  BY <1>18 DEF vars, TypeInv, TypeOK, AttemptsLeft, schedulerVars, sessionVars, queueVars,
     handlerVars, SchedulerTypeOK
<1> QED
  BY <1>1, <1>2, <1>3, <1>4, <1>5, <1>6, <1>7, <1>8, <1>9, <1>10, <1>11, <1>12, <1>13,
     <1>14, <1>15, <1>16, <1>17, <1>18 DEF Next, Request, RunStep, JobStep, ResumeStep

-----------------------------------------------------------------------------
\* What a step on behalf of r leaves to the other runs: their calls, their
\* permits, what the handler has open for them, and the sessions they own.
StepOf(r) ==
    /\ \A q \in Runs \ {r} :
        /\ stage'[q] = stage[q]
        /\ q \in Jobs => jobStatus'[q] = jobStatus[q]
        /\ q \in Active => q \in Active'
        /\ q \in (Queued \cup Active)' => q \in Queued \cup Active
        /\ handler[SessionOf[q]] = q => handler'[SessionOf[q]] = q
    /\ \A s \in Sessions :
        /\ jobId'[s] = jobId[s] \/ (s = SessionOf[r] /\ jobId'[s] = r)
        /\ status'[s] # status[s] => jobId'[s] # NoRun
        /\ status'[s] = "running" => status[s] = "running" \/ jobId'[s] = r

\* So only the part of the invariant that speaks of r has to be shown.
LEMMA StepOfOne ==
    ASSUME RunInv, Owned, NEW r \in Runs, StepOf(r), CallOf(r)', SessionFor(r)'
    PROVE  RunInv' /\ Owned'
<1> USE ChatAssumption
<1>1. ASSUME NEW q \in Runs, q # r  PROVE CallOf(q)'
  BY <1>1 DEF RunInv, CallOf, StepOf
<1>2. ASSUME NEW q \in Runs, q # r  PROVE SessionFor(q)'
  <2>1. /\ stage'[q] = stage[q]
        /\ handler[SessionOf[q]] = q => handler'[SessionOf[q]] = q
        /\ jobId'[SessionOf[q]] = jobId[SessionOf[q]] \/ jobId'[SessionOf[q]] = r
        /\ status'[SessionOf[q]] = "running" =>
              status[SessionOf[q]] = "running" \/ jobId'[SessionOf[q]] = r
    BY <1>2 DEF StepOf
  <2>2. SessionFor(q)
    BY DEF RunInv
  <2> QED  BY <1>2, <2>1, <2>2 DEF SessionFor, Running
<1>3. Owned'
  BY DEF Owned, StepOf
<1> QED  BY <1>1, <1>2, <1>3 DEF RunInv

\* The effects of the helpers: finish takes r out of the scheduler and may pass
\* a permit to a queued run.
LEMMA FinishEffect ==
    ASSUME SchedulerTypeOK, NEW r \in Runs, NEW outcome \in Outcomes, Finish(r, outcome)
    PROVE  /\ r \notin (Queued \cup Active)'
           /\ \A q \in Runs \ {r} : /\ q \in Active => q \in Active'
                                    /\ q \in (Queued \cup Active)' => q \in Queued \cup Active
  BY DEF Finish, SchedulerTypeOK, Queued, Active, Outcomes

\* A run that enqueues takes a permit or waits; the others keep what they have.
LEMMA EnqueueEffect ==
    ASSUME SchedulerTypeOK, NEW r \in Runs, Enqueue(r)
    PROVE  /\ r \in (Queued \cup Active)'
           /\ \A q \in Runs \ {r} : /\ q \in Active => q \in Active'
                                    /\ q \in (Queued \cup Active)' => q \in Queued \cup Active
<1>1. PICK st \in {"active", "queued"} : runStatus' = [runStatus EXCEPT ![r] = st]
  BY DEF Enqueue
<1> QED  BY <1>1 DEF SchedulerTypeOK, Queued, Active

\* A transition moves the session of r only when r owns it; after one that
\* leaves "running", r owns no running session.
LEMMA TransitionEffect ==
    ASSUME TypeOK, NEW r \in Runs, NEW to, NEW from, to # "running", Transition(r, to, from)
    PROVE  /\ jobId' = jobId
           /\ \A s \in Sessions : /\ status'[s] # status[s] => s = SessionOf[r] /\ jobId[s] = r
                                  /\ status'[s] = "running" => status[s] = "running"
           /\ "running" \in from => ~Running(r)'
  BY ChatAssumption DEF Transition, TypeOK, Running

\* The end of a job settles its entry and gives back its permit.
LEMMA EndJobEffect ==
    ASSUME TypeOK, NEW j \in Jobs, NEW outcome \in JobStatus \ {"queued"}, EndJob(j, outcome)
    PROVE  /\ stage'[j] = "done" /\ jobStatus'[j] # "queued"
           /\ j \notin (Queued \cup Active)'
           /\ \A q \in Runs \ {j} :
                /\ stage'[q] = stage[q]
                /\ q \in Jobs => jobStatus'[q] = jobStatus[q]
                /\ q \in Active => q \in Active'
                /\ q \in (Queued \cup Active)' => q \in Queued \cup Active
  BY ChatAssumption, FinishEffect DEF EndJob, TypeOK, Outcomes


\* Every step keeps the rest of the invariant.
LEMMA RunStepInv == TypeInv /\ Owned /\ RunInv /\ [Next]_vars => RunInv' /\ Owned'
<1> SUFFICES ASSUME TypeInv, Owned, RunInv, [Next]_vars  PROVE RunInv' /\ Owned'
  OBVIOUS
<1> USE ChatAssumption
<1> USE DEF TypeInv, TypeOK
<1>1. ASSUME NEW j \in Jobs, EnqueueJob(j)  PROVE RunInv' /\ Owned'
  <2>1. j \in Runs /\ stage[j] = "none" /\ stage'[j] = "queued" /\ jobStatus'[j] = "queued"
    BY <1>1 DEF EnqueueJob
  <2>2. StepOf(j)
    BY <1>1, <2>1, EnqueueEffect DEF StepOf, EnqueueJob, sessionVars
  <2>3. CallOf(j)'
    BY <2>1, <2>2 DEF CallOf, Attempting
  <2>4. SessionFor(j)'
    BY <1>1, <2>1 DEF SessionFor, RunInv, Running, EnqueueJob, sessionVars, Opened
  <2> QED  BY <2>1, <2>2, <2>3, <2>4, StepOfOne
<1>2. ASSUME NEW j \in Jobs, CancelJob(j)  PROVE RunInv' /\ Owned'
  <2>1. /\ j \in Runs /\ CallOf(j) /\ SessionFor(j)
        /\ jobStatus[j] = "queued" /\ jobStatus'[j] # "queued" /\ stage[j] = "queued"
    BY <1>2 DEF CancelJob, RunInv, CallOf
  <2>2. StepOf(j) /\ j \notin (Queued \cup Active)' /\ stage' = stage
    BY <1>2, <2>1, FinishEffect DEF StepOf, CancelJob, sessionVars, handlerVars, Outcomes
  <2>3. CallOf(j)'
    BY <2>1, <2>2 DEF CallOf, Attempting
  <2>4. SessionFor(j)'
    BY <1>2, <2>1, <2>2 DEF SessionFor, Running, CancelJob, sessionVars, handlerVars
  <2> QED  BY <2>1, <2>2, <2>3, <2>4, StepOfOne
<1>3. ASSUME NEW j \in Jobs, JobSkipped(j)  PROVE RunInv' /\ Owned'
  <2>1. j \in Runs /\ CallOf(j) /\ SessionFor(j) /\ stage[j] = "queued" /\ stage'[j] = "done"
    BY <1>3, EndJobEffect DEF JobSkipped, JobStatus, RunInv
  <2>2. StepOf(j) /\ jobStatus'[j] # "queued" /\ j \notin (Queued \cup Active)'
    BY <1>3, EndJobEffect DEF StepOf, JobSkipped, JobStatus, sessionVars
  <2>3. CallOf(j)'
    BY <2>1, <2>2 DEF CallOf, Attempting
  <2>4. SessionFor(j)'
    BY <1>3, <2>1 DEF SessionFor, Running, JobSkipped, sessionVars, Opened
  <2> QED  BY <2>1, <2>2, <2>3, <2>4, StepOfOne
<1>4. ASSUME NEW j \in Jobs, JobBegins(j)  PROVE RunInv' /\ Owned'
  <2>1. /\ j \in Runs /\ CallOf(j) /\ SessionFor(j) /\ stage[j] = "queued" /\ j \in Active
        /\ SessionOf[j] \in Sessions
    BY <1>4 DEF JobBegins, RunInv
  <2>2. CASE status[SessionOf[j]] # "running"
    <3>1. /\ BeginRun(j) /\ UNCHANGED <<schedulerVars, handler>>
          /\ stage' = [stage EXCEPT ![j] = "deciding"]
          /\ jobStatus' = [jobStatus EXCEPT ![j] = "running"]
      BY <1>4, <2>2 DEF JobBegins, schedulerVars
    <3>2. stage'[j] = "deciding" /\ jobStatus'[j] # "queued" /\ Active' = Active
      BY <2>1, <3>1 DEF schedulerVars, Active
    <3>3. StepOf(j)
      BY <2>1, <3>1 DEF StepOf, BeginRun, schedulerVars, Active, Queued
    <3>4. CallOf(j)'
      BY <2>1, <3>2 DEF CallOf
    <3>5. SessionFor(j)'
      BY <2>1, <3>1, <3>2 DEF SessionFor, BeginRun, Opened
    <3> QED  BY <2>1, <3>3, <3>4, <3>5, StepOfOne
  <2>3. CASE status[SessionOf[j]] = "running"
    <3>1. EndJob(j, "failed") /\ UNCHANGED sessionVars /\ UNCHANGED handler
      BY <1>4, <2>3 DEF JobBegins, sessionVars
    <3>2. stage'[j] = "done" /\ jobStatus'[j] # "queued" /\ j \notin (Queued \cup Active)'
      BY <3>1, EndJobEffect DEF JobStatus
    <3>3. StepOf(j)
      BY <3>1, EndJobEffect DEF StepOf, JobStatus, sessionVars
    <3>4. CallOf(j)'
      BY <3>2 DEF CallOf, Attempting
    <3>5. SessionFor(j)'
      BY <2>1, <3>1, <3>2 DEF SessionFor, Running, sessionVars, Opened
    <3> QED  BY <2>1, <3>3, <3>4, <3>5, StepOfOne
  <2> QED  BY <2>2, <2>3
<1>5. ASSUME NEW j \in Jobs, JobAttempts(j)  PROVE RunInv' /\ Owned'
  <2>1. /\ j \in Runs /\ CallOf(j) /\ SessionFor(j) /\ stage[j] = "deciding"
        /\ SessionOf[j] \in Sessions
        /\ UNCHANGED schedulerVars /\ UNCHANGED sessionVars /\ UNCHANGED jobStatus
    BY <1>5 DEF JobAttempts, RunInv, schedulerVars, sessionVars, queueVars
  <2>2. \/ /\ handler[SessionOf[j]] = NoRun /\ stage' = [stage EXCEPT ![j] = "executing"]
           /\ handler' = [handler EXCEPT ![SessionOf[j]] = j]
        \/ stage' = [stage EXCEPT ![j] = "busy"] /\ handler' = handler
    BY <1>5 DEF JobAttempts
  <2>3. StepOf(j)
    BY <2>1, <2>2 DEF StepOf, schedulerVars, sessionVars, Active, Queued
  <2>4. CallOf(j)'
    BY <2>1, <2>2 DEF CallOf, schedulerVars, Active, Queued, Attempting
  <2>5. SessionFor(j)'
    BY <2>1, <2>2 DEF SessionFor, Running, sessionVars, Opened, Resumes
  <2> QED  BY <2>1, <2>3, <2>4, <2>5, StepOfOne
<1>6. ASSUME NEW j \in Jobs, JobGivesUp(j) \/ JobFailsLate(j)  PROVE RunInv' /\ Owned'
  <2>1. /\ j \in Runs /\ SessionFor(j) /\ ~Running(j) /\ UNCHANGED sessionVars
        /\ EndJob(j, "completed") /\ stage[j] \notin {"none", "queued"}
        /\ \A q \in Runs : q # j /\ handler[SessionOf[q]] = q => handler'[SessionOf[q]] = q
    BY <1>6 DEF JobGivesUp, JobFailsLate, Close, RunInv, sessionVars
  <2>2. stage'[j] = "done" /\ jobStatus'[j] # "queued" /\ j \notin (Queued \cup Active)'
    BY <2>1, EndJobEffect DEF JobStatus
  <2>3. StepOf(j)
    BY <2>1, EndJobEffect DEF StepOf, JobStatus, sessionVars
  <2>4. CallOf(j)'
    BY <2>2 DEF CallOf, Attempting
  <2>5. SessionFor(j)'
    BY <2>1, <2>2 DEF SessionFor, Running, sessionVars, Opened
  <2> QED  BY <2>1, <2>3, <2>4, <2>5, StepOfOne
<1>7. ASSUME NEW j \in Jobs, JobReturns(j) \/ JobRefused(j)  PROVE RunInv' /\ Owned'
  <2>1. /\ j \in Runs /\ SessionFor(j) /\ EndJob(j, "completed")
        /\ \E to \in {"completed", "blocked"} : Transition(j, to, {"running"})
        /\ \A q \in Runs : q # j /\ handler[SessionOf[q]] = q => handler'[SessionOf[q]] = q
    BY <1>7 DEF JobReturns, JobRefused, Close, RunInv
  <2>2. stage'[j] = "done" /\ jobStatus'[j] # "queued" /\ j \notin (Queued \cup Active)'
    BY <2>1, EndJobEffect DEF JobStatus
  <2>3. /\ jobId' = jobId /\ ~Running(j)'
        /\ \A s \in Sessions : /\ status'[s] # status[s] => s = SessionOf[j] /\ jobId[s] = j
                               /\ status'[s] = "running" => status[s] = "running"
    BY <2>1, TransitionEffect
  <2>4. StepOf(j)
    BY <2>1, <2>3, EndJobEffect DEF StepOf, JobStatus
  <2>5. CallOf(j)'
    BY <2>2 DEF CallOf, Attempting
  <2>6. SessionFor(j)'
    BY <2>2, <2>3 DEF SessionFor, Opened
  <2> QED  BY <2>1, <2>4, <2>5, <2>6, StepOfOne
<1>8. ASSUME NEW j \in Jobs, JobFails(j)  PROVE RunInv' /\ Owned'
  <2>1. /\ j \in Runs /\ SessionFor(j) /\ CallOf(j)
        /\ stage[j] \in {"failed", "busy"} /\ Running(j)
        /\ \A q \in Runs : q # j /\ handler[SessionOf[q]] = q => handler'[SessionOf[q]] = q
    BY <1>8 DEF JobFails, Close, RunInv
  <2>2. CASE attempts[j] + 1 < MaxRetries
    <3>1. /\ UNCHANGED schedulerVars /\ UNCHANGED sessionVars /\ UNCHANGED jobStatus
          /\ stage' = [stage EXCEPT ![j] = "deciding"]
      BY <1>8, <2>2 DEF JobFails, schedulerVars, sessionVars
    <3>2. StepOf(j)
      BY <2>1, <3>1 DEF StepOf, schedulerVars, sessionVars, Active, Queued
    <3>3. CallOf(j)'
      BY <2>1, <3>1 DEF CallOf, schedulerVars, Active, Queued, Attempting
    <3>4. SessionFor(j)'
      BY <2>1, <3>1 DEF SessionFor, Running, sessionVars, Opened
    <3> QED  BY <2>1, <3>2, <3>3, <3>4, StepOfOne
  <2>3. CASE ~(attempts[j] + 1 < MaxRetries)
    <3>1. EndJob(j, "failed") /\ Transition(j, "blocked", {"running"})
      BY <1>8, <2>3 DEF JobFails
    <3>2. stage'[j] = "done" /\ jobStatus'[j] # "queued" /\ j \notin (Queued \cup Active)'
      BY <3>1, EndJobEffect DEF JobStatus
    <3>3. /\ jobId' = jobId /\ ~Running(j)'
          /\ \A s \in Sessions : /\ status'[s] # status[s] => s = SessionOf[j] /\ jobId[s] = j
                                 /\ status'[s] = "running" => status[s] = "running"
      BY <2>1, <3>1, TransitionEffect
    <3>4. StepOf(j)
      BY <2>1, <3>1, <3>3, EndJobEffect DEF StepOf, JobStatus
    <3>5. CallOf(j)'
      BY <3>2 DEF CallOf, Attempting
    <3>6. SessionFor(j)'
      BY <3>2, <3>3 DEF SessionFor, Opened
    <3> QED  BY <2>1, <3>4, <3>5, <3>6, StepOfOne
  <2> QED  BY <2>2, <2>3
<1>9. ASSUME NEW r \in Resumes, ResumeBegins(r)  PROVE RunInv' /\ Owned'
  <2>1. /\ r \in Runs /\ r \notin Jobs /\ SessionOf[r] \in Sessions /\ stage[r] = "none"
        /\ handler[SessionOf[r]] = NoRun /\ BeginRun(r) /\ Enqueue(r)
        /\ handler' = [handler EXCEPT ![SessionOf[r]] = r]
        /\ stage' = [stage EXCEPT ![r] = "waiting"] /\ UNCHANGED jobStatus
    BY <1>9 DEF ResumeBegins, Resumes, queueVars
  <2>2. StepOf(r)
    BY <2>1, EnqueueEffect DEF StepOf, BeginRun
  <2>3. CallOf(r)'
    BY <2>1 DEF CallOf
  <2>4. SessionFor(r)'
    BY <2>1 DEF SessionFor, BeginRun, Running, Opened
  <2> QED  BY <2>1, <2>2, <2>3, <2>4, StepOfOne
<1>10. ASSUME NEW r \in Resumes, ResumeRejected(r)  PROVE RunInv' /\ Owned'
  <2>1. /\ r \in Runs /\ r \notin Jobs /\ CallOf(r) /\ SessionOf[r] \in Sessions /\ stage[r] = "none"
        /\ status' = [status EXCEPT ![SessionOf[r]] = "blocked"]
        /\ jobId' = [jobId EXCEPT ![SessionOf[r]] = r]
        /\ stage' = [stage EXCEPT ![r] = "done"]
        /\ UNCHANGED schedulerVars /\ UNCHANGED jobStatus /\ UNCHANGED handler
    BY <1>10 DEF ResumeRejected, Resumes, RunInv, schedulerVars, queueVars
  <2>2. StepOf(r)
    BY <2>1 DEF StepOf, schedulerVars, Active, Queued
  <2>3. CallOf(r)'
    BY <2>1 DEF CallOf, schedulerVars, Active, Queued, Attempting
  <2>4. SessionFor(r)'
    BY <2>1 DEF SessionFor, Running, Opened
  <2> QED  BY <2>1, <2>2, <2>3, <2>4, StepOfOne
<1>11. ASSUME NEW r \in Resumes, ResumeProceeds(r)  PROVE RunInv' /\ Owned'
  <2>1. /\ r \in Runs /\ r \notin Jobs /\ CallOf(r) /\ SessionFor(r)
        /\ stage[r] = "waiting" /\ r \in Active
        /\ \E next \in {"executing", "returned"} : stage' = [stage EXCEPT ![r] = next]
        /\ UNCHANGED schedulerVars /\ UNCHANGED sessionVars /\ UNCHANGED jobStatus
        /\ UNCHANGED handler
    BY <1>11 DEF ResumeProceeds, Resumes, RunInv, schedulerVars, sessionVars, queueVars
  <2>2. StepOf(r)
    BY <2>1 DEF StepOf, schedulerVars, sessionVars, Active, Queued
  <2>3. CallOf(r)'
    BY <2>1 DEF CallOf, schedulerVars, Active, Queued
  <2>4. SessionFor(r)'
    BY <2>1 DEF SessionFor, Running, sessionVars, Opened
  <2> QED  BY <2>1, <2>2, <2>3, <2>4, StepOfOne
<1>12. ASSUME NEW r \in Resumes, ResumeEnds(r)  PROVE RunInv' /\ Owned'
  <2>1. /\ r \in Runs /\ r \notin Jobs /\ SessionFor(r) /\ Finish(r, "completed")
        /\ stage[r] \in {"returned", "failed", "refused"}
        /\ stage' = [stage EXCEPT ![r] = "done"] /\ UNCHANGED jobStatus
        /\ \A q \in Runs : q # r /\ handler[SessionOf[q]] = q => handler'[SessionOf[q]] = q
    BY <1>12 DEF ResumeEnds, Close, Resumes, RunInv, queueVars
  <2>2. /\ jobId' = jobId /\ ~Running(r)'
        /\ \A s \in Sessions : /\ status'[s] # status[s] => s = SessionOf[r] /\ jobId[s] = r
                               /\ status'[s] = "running" => status[s] = "running"
    <3>1. CASE stage[r] = "returned"
      BY <1>12, <2>1, <3>1, TransitionEffect DEF ResumeEnds
    <3>2. CASE stage[r] # "returned"
      BY <1>12, <2>1, <3>2 DEF ResumeEnds, SessionFor, Running, Resumes, sessionVars
    <3> QED  BY <3>1, <3>2
  <2>3. StepOf(r)
    BY <2>1, <2>2, FinishEffect DEF StepOf, Outcomes
  <2>4. CallOf(r)'
    BY <2>1, FinishEffect DEF CallOf, Outcomes, Attempting
  <2>5. SessionFor(r)'
    BY <2>1, <2>2 DEF SessionFor, Opened
  <2> QED  BY <2>1, <2>3, <2>4, <2>5, StepOfOne
<1>13. ASSUME NEW r \in Runs, Execution(r)  PROVE RunInv' /\ Owned'
  <2>1. /\ CallOf(r) /\ SessionFor(r) /\ stage[r] \in {"executing", "returned"}
        /\ \E next \in {"returned", "failed", "refused"} : stage' = [stage EXCEPT ![r] = next]
        /\ UNCHANGED schedulerVars /\ UNCHANGED jobStatus /\ UNCHANGED handler
    BY <1>13
       DEF Execution, ExecuteReturns, ExecuteThrows, DisposeThrows, RunInv, schedulerVars,
       queueVars
  <2>2. /\ UNCHANGED sessionVars
        \/ \E to \in {"paused", "interrupted", "blocked"} : Transition(r, to, {"running"})
    BY <1>13 DEF Execution, ExecuteReturns, ExecuteThrows, DisposeThrows, sessionVars
  <2>3. /\ jobId' = jobId
        /\ \A s \in Sessions : /\ status'[s] # status[s] => s = SessionOf[r] /\ jobId[s] = r
                               /\ status'[s] = "running" => status[s] = "running"
    BY <2>2, TransitionEffect DEF sessionVars
  <2>4. r \in Resumes /\ stage'[r] \in {"failed", "refused"} => ~Running(r)'
    <3>1. ASSUME r \in Resumes, stage'[r] \in {"failed", "refused"}
          PROVE  Transition(r, "blocked", {"running"})
      BY <1>13, <2>1, <3>1 DEF Execution, ExecuteReturns, ExecuteThrows, DisposeThrows
    <3> QED  BY <3>1, TransitionEffect
  <2>5. StepOf(r)
    BY <2>1, <2>3 DEF StepOf, schedulerVars, Active, Queued
  <2>6. CallOf(r)'
    BY <2>1 DEF CallOf, schedulerVars, Active, Queued, Attempting
  <2>7. SessionFor(r)'
    BY <2>1, <2>3, <2>4 DEF SessionFor, Opened
  <2> QED  BY <2>5, <2>6, <2>7, StepOfOne
<1>14. ASSUME NEW s \in Sessions, Pause(s)  PROVE RunInv' /\ Owned'
  BY <1>14 DEF Pause, RunInv, Owned, CallOf, SessionFor, Running, schedulerVars, queueVars,
     handlerVars, Active, Queued
<1>15. ASSUME NEW s \in Sessions, Interrupt(s) \/ Cancel(s)  PROVE RunInv' /\ Owned'
  <2>1. PICK r \in Runs : r = jobId[s] /\ SessionOf[r] = s /\ CallOf(r) /\ SessionFor(r)
    BY <1>15 DEF Interrupt, Cancel, Owned, RunInv
  <2>2. /\ Abort(r) /\ UNCHANGED jobStatus /\ UNCHANGED handler
        /\ status' = [status EXCEPT ![s] = IF Interrupt(s) THEN "interrupted" ELSE "cancelled"]
        /\ jobId' = jobId
    BY <1>15, <2>1 DEF Interrupt, Cancel, Transition, queueVars
  <2>3. ~Running(r)'
    BY <2>1, <2>2 DEF Running
  <2>4. CASE UNCHANGED schedulerVars /\ UNCHANGED stage
    <3>1. StepOf(r)
      BY <2>1, <2>2, <2>4 DEF StepOf, schedulerVars, Active, Queued
    <3>2. CallOf(r)'
      BY <2>1, <2>2, <2>4 DEF CallOf, schedulerVars, Active, Queued
    <3>3. SessionFor(r)'
      BY <2>1, <2>2, <2>3, <2>4 DEF SessionFor
    <3> QED  BY <2>1, <3>1, <3>2, <3>3, StepOfOne
  <2>5. CASE /\ stage[r] = "waiting" /\ stage' = [stage EXCEPT ![r] = "failed"]
             /\ Finish(r, "cancelled")
    <3>1. StepOf(r)
      BY <2>1, <2>2, <2>5, FinishEffect DEF StepOf, Outcomes
    <3>2. CallOf(r)'
      BY <2>1, <2>2, <2>5, FinishEffect DEF CallOf, Outcomes
    <3>3. SessionFor(r)'
      BY <2>1, <2>2, <2>3, <2>5 DEF SessionFor, Opened
    <3> QED  BY <2>1, <3>1, <3>2, <3>3, StepOfOne
  <2> QED  BY <2>2, <2>4, <2>5 DEF Abort, schedulerVars
<1>16. CASE Restart
  <2>1. /\ stage' = [r \in Runs |-> IF stage[r] = "none" THEN "none" ELSE "done"]
        /\ jobStatus' = [j \in Jobs |-> "none"] /\ jobId' = jobId
        /\ status' = [s \in Sessions |-> IF status[s] = "running" THEN "blocked" ELSE status[s]]
    BY <1>16 DEF Restart
  <2>2. (Queued \cup Active)' = {}
    BY <1>16 DEF Restart, CancelAll, Queued, Active
  <2>3. ASSUME NEW r \in Runs  PROVE CallOf(r)' /\ SessionFor(r)'
    <3>1. CallOf(r) /\ SessionFor(r)
      BY DEF RunInv
    <3>2. CallOf(r)'
      BY <2>1, <2>2 DEF CallOf, Attempting
    <3>3. SessionFor(r)'
      BY <2>1, <3>1 DEF SessionFor, Running, Opened
    <3> QED  BY <3>2, <3>3
  <2>4. Owned'
    BY <2>1 DEF Owned
  <2> QED  BY <2>3, <2>4 DEF RunInv
<1>17. CASE UNCHANGED vars
  BY <1>17 DEF vars, RunInv, Owned, CallOf, SessionFor, Running, schedulerVars, sessionVars,
     queueVars, handlerVars, Active, Queued
<1> QED
  BY <1>1, <1>2, <1>3, <1>4, <1>5, <1>6, <1>7, <1>8, <1>9, <1>10, <1>11, <1>12, <1>13,
     <1>14, <1>15, <1>16, <1>17 DEF Next, Request, RunStep, JobStep, ResumeStep

\* The inductive invariant holds in every behaviour.
LEMMA ChatInvariant == Spec => []ChatInv
<1>1. Init => ChatInv
  <2> SUFFICES ASSUME Init  PROVE ChatInv
    OBVIOUS
  <2> USE ChatAssumption
  <2>1. TypeInv
    <3>1. SchedulerTypeOK
      BY DEF Init, SchedulerInit, SchedulerTypeOK, RunStatus
    <3>2. 0 \in 0..MaxRetries /\ 0 < MaxRetries
      OBVIOUS
    <3> QED  BY <3>1, <3>2
              DEF Init, TypeInv, TypeOK, AttemptsLeft, SessionStatus, JobStatus, Stage
  <2>2. Owned
    BY DEF Init, Owned
  <2>3. RunInv
    BY
       DEF Init, SchedulerInit, RunInv, CallOf, SessionFor, Running, Queued, Active,
           Attempting, Opened
  <2> QED  BY <2>1, <2>2, <2>3 DEF ChatInv
<1>2. ChatInv /\ [Next]_vars => ChatInv'
  BY TypeStep, RunStepInv DEF ChatInv
<1> QED  BY <1>1, <1>2, PTL DEF Spec

-----------------------------------------------------------------------------
\* Every variable keeps to its type; the attempts at a job are bounded by
\* maxRetries (conversation-job-queue.ts, executeJob).
THEOREM ChatTypeCorrect == Spec => []TypeOK
<1>1. ChatInv => TypeOK
  BY DEF ChatInv, TypeInv
<1> QED  BY <1>1, ChatInvariant, PTL

\* A session is open in the harness for one run at a time: startRun and
\* resumeSession look at the active map in the stretch that writes it, and its
\* entry goes in the finally block of the same run (chat-handler.ts).
THEOREM OneAtATime == Spec => []OneExecutionPerSession
<1>1. ChatInv => OneExecutionPerSession
  BY DEF ChatInv, RunInv, SessionFor, OneExecutionPerSession
<1> QED  BY <1>1, ChatInvariant, PTL

\* A turn is made only by the holder of a permit: a job awaits it before its
\* attempts and gives it back after them, a resume awaits it before its turn.
THEOREM ExecutionPermitted == Spec => []ExecutionHasPermit
<1>1. ChatInv => ExecutionHasPermit
  BY DEF ChatInv, RunInv, CallOf, ExecutionHasPermit
<1> QED  BY <1>1, ChatInvariant, PTL

\* No call ends, in whatever way, with a permit or a place in the queue.
THEOREM PermitsInUse == Spec => []PermitHasCall
<1>1. ChatInv => PermitHasCall
  BY DEF ChatInv, RunInv, CallOf, PermitHasCall, Queued, Active
<1> QED  BY <1>1, ChatInvariant, PTL

\* A session that says it is running has a call at work that will settle it.
THEOREM RunningAlive == Spec => []RunningIsAlive
<1>1. ChatInv => RunningIsAlive
  <2> SUFFICES ASSUME ChatInv, NEW s \in Sessions, status[s] = "running"
               PROVE  /\ jobId[s] # NoRun /\ SessionOf[jobId[s]] = s
                      /\ stage[jobId[s]] \in Opened \cup {"deciding", "busy"}
    BY DEF RunningIsAlive
  <2>1. jobId[s] \in Runs /\ jobId[s] # NoRun /\ SessionOf[jobId[s]] = s
    BY DEF ChatInv, Owned, TypeInv, TypeOK
  <2>2. Running(jobId[s]) /\ SessionFor(jobId[s])
    BY <2>1 DEF Running, ChatInv, RunInv
  <2> QED  BY <2>1, <2>2 DEF SessionFor
<1> QED  BY <1>1, ChatInvariant, PTL

\* A turn starts only for the run that owns the session and finds it running.
THEOREM ExecutesForOwner == Spec => ExecutesOnlyWhenRunning
<1> DEFINE Starts(r) == stage[r] # "executing" /\ stage'[r] = "executing"
<1>1. ASSUME ChatInv, [Next]_vars, NEW r \in Runs, Starts(r)  PROVE Running(r)
  <2> USE ChatAssumption, <1>1
  <2>1. TypeOK
    BY DEF ChatInv, TypeInv
  <2>2. ASSUME NEW j \in Jobs, JobStep(j), ~JobAttempts(j)  PROVE FALSE
    <3>1. stage'[j] # "executing" /\ \A q \in Runs \ {j} : stage'[q] = stage[q]
      BY <2>1, <2>2, EndJobEffect
         DEF JobStep, JobSkipped, JobBegins, JobGivesUp, JobReturns,
         JobFails, JobRefused, JobFailsLate, JobStatus, TypeOK
    <3> QED  BY <3>1
  <2>3. ASSUME NEW j \in Jobs, JobAttempts(j)  PROVE Running(r)
    BY <2>1, <2>3 DEF JobAttempts, TypeOK
  <2>4. ASSUME NEW u \in Resumes, ResumeStep(u)  PROVE Running(r)
    BY <2>1, <2>4 DEF ResumeStep, ResumeProceeds, ResumeEnds, Resumes, TypeOK
  <2>5. ASSUME NEW q \in Runs, Execution(q)  PROVE FALSE
    BY <2>1, <2>5 DEF Execution, ExecuteReturns, ExecuteThrows, DisposeThrows, TypeOK
  <2>6. CASE Request
    <3>1. ASSUME NEW j \in Jobs, EnqueueJob(j) \/ CancelJob(j)  PROVE FALSE
      BY <2>1, <3>1 DEF EnqueueJob, CancelJob, handlerVars, TypeOK
    <3>2. ASSUME NEW u \in Resumes, ResumeBegins(u) \/ ResumeRejected(u)  PROVE FALSE
      BY <2>1, <3>2 DEF ResumeBegins, ResumeRejected, Resumes, TypeOK
    <3>3. ASSUME NEW s \in Sessions, Pause(s)  PROVE FALSE
      BY <3>3 DEF Pause, handlerVars
    <3>4. ASSUME NEW s \in Sessions, Interrupt(s) \/ Cancel(s)  PROVE FALSE
      BY <2>1, <3>4 DEF Interrupt, Cancel, Abort, TypeOK
    <3> QED  BY <2>6, <3>1, <3>2, <3>3, <3>4 DEF Request
  <2>7. CASE Restart
    BY <2>1, <2>7 DEF Restart
  <2>8. CASE UNCHANGED vars
    BY <2>8 DEF vars, handlerVars
  <2> QED  BY <2>2, <2>3, <2>4, <2>5, <2>6, <2>7, <2>8 DEF Next, RunStep
<1>2. ChatInv /\ [Next]_vars
      => [\A r \in Runs : stage[r] # "executing" /\ stage'[r] = "executing" => Running(r)]_vars
  BY <1>1
<1> QED  BY <1>2, ChatInvariant, PTL DEF Spec, ExecutesOnlyWhenRunning

\* How a step may change the status of a session: a cancellation, an
\* interruption, a new owner, or a step of the call that owns it.
Moves(s) ==
    \/ status'[s] = status[s]
    \/ status'[s] = "cancelled"
    \/ status'[s] = "interrupted" /\ status[s] = "running"
    \/ status[s] # "running" /\ jobId'[s] # jobId[s]
    \/ status[s] = "running" /\ stage'[jobId[s]] # stage[jobId[s]]

\* A run that settles its session moves its own call.
LEMMA SettlingMoves ==
    ASSUME TypeOK, NEW r \in Runs, NEW to, Transition(r, to, {"running"}), stage'[r] # stage[r],
           NEW s \in Sessions
    PROVE  Moves(s)
  BY ChatAssumption DEF Transition, TypeOK, Moves

\* No other step changes the status of a session.
LEMMA SessionMoves ==
    ASSUME ChatInv, [Next]_vars, NEW s \in Sessions
    PROVE  Moves(s)
<1> USE ChatAssumption
<1>1. TypeOK
  BY DEF ChatInv, TypeInv
<1>2. ASSUME NEW j \in Jobs, EnqueueJob(j) \/ CancelJob(j) \/ JobSkipped(j) \/ JobAttempts(j)
                             \/ JobGivesUp(j) \/ JobFailsLate(j)
      PROVE  Moves(s)
  BY <1>2
     DEF Moves, EnqueueJob, CancelJob, JobSkipped, JobAttempts, JobGivesUp, JobFailsLate,
     sessionVars
<1>3. ASSUME NEW j \in Jobs, JobBegins(j)  PROVE Moves(s)
  <2>1. jobId[SessionOf[j]] # j /\ SessionOf[j] \in Sessions
    BY <1>3 DEF JobBegins, ChatInv, RunInv, SessionFor
  <2> QED  BY <1>1, <1>3, <2>1 DEF JobBegins, BeginRun, Moves, TypeOK, sessionVars
<1>4. ASSUME NEW j \in Jobs, JobReturns(j) \/ JobRefused(j)  PROVE Moves(s)
  <2>1. stage'[j] # stage[j] /\ \E to \in {"completed", "blocked"} : Transition(j, to, {"running"})
    BY <1>1, <1>4, EndJobEffect DEF JobReturns, JobRefused, JobStatus
  <2> QED  BY <1>1, <2>1, SettlingMoves
<1>5. ASSUME NEW j \in Jobs, JobFails(j)  PROVE Moves(s)
  <2>1. CASE UNCHANGED sessionVars
    BY <2>1 DEF Moves, sessionVars
  <2>2. CASE Transition(j, "blocked", {"running"}) /\ EndJob(j, "failed")
    <3>1. stage'[j] # stage[j]
      BY <1>1, <1>5, <2>2, EndJobEffect DEF JobFails, JobStatus
    <3> QED  BY <1>1, <2>2, <3>1, SettlingMoves
  <2> QED  BY <1>5, <2>1, <2>2 DEF JobFails, sessionVars
<1>6. ASSUME NEW r \in Resumes, ResumeBegins(r) \/ ResumeRejected(r)  PROVE Moves(s)
  <2>1. /\ r \in Runs /\ SessionOf[r] \in Sessions
        /\ stage[r] = "none" /\ status[SessionOf[r]] # "running"
        /\ jobId' = [jobId EXCEPT ![SessionOf[r]] = r]
        /\ \E to \in {"running", "blocked"} : status' = [status EXCEPT ![SessionOf[r]] = to]
    BY <1>6 DEF ResumeBegins, ResumeRejected, BeginRun, Resumes
  <2>2. jobId[SessionOf[r]] # r
    BY <2>1 DEF ChatInv, RunInv, SessionFor
  <2> QED  BY <1>1, <2>1, <2>2 DEF Moves, TypeOK
<1>7. ASSUME NEW r \in Resumes, ResumeProceeds(r)  PROVE Moves(s)
  BY <1>7 DEF ResumeProceeds, sessionVars, Moves
<1>8. ASSUME NEW r \in Resumes, ResumeEnds(r)  PROVE Moves(s)
  <2>1. r \in Runs /\ stage'[r] # stage[r]
    BY <1>1, <1>8 DEF ResumeEnds, Resumes, TypeOK
  <2>2. UNCHANGED sessionVars \/ Transition(r, "completed", {"running"})
    BY <1>8 DEF ResumeEnds, sessionVars
  <2> QED  BY <1>1, <2>1, <2>2, SettlingMoves DEF Moves, sessionVars
<1>9. ASSUME NEW r \in Runs, Execution(r)  PROVE Moves(s)
  <2>1. stage'[r] # stage[r]
    BY <1>1, <1>9 DEF Execution, ExecuteReturns, ExecuteThrows, DisposeThrows, TypeOK
  <2>2. UNCHANGED sessionVars
        \/ \E to \in {"paused", "interrupted", "blocked"} : Transition(r, to, {"running"})
    BY <1>9 DEF Execution, ExecuteReturns, ExecuteThrows, DisposeThrows, sessionVars
  <2> QED  BY <1>1, <2>1, <2>2, SettlingMoves DEF Moves, sessionVars
<1>10. ASSUME NEW t \in Sessions, Pause(t)  PROVE Moves(s)
  BY <1>10 DEF Pause, Moves
<1>11. ASSUME NEW t \in Sessions, Interrupt(t) \/ Cancel(t)  PROVE Moves(s)
  <2>1. PICK r \in Runs : r = jobId[t] /\ SessionOf[r] = t
    BY <1>11 DEF Interrupt, Cancel, ChatInv, Owned, TypeInv, TypeOK
  <2>2. CASE Interrupt(t)
    BY <1>1, <2>1, <2>2 DEF Interrupt, Transition, Moves, TypeOK
  <2>3. CASE Cancel(t)
    BY <1>1, <2>1, <2>3 DEF Cancel, Transition, Moves, TypeOK
  <2> QED  BY <1>11, <2>2, <2>3
<1>12. CASE Restart
  <2>1. CASE status[s] = "running"
    <3>1. jobId[s] \in Runs /\ SessionOf[jobId[s]] = s
      BY <1>1, <2>1 DEF ChatInv, Owned, TypeOK
    <3>2. stage[jobId[s]] \in Opened \cup {"deciding", "busy"}
      BY <2>1, <3>1 DEF ChatInv, RunInv, SessionFor, Running
    <3>3. stage'[jobId[s]] = "done"
      BY <1>12, <3>1, <3>2 DEF Restart, Opened
    <3> QED  BY <2>1, <3>2, <3>3 DEF Moves, Opened
  <2>2. CASE status[s] # "running"
    BY <1>12, <2>2 DEF Restart, Moves
  <2> QED  BY <2>1, <2>2
<1>13. CASE UNCHANGED vars
  BY <1>13 DEF vars, sessionVars, Moves
<1> QED
  BY <1>2, <1>3, <1>4, <1>5, <1>6, <1>7, <1>8, <1>9, <1>10, <1>11, <1>12, <1>13
     DEF Next, Request, RunStep, JobStep, ResumeStep

\* What settled a run stays, but for a cancellation, until another run takes
\* the session (SessionStateDAO.transition, compare-and-set on the run).
THEOREM SettledStays == Spec => SettledIsFinal
<1>1. ChatInv /\ [Next]_vars
      => [\A s \in Sessions :
            /\ status[s] \notin {"idle", "running"} /\ status'[s] # status[s]
            => status'[s] = "cancelled" \/ jobId'[s] # jobId[s]]_vars
  BY SessionMoves DEF Moves
<1> QED  BY <1>1, ChatInvariant, PTL DEF Spec, SettledIsFinal

\* A running session is completed, paused or blocked by a step of its owner.
THEOREM OwnerSettles == Spec => SettledByOwner
<1>1. ChatInv /\ [Next]_vars
      => [\A s \in Sessions :
            status[s] = "running" /\ status'[s] \in {"completed", "paused", "blocked"}
            => stage'[jobId[s]] # stage[jobId[s]]]_vars
  BY SessionMoves DEF Moves
<1> QED  BY <1>1, ChatInvariant, PTL DEF Spec, SettledByOwner

\* The calls of messages and resumes use the permit table as RunScheduler
\* specifies it, so its theorems hold of them.
THEOREM ImplementsScheduler == Spec => SchedulerSpec
<1>1. Init => SchedulerInit
  BY DEF Init
<1>2. ASSUME ChatInv, [Next]_vars  PROVE [SchedulerNext]_schedulerVars
  <2> USE ChatAssumption
  <2>1. ASSUME NEW r \in Runs, Finish(r, "completed") \/ Finish(r, "cancelled") \/ Enqueue(r)
        PROVE  [SchedulerNext]_schedulerVars
    BY <2>1 DEF SchedulerNext
  <2>2. ASSUME NEW j \in Jobs, JobStep(j)  PROVE [SchedulerNext]_schedulerVars
    <3>1. UNCHANGED schedulerVars \/ \E outcome \in JobStatus : EndJob(j, outcome)
      BY <2>2 DEF JobStep, JobSkipped, JobBegins, JobAttempts, JobGivesUp, JobReturns,
         JobFails, JobRefused, JobFailsLate, JobStatus, schedulerVars
    <3> QED  BY <2>1, <3>1 DEF EndJob
  <2>3. ASSUME NEW u \in Resumes, ResumeStep(u)  PROVE [SchedulerNext]_schedulerVars
    BY <2>1, <2>3 DEF ResumeStep, ResumeProceeds, ResumeEnds, Resumes, schedulerVars
  <2>4. ASSUME NEW q \in Runs, Execution(q)  PROVE [SchedulerNext]_schedulerVars
    BY <2>4 DEF Execution, ExecuteReturns, ExecuteThrows, DisposeThrows, schedulerVars
  <2>5. CASE Request
    <3>1. ASSUME NEW j \in Jobs, EnqueueJob(j) \/ CancelJob(j)
          PROVE  [SchedulerNext]_schedulerVars
      BY <2>1, <3>1 DEF EnqueueJob, CancelJob
    <3>2. ASSUME NEW u \in Resumes, ResumeBegins(u) \/ ResumeRejected(u)
          PROVE  [SchedulerNext]_schedulerVars
      BY <2>1, <3>2 DEF ResumeBegins, ResumeRejected, Resumes, schedulerVars
    <3>3. ASSUME NEW s \in Sessions, Pause(s)  PROVE [SchedulerNext]_schedulerVars
      BY <3>3 DEF Pause, schedulerVars
    <3>4. ASSUME NEW s \in Sessions, Interrupt(s) \/ Cancel(s)
          PROVE  [SchedulerNext]_schedulerVars
      <4>1. PICK r \in Runs : r = jobId[s]
        BY <1>2, <3>4 DEF Interrupt, Cancel, ChatInv, Owned, TypeInv, TypeOK
      <4>2. Abort(r)
        BY <3>4, <4>1 DEF Interrupt, Cancel
      <4>3. Finish(r, "cancelled") \/ UNCHANGED schedulerVars
        BY <4>2 DEF Abort, schedulerVars
      <4> QED  BY <2>1, <4>3
    <3> QED  BY <2>5, <3>1, <3>2, <3>3, <3>4 DEF Request
  <2>6. CASE Restart
    BY <2>6 DEF Restart, SchedulerNext
  <2>7. CASE UNCHANGED vars
    BY <2>7 DEF vars, schedulerVars
  <2> QED  BY <1>2, <2>2, <2>3, <2>4, <2>5, <2>6, <2>7 DEF Next, RunStep
<1>3. ChatInv /\ [Next]_vars => [SchedulerNext]_schedulerVars
  BY <1>2
<1> QED  BY <1>1, <1>3, ChatInvariant, PTL DEF Spec, SchedulerSpec

\* With messages, resumes, cancellations and restarts, no more runs are active
\* than there are permits, and none waits while one is free.
THEOREM ChatPermitBound == Spec => [](PermitBound /\ NoIdlePermit)
  BY ImplementsScheduler, PermitsBounded, NoPermitIdle, PTL

-----------------------------------------------------------------------------
(***************************************************************************)
(* The order of the messages.  The queue of a lock is sorted by the        *)
(* numbers of the scheduler, a job stands in one queue only, and a job     *)
(* that is queued or running stands in the queue of the lock its session   *)
(* has now: forgetting a lock never splits the jobs of a session over two. *)
(***************************************************************************)
InQueue(j, lock) == \E i \in 1 .. Len(lockQueue[lock]) : lockQueue[lock][i] = j

Sorted(lock) == \A i, m \in 1 .. Len(lockQueue[lock]) :
    i < m => queueSeq[lockQueue[lock][i]] < queueSeq[lockQueue[lock][m]]

LockInv ==
    /\ \A r \in Runs : queueSeq[r] < nextQueueSeq
    /\ \A lock \in Jobs : Sorted(lock)
    /\ \A j, lock \in Jobs : InQueue(j, lock) => stage[j] # "none"
    /\ \A j, k, l \in Jobs : InQueue(j, k) /\ InQueue(j, l) => k = l
    /\ \A j \in Jobs : jobStatus[j] \in {"queued", "running"} =>
          sessionLock[SessionOf[j]] \in Jobs /\ InQueue(j, sessionLock[SessionOf[j]])
    /\ \A j \in Jobs : stage[j] \in Attempting => jobStatus[j] = "running"
    /\ MessagesInOrder

\* A step that moves no job but between its attempts, and no lock.
LEMMA LockQuiet ==
    ASSUME LockInv, TypeOK, SchedulerTypeOK', UNCHANGED <<lockQueue, sessionLock, jobStatus>>,
           \A j \in Jobs : queueSeq'[j] = queueSeq[j],
           \A r \in Runs : queueSeq'[r] < nextQueueSeq',
           \A j \in Jobs : stage'[j] = stage[j] \/ {stage[j], stage'[j]} \subseteq Attempting
    PROVE  LockInv'
<1>1. \A lock \in Jobs : Len(lockQueue[lock]) \in Nat /\ \A i \in 1 .. Len(lockQueue[lock]) :
         lockQueue[lock][i] \in Jobs
  BY DEF TypeOK
<1>2. \A lock \in Jobs : Sorted(lock)'
  BY <1>1 DEF LockInv, Sorted
<1>3. \A j, lock \in Jobs : InQueue(j, lock)' <=> InQueue(j, lock)
  BY DEF InQueue
<1>4. \A j, lock \in Jobs : InQueue(j, lock)' => stage'[j] # "none"
  BY <1>3 DEF LockInv, Attempting
<1>5. \A j \in Jobs : jobStatus'[j] \in {"queued", "running"} =>
         sessionLock'[SessionOf[j]] \in Jobs /\ InQueue(j, sessionLock[SessionOf[j]])'
  BY <1>3 DEF LockInv
<1>6. \A j \in Jobs : stage'[j] \in Attempting => jobStatus'[j] = "running"
  BY DEF LockInv
<1>7. MessagesInOrder'
  BY DEF LockInv, MessagesInOrder
<1>8. \A j, k, l \in Jobs : InQueue(j, k)' /\ InQueue(j, l)' => k = l
  BY <1>3 DEF LockInv
<1> QED  BY <1>2, <1>4, <1>5, <1>6, <1>7, <1>8 DEF LockInv

\* A released lock passes to the next job; nobody else moves.
LEMMA ReleaseEffect ==
    ASSUME TypeOK, NEW j \in Jobs, NEW lock \in Jobs, Release(j), Sorted(lock),
           \A k \in Jobs : queueSeq'[k] = queueSeq[k]
    PROVE  /\ Sorted(lock)'
           /\ \A k \in Jobs : InQueue(k, lock)' => InQueue(k, lock)
           /\ \A k \in Jobs \ {j} : InQueue(k, lock) => InQueue(k, lock)'
<1> DEFINE q == lockQueue[lock]
<1>1. q \in Seq(Jobs) /\ Len(q) \in Nat /\ \A i \in 1 .. Len(q) : q[i] \in Jobs
  BY DEF TypeOK
<1>2. CASE ~Holds(j, lock)
  <2>1. lockQueue'[lock] = q
    BY <1>2 DEF Release
  <2> QED  BY <1>1, <2>1 DEF Sorted, InQueue
<1>3. CASE Holds(j, lock)
  <2>1. q # << >> /\ q[1] = j /\ lockQueue'[lock] = Tail(q)
    BY <1>1, <1>3 DEF Holds, Release
  <2>2. Len(q) >= 1 /\ Len(Tail(q)) = Len(q) - 1 /\ \A i \in 1 .. Len(Tail(q)) : Tail(q)[i] = q[i + 1]
    BY <1>1, <2>1
  <2>3. \A i, m \in 1 .. Len(q) : i < m => queueSeq[q[i]] < queueSeq[q[m]]
    BY DEF Sorted
  <2>4. \A k : InQueue(k, lock) <=> \E i \in 1 .. Len(q) : q[i] = k
    BY DEF InQueue
  <2>5. \A k : InQueue(k, lock)' <=> \E i \in 1 .. Len(Tail(q)) : Tail(q)[i] = k
    BY <2>1 DEF InQueue
  <2>6. Sorted(lock)' <=> \A i, m \in 1 .. Len(Tail(q)) :
           i < m => queueSeq'[Tail(q)[i]] < queueSeq'[Tail(q)[m]]
    BY <2>1 DEF Sorted
  <2> HIDE DEF q
  <2>7. Sorted(lock)'
    BY <1>1, <2>2, <2>3, <2>6
  <2>8. \A k \in Jobs : InQueue(k, lock)' => InQueue(k, lock)
    BY <1>1, <2>2, <2>4, <2>5
  <2>9. ASSUME NEW k \in Jobs \ {j}, InQueue(k, lock)  PROVE InQueue(k, lock)'
    <3>1. PICK i \in 1 .. Len(q) : q[i] = k
      BY <2>4, <2>9
    <3>2. i # 1
      BY <2>1, <2>9, <3>1
    <3>3. i - 1 \in 1 .. Len(Tail(q)) /\ Tail(q)[i - 1] = k
      BY <1>1, <2>2, <3>1, <3>2
    <3> QED  BY <2>5, <3>3
  <2> QED  BY <2>7, <2>8, <2>9
<1> QED  BY <1>2, <1>3

\* The end of a job that was running, was cancelled, or had no message of its
\* session before it.
LEMMA LockEnds ==
    ASSUME TypeOK, LockInv, SchedulerTypeOK', NEW j \in Jobs, NEW outcome \in JobStatus,
           EndJob(j, outcome), outcome \notin {"queued", "running"},
           \/ jobStatus[j] = "running" \/ outcome = "cancelled"
           \/ \A k \in Jobs : SessionOf[k] = SessionOf[j] /\ jobStatus[k] = "queued"
                              => ~(queueSeq[k] < queueSeq[j])
    PROVE  LockInv'
<1>1. UNCHANGED <<queueSeq, nextQueueSeq>> /\ Release(j) /\ UNCHANGED sessionLock
  BY DEF EndJob, Finish
<1>2. \A k \in Jobs : /\ jobStatus'[k] = IF k = j THEN outcome ELSE jobStatus[k]
                      /\ stage'[k] = IF k = j THEN "done" ELSE stage[k]
  BY ChatAssumption DEF EndJob, TypeOK
<1>3. ASSUME NEW lock \in Jobs
      PROVE  /\ Sorted(lock)'
             /\ \A k \in Jobs : InQueue(k, lock)' => InQueue(k, lock)
             /\ \A k \in Jobs \ {j} : InQueue(k, lock) => InQueue(k, lock)'
  BY <1>1, <1>3, ReleaseEffect DEF LockInv
<1>4. \A k, lock \in Jobs : InQueue(k, lock)' => stage'[k] # "none"
  BY <1>2, <1>3 DEF LockInv
<1>5. \A i, k, l \in Jobs : InQueue(i, k)' /\ InQueue(i, l)' => k = l
  BY <1>3 DEF LockInv
<1>6. \A k \in Jobs : jobStatus'[k] \in {"queued", "running"} =>
         sessionLock'[SessionOf[k]] \in Jobs /\ InQueue(k, sessionLock[SessionOf[k]])'
  BY <1>1, <1>2, <1>3 DEF LockInv
<1>7. \A k \in Jobs : stage'[k] \in Attempting => jobStatus'[k] = "running"
  BY <1>2 DEF LockInv, Attempting
<1>8. MessagesInOrder'
  BY <1>1, <1>2 DEF LockInv, MessagesInOrder
<1>9. \A r \in Runs : queueSeq'[r] < nextQueueSeq'
  BY <1>1 DEF LockInv
<1> QED  BY <1>3, <1>4, <1>5, <1>6, <1>7, <1>8, <1>9 DEF LockInv

\* A new message takes the last place in the queue of its session's lock.
LEMMA LockEnqueue ==
    ASSUME TypeOK, RunInv, LockInv, NEW j \in Jobs, EnqueueJob(j)
    PROVE  LockInv'
<1> USE ChatAssumption
<1> DEFINE s == SessionOf[j]
<1>0. PICK lock \in Jobs : lock = IF sessionLock[s] = NoRun THEN j ELSE sessionLock[s]
  BY DEF TypeOK
<1> DEFINE q == lockQueue[lock]
<1>1. /\ j \in Runs /\ s \in Sessions /\ lock \in Jobs
      /\ q \in Seq(Jobs) /\ Len(q) \in Nat /\ \A i \in 1 .. Len(q) : q[i] \in Jobs
  BY DEF TypeOK
<1>2. /\ queueSeq' = [queueSeq EXCEPT ![j] = nextQueueSeq] /\ nextQueueSeq' = nextQueueSeq + 1
      /\ stage[j] = "none"
  BY DEF EnqueueJob, Enqueue
<1>3. /\ lockQueue' = [lockQueue EXCEPT ![lock] = Append(q, j)]
      /\ sessionLock' = [sessionLock EXCEPT ![s] = lock]
  BY <1>0 DEF EnqueueJob
<1>4. \A k \in Jobs : /\ jobStatus'[k] = IF k = j THEN "queued" ELSE jobStatus[k]
                      /\ stage'[k] = IF k = j THEN "queued" ELSE stage[k]
  BY DEF EnqueueJob, TypeOK
<1>5. /\ \A r \in Runs \ {j} : queueSeq'[r] = queueSeq[r]
      /\ queueSeq'[j] = nextQueueSeq
      /\ \A r \in Runs : queueSeq[r] \in Nat /\ queueSeq[r] < nextQueueSeq
      /\ nextQueueSeq \in Nat
  BY <1>1, <1>2 DEF TypeOK, SchedulerTypeOK, LockInv
<1>6. \A l \in Jobs : ~InQueue(j, l)
  BY <1>2 DEF LockInv
<1>7. ASSUME NEW l \in Jobs, l # lock
      PROVE  Sorted(l)' /\ \A k \in Jobs : InQueue(k, l)' <=> InQueue(k, l)
  <2>1. lockQueue'[l] = lockQueue[l]
    BY <1>3, <1>7 DEF TypeOK
  <2>2. \A i \in 1 .. Len(lockQueue[l]) : lockQueue[l][i] \in Jobs \ {j}
    BY <1>6 DEF TypeOK, InQueue
  <2>3. Sorted(l)
    BY DEF LockInv
  <2>4. Sorted(l)'
    BY <1>5, <2>1, <2>2, <2>3 DEF Sorted
  <2> QED  BY <2>1, <2>4 DEF InQueue
<1>8. Sorted(lock)' /\ \A k \in Jobs : InQueue(k, lock)' <=> InQueue(k, lock) \/ k = j
  <2>1. lockQueue'[lock] = Append(q, j)
    BY <1>1, <1>3 DEF TypeOK
  <2>2. /\ Len(Append(q, j)) = Len(q) + 1 /\ Append(q, j)[Len(q) + 1] = j
        /\ \A i \in 1 .. Len(q) : Append(q, j)[i] = q[i]
    BY <1>1
  <2>3. \A i, m \in 1 .. Len(q) : i < m => queueSeq[q[i]] < queueSeq[q[m]]
    BY <1>1 DEF LockInv, Sorted
  <2>4. \A i \in 1 .. Len(q) : q[i] \in Jobs \ {j}
    BY <1>1, <1>6 DEF InQueue
  <2>5. Sorted(lock)' <=> \A i, m \in 1 .. Len(Append(q, j)) :
           i < m => queueSeq'[Append(q, j)[i]] < queueSeq'[Append(q, j)[m]]
    BY <2>1 DEF Sorted
  <2>6. \A k : InQueue(k, lock)' <=> \E i \in 1 .. Len(Append(q, j)) : Append(q, j)[i] = k
    BY <2>1 DEF InQueue
  <2>7. \A k : InQueue(k, lock) <=> \E i \in 1 .. Len(q) : q[i] = k
    BY DEF InQueue
  <2>8. \A i \in 1 .. Len(q) : queueSeq'[q[i]] = queueSeq[q[i]] /\ queueSeq'[q[i]] < queueSeq'[j]
    BY <1>5, <2>4
  <2> HIDE DEF q
  <2>9. Sorted(lock)'
    <3> SUFFICES ASSUME NEW i \in 1 .. Len(Append(q, j)), NEW m \in 1 .. Len(Append(q, j)), i < m
                 PROVE  queueSeq'[Append(q, j)[i]] < queueSeq'[Append(q, j)[m]]
      BY <2>5
    <3>1. i \in 1 .. Len(q)
      BY <1>1, <2>2
    <3>2. CASE m = Len(q) + 1
      BY <2>2, <2>8, <3>1, <3>2
    <3>3. CASE m \in 1 .. Len(q)
      BY <2>2, <2>3, <2>8, <3>1, <3>3
    <3> QED  BY <1>1, <2>2, <3>2, <3>3
  <2>10. \A i \in 1 .. Len(Append(q, j)) : i \in 1 .. Len(q) \/ i = Len(q) + 1
    BY <1>1, <2>2
  <2>11. Len(q) + 1 \in 1 .. Len(Append(q, j)) /\ \A i \in 1 .. Len(q) : i \in 1 .. Len(Append(q, j))
    BY <1>1, <2>2
  <2>12. \A k \in Jobs : InQueue(k, lock)' <=> InQueue(k, lock) \/ k = j
    BY <2>2, <2>6, <2>7, <2>10, <2>11
  <2> QED  BY <2>9, <2>12
<1>9. \A t \in Sessions : sessionLock'[t] = IF t = s THEN lock ELSE sessionLock[t]
  BY <1>1, <1>3 DEF TypeOK
<1> HIDE DEF q
<1>10. \A k \in Jobs : jobStatus'[k] \in {"queued", "running"} =>
         \E l \in Jobs : sessionLock'[SessionOf[k]] = l /\ InQueue(k, l)'
  <2> SUFFICES ASSUME NEW k \in Jobs, jobStatus'[k] \in {"queued", "running"}
               PROVE  \E l \in Jobs : sessionLock'[SessionOf[k]] = l /\ InQueue(k, l)'
    OBVIOUS
  <2>1. CASE k = j
    BY <1>1, <1>8, <1>9, <2>1
  <2>2. CASE k # j
    <3>1. sessionLock[SessionOf[k]] \in Jobs /\ InQueue(k, sessionLock[SessionOf[k]])
      BY <1>4, <2>2 DEF LockInv
    <3>2. sessionLock'[SessionOf[k]] = sessionLock[SessionOf[k]]
      BY <1>0, <1>9, <3>1
    <3> QED  BY <1>7, <1>8, <3>1, <3>2
  <2> QED  BY <2>1, <2>2
<1>11. \A k, l \in Jobs : InQueue(k, l)' => stage'[k] # "none"
  BY <1>4, <1>7, <1>8 DEF LockInv
<1>12. \A i, k, l \in Jobs : InQueue(i, k)' /\ InQueue(i, l)' => k = l
  BY <1>6, <1>7, <1>8 DEF LockInv
<1>13. \A k \in Jobs : stage'[k] \in Attempting => jobStatus'[k] = "running"
  BY <1>4 DEF LockInv, Attempting
<1>14. MessagesInOrder'
  <2>1. \A k \in Jobs : k \in Runs /\ queueSeq[k] \in Nat /\ queueSeq[k] < nextQueueSeq
    BY <1>5
  <2> QED  BY <1>4, <1>5, <2>1 DEF LockInv, MessagesInOrder
<1>15. \A r \in Runs : queueSeq'[r] < nextQueueSeq'
  BY <1>2, <1>5
<1>16. \A k \in Jobs : jobStatus'[k] \in {"queued", "running"} =>
          sessionLock'[SessionOf[k]] \in Jobs /\ InQueue(k, sessionLock[SessionOf[k]])'
  BY <1>10 DEF InQueue
<1> QED  BY <1>7, <1>8, <1>11, <1>12, <1>13, <1>14, <1>15, <1>16 DEF LockInv

\* A message cancelled in the queue: the lock is forgotten only when no other
\* job of the session needs it.
LEMMA LockCancel ==
    ASSUME TypeOK, LockInv, NEW j \in Jobs, CancelJob(j), RunInv
    PROVE  LockInv'
<1> USE ChatAssumption
<1>1. UNCHANGED <<queueSeq, nextQueueSeq, lockQueue, stage>>
  BY DEF CancelJob, Finish, handlerVars
<1>2. \A k \in Jobs : jobStatus'[k] = IF k = j THEN "cancelled" ELSE jobStatus[k]
  BY DEF CancelJob, TypeOK
<1>3. \A k \in Jobs \ {j} : jobStatus[k] \in {"queued", "running"} =>
         sessionLock'[SessionOf[k]] = sessionLock[SessionOf[k]]
  <2> SUFFICES ASSUME NEW k \in Jobs \ {j}, jobStatus[k] \in {"queued", "running"}
               PROVE  sessionLock'[SessionOf[k]] = sessionLock[SessionOf[k]]
    OBVIOUS
  <2>1. CASE SessionOf[k] = SessionOf[j]
    <3>1. k \in JobsOf(SessionOf[j], {"queued", "running"})
      BY <2>1 DEF JobsOf
    <3> QED  BY <3>1 DEF CancelJob
  <2>2. CASE SessionOf[k] # SessionOf[j]
    BY <2>2 DEF CancelJob, TypeOK
  <2> QED  BY <2>1, <2>2
<1>4. \A k, l \in Jobs : InQueue(k, l)' <=> InQueue(k, l)
  BY <1>1 DEF InQueue
<1>5. \A k \in Jobs : jobStatus'[k] \in {"queued", "running"} =>
         sessionLock'[SessionOf[k]] \in Jobs /\ InQueue(k, sessionLock[SessionOf[k]])'
  <2> SUFFICES ASSUME NEW k \in Jobs, jobStatus'[k] \in {"queued", "running"}
               PROVE  sessionLock'[SessionOf[k]] \in Jobs /\ InQueue(k, sessionLock[SessionOf[k]])'
    OBVIOUS
  <2>1. sessionLock[SessionOf[k]] \in Jobs /\ InQueue(k, sessionLock[SessionOf[k]])
    BY <1>2 DEF LockInv
  <2>2. sessionLock'[SessionOf[k]] = sessionLock[SessionOf[k]]
    BY <1>2, <1>3
  <2> QED  BY <1>1, <2>1, <2>2 DEF InQueue
<1>6. \A l \in Jobs : Sorted(l)'
  BY <1>1 DEF LockInv, Sorted
<1>7. \A k \in Jobs : stage'[k] \in Attempting => jobStatus'[k] = "running"
  BY <1>1, <1>2 DEF LockInv, RunInv, CallOf, Attempting, CancelJob
<1>8. MessagesInOrder'
  BY <1>1, <1>2 DEF LockInv, MessagesInOrder
<1>9. \A k, l \in Jobs : InQueue(k, l)' => stage'[k] # "none"
  BY <1>1, <1>4 DEF LockInv
<1>10. \A i, k, l \in Jobs : InQueue(i, k)' /\ InQueue(i, l)' => k = l
  BY <1>4 DEF LockInv
<1>11. \A r \in Runs : queueSeq'[r] < nextQueueSeq'
  BY <1>1 DEF LockInv
<1> QED  BY <1>5, <1>6, <1>7, <1>8, <1>9, <1>10, <1>11 DEF LockInv

\* The job at the head of its lock has no message of its session before it.
LEMMA HeadComesFirst ==
    ASSUME TypeOK, LockInv, NEW j \in Jobs, HoldsLock(j), jobStatus[j] = "queued"
    PROVE  \A k \in Jobs : SessionOf[k] = SessionOf[j] /\ jobStatus[k] = "queued"
                           => ~(queueSeq[k] < queueSeq[j])
<1> SUFFICES ASSUME NEW k \in Jobs, SessionOf[k] = SessionOf[j], jobStatus[k] = "queued"
             PROVE  ~(queueSeq[k] < queueSeq[j])
  OBVIOUS
<1> USE ChatAssumption
<1> DEFINE lock == sessionLock[SessionOf[j]]
           q == lockQueue[lock]
<1>1. lock \in Jobs /\ InQueue(j, lock) /\ InQueue(k, lock)
  BY DEF LockInv
<1>2. q \in Seq(Jobs)
  BY <1>1 DEF TypeOK
<1>3. PICK l \in Jobs : Holds(j, l)
  BY DEF HoldsLock
<1>4. InQueue(j, l)
  <2>1. lockQueue[l] \in Seq(Jobs) /\ lockQueue[l] # << >> /\ Head(lockQueue[l]) = j
    BY <1>3 DEF Holds, TypeOK
  <2>2. 1 \in 1 .. Len(lockQueue[l]) /\ lockQueue[l][1] = j
    BY <2>1
  <2> QED  BY <2>2 DEF InQueue
<1>5. l = lock
  BY <1>1, <1>4 DEF LockInv
<1>6. q # << >> /\ q[1] = j /\ 1 \in 1 .. Len(q)
  BY <1>2, <1>3, <1>5 DEF Holds
<1>7. PICK i \in 1 .. Len(q) : q[i] = k
  BY <1>1 DEF InQueue
<1>8. \A a, b \in 1 .. Len(q) : a < b => queueSeq[q[a]] < queueSeq[q[b]]
  BY <1>1 DEF LockInv, Sorted
<1>9. queueSeq[k] \in Nat /\ queueSeq[j] \in Nat
  BY DEF TypeOK, SchedulerTypeOK
<1> HIDE DEF q
<1>10. CASE i = 1
  BY <1>6, <1>7, <1>9, <1>10
<1>11. CASE i # 1
  <2>1. 1 < i
    BY <1>11
  <2>2. queueSeq[j] < queueSeq[k]
    BY <1>6, <1>7, <1>8, <2>1
  <2> QED  BY <1>9, <2>2
<1> QED  BY <1>10, <1>11

\* Every step keeps the order of the queues.
LEMMA LockStep == TypeOK /\ TypeOK' /\ RunInv /\ LockInv /\ [Next]_vars => LockInv'
<1> SUFFICES ASSUME TypeOK, TypeOK', RunInv, LockInv, [Next]_vars  PROVE LockInv'
  OBVIOUS
<1> USE ChatAssumption DEF schedulerVars, sessionVars, queueVars, handlerVars
<1>0. SchedulerTypeOK /\ SchedulerTypeOK' /\ \A r \in Runs : queueSeq[r] < nextQueueSeq
  BY DEF TypeOK, LockInv
<1>1. ASSUME UNCHANGED <<lockQueue, sessionLock, jobStatus, queueSeq, nextQueueSeq>>,
             \A j \in Jobs : stage'[j] = stage[j] \/ {stage[j], stage'[j]} \subseteq Attempting
      PROVE  LockInv'
  BY <1>0, <1>1, LockQuiet
<1>2. CASE UNCHANGED vars
  BY <1>1, <1>2 DEF vars
<1>3. ASSUME NEW j \in Jobs, EnqueueJob(j) \/ CancelJob(j)  PROVE LockInv'
  BY <1>3, LockEnqueue, LockCancel
<1>4. ASSUME NEW r \in Resumes, ResumeBegins(r) \/ ResumeRejected(r) \/ ResumeStep(r)
      PROVE  LockInv'
  <2>1. r \in Runs /\ r \notin Jobs
    BY DEF Resumes
  <2>2. /\ UNCHANGED <<lockQueue, sessionLock, jobStatus>>
        /\ \E next : stage' = [stage EXCEPT ![r] = next]
    BY <1>4 DEF ResumeBegins, ResumeRejected, ResumeStep, ResumeProceeds, ResumeEnds
  <2>3. \A j \in Jobs : stage'[j] = stage[j]
    BY <2>1, <2>2 DEF TypeOK
  <2>4. \/ UNCHANGED <<queueSeq, nextQueueSeq>>
        \/ queueSeq' = [queueSeq EXCEPT ![r] = nextQueueSeq] /\ nextQueueSeq' = nextQueueSeq + 1
    BY <1>4 DEF ResumeBegins, ResumeRejected, ResumeStep, ResumeProceeds, ResumeEnds, Enqueue, Finish
  <2>5. \A j \in Jobs : queueSeq'[j] = queueSeq[j]
    BY <2>1, <2>4 DEF TypeOK, SchedulerTypeOK
  <2>6. \A q \in Runs : queueSeq'[q] < nextQueueSeq'
    BY <1>0, <2>1, <2>4 DEF SchedulerTypeOK
  <2> QED  BY <1>0, <2>2, <2>3, <2>5, <2>6, LockQuiet
<1>5. ASSUME NEW s \in Sessions, Pause(s) \/ Interrupt(s) \/ Cancel(s)  PROVE LockInv'
  <2>1. CASE Pause(s)
    BY <1>1, <2>1 DEF Pause
  <2>2. CASE Interrupt(s) \/ Cancel(s)
    <3>1. Abort(jobId[s]) /\ UNCHANGED <<jobStatus, sessionLock, lockQueue>>
      BY <2>2 DEF Interrupt, Cancel
    <3>2. UNCHANGED <<queueSeq, nextQueueSeq>>
      BY <3>1 DEF Abort, Finish
    <3>3. \A j \in Jobs : stage'[j] = stage[j]
      <4>1. \/ stage' = stage
            \/ stage[jobId[s]] = "waiting" /\ stage' = [stage EXCEPT ![jobId[s]] = "failed"]
        BY <3>1 DEF Abort
      <4>2. \A j \in Jobs : stage[j] # "waiting"
        BY DEF RunInv, CallOf
      <4> QED  BY <4>1, <4>2 DEF TypeOK
    <3> QED  BY <1>1, <3>1, <3>2, <3>3
  <2> QED  BY <1>5, <2>1, <2>2
<1>6. CASE Restart
  <2>1. /\ UNCHANGED <<queueSeq, nextQueueSeq>>
        /\ lockQueue' = [j \in Jobs |-> << >>] /\ jobStatus' = [j \in Jobs |-> "none"]
        /\ \A j \in Jobs : stage'[j] \in {"none", "done"}
    BY <1>6 DEF Restart, CancelAll
  <2>2. \A k, l \in Jobs : ~InQueue(k, l)' /\ Sorted(l)'
    BY <2>1 DEF InQueue, Sorted
  <2> QED  BY <1>0, <2>1, <2>2 DEF LockInv, MessagesInOrder, Attempting
<1>7. ASSUME NEW r \in Runs, Execution(r)  PROVE LockInv'
  <2>1. /\ UNCHANGED <<queueSeq, nextQueueSeq, lockQueue, sessionLock, jobStatus>>
        /\ \E next \in {"returned", "failed", "refused"} : stage' = [stage EXCEPT ![r] = next]
        /\ stage[r] \in {"executing", "returned"}
    BY <1>7 DEF Execution, ExecuteReturns, ExecuteThrows, DisposeThrows
  <2>2. \A j \in Jobs : stage'[j] = stage[j] \/ {stage[j], stage'[j]} \subseteq Attempting
    BY <2>1 DEF TypeOK, Attempting
  <2> QED  BY <1>1, <2>1, <2>2
<1>8. ASSUME NEW j \in Jobs, JobStep(j)  PROVE LockInv'
  <2>0. j \in Runs
    OBVIOUS
  <2>1. CASE JobSkipped(j)
    BY <1>0, <2>1, LockEnds DEF JobSkipped, JobStatus
  <2>2. CASE JobBegins(j)
    <3>1. HoldsLock(j) /\ stage[j] = "queued" /\ jobStatus[j] = "queued"
      BY <2>2 DEF JobBegins
    <3>2. \A k \in Jobs : SessionOf[k] = SessionOf[j] /\ jobStatus[k] = "queued"
                          => ~(queueSeq[k] < queueSeq[j])
      BY <3>1, HeadComesFirst
    <3>3. CASE status[SessionOf[j]] # "running"
      <4>1. /\ UNCHANGED <<queueSeq, nextQueueSeq, lockQueue, sessionLock>>
            /\ jobStatus' = [jobStatus EXCEPT ![j] = "running"]
            /\ stage' = [stage EXCEPT ![j] = "deciding"]
        BY <2>2, <3>3 DEF JobBegins
      <4>2. \A k \in Jobs : /\ jobStatus'[k] = IF k = j THEN "running" ELSE jobStatus[k]
                            /\ stage'[k] = IF k = j THEN "deciding" ELSE stage[k]
        BY <4>1 DEF TypeOK
      <4>3. \A k, l \in Jobs : InQueue(k, l)' <=> InQueue(k, l)
        BY <4>1 DEF InQueue
      <4>4. \A l \in Jobs : Sorted(l)'
        BY <4>1 DEF Sorted, LockInv
      <4>5. \A k, l \in Jobs : InQueue(k, l)' => stage'[k] # "none"
        BY <4>2, <4>3 DEF LockInv
      <4>6. \A k \in Jobs : jobStatus'[k] \in {"queued", "running"} =>
               sessionLock'[SessionOf[k]] \in Jobs /\ InQueue(k, sessionLock[SessionOf[k]])'
        BY <3>1, <4>1, <4>2, <4>3 DEF LockInv
      <4>7. \A k \in Jobs : stage'[k] \in Attempting => jobStatus'[k] = "running"
        BY <4>2 DEF LockInv
      <4>8. MessagesInOrder'
        BY <3>2, <4>1, <4>2 DEF LockInv, MessagesInOrder
      <4>9. \A i, k, l \in Jobs : InQueue(i, k)' /\ InQueue(i, l)' => k = l
        BY <4>3 DEF LockInv
      <4> QED  BY <1>0, <4>1, <4>4, <4>5, <4>6, <4>7, <4>8, <4>9 DEF LockInv
    <3>4. CASE status[SessionOf[j]] = "running"
      BY <1>0, <2>2, <3>2, <3>4, LockEnds DEF JobBegins, JobStatus
    <3> QED  BY <3>3, <3>4
  <2>3. ASSUME stage[j] \in Attempting, NEW outcome \in {"completed", "failed"}, EndJob(j, outcome)
        PROVE  LockInv'
    <3>1. jobStatus[j] = "running"
      BY <2>3 DEF LockInv
    <3> QED  BY <1>0, <2>3, <3>1, LockEnds DEF JobStatus
  <2>4. CASE JobAttempts(j)
    <3>1. /\ UNCHANGED <<queueSeq, nextQueueSeq, lockQueue, sessionLock, jobStatus>>
          /\ \E next \in {"executing", "busy"} : stage' = [stage EXCEPT ![j] = next]
          /\ stage[j] = "deciding"
      BY <2>4 DEF JobAttempts
    <3>2. \A k \in Jobs : stage'[k] = stage[k] \/ {stage[k], stage'[k]} \subseteq Attempting
      BY <3>1 DEF TypeOK, Attempting
    <3> QED  BY <1>1, <3>1, <3>2
  <2>5. CASE JobFails(j)
    <3>1. CASE attempts[j] + 1 < MaxRetries
      <4>1. /\ UNCHANGED <<queueSeq, nextQueueSeq, lockQueue, sessionLock, jobStatus>>
            /\ stage' = [stage EXCEPT ![j] = "deciding"] /\ stage[j] \in {"failed", "busy"}
        BY <2>5, <3>1 DEF JobFails
      <4>2. \A k \in Jobs : stage'[k] = stage[k] \/ {stage[k], stage'[k]} \subseteq Attempting
        BY <4>1 DEF TypeOK, Attempting
      <4> QED  BY <1>1, <4>1, <4>2
    <3>2. CASE ~(attempts[j] + 1 < MaxRetries)
      BY <2>3, <2>5, <3>2 DEF JobFails, Attempting
    <3> QED  BY <3>1, <3>2
  <2>6. CASE JobReturns(j) \/ JobRefused(j) \/ JobFailsLate(j) \/ JobGivesUp(j)
    BY <2>3, <2>6 DEF JobReturns, JobRefused, JobFailsLate, JobGivesUp, Attempting
  <2> QED  BY <1>8, <2>1, <2>2, <2>4, <2>5, <2>6 DEF JobStep
<1> QED  BY <1>2, <1>3, <1>4, <1>5, <1>6, <1>7, <1>8 DEF Next, Request, RunStep

\* The messages of a session begin in the order they were accepted, also when
\* cancellations make the queue forget the lock of the session.
THEOREM MessagesOrdered == Spec => []MessagesInOrder
<1>1. Init => LockInv
  <2> SUFFICES ASSUME Init  PROVE LockInv
    OBVIOUS
  <2>1. \A k, l \in Jobs : ~InQueue(k, l) /\ Sorted(l)
    BY DEF Init, InQueue, Sorted
  <2>2. \A r \in Runs : queueSeq[r] < nextQueueSeq
    BY DEF Init, SchedulerInit
  <2> QED  BY <2>1, <2>2, ChatAssumption DEF Init, LockInv, MessagesInOrder, Attempting
<1>2. ChatInv => TypeOK /\ RunInv
  BY DEF ChatInv, TypeInv
<1>3. LockInv => MessagesInOrder
  BY DEF LockInv
<1> QED  BY <1>1, <1>2, <1>3, LockStep, ChatInvariant, PTL DEF Spec

=============================================================================
