--------------------------- MODULE EventLogsProofs ----------------------------
(***************************************************************************)
(* Proofs about the three ways in which events travel.                      *)
(*                                                                         *)
(* SessionLog: a session at rest has been projected, whatever crashes and   *)
(* deletions came before, and one that is deleted leaves nothing, for any   *)
(* bounds.  What the projection puts into the public log is computed by a   *)
(* fold; nothing here depends on it, and the types of the log itself stay   *)
(* with TLC.                                                                *)
(*                                                                         *)
(* SnapshotFeed: a view is the log up to some number, which only grows:     *)
(* the stream implements LogReader, for any bounds, when its snapshots are  *)
(* read in one step and replay the whole log.                               *)
(*                                                                         *)
(* ActivityIngestion: what is ingested is the activity of the task up to    *)
(* some number, which only grows: the ingestion implements LogReader, for   *)
(* any bounds, when a page that is not full is the end of the log.          *)
(***************************************************************************)
EXTENDS SessionLog, SnapshotFeed, ActivityIngestion, WellFoundedInduction, FiniteSetTheorems, TLAPS

\* The types the proof needs; log and counter are left out.
RestTypeOK ==
    /\ row \in BOOLEAN /\ tombstone \in BOOLEAN /\ resuming \in BOOLEAN
    /\ run \in RunStep /\ phase \in JobPhase /\ saga \in SagaStep /\ up \in Process
    /\ memory \in Nat /\ durable \in Nat /\ cursor \in Nat
    /\ budget \in [{"hub", "messages", "resumes", "crashes", "failures"} -> Nat]
    /\ budget.failures <= MaxFailures

\* A session that is there and whose runs and deletions never failed.
Quiet == ~tombstone /\ budget.failures = MaxFailures

\* Only a run that writes or has yet to project leaves the log ahead of the
\* projection, from the recovery of a boot to the death of the process.
LogInv ==
    /\ RestTypeOK
    /\ (phase # "none") = tombstone
    /\ ~tombstone => row /\ saga = "idle" /\ cursor <= durable
    /\ run # "none" \/ resuming => up = "up"
    /\ run = "writing" => durable <= memory
    /\ Quiet /\ up \in {"resuming", "up"} /\ run \notin {"writing", "flushed"} => cursor = durable

LEMMA SpendLess ==
    ASSUME RestTypeOK, NEW what \in {"hub", "messages", "resumes", "crashes", "failures"}, Spend(what)
    PROVE  /\ budget' \in [{"hub", "messages", "resumes", "crashes", "failures"} -> Nat]
           /\ budget'.failures <= budget.failures
           /\ what = "failures" => budget'.failures < budget.failures
           /\ what # "failures" => budget'.failures = budget.failures
  BY DEF RestTypeOK, Spend

\* The steps of the runs.
LEMMA RunNextKeeps ==
    ASSUME LogInv, RunNext
    PROVE  LogInv'
<1> USE SessionLogAssumption DEF LogInv, sessionVars, runVars, logVars, jobVars
<1>1. CASE ClaimMessage
  <2>1. budget' \in [{"hub", "messages", "resumes", "crashes", "failures"} -> Nat]
        /\ budget'.failures = budget.failures
    BY <1>1, SpendLess DEF ClaimMessage
  <2> QED  BY <1>1, <2>1 DEF ClaimMessage, RestTypeOK, RunStep, Quiet
<1>2. CASE EnterHandler
  BY <1>2 DEF EnterHandler, RestTypeOK, RunStep, Quiet
<1>3. CASE RequestResume
  <2>1. budget' \in [{"hub", "messages", "resumes", "crashes", "failures"} -> Nat]
        /\ budget'.failures = budget.failures
    BY <1>3, SpendLess DEF RequestResume
  <2> QED  BY <1>3, <2>1 DEF RequestResume, RestTypeOK, Quiet
<1>4. CASE StartResume
  BY <1>4 DEF StartResume, RestTypeOK, RunStep, Quiet
<1>5. CASE OpenSession
  BY <1>5 DEF OpenSession, RestTypeOK, RunStep, Quiet
<1>6. CASE WriteHarnessEvent \/ PersistEvent \/ FlushRun
  BY <1>6 DEF WriteHarnessEvent, PersistEvent, FlushRun, RestTypeOK, RunStep, Quiet
<1>7. CASE ProjectRun
  BY <1>7 DEF ProjectRun, CatchUp, RestTypeOK, RunStep, Quiet
<1>8. CASE RunFails
  <2>1. budget' \in [{"hub", "messages", "resumes", "crashes", "failures"} -> Nat]
        /\ budget'.failures < budget.failures
    BY <1>8, SpendLess DEF RunFails
  <2>2. budget'.failures < MaxFailures /\ budget'.failures \in Nat
    BY <2>1 DEF RestTypeOK
  <2> QED  BY <1>8, <2>1, <2>2 DEF RunFails, RestTypeOK, RunStep, Quiet
<1>9. CASE EndRun
  BY <1>9 DEF EndRun, RestTypeOK, RunStep, Quiet
<1> QED  BY <1>1, <1>2, <1>3, <1>4, <1>5, <1>6, <1>7, <1>8, <1>9 DEF RunNext

\* The steps of the deletion, which concern a session that is not there any more.
LEMMA SagaNextKeeps ==
    ASSUME LogInv, SagaNext
    PROVE  LogInv'
<1> USE SessionLogAssumption DEF LogInv, sessionVars, runVars, logVars, jobVars
<1>1. CASE DeleteSession
  <2>1. /\ budget' \in [{"hub", "messages", "resumes", "crashes", "failures"} -> Nat]
        /\ budget'.failures <= MaxFailures
    <3>1. CASE UNCHANGED budget
      BY <3>1 DEF RestTypeOK
    <3>2. CASE Spend("failures")
      <4>1. budget'.failures <= budget.failures /\ budget.failures <= MaxFailures
            /\ budget' \in [{"hub", "messages", "resumes", "crashes", "failures"} -> Nat]
        BY <3>2, SpendLess DEF RestTypeOK
      <4> QED  BY <4>1 DEF RestTypeOK
    <3> QED  BY <1>1, <3>1, <3>2 DEF DeleteSession
  <2> QED  BY <1>1, <2>1 DEF DeleteSession, RestTypeOK, SagaStep, JobPhase, Quiet
<1>2. CASE Drain \/ Drained \/ Stopped \/ Flushed \/ Purged
  BY <1>2 DEF Drain, Drained, Stopped, Flushed, Purged, Active, RestTypeOK, SagaStep, JobPhase, Quiet
<1>3. CASE CatchUpDurable
  BY <1>3 DEF CatchUpDurable, CatchUp, RestTypeOK, SagaStep, Quiet
<1>4. CASE Purge
  BY <1>4 DEF Purge, SagaEnds, RestTypeOK, SagaStep, Process, Quiet
<1>5. CASE Finish
  BY <1>5 DEF Finish, RestTypeOK, SagaStep, JobPhase, Quiet
<1>6. CASE SagaFails
  <2>1. /\ budget' \in [{"hub", "messages", "resumes", "crashes", "failures"} -> Nat]
        /\ budget'.failures < budget.failures
    BY <1>6, SpendLess DEF SagaFails
  <2>2. budget'.failures < MaxFailures /\ budget'.failures \in Nat
    BY <2>1 DEF RestTypeOK
  <2> QED  BY <1>6, <2>1, <2>2 DEF SagaFails, SagaEnds, RestTypeOK, SagaStep, Process, Quiet
<1> QED  BY <1>1, <1>2, <1>3, <1>4, <1>5, <1>6 DEF SagaNext

\* The queue's own events, and the process.
LEMMA ProcessNextKeeps ==
    ASSUME LogInv, ProcessNext
    PROVE  LogInv'
<1> USE SessionLogAssumption DEF LogInv, sessionVars, runVars, logVars, jobVars
<1>1. CASE HubAppend
  <2>1. budget' \in [{"hub", "messages", "resumes", "crashes", "failures"} -> Nat]
        /\ budget'.failures = budget.failures
    BY <1>1, SpendLess DEF HubAppend
  <2> QED  BY <1>1, <2>1 DEF HubAppend, RestTypeOK, Quiet
<1>2. CASE Crash
  <2>1. budget' \in [{"hub", "messages", "resumes", "crashes", "failures"} -> Nat]
        /\ budget'.failures = budget.failures
    BY <1>2, SpendLess DEF Crash
  <2> QED  BY <1>2, <2>1 DEF Crash, RestTypeOK, RunStep, SagaStep, Process, Quiet
<1>3. CASE Boot \/ Booted
  BY <1>3 DEF Boot, Booted, RestTypeOK, Process, Quiet
<1>4. CASE Recover
  <2>1. ~tombstone => saga' = "idle" /\ cursor' = durable
    BY <1>4 DEF Recover, CatchUp, Required, Unfinished, RestTypeOK
  <2>2. cursor' \in {cursor, durable} /\ saga' \in {"at", "idle"} /\ up' = "resuming"
    BY <1>4 DEF Recover, CatchUp
  <2>3. UNCHANGED <<row, tombstone, status, run, aborted, resuming, memory, durable, phase, budget>>
    BY <1>4 DEF Recover
  <2>4. cursor' \in Nat /\ saga' \in SagaStep /\ up' \in Process
    BY <2>2 DEF RestTypeOK, SagaStep, Process
  <2>5. RestTypeOK'
    BY <2>3, <2>4 DEF RestTypeOK
  <2>6. run' = "none" /\ ~resuming'
    BY <1>4, <2>3 DEF Recover
  <2> QED  BY <2>1, <2>2, <2>3, <2>5, <2>6 DEF RestTypeOK, Quiet
<1> QED  BY <1>1, <1>2, <1>3, <1>4 DEF ProcessNext

LEMMA LogInvariant == SessionLogSpec => []LogInv
<1>1. SessionLogInit => LogInv
  <2> SUFFICES ASSUME SessionLogInit  PROVE LogInv
    OBVIOUS
  <2>1. budget = [hub |-> MaxHubEvents, messages |-> MaxMessages, resumes |-> MaxResumes,
                  crashes |-> MaxCrashes, failures |-> MaxFailures]
    BY DEF SessionLogInit
  <2>2. budget \in [{"hub", "messages", "resumes", "crashes", "failures"} -> Nat]
    BY <2>1, SessionLogAssumption
  <2>3. budget.failures = MaxFailures /\ budget.failures <= MaxFailures
    BY <2>1, SessionLogAssumption
  <2>4. /\ row = TRUE /\ tombstone = FALSE /\ run = "none" /\ resuming = FALSE
        /\ memory = 0 /\ durable = 0 /\ cursor = 0 /\ phase = "none" /\ saga = "idle" /\ up = "up"
    BY DEF SessionLogInit
  <2>5. RestTypeOK
    BY <2>2, <2>3, <2>4 DEF RestTypeOK, RunStep, JobPhase, SagaStep, Process
  <2>6. (phase # "none") = tombstone
    BY <2>4
  <2>7. durable <= memory /\ cursor <= durable
    BY <2>4
  <2> QED  BY <2>4, <2>5, <2>6, <2>7 DEF LogInv, Quiet
<1>2. LogInv /\ [SessionLogNext]_sessionLogVars => LogInv'
  <2> SUFFICES ASSUME LogInv, [SessionLogNext]_sessionLogVars  PROVE LogInv'
    OBVIOUS
  <2>1. CASE UNCHANGED sessionLogVars
    BY <2>1 DEF sessionLogVars, LogInv, RestTypeOK, Quiet
  <2> QED  BY <2>1, RunNextKeeps, SagaNextKeeps, ProcessNextKeeps DEF SessionLogNext
<1> QED  BY <1>1, <1>2, PTL DEF SessionLogSpec

\* A session at rest has been projected to the end of its harness log.
THEOREM RestProjected == SessionLogSpec => []RestIsProjected
<1>1. LogInv => RestIsProjected
  BY DEF LogInv, Quiet, RestIsProjected
<1> QED  BY <1>1, LogInvariant, PTL

-----------------------------------------------------------------------------
\* The runs of the session were awaited by its deletion.
Late == phase \in {"stopped", "flushed", "purged", "completed"} \/ saga = "drained"

\* Where the deletion is in this process agrees with its job.
SagaAgrees ==
    /\ saga \in {"draining", "drained"} => phase = "tombstoned"
    /\ saga = "projected" => phase = "stopped"
    /\ saga = "removed" => phase = "flushed"
    /\ (phase = "completed") = ~row
    /\ phase = "completed" => saga = "idle"

\* From then on no run can begin a harness log, only one that is there is
\* written; what was projected as empty stays empty, and so does what was purged.
PurgeInv ==
    /\ SagaAgrees
    /\ Late => run # "opening"
    /\ Late /\ durable = 0 => run \notin {"writing", "flushed"}
    /\ saga = "projected" /\ cursor = 0 => durable = 0
    /\ phase \in {"flushed", "purged", "completed"} /\ expected = 0 => durable = 0
    /\ phase \in {"purged", "completed"} \/ saga = "removed" => durable = 0

LEMMA RunKeepsPurged ==
    ASSUME LogInv, PurgeInv, RunNext
    PROVE  PurgeInv'
<1> USE DEF LogInv, PurgeInv, SagaAgrees, Late, sessionVars, runVars, logVars, jobVars
<1>1. CASE ClaimMessage \/ EnterHandler \/ RequestResume \/ StartResume \/ RunFails \/ EndRun
  <2>1. UNCHANGED <<row, phase, expected, saga, durable, cursor>>
    BY <1>1 DEF ClaimMessage, EnterHandler, RequestResume, StartResume, RunFails, EndRun
  <2>2. run' \in {run, "none", "claimed", "reopening", "ending"} \/ (run' = "opening" /\ ~tombstone)
    BY <1>1 DEF ClaimMessage, EnterHandler, RequestResume, StartResume, RunFails, EndRun, Required
  <2> QED  BY <2>1, <2>2
<1>2. CASE OpenSession
  BY <1>2 DEF OpenSession
<1>3. CASE WriteHarnessEvent \/ PersistEvent \/ FlushRun
  BY <1>3 DEF WriteHarnessEvent, PersistEvent, FlushRun, RestTypeOK
<1>4. CASE ProjectRun
  <2>1. tombstone => cursor' = cursor
    BY <1>4 DEF ProjectRun
  <2>2. saga # "idle" \/ phase # "none" => tombstone
    OBVIOUS
  <2>3. UNCHANGED <<row, phase, expected, saga, durable>> /\ run' = "ending"
    BY <1>4 DEF ProjectRun
  <2> QED  BY <2>1, <2>2, <2>3
<1> QED  BY <1>1, <1>2, <1>3, <1>4 DEF RunNext

LEMMA SagaKeepsPurged ==
    ASSUME LogInv, PurgeInv, SagaNext
    PROVE  PurgeInv'
<1> USE DEF LogInv, PurgeInv, SagaAgrees, Late, sessionVars, runVars, logVars, jobVars
<1>1. CASE DeleteSession \/ SagaFails
  BY <1>1 DEF DeleteSession, SagaFails, SagaEnds
<1>2. CASE Drain \/ Drained
  BY <1>2 DEF Drain, Drained, Active
<1>3. CASE Stopped \/ Purged \/ Finish
  BY <1>3 DEF Stopped, Purged, Finish
<1>4. CASE CatchUpDurable
  BY <1>4 DEF CatchUpDurable, CatchUp
<1>5. CASE Flushed
  BY <1>5 DEF Flushed
<1>6. CASE Purge
  BY <1>6 DEF Purge, PurgeRefused, SagaEnds
<1> QED  BY <1>1, <1>2, <1>3, <1>4, <1>5, <1>6 DEF SagaNext

LEMMA ProcessKeepsPurged ==
    ASSUME LogInv, PurgeInv, ProcessNext
    PROVE  PurgeInv'
<1> USE DEF LogInv, PurgeInv, SagaAgrees, Late, sessionVars, runVars, logVars, jobVars
<1>1. CASE HubAppend
  BY <1>1 DEF HubAppend
<1>2. CASE Crash
  BY <1>2 DEF Crash
<1>3. CASE Boot \/ Booted
  BY <1>3 DEF Boot, Booted
<1>4. CASE Recover
  BY <1>4 DEF Recover, CatchUp, Unfinished
<1> QED  BY <1>1, <1>2, <1>3, <1>4 DEF ProcessNext

\* A session that is gone left nothing in the harness's store.
THEOREM DeletionLeavesNothing == SessionLogSpec => []NothingOrphaned
<1>1. SessionLogInit => PurgeInv
  BY DEF SessionLogInit, PurgeInv, SagaAgrees, Late
<1>2. LogInv /\ PurgeInv /\ [SessionLogNext]_sessionLogVars => PurgeInv'
  <2> SUFFICES ASSUME LogInv, PurgeInv, [SessionLogNext]_sessionLogVars  PROVE PurgeInv'
    OBVIOUS
  <2>1. CASE UNCHANGED sessionLogVars
    BY <2>1 DEF sessionLogVars, PurgeInv, SagaAgrees, Late
  <2> QED  BY <2>1, RunKeepsPurged, SagaKeepsPurged, ProcessKeepsPurged DEF SessionLogNext
<1>3. PurgeInv => NothingOrphaned
  BY DEF PurgeInv, SagaAgrees, NothingOrphaned
<1> QED  BY <1>1, <1>2, <1>3, LogInvariant, PTL DEF SessionLogSpec

-----------------------------------------------------------------------------
(***************************************************************************)
(* Folds.  What FoldLeft computes is a function on the sets of positions,   *)
(* which exists when the operation stays in a set; along the prefixes of    *)
(* the sequence it applies the operation once for each element.             *)
(***************************************************************************)
LEMMA LeastOf ==
    ASSUME NEW S \in SUBSET Nat, S # {}
    PROVE  \E x \in S : \A y \in S : x <= y
<1> DEFINE R == OpToRel(<, Nat)
<1>1. IsWellFoundedOn(R, Nat)
  BY NatLessThanWellFounded
<1>2. \A x, y \in Nat : <<x, y>> \in R <=> x < y
  BY DEF OpToRel
<1> HIDE DEF R
<1>3. PICK x \in S : \A y \in S : ~ (<<y, x>> \in R)
  BY <1>1, WFMin
<1>4. \A y \in S : x <= y
  <2> SUFFICES ASSUME NEW y \in S PROVE x <= y
    OBVIOUS
  <2>1. x \in Nat /\ y \in Nat /\ ~(y < x)
    BY <1>2, <1>3
  <2> QED  BY <2>1
<1> QED  BY <1>4

LEMMA StepByStep ==
    ASSUME NEW n \in Nat, NEW S, 0 \in S, \A k \in 1 .. n : k - 1 \in S => k \in S
    PROVE  \A k \in 0 .. n : k \in S
<1> SUFFICES ASSUME NEW m \in 0 .. n, m \notin S PROVE FALSE
  OBVIOUS
<1> DEFINE T == {k \in 0 .. n : k \notin S}
<1>1. PICK x \in T : \A y \in T : x <= y
  <2>1. T \in SUBSET Nat /\ T # {}
    OBVIOUS
  <2> HIDE DEF T
  <2> QED  BY <2>1, LeastOf
<1>2. x \in 0 .. n /\ x \notin S /\ x # 0
  BY <1>1
<1>3. x - 1 \in 0 .. n /\ x \in 1 .. n
  BY <1>2
<1>4. x - 1 \in S
  BY <1>1, <1>3
<1> QED  BY <1>2, <1>3, <1>4

LEMMA MaxOf ==
    ASSUME NEW n \in Nat, NEW s \in SUBSET (1 .. n), s # {}
    PROVE  /\ Max(s) \in s /\ \A y \in s : y <= Max(s)
           /\ n \in s => Max(s) = n
<1> DEFINE T == {n - x : x \in s}
<1>1. PICK t \in T : \A y \in T : t <= y
  <2>1. T \in SUBSET Nat /\ T # {}
    OBVIOUS
  <2> HIDE DEF T
  <2> QED  BY <2>1, LeastOf
<1>2. PICK x \in s : t = n - x
  BY <1>1
<1>3. \A y \in s : x >= y
  <2> SUFFICES ASSUME NEW y \in s PROVE x >= y
    OBVIOUS
  <2>1. n - y \in T
    OBVIOUS
  <2>2. n - x <= n - y
    BY <1>1, <1>2, <2>1
  <2>3. x \in Nat /\ y \in Nat
    OBVIOUS
  <2> QED  BY <2>2, <2>3
<1>4. Max(s) \in s /\ \A y \in s : Max(s) >= y
  BY <1>3 DEF Max
<1> HIDE DEF T
<1>5. \A y \in s : y \in Nat /\ y <= n
  OBVIOUS
<1>6. PICK m \in s : m = Max(s)
  BY <1>4
<1>7. \A y \in s : y <= m
  BY <1>4, <1>5, <1>6
<1>8. n \in s => m = n
  BY <1>5, <1>7
<1> QED  BY <1>6, <1>7, <1>8

Folds(g, D, v, op, q) ==
    g = [s \in SUBSET D |-> IF s = {} THEN v ELSE op[<<g[s \ {Max(s)}], q[Max(s)]>>]]

LEMMA FoldExists ==
    ASSUME NEW V, NEW E, NEW v \in V, NEW op \in [V \X E -> V], NEW q \in Seq(E)
    PROVE  \E g \in [SUBSET DOMAIN q -> V] : Folds(g, DOMAIN q, v, op, q)
<1> DEFINE S == {n \in Nat : \E g \in [SUBSET (1 .. n) -> V] : Folds(g, 1 .. n, v, op, q)}
<1>0. Len(q) \in Nat /\ DOMAIN q = 1 .. Len(q) /\ \A k \in 1 .. Len(q) : q[k] \in E
  OBVIOUS
<1>1. 0 \in S
  <2>1. SUBSET (1 .. 0) = {{}}
    OBVIOUS
  <2>2. Folds([s \in SUBSET (1 .. 0) |-> v], 1 .. 0, v, op, q)
    BY <2>1 DEF Folds
  <2> QED  BY <2>2
<1>2. ASSUME NEW n \in 1 .. Len(q), n - 1 \in S PROVE n \in S
  <2>1. PICK g \in [SUBSET (1 .. n - 1) -> V] : Folds(g, 1 .. n - 1, v, op, q)
    BY <1>2
  <2> DEFINE h == [s \in SUBSET (1 .. n) |-> IF n \in s THEN op[<<g[s \ {n}], q[n]>>] ELSE g[s]]
  <2>2. \A s \in SUBSET (1 .. n) : s \ {n} \in SUBSET (1 .. n - 1) /\ (n \notin s => s \in SUBSET (1 .. n - 1))
    BY <1>2
  <2>3. h \in [SUBSET (1 .. n) -> V]
    <3> SUFFICES ASSUME NEW s \in SUBSET (1 .. n)
                 PROVE  (IF n \in s THEN op[<<g[s \ {n}], q[n]>>] ELSE g[s]) \in V
      OBVIOUS
    <3>1. g[s \ {n}] \in V /\ q[n] \in E /\ (n \notin s => g[s] \in V)
      BY <1>0, <2>2
    <3> QED  BY <3>1
  <2>4. ASSUME NEW s \in SUBSET (1 .. n)
        PROVE  h[s] = IF s = {} THEN v ELSE op[<<h[s \ {Max(s)}], q[Max(s)]>>]
    <3>1. CASE s = {}
      BY <2>1, <2>2, <3>1 DEF Folds
    <3>2. CASE n \in s
      <4>1. Max(s) = n
        BY <1>0, <3>2, MaxOf
      <4>2. s \ {n} \in SUBSET (1 .. n) /\ n \notin s \ {n}
        OBVIOUS
      <4> QED  BY <3>2, <4>1, <4>2
    <3>3. CASE s # {} /\ n \notin s
      <4>1. s \in SUBSET (1 .. n - 1)
        BY <2>2, <3>3
      <4>2. s \ {Max(s)} \in SUBSET (1 .. n - 1) /\ n \notin s \ {Max(s)} /\ s \ {Max(s)} \in SUBSET (1 .. n)
        BY <3>3, <4>1
      <4>3. g[s] = op[<<g[s \ {Max(s)}], q[Max(s)]>>]
        BY <2>1, <3>3, <4>1 DEF Folds
      <4>4. h[s] = g[s] /\ h[s \ {Max(s)}] = g[s \ {Max(s)}]
        BY <3>3, <4>2
      <4> HIDE DEF h
      <4> QED  BY <3>3, <4>3, <4>4
    <3> QED  BY <3>1, <3>2, <3>3
  <2>5. Folds(h, 1 .. n, v, op, q)
    <3> DEFINE k == [s \in SUBSET (1 .. n) |-> IF s = {} THEN v ELSE op[<<h[s \ {Max(s)}], q[Max(s)]>>]]
    <3>1. DOMAIN h = SUBSET (1 .. n) /\ h = [s \in SUBSET (1 .. n) |-> h[s]]
      BY <2>3
    <3> HIDE DEF h
    <3> QED  BY <2>4, <3>1 DEF Folds
  <2> HIDE DEF h
  <2>6. n \in Nat
    BY <1>0
  <2> QED  BY <2>3, <2>5, <2>6
<1> HIDE DEF S
<1>3. \A k \in 0 .. Len(q) : k \in S
  BY <1>0, <1>1, <1>2, StepByStep
<1>4. Len(q) \in S
  BY <1>0, <1>3
<1> QED  BY <1>0, <1>4 DEF S

\* The sets of the first positions.
LEMMA InitialParts ==
    ASSUME NEW n \in Nat
    PROVE  /\ 1 .. 0 = {} /\ {} \in SUBSET (1 .. n)
           /\ \A k \in 1 .. n : /\ 1 .. k \in SUBSET (1 .. n) /\ 1 .. k # {}
                               /\ Max(1 .. k) = k /\ (1 .. k) \ {k} = 1 .. (k - 1)
<1>1. 1 .. 0 = {}
  OBVIOUS
<1>0. {} \in SUBSET (1 .. n)
  OBVIOUS
<1>2. ASSUME NEW k \in 1 .. n
      PROVE  /\ 1 .. k \in SUBSET (1 .. n) /\ 1 .. k # {}
             /\ Max(1 .. k) = k /\ (1 .. k) \ {k} = 1 .. (k - 1)
  <2>1. k \in Nat /\ k \in 1 .. k /\ \A x \in 1 .. k : x \in 1 .. n
    OBVIOUS
  <2>2. \A x : x \in (1 .. k) \ {k} <=> x \in 1 .. (k - 1)
    OBVIOUS
  <2>3. Max(1 .. k) = k
    <3>1. 1 .. k \in SUBSET (1 .. k) /\ 1 .. k # {}
      BY <2>1
    <3> QED  BY <2>1, <3>1, MaxOf
  <2>4. (1 .. k) \ {k} = 1 .. (k - 1)
    BY <2>2
  <2> QED  BY <2>1, <2>3, <2>4
<1> QED  BY <1>0, <1>1, <1>2

\* What folds over q, as long as it is in V, and what it is along the prefixes of
\* q: a value for each position.
FoldsOn(it, V, v, op, q) ==
    /\ it[{}] = v
    /\ \A s \in SUBSET DOMAIN q : s # {} /\ it[s \ {Max(s)}] \in V =>
          it[s] = op[<<it[s \ {Max(s)}], q[Max(s)]>>]
Along(f, V, v, op, q) ==
    /\ f[0] = v
    /\ \A k \in 1 .. Len(q) : f[k] = op[<<f[k - 1], q[k]>>]
    /\ \A k \in 0 .. Len(q) : f[k] \in V

LEMMA FoldSteps ==
    ASSUME NEW V, NEW E, NEW v \in V, NEW op \in [V \X E -> V], NEW q \in Seq(E), NEW it, FoldsOn(it, V, v, op, q)
    PROVE  \E f : it[DOMAIN q] = f[Len(q)] /\ Along(f, V, v, op, q)
<1> DEFINE f == [k \in 0 .. Len(q) |-> it[1 .. k]]
           S == {k \in 0 .. Len(q) : f[k] \in V}
<1>1. Len(q) \in Nat /\ DOMAIN q = 1 .. Len(q) /\ \A k \in 1 .. Len(q) : q[k] \in E
  OBVIOUS
<1>2. f[0] = v
  <2>1. 1 .. 0 = {} /\ f[0] = it[1 .. 0]
    BY <1>1, InitialParts
  <2> QED  BY <2>1 DEF FoldsOn
<1>3. ASSUME NEW k \in 1 .. Len(q), f[k - 1] \in V PROVE f[k] = op[<<f[k - 1], q[k]>>]
  <2>1. /\ 1 .. k \in SUBSET DOMAIN q /\ 1 .. k # {} /\ Max(1 .. k) = k /\ (1 .. k) \ {k} = 1 .. (k - 1)
    BY <1>1, InitialParts
  <2>2. f[k] = it[1 .. k] /\ f[k - 1] = it[1 .. (k - 1)]
    BY <1>1
  <2> HIDE DEF f
  <2> QED  BY <1>3, <2>1, <2>2 DEF FoldsOn
<1>4. f[Len(q)] = it[DOMAIN q]
  BY <1>1
<1> HIDE DEF f
<1>5. \A k \in 0 .. Len(q) : k \in S
  <2>1. 0 \in S
    BY <1>1, <1>2
  <2>2. ASSUME NEW k \in 1 .. Len(q), k - 1 \in S PROVE k \in S
    <3>1. f[k - 1] \in V /\ q[k] \in E /\ k \in 0 .. Len(q)
      BY <1>1, <2>2
    <3> QED  BY <1>3, <3>1
  <2> HIDE DEF S
  <2> QED  BY <1>1, <2>1, <2>2, StepByStep
<1>6. ASSUME NEW k \in 1 .. Len(q) PROVE f[k] = op[<<f[k - 1], q[k]>>]
  <2>1. k - 1 \in 0 .. Len(q)
    BY <1>1
  <2>2. f[k - 1] \in V
    BY <1>5, <2>1
  <2> QED  BY <1>3, <2>2
<1> QED  BY <1>2, <1>4, <1>5, <1>6 DEF Along

-----------------------------------------------------------------------------
(***************************************************************************)
(* The writer of a connection.                                              *)
(***************************************************************************)
Message == [kind : {"snapshot", "event", "end"}, content : Nat, seq : Nat]
Writer  == [phase : Phase, content : Nat, buffered : Seq(Nat), lastSeq : Nat, wire : Seq(Message)]
Host    == [events : Seq(Nat), seq : Nat]

LEMMA Frames ==
    /\ EndFrame \in Message /\ EndFrame.kind = "end" /\ EndFrame.seq = 0
    /\ \A s \in Nat : EventFrame(s) \in Message /\ EventFrame(s).kind = "event" /\ EventFrame(s).seq = s
    /\ \A c, s \in Nat : LET f == SnapshotFrame(c, s) IN
          f \in Message /\ f.kind = "snapshot" /\ f.seq = s /\ f.content = c
  BY DEF Message, EndFrame, EventFrame, SnapshotFrame

LEMMA WriterClosed ==
    ASSUME NEW w \in Writer
    PROVE  /\ Closed(w) \in Writer /\ Closed(w).phase = "closed" /\ Closed(w).content = w.content
           /\ Closed(w).wire = Append(w.wire, EndFrame) /\ Closed(w).buffered = <<>>
<1>1. Append(w.wire, EndFrame) \in Seq(Message) /\ "closed" \in Phase /\ <<>> \in Seq(Nat)
  BY Frames DEF Writer, Phase
<1> DEFINE v == [w EXCEPT !.phase = "closed", !.buffered = <<>>, !.wire = Append(@, EndFrame)]
<1>2. Closed(w) = v
  BY DEF Closed
<1>3. v \in Writer /\ v.phase = "closed" /\ v.content = w.content /\ v.wire = Append(w.wire, EndFrame)
      /\ v.buffered = <<>>
  BY <1>1 DEF Writer
<1> QED  BY <1>2, <1>3

LEMMA WriterWrites ==
    ASSUME NEW w \in Writer, NEW s \in Nat
    PROVE  /\ WriteEvent(w, s) \in Writer
           /\ s <= w.lastSeq => WriteEvent(w, s) = w
           /\ s > w.lastSeq =>
                 /\ WriteEvent(w, s).phase = w.phase /\ WriteEvent(w, s).content = w.content
                 /\ WriteEvent(w, s).wire = Append(w.wire, EventFrame(s))
                 /\ WriteEvent(w, s).lastSeq = s /\ WriteEvent(w, s).buffered = w.buffered
<1>1. CASE s <= w.lastSeq
  BY <1>1 DEF WriteEvent, Writer
<1>2. CASE s > w.lastSeq
  <2>1. ~(s <= w.lastSeq)
    BY <1>2 DEF Writer
  <2> DEFINE v == [w EXCEPT !.wire = Append(@, EventFrame(s)), !.lastSeq = s]
  <2>2. WriteEvent(w, s) = v
    BY <2>1 DEF WriteEvent
  <2>3. Append(w.wire, EventFrame(s)) \in Seq(Message)
    BY Frames DEF Writer
  <2> QED  BY <1>2, <2>1, <2>2, <2>3 DEF Writer
<1> QED  BY <1>1, <1>2 DEF Writer

LEMMA WriterBuffers ==
    ASSUME NEW w \in Writer, NEW s \in Nat
    PROVE  LET v == [w EXCEPT !.buffered = Append(@, s)]
           IN  /\ v \in Writer /\ v.phase = w.phase /\ v.content = w.content /\ v.wire = w.wire
               /\ v.lastSeq = w.lastSeq /\ v.buffered = Append(w.buffered, s)
<1>1. Append(w.buffered, s) \in Seq(Nat)
  BY DEF Writer
<1> QED  BY <1>1 DEF Writer

LEMMA WriterPublishes == ASSUME NEW w \in Writer, NEW s \in Nat PROVE PublishTo(w, s) \in Writer
<1>1. \/ PublishTo(w, s) \in {w, Closed(w), WriteEvent(w, s)}
      \/ PublishTo(w, s) = [w EXCEPT !.buffered = Append(@, s)]
  BY DEF PublishTo
<1>2. [w EXCEPT !.buffered = Append(@, s)] \in Writer
  BY WriterBuffers
<1>3. Closed(w) \in Writer /\ WriteEvent(w, s) \in Writer
  BY WriterClosed, WriterWrites
<1> QED  BY <1>1, <1>2, <1>3

\* What FoldLeft makes of the operations: a state for each position.  The lemmas
\* differ in the operation, which a lemma cannot have as a parameter.
LEMMA PublishSteps ==
    ASSUME NEW w \in Writer, NEW q \in Seq(Nat)
    PROVE  \E f : /\ FoldLeft(PublishTo, w, q) = f[Len(q)] /\ f[0] = w
                  /\ \A k \in 1 .. Len(q) : f[k] = PublishTo(f[k - 1], q[k])
                  /\ \A k \in 0 .. Len(q) : f[k] \in Writer
<1> DEFINE op == [x \in Writer \X Nat |-> PublishTo(x[1], x[2])]
           D == DOMAIN q
           F(g) == g = [s \in SUBSET D |-> IF s = {} THEN w ELSE PublishTo(g[s \ {Max(s)}], q[Max(s)])]
           it == CHOOSE g : F(g)
<1>1. FoldLeft(PublishTo, w, q) = it[D]
  BY DEF FoldLeft, MapThenFoldSet
<1>2. op \in [Writer \X Nat -> Writer]
  BY WriterPublishes
<1>3. \A x \in Writer, s \in Nat : op[<<x, s>>] = PublishTo(x, s)
  OBVIOUS
<1> HIDE DEF op
<1>4. PICK g \in [SUBSET D -> Writer] : Folds(g, D, w, op, q)
  BY <1>2, FoldExists
<1>5. \A s \in SUBSET D : s # {} => Max(s) \in D /\ q[Max(s)] \in Nat
  <2>1. Len(q) \in Nat /\ D = 1 .. Len(q) /\ \A k \in D : q[k] \in Nat
    OBVIOUS
  <2> HIDE DEF D
  <2>2. \A s \in SUBSET D : s # {} => Max(s) \in s
    BY <2>1, MaxOf
  <2> QED  BY <2>1, <2>2
<1>6. F(g)
  <2> SUFFICES \A s \in SUBSET D : (IF s = {} THEN w ELSE op[<<g[s \ {Max(s)}], q[Max(s)]>>])
                                  = (IF s = {} THEN w ELSE PublishTo(g[s \ {Max(s)}], q[Max(s)]))
    BY <1>4 DEF Folds
  <2> HIDE DEF D
  <2> QED  BY <1>3, <1>5
<1>7. F(it)
  <2> HIDE DEF D
  <2> QED  BY <1>6
<1> HIDE DEF it
<1>8. it[{}] = w
  BY <1>7
<1>9. FoldsOn(it, Writer, w, op, q)
  <2>1. \A s \in SUBSET D : s # {} /\ it[s \ {Max(s)}] \in Writer => it[s] = op[<<it[s \ {Max(s)}], q[Max(s)]>>]
    <3> HIDE DEF D
    <3> QED  BY <1>3, <1>5, <1>7
  <2> QED  BY <1>8, <2>1 DEF FoldsOn
<1>10. PICK f : it[D] = f[Len(q)] /\ Along(f, Writer, w, op, q)
  BY <1>2, <1>9, FoldSteps
<1>11. ASSUME NEW k \in 1 .. Len(q) PROVE f[k] = PublishTo(f[k - 1], q[k])
  <2>1. k - 1 \in 0 .. Len(q) /\ q[k] \in Nat
    OBVIOUS
  <2> QED  BY <1>3, <1>10, <2>1 DEF Along
<1> QED  BY <1>1, <1>10, <1>11 DEF Along

LEMMA WriteSteps ==
    ASSUME NEW w \in Writer, NEW q \in Seq(Nat)
    PROVE  \E f : /\ FoldLeft(WriteEvent, w, q) = f[Len(q)] /\ f[0] = w
                  /\ \A k \in 1 .. Len(q) : f[k] = WriteEvent(f[k - 1], q[k])
                  /\ \A k \in 0 .. Len(q) : f[k] \in Writer
<1> DEFINE op == [x \in Writer \X Nat |-> WriteEvent(x[1], x[2])]
           D == DOMAIN q
           F(g) == g = [s \in SUBSET D |-> IF s = {} THEN w ELSE WriteEvent(g[s \ {Max(s)}], q[Max(s)])]
           it == CHOOSE g : F(g)
<1>1. FoldLeft(WriteEvent, w, q) = it[D]
  BY DEF FoldLeft, MapThenFoldSet
<1>2. op \in [Writer \X Nat -> Writer]
  BY WriterWrites
<1>3. \A x \in Writer, s \in Nat : op[<<x, s>>] = WriteEvent(x, s)
  OBVIOUS
<1> HIDE DEF op
<1>4. PICK g \in [SUBSET D -> Writer] : Folds(g, D, w, op, q)
  BY <1>2, FoldExists
<1>5. \A s \in SUBSET D : s # {} => Max(s) \in D /\ q[Max(s)] \in Nat
  <2>1. Len(q) \in Nat /\ D = 1 .. Len(q) /\ \A k \in D : q[k] \in Nat
    OBVIOUS
  <2> HIDE DEF D
  <2>2. \A s \in SUBSET D : s # {} => Max(s) \in s
    BY <2>1, MaxOf
  <2> QED  BY <2>1, <2>2
<1>6. F(g)
  <2> SUFFICES \A s \in SUBSET D : (IF s = {} THEN w ELSE op[<<g[s \ {Max(s)}], q[Max(s)]>>])
                                  = (IF s = {} THEN w ELSE WriteEvent(g[s \ {Max(s)}], q[Max(s)]))
    BY <1>4 DEF Folds
  <2> HIDE DEF D
  <2> QED  BY <1>3, <1>5
<1>7. F(it)
  <2> HIDE DEF D
  <2> QED  BY <1>6
<1> HIDE DEF it
<1>8. it[{}] = w
  BY <1>7
<1>9. FoldsOn(it, Writer, w, op, q)
  <2>1. \A s \in SUBSET D : s # {} /\ it[s \ {Max(s)}] \in Writer => it[s] = op[<<it[s \ {Max(s)}], q[Max(s)]>>]
    <3> HIDE DEF D
    <3> QED  BY <1>3, <1>5, <1>7
  <2> QED  BY <1>8, <2>1 DEF FoldsOn
<1>10. PICK f : it[D] = f[Len(q)] /\ Along(f, Writer, w, op, q)
  BY <1>2, <1>9, FoldSteps
<1>11. ASSUME NEW k \in 1 .. Len(q) PROVE f[k] = WriteEvent(f[k - 1], q[k])
  <2>1. k - 1 \in 0 .. Len(q) /\ q[k] \in Nat
    OBVIOUS
  <2> QED  BY <1>3, <1>10, <2>1 DEF Along
<1> QED  BY <1>1, <1>10, <1>11 DEF Along

LEMMA HostReduces ==
    ASSUME NEW v \in Host, NEW s \in Nat
    PROVE  /\ Reduce(v, s) \in Host
           /\ s > v.seq => Reduce(v, s) = [events |-> Append(v.events, s), seq |-> s]
<1>1. Append(v.events, s) \in Seq(Nat) /\ v.seq \in Nat
  BY DEF Host
<1> QED  BY <1>1 DEF Reduce, Host

LEMMA ReduceSteps ==
    ASSUME NEW w \in Host, NEW q \in Seq(Nat)
    PROVE  \E f : /\ FoldLeft(Reduce, w, q) = f[Len(q)] /\ f[0] = w
                  /\ \A k \in 1 .. Len(q) : f[k] = Reduce(f[k - 1], q[k])
                  /\ \A k \in 0 .. Len(q) : f[k] \in Host
<1> DEFINE op == [x \in Host \X Nat |-> Reduce(x[1], x[2])]
           D == DOMAIN q
           F(g) == g = [s \in SUBSET D |-> IF s = {} THEN w ELSE Reduce(g[s \ {Max(s)}], q[Max(s)])]
           it == CHOOSE g : F(g)
<1>1. FoldLeft(Reduce, w, q) = it[D]
  BY DEF FoldLeft, MapThenFoldSet
<1>2. op \in [Host \X Nat -> Host]
  BY HostReduces
<1>3. \A x \in Host, s \in Nat : op[<<x, s>>] = Reduce(x, s)
  OBVIOUS
<1> HIDE DEF op
<1>4. PICK g \in [SUBSET D -> Host] : Folds(g, D, w, op, q)
  BY <1>2, FoldExists
<1>5. \A s \in SUBSET D : s # {} => Max(s) \in D /\ q[Max(s)] \in Nat
  <2>1. Len(q) \in Nat /\ D = 1 .. Len(q) /\ \A k \in D : q[k] \in Nat
    OBVIOUS
  <2> HIDE DEF D
  <2>2. \A s \in SUBSET D : s # {} => Max(s) \in s
    BY <2>1, MaxOf
  <2> QED  BY <2>1, <2>2
<1>6. F(g)
  <2> SUFFICES \A s \in SUBSET D : (IF s = {} THEN w ELSE op[<<g[s \ {Max(s)}], q[Max(s)]>>])
                                  = (IF s = {} THEN w ELSE Reduce(g[s \ {Max(s)}], q[Max(s)]))
    BY <1>4 DEF Folds
  <2> HIDE DEF D
  <2> QED  BY <1>3, <1>5
<1>7. F(it)
  <2> HIDE DEF D
  <2> QED  BY <1>6
<1> HIDE DEF it
<1>8. it[{}] = w
  BY <1>7
<1>9. FoldsOn(it, Host, w, op, q)
  <2>1. \A s \in SUBSET D : s # {} /\ it[s \ {Max(s)}] \in Host => it[s] = op[<<it[s \ {Max(s)}], q[Max(s)]>>]
    <3> HIDE DEF D
    <3> QED  BY <1>3, <1>5, <1>7
  <2> QED  BY <1>8, <2>1 DEF FoldsOn
<1>10. PICK f : it[D] = f[Len(q)] /\ Along(f, Host, w, op, q)
  BY <1>2, <1>9, FoldSteps
<1>11. ASSUME NEW k \in 1 .. Len(q) PROVE f[k] = Reduce(f[k - 1], q[k])
  <2>1. k - 1 \in 0 .. Len(q) /\ q[k] \in Nat
    OBVIOUS
  <2> QED  BY <1>3, <1>10, <2>1 DEF Along
<1> QED  BY <1>1, <1>10, <1>11 DEF Along

-----------------------------------------------------------------------------
(***************************************************************************)
(* The invariant: the frames of a connection follow one another, the buffer *)
(* of a writer that makes its snapshot has what its snapshot will not, and  *)
(* what the client waits to show continues its view.                        *)
(***************************************************************************)
FeedTypes ==
    /\ committed \in 0 .. MaxEvents /\ conns \in [Connections -> Writer] /\ opened \in Connections
    /\ attached \in BOOLEAN /\ hasSnapshot \in BOOLEAN /\ pending \in Seq(Nat) /\ viewSeq \in 0 .. committed
    /\ \A c \in Connections : c > opened => conns[c] = Unused

\* n events have been published to the writer w.
InOrder(wire, n) ==
    \A i \in DOMAIN wire :
        /\ wire[i].kind = "end" => i = Len(wire)
        /\ wire[i].kind = "snapshot" => i = 1 /\ wire[i].content = wire[i].seq
        /\ wire[i].kind = "event" /\ i > 1 => wire[i].seq = wire[i - 1].seq + 1
        /\ wire[i].seq <= n
WriterOK(w, n) ==
    /\ InOrder(w.wire, n)
    /\ w.wire # <<>> => w.phase \in {"live", "closed"}
    /\ w.phase # "closed" => \A i \in DOMAIN w.wire : w.wire[i].kind # "end"
    /\ w.phase = "live" => w.lastSeq = n /\ (w.wire # <<>> => w.wire[Len(w.wire)].seq = n)
    /\ w.phase \in {"unused", "requested"} => w.buffered = <<>>
    /\ w.phase = "subscribed" => \E b \in 0 .. n : w.buffered = Between(b, n)
    /\ w.phase = "read" => \E b \in 0 .. w.content : w.buffered = Between(b, n) /\ w.content <= n

Ahead == viewSeq + Len(pending)
Continues(wire) ==
    wire # <<>> => wire[1].kind # "snapshot" /\ (wire[1].kind = "event" => wire[1].seq = Ahead + 1)
Covers(w) ==
    /\ w.wire # <<>> /\ w.wire[1].kind = "snapshot" => w.wire[1].seq >= viewSeq
    /\ w.phase = "read" => w.content >= viewSeq
\* The connection of the client, with the writer w, after n events.
ServedBy(w, n) ==
    IF hasSnapshot
    THEN /\ w.phase \in {"live", "closed"} /\ Continues(w.wire)
         /\ w.phase = "live" /\ w.wire = <<>> => Ahead = n
    ELSE Covers(w)
ClientOK ==
    /\ view = UpTo(viewSeq) /\ pending = Between(viewSeq, Ahead) /\ Ahead <= committed
    /\ hasSnapshot => attached
    /\ ~hasSnapshot => pending = <<>>
    /\ attached => ServedBy(conns[opened], committed)

FeedInv == FeedTypes /\ (\A c \in Connections : WriterOK(conns[c], committed)) /\ ClientOK

LEMMA AppendedInOrder ==
    ASSUME NEW wire \in Seq(Message), NEW n \in Nat, NEW m \in Nat, n <= m, InOrder(wire, n),
           \A i \in DOMAIN wire : wire[i].kind # "end",
           NEW f \in Message, f.seq <= m,
           \/ f.kind = "end"
           \/ f.kind = "event" /\ (wire # <<>> => f.seq = wire[Len(wire)].seq + 1)
           \/ f.kind = "snapshot" /\ wire = <<>> /\ f.content = f.seq
    PROVE  InOrder(Append(wire, f), m)
<1> DEFINE x == Append(wire, f)
<1>1. /\ x \in Seq(Message) /\ Len(x) = Len(wire) + 1 /\ Len(wire) \in Nat /\ DOMAIN x = 1 .. Len(wire) + 1
      /\ x[Len(wire) + 1] = f /\ \A i \in DOMAIN wire : x[i] = wire[i]
      /\ DOMAIN wire = 1 .. Len(wire) /\ \A i \in DOMAIN wire : wire[i] \in Message
  OBVIOUS
<1> HIDE DEF x
<1> SUFFICES ASSUME NEW i \in DOMAIN x
             PROVE  /\ x[i].kind = "end" => i = Len(x)
                    /\ x[i].kind = "snapshot" => i = 1 /\ x[i].content = x[i].seq
                    /\ x[i].kind = "event" /\ i > 1 => x[i].seq = x[i - 1].seq + 1
                    /\ x[i].seq <= m
  BY DEF InOrder, x
<1>2. CASE i = Len(wire) + 1
  <2>1. i > 1 => i - 1 \in DOMAIN wire /\ i - 1 = Len(wire) /\ wire # <<>>
    BY <1>1, <1>2
  <2>2. wire = <<>> => i = 1
    BY <1>1, <1>2
  <2> QED  BY <1>1, <1>2, <2>1, <2>2
<1>3. CASE i \in DOMAIN wire
  <2>1. i > 1 => i - 1 \in DOMAIN wire
    BY <1>1, <1>3
  <2>2. wire[i].seq \in Nat /\ wire[i].seq <= m
    BY <1>1, <1>3 DEF InOrder, Message
  <2> QED  BY <1>1, <1>3, <2>1, <2>2 DEF InOrder
<1> QED  BY <1>1, <1>2, <1>3

\* v is w after the events from n + 1 on.
Extends(w, v, n) ==
    /\ v.content = w.content /\ v.phase \in {w.phase, "closed"} /\ (w.phase = "unused" => v = w)
    /\ \A i \in DOMAIN w.wire : i \in DOMAIN v.wire /\ v.wire[i] = w.wire[i]
    /\ w.wire = <<>> /\ v.wire # <<>> =>
          /\ v.wire[1].kind # "snapshot"
          /\ v.wire[1].kind = "event" => v.wire[1].seq = n + 1 /\ w.phase = "live"

LEMMA SameExtends == ASSUME NEW w, NEW n PROVE Extends(w, w, n)
  BY DEF Extends

LEMMA ClosedOK ==
    ASSUME NEW w \in Writer, NEW n \in Nat, NEW m \in Nat, n <= m, WriterOK(w, n), w.phase \notin {"unused", "closed"}
    PROVE  Closed(w) \in Writer /\ WriterOK(Closed(w), m) /\ Extends(w, Closed(w), n)
<1> DEFINE v == Closed(w)
<1>1. v \in Writer /\ v.phase = "closed" /\ v.content = w.content /\ v.wire = Append(w.wire, EndFrame)
      /\ w.wire \in Seq(Message) /\ EndFrame \in Message /\ EndFrame.kind = "end" /\ EndFrame.seq = 0
  BY WriterClosed, Frames DEF Writer
<1> HIDE DEF v
<1>2. InOrder(v.wire, m)
  <2>1. InOrder(w.wire, n) /\ \A i \in DOMAIN w.wire : w.wire[i].kind # "end"
    BY DEF WriterOK
  <2>2. EndFrame.seq <= m
    BY <1>1
  <2> HIDE DEF EndFrame
  <2> QED  BY <1>1, <2>1, <2>2, AppendedInOrder
<1>3. WriterOK(v, m)
  BY <1>1, <1>2 DEF WriterOK
<1>4. Extends(w, v, n)
  BY <1>1 DEF Extends
<1> QED  BY <1>1, <1>3, <1>4 DEF v

\* A live writer is given the next event, or one that its snapshot covers.
LEMMA WrittenOK ==
    ASSUME NEW w \in Writer, NEW n \in Nat, WriterOK(w, n), w.phase = "live"
    PROVE  LET v == WriteEvent(w, n + 1)
           IN  /\ v \in Writer /\ WriterOK(v, n + 1) /\ Extends(w, v, n)
               /\ v.phase = "live" /\ v.wire # <<>>
<1> DEFINE v == WriteEvent(w, n + 1)
           f == EventFrame(n + 1)
<1>0. n + 1 \in Nat /\ n + 1 > w.lastSeq /\ n <= n + 1
  BY DEF WriterOK
<1>1. /\ v \in Writer /\ v.phase = "live" /\ v.content = w.content /\ v.lastSeq = n + 1
      /\ v.wire = Append(w.wire, f) /\ w.wire \in Seq(Message)
  BY <1>0, WriterWrites DEF Writer
<1>2. f \in Message /\ f.kind = "event" /\ f.seq = n + 1
  BY <1>0, Frames
<1> HIDE DEF v, f
<1>3. InOrder(w.wire, n) /\ (\A i \in DOMAIN w.wire : w.wire[i].kind # "end")
      /\ (w.wire # <<>> => f.seq = w.wire[Len(w.wire)].seq + 1)
  BY <1>2 DEF WriterOK
<1>4. InOrder(v.wire, n + 1)
  <2>1. f.seq <= n + 1
    BY <1>2
  <2> QED  BY <1>0, <1>1, <1>2, <1>3, <2>1, AppendedInOrder
<1>5. /\ v.wire # <<>> /\ v.wire[Len(v.wire)] = f /\ (w.wire = <<>> => v.wire[1] = f)
      /\ \A i \in DOMAIN w.wire : i \in DOMAIN v.wire /\ v.wire[i] = w.wire[i]
      /\ \A i \in DOMAIN v.wire : i \in DOMAIN w.wire \/ v.wire[i] = f
  BY <1>1, <1>2
<1>6. WriterOK(v, n + 1)
  BY <1>1, <1>2, <1>3, <1>4, <1>5 DEF WriterOK
<1>7. Extends(w, v, n)
  BY <1>1, <1>2, <1>5 DEF Extends
<1> QED  BY <1>1, <1>5, <1>6, <1>7 DEF v

LEMMA BetweenFacts ==
    ASSUME NEW m \in Nat, NEW n \in Nat, m <= n
    PROVE  /\ Between(m, n) \in Seq(Nat) /\ Len(Between(m, n)) = n - m
           /\ \A k \in 1 .. n - m : Between(m, n)[k] = m + k
           /\ Between(m, n + 1) = Append(Between(m, n), n + 1)
           /\ Between(n, n) = <<>> /\ UpTo(n) = Between(0, n)
<1>1. n - m \in Nat /\ (n + 1) - m = (n - m) + 1
  OBVIOUS
<1>2. Between(m, n) \in Seq(Nat) /\ Len(Between(m, n)) = n - m
  BY <1>1 DEF Between
<1>3. \A k \in 1 .. n - m : Between(m, n)[k] = m + k
  BY DEF Between
<1>4. Between(m, n + 1) = Append(Between(m, n), n + 1)
  <2>1. /\ Between(m, n + 1) \in Seq(Nat) /\ Len(Between(m, n + 1)) = (n - m) + 1
        /\ \A k \in 1 .. (n - m) + 1 : Between(m, n + 1)[k] = m + k
    BY <1>1 DEF Between
  <2>2. PICK s \in Seq(Nat) : s = Between(m, n)
    BY <1>2
  <2>3. PICK x \in Seq(Nat) : x = Between(m, n + 1)
    BY <2>1
  <2>4. Len(s) = n - m /\ \A k \in 1 .. n - m : s[k] = m + k
    BY <1>2, <1>3, <2>2
  <2>5. Len(x) = (n - m) + 1 /\ \A k \in 1 .. (n - m) + 1 : x[k] = m + k
    BY <2>1, <2>3
  <2>6. x = Append(s, n + 1)
    <3>1. Append(s, n + 1) \in Seq(Nat) /\ Len(Append(s, n + 1)) = Len(x)
      BY <1>1, <2>4, <2>5
    <3>2. ASSUME NEW k \in 1 .. Len(x) PROVE x[k] = Append(s, n + 1)[k]
      <4>1. CASE k \in 1 .. n - m
        BY <1>1, <2>4, <2>5, <4>1
      <4>2. CASE k = (n - m) + 1
        BY <1>1, <2>4, <2>5, <4>2
      <4>3. k \in 1 .. n - m \/ k = (n - m) + 1
        BY <1>1, <2>5
      <4> QED  BY <4>1, <4>2, <4>3
    <3> QED  BY <3>1, <3>2
  <2> QED  BY <2>2, <2>3, <2>6
<1>5. Between(n, n) = <<>> /\ UpTo(n) = Between(0, n)
  BY DEF Between, UpTo
<1> QED  BY <1>2, <1>3, <1>4, <1>5

LEMMA PublishedOK ==
    ASSUME NEW w \in Writer, NEW n \in Nat, WriterOK(w, n)
    PROVE  LET v == PublishTo(w, n + 1)
           IN  /\ v \in Writer /\ WriterOK(v, n + 1) /\ Extends(w, v, n)
               /\ v.phase = "live" => v.wire # <<>>
<1> DEFINE v == PublishTo(w, n + 1)
<1>0. n + 1 \in Nat /\ n <= n + 1
  OBVIOUS
<1>1. CASE w.phase = "live"
  <2>1. v = WriteEvent(w, n + 1)
    BY <1>1 DEF PublishTo
  <2> QED  BY <1>1, <2>1, WrittenOK
<1>2. CASE w.phase \in {"subscribed", "read"} /\ Len(w.buffered) >= MaxBuffered
  <2>1. v = Closed(w)
    BY <1>2 DEF PublishTo
  <2>2. Closed(w).phase = "closed"
    BY WriterClosed
  <2> QED  BY <1>0, <1>2, <2>1, <2>2, ClosedOK
<1>3. CASE w.phase \in {"subscribed", "read"} /\ ~(Len(w.buffered) >= MaxBuffered)
  <2>1. v = [w EXCEPT !.buffered = Append(@, n + 1)]
    BY <1>3 DEF PublishTo
  <2>2. /\ v \in Writer /\ v.phase = w.phase /\ v.content = w.content /\ v.wire = w.wire
        /\ v.buffered = Append(w.buffered, n + 1)
    BY <1>0, <2>1, WriterBuffers
  <2> HIDE DEF v
  <2>3. w.wire = <<>> /\ w.content \in Nat
    BY <1>3 DEF WriterOK, Writer
  <2>4. \A b \in 0 .. n : w.buffered = Between(b, n) => v.buffered = Between(b, n + 1)
    <3> SUFFICES ASSUME NEW b \in 0 .. n, w.buffered = Between(b, n) PROVE v.buffered = Between(b, n + 1)
      OBVIOUS
    <3>1. b \in Nat /\ b <= n
      OBVIOUS
    <3> QED  BY <2>2, <3>1, BetweenFacts
  <2>5. WriterOK(v, n + 1)
    BY <1>3, <2>2, <2>3, <2>4 DEF WriterOK, InOrder
  <2> QED  BY <1>3, <2>2, <2>3, <2>5 DEF Extends, v
<1>4. CASE w.phase \in {"unused", "requested", "closed"}
  <2>1. v = w
    BY <1>4 DEF PublishTo
  <2>2. InOrder(w.wire, n + 1)
    <3>0. \A i \in DOMAIN w.wire : w.wire[i] \in Message
      BY DEF Writer
    <3>1. \A i \in DOMAIN w.wire : w.wire[i].seq \in Nat
      BY <3>0 DEF Message
    <3>2. \A i \in DOMAIN w.wire : w.wire[i].seq <= n + 1
      BY <3>1 DEF WriterOK, InOrder
    <3> QED  BY <3>2 DEF WriterOK, InOrder
  <2>3. WriterOK(w, n + 1)
    BY <1>4, <2>2 DEF WriterOK
  <2> QED  BY <1>4, <2>1, <2>3, SameExtends
<1> QED  BY <1>1, <1>2, <1>3, <1>4 DEF Writer, Phase

\* All the events of a commit.
LEMMA CommittedOK ==
    ASSUME NEW w \in Writer, NEW m \in Nat, NEW n \in Nat \ {0}, WriterOK(w, m)
    PROVE  LET v == FoldLeft(PublishTo, w, Between(m, m + n))
           IN  /\ v \in Writer /\ WriterOK(v, m + n) /\ Extends(w, v, m)
               /\ v.phase = "live" => v.wire # <<>>
<1> DEFINE q == Between(m, m + n)
<1> DEFINE t == m + n
<1>a. t \in Nat /\ m <= t /\ t - m = n
  OBVIOUS
<1> HIDE DEF t
<1>0. q \in Seq(Nat) /\ Len(q) = n /\ \A k \in 1 .. n : q[k] = m + k
  <2>1. q = Between(m, t)
    BY DEF t
  <2> HIDE DEF q
  <2> QED  BY <1>a, <2>1, BetweenFacts
<1> HIDE DEF q
<1>1. PICK f : /\ FoldLeft(PublishTo, w, q) = f[Len(q)] /\ f[0] = w
               /\ \A k \in 1 .. Len(q) : f[k] = PublishTo(f[k - 1], q[k])
               /\ \A k \in 0 .. Len(q) : f[k] \in Writer
  BY <1>0, PublishSteps
<1> DEFINE S == {k \in 0 .. n : /\ WriterOK(f[k], m + k) /\ Extends(w, f[k], m)
                                /\ k > 0 /\ f[k].phase = "live" => f[k].wire # <<>>}
<1>2. 0 \in S
  BY <1>1, SameExtends
<1>3. ASSUME NEW k \in 1 .. n, k - 1 \in S PROVE k \in S
  <2>1. /\ f[k - 1] \in Writer /\ WriterOK(f[k - 1], m + (k - 1)) /\ Extends(w, f[k - 1], m)
        /\ f[k] = PublishTo(f[k - 1], m + k) /\ f[k] \in Writer
        /\ m + (k - 1) \in Nat /\ (m + (k - 1)) + 1 = m + k /\ k \in Nat /\ k \in 0 .. n
    BY <1>0, <1>1, <1>3
  <2> DEFINE u == f[k - 1]
             v == f[k]
             p == m + (k - 1)
  <2>2. v = PublishTo(u, p + 1)
    BY <2>1
  <2>3. WriterOK(v, p + 1) /\ Extends(u, v, p) /\ (v.phase = "live" => v.wire # <<>>)
    <3> HIDE DEF u, v, p
    <3> QED  BY <2>1, <2>2, PublishedOK DEF u, p
  <2>4. k > 1 /\ u.phase = "live" => u.wire # <<>>
    BY <1>3
  <2>5. Extends(w, v, m)
    <3>1. CASE k = 1
      <4>1. f[0] = u /\ p = m
        BY <3>1
      <4> QED  BY <1>1, <2>3, <4>1
    <3>2. CASE k # 1
      <4>1. k > 1
        BY <3>2
      <4>2. v.phase = "live" \/ u.phase = "live" => w.phase = "live"
        BY <2>1, <2>3 DEF Extends
      <4>3. w.wire \in Seq(Message) /\ u.wire \in Seq(Message) /\ v.wire \in Seq(Message)
        BY <2>1 DEF Writer
      <4>4. u.wire = <<>> => u.phase # "live"
        BY <2>4, <4>1
      <4>5. u.wire # <<>> => 1 \in DOMAIN u.wire
        BY <4>3
      <4> HIDE DEF u, v, p
      <4>6. w.wire = <<>> /\ v.wire # <<>> =>
              v.wire[1].kind # "snapshot" /\ (v.wire[1].kind = "event" => v.wire[1].seq = m + 1 /\ w.phase = "live")
        <5>1. CASE u.wire = <<>>
          BY <2>3, <4>4, <5>1 DEF Extends
        <5>2. CASE u.wire # <<>>
          <6>1. v.wire[1] = u.wire[1]
            BY <2>3, <4>5, <5>2 DEF Extends
          <6> QED  BY <2>1, <5>2, <6>1 DEF Extends, u
        <5> QED  BY <5>1, <5>2
      <4>7. Extends(w, u, m) /\ Extends(u, v, p)
        BY <2>1, <2>3 DEF u
      <4> QED  BY <4>6, <4>7 DEF Extends
    <3> QED  BY <3>1, <3>2
  <2> QED  BY <2>1, <2>3, <2>5
<1> HIDE DEF S
<1>4. \A k \in 0 .. n : k \in S
  BY <1>2, <1>3, StepByStep
<1>5. n \in S
  BY <1>4
<1> QED  BY <1>0, <1>1, <1>5 DEF S, q

\* The snapshot, and of the buffered events those that it does not cover.
LEMMA StartedOK ==
    ASSUME NEW w \in Writer, NEW n \in Nat, WriterOK(w, n), w.phase = "read"
    PROVE  LET c == w.content
               v == Started(w, c, c)
           IN  /\ v \in Writer /\ WriterOK(v, n) /\ v.phase = "live" /\ v.wire # <<>>
               /\ v.wire[1] = SnapshotFrame(c, c)
<1> DEFINE c     == w.content
           first == SnapshotFrame(c, c)
           begun == [w EXCEPT !.phase = "live", !.wire = Append(@, first), !.lastSeq = c, !.buffered = <<>>]
           level(k, b) == IF b + k <= c THEN c ELSE b + k
<1>0. PICK b \in 0 .. c : w.buffered = Between(b, n) /\ c <= n /\ c \in Nat /\ b \in Nat /\ b <= n
  BY DEF WriterOK, Writer
<1>1. w.wire = <<>> /\ first \in Message /\ first.kind = "snapshot" /\ first.seq = c /\ first.content = c
  BY <1>0, Frames DEF WriterOK
<1> HIDE DEF first
<1>2. /\ begun \in Writer /\ begun.phase = "live" /\ begun.wire = <<first>> /\ begun.lastSeq = c
  <2>1. Append(w.wire, first) = <<first>> /\ <<first>> \in Seq(Message) /\ "live" \in Phase /\ <<>> \in Seq(Nat)
    BY <1>1 DEF Phase
  <2> HIDE DEF c
  <2> QED  BY <1>0, <2>1 DEF Writer
<1> HIDE DEF begun
<1>3. WriterOK(begun, c)
  <2>1. \A i \in DOMAIN begun.wire : i = 1 /\ begun.wire[i] = first
    BY <1>2
  <2>2. begun.wire # <<>> /\ begun.wire[Len(begun.wire)] = first
    BY <1>2
  <2> QED  BY <1>0, <1>1, <1>2, <2>1, <2>2 DEF WriterOK, InOrder
<1>4. w.buffered \in Seq(Nat) /\ Len(w.buffered) = n - b /\ \A k \in 1 .. n - b : w.buffered[k] = b + k
  <2> HIDE DEF c
  <2>1. b \in Nat /\ b <= n /\ w.buffered = Between(b, n)
    BY <1>0
  <2> QED  BY <2>1, BetweenFacts
<1>5. PICK f : /\ FoldLeft(WriteEvent, begun, w.buffered) = f[Len(w.buffered)] /\ f[0] = begun
               /\ \A k \in 1 .. Len(w.buffered) : f[k] = WriteEvent(f[k - 1], w.buffered[k])
               /\ \A k \in 0 .. Len(w.buffered) : f[k] \in Writer
  BY <1>2, <1>4, WriteSteps
<1> DEFINE S == {k \in 0 .. n - b : /\ WriterOK(f[k], level(k, b)) /\ f[k].phase = "live"
                                    /\ f[k].wire # <<>> /\ f[k].wire[1] = first}
<1>6. 0 \in S
  <2>1. level(0, b) = c /\ 0 \in 0 .. n - b
    BY <1>0
  <2>2. begun.wire # <<>> /\ begun.wire[1] = first
    BY <1>2
  <2> QED  BY <1>2, <1>3, <1>5, <2>1, <2>2
<1>7. ASSUME NEW k \in 1 .. n - b, k - 1 \in S PROVE k \in S
  <2> DEFINE u == f[k - 1]
             v == f[k]
  <2>1. /\ u \in Writer /\ WriterOK(u, level(k - 1, b)) /\ u.phase = "live" /\ u.wire # <<>> /\ u.wire[1] = first
        /\ v = WriteEvent(u, b + k) /\ k \in 0 .. n - b
    BY <1>0, <1>4, <1>5, <1>7
  <2> HIDE DEF u, v
  <2>2. CASE b + k <= c
    <3>1. level(k - 1, b) = c /\ level(k, b) = c
      BY <1>0, <2>2
    <3>2. u.lastSeq = c
      BY <2>1, <3>1 DEF WriterOK
    <3>3. v = u
      <4>1. b + k \in Nat /\ b + k <= u.lastSeq
        BY <1>0, <2>2, <3>2
      <4> QED  BY <2>1, <4>1, WriterWrites
    <3> QED  BY <2>1, <3>1, <3>3 DEF v
  <2>3. CASE ~(b + k <= c)
    <3> DEFINE p == b + (k - 1)
    <3>1. level(k - 1, b) = p /\ level(k, b) = p + 1 /\ p \in Nat /\ p + 1 = b + k
      BY <1>0, <2>3
    <3> HIDE DEF p
    <3>2. v = WriteEvent(u, p + 1) /\ WriterOK(u, p)
      BY <2>1, <3>1
    <3>3. WriterOK(v, p + 1) /\ Extends(u, v, p) /\ v.phase = "live" /\ v.wire # <<>>
      BY <2>1, <3>1, <3>2, WrittenOK
    <3>4. 1 \in DOMAIN u.wire
      BY <2>1 DEF Writer
    <3>5. v.wire[1] = first
      BY <2>1, <3>3, <3>4 DEF Extends
    <3> QED  BY <2>1, <3>1, <3>3, <3>5 DEF v
  <2> QED  BY <2>2, <2>3
<1> HIDE DEF S
<1>8. n - b \in Nat
  BY <1>0
<1>9. \A k \in 0 .. n - b : k \in S
  BY <1>6, <1>7, <1>8, StepByStep
<1>10. n - b \in S /\ level(n - b, b) = n
  BY <1>0, <1>8, <1>9
<1>11. Started(w, c, c) = f[n - b]
  BY <1>4, <1>5 DEF Started, begun, first
<1> QED  BY <1>4, <1>5, <1>8, <1>10, <1>11 DEF S, first

\* What waits is shown.
LEMMA ShownAll ==
    ASSUME NEW m \in Nat, NEW n \in Nat, m <= n
    PROVE  FoldLeft(Reduce, [events |-> UpTo(m), seq |-> m], Between(m, n)) = [events |-> UpTo(n), seq |-> n]
<1> DEFINE q == Between(m, n)
           host(k) == [events |-> UpTo(m + k), seq |-> m + k]
<1>0. q \in Seq(Nat) /\ Len(q) = n - m /\ \A k \in 1 .. n - m : q[k] = m + k
  BY BetweenFacts
<1>1. \A k \in Nat : UpTo(k) \in Seq(Nat) /\ UpTo(k + 1) = Append(UpTo(k), k + 1)
  <2> SUFFICES ASSUME NEW k \in Nat PROVE UpTo(k) \in Seq(Nat) /\ UpTo(k + 1) = Append(UpTo(k), k + 1)
    OBVIOUS
  <2>1. 0 \in Nat /\ 0 <= k /\ k + 1 \in Nat /\ 0 <= k + 1
    OBVIOUS
  <2>2. Between(0, k) \in Seq(Nat) /\ Between(0, k + 1) = Append(Between(0, k), k + 1)
    BY <2>1, BetweenFacts
  <2>3. UpTo(k) = Between(0, k) /\ UpTo(k + 1) = Between(0, k + 1)
    BY <2>1, BetweenFacts
  <2> QED  BY <2>2, <2>3
<1> HIDE DEF q
<1>2. host(0) \in Host /\ m + 0 = m
  BY <1>1 DEF Host
<1>3. PICK f : /\ FoldLeft(Reduce, host(0), q) = f[Len(q)] /\ f[0] = host(0)
               /\ \A k \in 1 .. Len(q) : f[k] = Reduce(f[k - 1], q[k])
               /\ \A k \in 0 .. Len(q) : f[k] \in Host
  <2> HIDE DEF host
  <2> QED  BY <1>0, <1>2, ReduceSteps
<1> DEFINE S == {k \in 0 .. n - m : f[k] = host(k)}
<1>4. 0 \in S
  BY <1>3
<1>5. ASSUME NEW k \in 1 .. n - m, k - 1 \in S PROVE k \in S
  <2> DEFINE p == m + (k - 1)
  <2>1. p \in Nat /\ p + 1 = m + k /\ p + 1 > p /\ k \in 0 .. n - m /\ p + 1 \in Nat
    OBVIOUS
  <2>2. f[k - 1] = [events |-> UpTo(p), seq |-> p] /\ f[k - 1] \in Host /\ f[k] = Reduce(f[k - 1], p + 1)
    BY <1>0, <1>3, <1>5, <2>1
  <2> HIDE DEF p
  <2>3. f[k] = [events |-> Append(UpTo(p), p + 1), seq |-> p + 1]
    <3> DEFINE h == f[k - 1]
    <3>1. h \in Host /\ h.seq = p /\ h.events = UpTo(p) /\ p + 1 > h.seq /\ f[k] = Reduce(h, p + 1)
      BY <2>1, <2>2
    <3> HIDE DEF h
    <3> QED  BY <2>1, <3>1, HostReduces
  <2>4. f[k] = [events |-> UpTo(p + 1), seq |-> p + 1]
    BY <1>1, <2>1, <2>3
  <2> QED  BY <2>1, <2>4
<1> HIDE DEF S
<1>6. n - m \in S
  <2>1. n - m \in Nat
    OBVIOUS
  <2>2. \A k \in 0 .. n - m : k \in S
    BY <1>4, <1>5, <2>1, StepByStep
  <2> QED  BY <2>1, <2>2
<1>7. f[Len(q)] = host(n - m) /\ m + (n - m) = n
  BY <1>0, <1>6 DEF S
<1> QED  BY <1>2, <1>3, <1>7 DEF q

-----------------------------------------------------------------------------
(***************************************************************************)
(* The steps.                                                               *)
(***************************************************************************)
\* A snapshot covers the log it says it covers.
WholeSnapshots == ~SplitSnapshot /\ MaxEvents <= ReplayLimit

ReaderStep == Promise!ReaderNext \/ UNCHANGED <<committed, view>>

LEMMA ViewStep ==
    ASSUME NEW m \in Nat, NEW n \in Nat, m <= n, n <= committed, committed \in Nat,
           view = UpTo(m), view' = UpTo(n), committed' = committed
    PROVE  ReaderStep
<1>1. CASE m = n
  BY <1>1 DEF ReaderStep
<1>2. CASE m # n
  <2>1. Len(view) = m /\ n \in (m + 1) .. committed
    BY <1>2 DEF UpTo
  <2>2. view' = Promise!Prefix(n)
    BY DEF UpTo, Promise!Prefix
  <2> QED  BY <2>1, <2>2 DEF ReaderStep, Promise!ReaderNext, Promise!Learn
<1> QED  BY <1>1, <1>2

\* A writer that goes on, or ends, serves the client as before.
LEMMA StillServed ==
    ASSUME NEW w \in Writer, NEW v \in Writer, NEW m \in Nat, NEW n \in Nat, Extends(w, v, m), ServedBy(w, m),
           v.phase = "live" => v.wire # <<>>
    PROVE  ServedBy(v, n)
<1>1. /\ w.wire \in Seq(Message) /\ v.wire \in Seq(Message)
      /\ w.wire # <<>> => 1 \in DOMAIN w.wire
  BY DEF Writer
<1>2. w.wire # <<>> => v.wire[1] = w.wire[1] /\ v.wire # <<>>
  BY <1>1 DEF Extends
<1>3. CASE hasSnapshot
  <2>1. v.phase \in {"live", "closed"}
    BY <1>3 DEF ServedBy, Extends
  <2>2. Continues(v.wire)
    <3>1. CASE w.wire = <<>>
      BY <1>3, <3>1 DEF ServedBy, Extends, Continues
    <3>2. CASE w.wire # <<>>
      BY <1>2, <1>3, <3>2 DEF ServedBy, Continues
    <3> QED  BY <3>1, <3>2
  <2> QED  BY <1>3, <2>1, <2>2 DEF ServedBy
<1>4. CASE ~hasSnapshot
  <2>1. v.phase = "read" => w.phase = "read" /\ v.content = w.content
    BY DEF Extends
  <2>2. v.wire # <<>> /\ v.wire[1].kind = "snapshot" => w.wire # <<>> /\ v.wire[1] = w.wire[1]
    BY <1>2 DEF Extends
  <2> QED  BY <1>4, <2>1, <2>2 DEF ServedBy, Covers
<1> QED  BY <1>3, <1>4

\* One connection changes and the client does not.
LEMMA ConnectionChanges ==
    ASSUME FeedInv, NEW c \in Connections, conns[c].phase # "unused",
           conns' = [conns EXCEPT ![c] = conns'[c]], conns'[c] \in Writer, WriterOK(conns'[c], committed),
           UNCHANGED <<committed, clientVars>>,
           attached /\ c = opened => ServedBy(conns'[c], committed)
    PROVE  FeedInv' /\ ReaderStep
<1> USE DEF FeedInv, clientVars
<1>1. conns' \in [Connections -> Writer] /\ \A d \in Connections : d # c => conns'[d] = conns[d]
  BY DEF FeedTypes
<1>2. FeedTypes'
  BY <1>1 DEF FeedTypes, Unused
<1>3. \A d \in Connections : WriterOK(conns'[d], committed')
  BY <1>1
<1>4. ClientOK'
  <2>1. attached => ServedBy(conns'[opened], committed)
    BY <1>1 DEF ClientOK, FeedTypes
  <2> QED  BY <2>1 DEF ClientOK, ServedBy, Covers, Continues, Ahead
<1>5. ReaderStep
  BY DEF ReaderStep
<1>6. (\A d \in Connections : WriterOK(conns[d], committed))'
  BY <1>3 DEF WriterOK, InOrder
<1> QED  BY <1>2, <1>4, <1>5, <1>6

LEMMA InitialFeed == FeedInit => FeedInv
<1> SUFFICES ASSUME FeedInit PROVE FeedInv
  OBVIOUS
<1> USE FeedAssumption DEF FeedInit
<1>1. Unused \in Writer /\ [Unused EXCEPT !.phase = "requested"] \in Writer
  <2>1. <<>> \in Seq(Nat) /\ <<>> \in Seq(Message) /\ "unused" \in Phase /\ "requested" \in Phase /\ 0 \in Nat
    BY DEF Phase
  <2> HIDE DEF FeedInit
  <2>2. Unused \in Writer
    BY <2>1 DEF Unused, Writer
  <2>3. [Unused EXCEPT !.phase = "requested"] \in Writer
    BY <2>1, <2>2 DEF Writer
  <2> QED  BY <2>2, <2>3
<1>2. conns \in [Connections -> Writer]
  BY <1>1
<1>3. \A c \in Connections : conns[c].wire = <<>> /\ conns[c].phase \in {"unused", "requested"} /\ conns[c].buffered = <<>>
  BY DEF Unused
<1>4. FeedTypes
  <2>1. 1 \in Connections /\ \A c \in Connections : c > 1 => conns[c] = Unused
    BY DEF Connections
  <2>2. pending \in Seq(Nat) /\ committed \in 0 .. MaxEvents /\ viewSeq \in 0 .. committed
    OBVIOUS
  <2> QED  BY <1>2, <2>1, <2>2 DEF FeedTypes
<1>5. \A c \in Connections : WriterOK(conns[c], committed)
  BY <1>3 DEF WriterOK, InOrder
<1>6. ClientOK
  <2>1. UpTo(0) = <<>> /\ Between(0, 0) = <<>> /\ Ahead = 0
    BY BetweenFacts DEF UpTo, Between, Ahead
  <2>2. opened \in Connections /\ conns[opened].wire = <<>> /\ conns[opened].phase # "read"
    BY <1>3, <1>4 DEF FeedTypes
  <2>3. ServedBy(conns[opened], committed)
    BY <2>2 DEF ServedBy, Covers
  <2> QED  BY <2>1, <2>3 DEF ClientOK
<1> QED  BY <1>4, <1>5, <1>6 DEF FeedInv

\* A commit, published to every writer.
LEMMA CommitStep ==
    ASSUME FeedInv, NEW n \in 1 .. MaxBatch, Commit(n)
    PROVE  FeedInv' /\ ReaderStep
<1> USE FeedAssumption DEF FeedInv, clientVars
<1>0. /\ n \in Nat \ {0} /\ committed \in Nat /\ committed' = committed + n /\ committed' \in 0 .. MaxEvents
      /\ viewSeq \in 0 .. committed' /\ UNCHANGED clientVars
  BY DEF Commit, FeedTypes
<1>1. ASSUME NEW c \in Connections
      PROVE  /\ conns'[c] \in Writer /\ WriterOK(conns'[c], committed') /\ Extends(conns[c], conns'[c], committed)
             /\ conns'[c].phase = "live" => conns'[c].wire # <<>>
  <2>1. conns'[c] = FoldLeft(PublishTo, conns[c], Between(committed, committed + n))
    BY DEF Commit
  <2>2. conns[c] \in Writer /\ WriterOK(conns[c], committed)
    BY DEF FeedTypes
  <2> QED  BY <1>0, <2>1, <2>2, CommittedOK
<1>2. conns' \in [Connections -> Writer]
  <2>1. DOMAIN conns' = Connections /\ conns' = [c \in Connections |-> conns'[c]]
    BY DEF Commit
  <2> QED  BY <1>1, <2>1
<1>3. FeedTypes'
  <2>1. \A c \in Connections : c > opened => conns'[c] = Unused
    BY <1>1 DEF FeedTypes, Extends, Unused
  <2> QED  BY <1>0, <1>2, <2>1 DEF FeedTypes
<1>4. attached => ServedBy(conns'[opened], committed')
  <2>1. opened \in Connections /\ conns[opened] \in Writer /\ committed' \in Nat
    BY <1>0 DEF FeedTypes
  <2> QED  BY <1>0, <1>1, <2>1, StillServed DEF ClientOK
<1>5. ClientOK'
  <2>1. Ahead \in Nat /\ (Ahead <= committed => Ahead <= committed')
    BY <1>0 DEF Ahead, FeedTypes
  <2> QED  BY <1>0, <1>4, <2>1 DEF ClientOK, ServedBy, Covers, Continues, Ahead
<1>6. ReaderStep
  <2>1. committed' \in (committed + 1) .. MaxEvents
    BY <1>0
  <2> QED  BY <1>0, <2>1 DEF ReaderStep, Promise!ReaderNext, Promise!Grow
<1>7. (\A c \in Connections : WriterOK(conns[c], committed))'
  BY <1>1 DEF WriterOK, InOrder
<1> QED  BY <1>3, <1>5, <1>6, <1>7

\* The steps of a writer.
LEMMA SubscribeStep ==
    ASSUME FeedInv, NEW c \in Connections, Subscribe(c)
    PROVE  FeedInv' /\ ReaderStep
<1> DEFINE w == conns[c]
           v == conns'[c]
<1>1. /\ w \in Writer /\ WriterOK(w, committed) /\ w.phase = "requested" /\ committed \in Nat
      /\ conns' = [conns EXCEPT ![c] = v] /\ UNCHANGED <<committed, clientVars>>
      /\ v = [w EXCEPT !.phase = "subscribed"]
  BY FeedAssumption DEF FeedInv, FeedTypes, Subscribe
<1> HIDE DEF w, v
<1>2. /\ v \in Writer /\ v.phase = "subscribed" /\ v.wire = w.wire /\ v.buffered = w.buffered
  BY <1>1 DEF Writer, Phase
<1>3. w.wire = <<>> /\ w.buffered = Between(committed, committed) /\ committed \in 0 .. committed
  BY <1>1, BetweenFacts DEF WriterOK
<1>4. WriterOK(v, committed)
  BY <1>2, <1>3 DEF WriterOK, InOrder
<1>5. attached /\ c = opened => ServedBy(v, committed)
  <2>1. attached /\ c = opened => ServedBy(w, committed)
    BY DEF FeedInv, ClientOK, w
  <2> QED  BY <1>1, <1>2, <1>3, <2>1 DEF ServedBy, Covers
<1> QED  BY <1>1, <1>2, <1>4, <1>5, ConnectionChanges DEF w, v

LEMMA ReadStep ==
    ASSUME FeedInv, WholeSnapshots, NEW c \in Connections, ReadEntity(c)
    PROVE  FeedInv' /\ ReaderStep
<1> DEFINE w == conns[c]
           v == conns'[c]
<1>1. /\ w \in Writer /\ WriterOK(w, committed) /\ w.phase = "subscribed" /\ committed \in Nat
      /\ conns' = [conns EXCEPT ![c] = v] /\ UNCHANGED <<committed, clientVars>>
      /\ v = [w EXCEPT !.phase = "read", !.content = Least(committed, ReplayLimit)]
      /\ viewSeq \in 0 .. committed
  <2>1. /\ w \in Writer /\ WriterOK(w, committed) /\ committed \in Nat /\ viewSeq \in 0 .. committed
        /\ conns \in [Connections -> Writer]
    BY FeedAssumption DEF FeedInv, FeedTypes
  <2>2. /\ conns' = [conns EXCEPT ![c].phase = "read", ![c].content = Least(committed, ReplayLimit)]
        /\ w.phase = "subscribed" /\ UNCHANGED <<committed, clientVars>>
    BY DEF ReadEntity
  <2>3. v = [w EXCEPT !.phase = "read", !.content = Least(committed, ReplayLimit)]
    BY <2>1, <2>2 DEF Writer
  <2>4. conns' = [conns EXCEPT ![c] = v]
    <3> HIDE DEF w
    <3>1. \A d \in Connections : d # c => conns'[d] = conns[d]
      BY <2>1, <2>2
    <3>2. conns' = [d \in Connections |-> conns'[d]]
      BY <2>1, <2>2
    <3> QED  BY <2>1, <3>1, <3>2
  <2> QED  BY <2>1, <2>2, <2>3, <2>4
<1>2. Least(committed, ReplayLimit) = committed
  BY FeedAssumption DEF Least, WholeSnapshots, FeedInv, FeedTypes
<1> HIDE DEF w, v
<1>3. /\ v \in Writer /\ v.phase = "read" /\ v.content = committed /\ v.wire = w.wire /\ v.buffered = w.buffered
  BY <1>1, <1>2 DEF Writer, Phase
<1>4. w.wire = <<>> /\ \E b \in 0 .. committed : w.buffered = Between(b, committed)
  BY <1>1 DEF WriterOK
<1>5. WriterOK(v, committed)
  BY <1>1, <1>3, <1>4 DEF WriterOK, InOrder
<1>6. attached /\ c = opened => ServedBy(v, committed)
  <2>1. attached /\ c = opened => ServedBy(w, committed)
    BY DEF FeedInv, ClientOK, w
  <2> QED  BY <1>1, <1>3, <1>4, <2>1 DEF ServedBy, Covers
<1> QED  BY <1>1, <1>3, <1>5, <1>6, ConnectionChanges DEF w, v

LEMMA SnapshotStep ==
    ASSUME FeedInv, WholeSnapshots, NEW c \in Connections, WriteSnapshot(c)
    PROVE  FeedInv' /\ ReaderStep
<1> DEFINE w == conns[c]
           v == conns'[c]
           f == SnapshotFrame(w.content, w.content)
<1>1. /\ w \in Writer /\ WriterOK(w, committed) /\ w.phase = "read" /\ committed \in Nat
      /\ conns' = [conns EXCEPT ![c] = v] /\ UNCHANGED <<committed, clientVars>>
      /\ v = Started(w, w.content, w.content)
  BY FeedAssumption DEF FeedInv, FeedTypes, WriteSnapshot, WholeSnapshots
<1>0. w.content \in Nat
  BY <1>1 DEF Writer
<1> HIDE DEF w, v
<1>2. /\ v \in Writer /\ WriterOK(v, committed) /\ v.phase = "live" /\ v.wire # <<>> /\ v.wire[1] = f
  BY <1>1, StartedOK
<1>3. f.seq = w.content
  BY <1>0, Frames
<1>4. attached /\ c = opened => ServedBy(v, committed)
  <2>1. attached /\ c = opened => ServedBy(w, committed)
    BY DEF FeedInv, ClientOK, w
  <2>2. attached /\ c = opened => ~hasSnapshot /\ w.content >= viewSeq
    BY <1>1, <2>1 DEF ServedBy, Covers
  <2> QED  BY <1>2, <1>3, <2>2 DEF ServedBy, Covers
<1> QED  BY <1>1, <1>2, <1>4, ConnectionChanges DEF w, v

LEMMA WriterEndStep ==
    ASSUME FeedInv, NEW c \in Connections, WriterEnds(c)
    PROVE  FeedInv' /\ ReaderStep
<1> DEFINE w == conns[c]
           v == conns'[c]
<1>1. /\ w \in Writer /\ WriterOK(w, committed) /\ w.phase \in {"subscribed", "read", "live"} /\ committed \in Nat
      /\ conns' = [conns EXCEPT ![c] = v] /\ UNCHANGED <<committed, clientVars>> /\ v = Closed(w)
      /\ committed <= committed
  BY FeedAssumption DEF FeedInv, FeedTypes, WriterEnds
<1> HIDE DEF w, v
<1>2. /\ v \in Writer /\ WriterOK(v, committed) /\ Extends(w, v, committed) /\ v.phase = "closed"
  BY <1>1, ClosedOK, WriterClosed
<1>3. attached /\ c = opened => ServedBy(v, committed)
  <2>1. attached /\ c = opened => ServedBy(w, committed)
    BY DEF FeedInv, ClientOK, w
  <2> QED  BY <1>1, <1>2, <2>1, StillServed
<1> QED  BY <1>1, <1>2, <1>3, ConnectionChanges DEF w, v

\* Every connection is cut.
LEMMA RestartStep ==
    ASSUME FeedInv, ServerRestarts
    PROVE  FeedInv' /\ ReaderStep
<1> DEFINE cut == [Unused EXCEPT !.phase = "closed", !.wire = <<EndFrame>>]
<1> USE DEF FeedInv, clientVars
<1>0. committed \in Nat /\ UNCHANGED <<committed, clientVars>>
  BY FeedAssumption DEF FeedTypes, ServerRestarts
<1>1. /\ cut \in Writer /\ cut.phase = "closed" /\ cut.wire = <<EndFrame>> /\ EndFrame.kind = "end" /\ EndFrame.seq = 0
  <2>1. /\ <<EndFrame>> \in Seq(Message) /\ "closed" \in Phase /\ <<>> \in Seq(Nat) /\ 0 \in Nat
        /\ EndFrame.kind = "end" /\ EndFrame.seq = 0
    BY Frames DEF Phase
  <2> HIDE DEF EndFrame
  <2> QED  BY <2>1 DEF Unused, Writer
<1> HIDE DEF cut, EndFrame
<1>2. \A c \in Connections : conns'[c] = IF conns[c].phase \in {"unused", "closed"} THEN conns[c] ELSE cut
  BY DEF ServerRestarts, cut, EndFrame
<1>3. WriterOK(cut, committed)
  <2>1. \A i \in DOMAIN cut.wire : i = 1 /\ cut.wire[i] = EndFrame
    BY <1>1
  <2>2. Len(cut.wire) = 1
    BY <1>1
  <2> QED  BY <1>0, <1>1, <2>1, <2>2 DEF WriterOK, InOrder
<1>4. \A c \in Connections : conns'[c] \in Writer /\ WriterOK(conns'[c], committed)
  BY <1>1, <1>2, <1>3 DEF FeedTypes
<1>5. FeedTypes'
  <2>1. DOMAIN conns' = Connections /\ conns' = [c \in Connections |-> conns'[c]]
    BY DEF ServerRestarts
  <2>2. \A c \in Connections : c > opened => conns'[c] = Unused
    BY <1>2 DEF FeedTypes, Unused
  <2> QED  BY <1>0, <1>4, <2>1, <2>2 DEF FeedTypes
<1>6. attached => ServedBy(conns'[opened], committed)
  <2>1. ServedBy(cut, committed)
    BY <1>1 DEF ServedBy, Continues, Covers
  <2> QED  BY <1>2, <2>1 DEF ClientOK, FeedTypes
<1>7. ClientOK'
  BY <1>0, <1>6 DEF ClientOK, ServedBy, Covers, Continues, Ahead
<1>8. (\A c \in Connections : WriterOK(conns[c], committed))'
  BY <1>0, <1>4 DEF WriterOK, InOrder
<1> QED  BY <1>0, <1>5, <1>7, <1>8 DEF ReaderStep

\* The client connects.
LEMMA ConnectStep ==
    ASSUME FeedInv, Connect
    PROVE  FeedInv' /\ ReaderStep
<1> USE DEF FeedInv
<1> DEFINE c == opened + 1
           v == [Unused EXCEPT !.phase = "requested"]
<1>0. /\ committed \in Nat /\ viewSeq \in Nat /\ viewSeq <= committed
      /\ UNCHANGED <<committed, view, viewSeq>> /\ opened' = c /\ c \in Connections
      /\ attached' = TRUE /\ hasSnapshot' = FALSE /\ pending' = <<>> /\ conns[c] = Unused
  BY FeedAssumption DEF FeedTypes, Connect, Connections
<1>1. conns' = [conns EXCEPT ![c] = v]
  BY <1>0 DEF Connect
<1>2. v \in Writer /\ v.phase = "requested" /\ v.wire = <<>> /\ v.buffered = <<>>
  <2>1. <<>> \in Seq(Nat) /\ <<>> \in Seq(Message) /\ "requested" \in Phase /\ 0 \in Nat
    BY DEF Phase
  <2> QED  BY <2>1 DEF Unused, Writer
<1> HIDE DEF v
<1>3. conns' \in [Connections -> Writer] /\ conns'[c] = v /\ \A d \in Connections : d # c => conns'[d] = conns[d]
  BY <1>0, <1>1, <1>2 DEF FeedTypes
<1>4. FeedTypes'
  <2>1. \A d \in Connections : d > c => conns'[d] = Unused
    BY <1>0, <1>3 DEF FeedTypes, Connections
  <2>2. pending' \in Seq(Nat)
    BY <1>0
  <2> QED  BY <1>0, <1>3, <2>1, <2>2 DEF FeedTypes
<1>5. \A d \in Connections : WriterOK(conns'[d], committed)
  BY <1>2, <1>3 DEF WriterOK, InOrder
<1>6. ClientOK'
  <2>1. Between(viewSeq, viewSeq) = <<>> /\ viewSeq + 0 = viewSeq /\ Len(<<>>) = 0
    BY <1>0, BetweenFacts
  <2>2. Ahead' = viewSeq
    BY <1>0, <2>1 DEF Ahead
  <2>3. ServedBy(conns[opened], committed)'
    BY <1>0, <1>2, <1>3 DEF ServedBy, Covers
  <2> QED  BY <1>0, <2>1, <2>2, <2>3 DEF ClientOK
<1>7. (\A d \in Connections : WriterOK(conns[d], committed))'
  BY <1>0, <1>5 DEF WriterOK, InOrder
<1> QED  BY <1>0, <1>4, <1>6, <1>7 DEF ReaderStep

\* The first frame of a connection is taken off it.
LEMMA TailOK ==
    ASSUME NEW w \in Writer, NEW n \in Nat, WriterOK(w, n), w.wire # <<>>
    PROVE  LET f == w.wire[1]
               t == Tail(w.wire)
               v == [w EXCEPT !.wire = t]
           IN  /\ f \in Message /\ v \in Writer /\ WriterOK(v, n) /\ v.phase = w.phase /\ v.content = w.content
               /\ v.wire = t /\ w.phase \in {"live", "closed"} /\ f.seq <= n
               /\ f.kind = "snapshot" => f.content = f.seq
               /\ t # <<>> => t[1] \in Message /\ t[1].kind # "snapshot" /\ (t[1].kind = "event" => t[1].seq = f.seq + 1)
               /\ w.phase = "live" /\ t = <<>> => f.seq = n
<1> DEFINE q == w.wire
           f == q[1]
           t == Tail(q)
           v == [w EXCEPT !.wire = t]
<1>1. /\ q \in Seq(Message) /\ q # <<>>
  BY DEF Writer
<1>2. /\ t \in Seq(Message) /\ Len(t) = Len(q) - 1 /\ Len(q) \in Nat /\ Len(q) >= 1 /\ DOMAIN q = 1 .. Len(q)
      /\ DOMAIN t = 1 .. Len(q) - 1 /\ \A i \in DOMAIN t : t[i] = q[i + 1] /\ i + 1 \in DOMAIN q
      /\ \A i \in DOMAIN q : q[i] \in Message
  <2> HIDE DEF q
  <2> QED  BY <1>1
<1>3. /\ v \in Writer /\ v.phase = w.phase /\ v.content = w.content /\ v.wire = t
      /\ v.buffered = w.buffered /\ v.lastSeq = w.lastSeq
  <2> HIDE DEF t
  <2> QED  BY <1>2 DEF Writer
<1>4. InOrder(q, n) /\ w.phase \in {"live", "closed"}
  BY DEF WriterOK
<1> HIDE DEF t, v, q
<1>5. InOrder(t, n)
  <2> SUFFICES ASSUME NEW i \in DOMAIN t
               PROVE  /\ t[i].kind = "end" => i = Len(t)
                      /\ t[i].kind = "snapshot" => i = 1 /\ t[i].content = t[i].seq
                      /\ t[i].kind = "event" /\ i > 1 => t[i].seq = t[i - 1].seq + 1
                      /\ t[i].seq <= n
    BY DEF InOrder
  <2>1. i \in Nat /\ i >= 1 /\ i + 1 \in DOMAIN q /\ t[i] = q[i + 1] /\ i + 1 > 1 /\ i + 1 # 1 /\ (i + 1) - 1 = i
    BY <1>2
  <2>2. i > 1 => i - 1 \in DOMAIN t /\ t[i - 1] = q[i]
    <3> SUFFICES ASSUME i > 1 PROVE i - 1 \in DOMAIN t /\ t[i - 1] = q[i]
      OBVIOUS
    <3>1. i - 1 \in DOMAIN t /\ (i - 1) + 1 = i
      BY <1>2, <2>1
    <3> QED  BY <1>2, <3>1
  <2>3. /\ q[i + 1].kind = "end" => i + 1 = Len(q)
        /\ q[i + 1].kind # "snapshot"
        /\ q[i + 1].kind = "event" => q[i + 1].seq = q[i].seq + 1
        /\ q[i + 1].seq <= n
    BY <1>4, <2>1 DEF InOrder
  <2> QED  BY <1>2, <2>1, <2>2, <2>3
<1>6. t # <<>> => 1 \in DOMAIN t /\ t[Len(t)] = q[Len(q)]
  <2> SUFFICES ASSUME t # <<>> PROVE 1 \in DOMAIN t /\ t[Len(t)] = q[Len(q)]
    OBVIOUS
  <2>1. Len(t) >= 1 /\ Len(t) \in DOMAIN t /\ Len(t) + 1 = Len(q) /\ 1 \in DOMAIN t
    BY <1>2
  <2> QED  BY <1>2, <2>1
<1>7. WriterOK(v, n)
  <2>1. w.phase # "closed" => \A i \in DOMAIN t : t[i].kind # "end"
    BY <1>2 DEF WriterOK, q
  <2>2. w.phase = "live" => w.lastSeq = n /\ q[Len(q)].seq = n
    BY <1>1 DEF WriterOK, q
  <2> QED  BY <1>3, <1>4, <1>5, <1>6, <2>1, <2>2 DEF WriterOK
<1>8. f = q[1] /\ 1 \in DOMAIN q /\ f \in Message /\ f.seq <= n /\ (f.kind = "snapshot" => f.content = f.seq)
  BY <1>2, <1>4 DEF InOrder, q
<1> HIDE DEF f
<1>9. t # <<>> => /\ t[1] \in Message /\ t[1].kind # "snapshot" /\ (t[1].kind = "event" => t[1].seq = f.seq + 1)
  <2> SUFFICES ASSUME t # <<>>
               PROVE  t[1] \in Message /\ t[1].kind # "snapshot" /\ (t[1].kind = "event" => t[1].seq = f.seq + 1)
    OBVIOUS
  <2>1. t[1] = q[2] /\ 2 \in DOMAIN q /\ 2 > 1 /\ 2 # 1 /\ 2 - 1 = 1
    BY <1>2, <1>6
  <2> QED  BY <1>2, <1>4, <1>8, <2>1 DEF InOrder
<1>10. w.phase = "live" /\ t = <<>> => f.seq = n
  <2> SUFFICES ASSUME w.phase = "live", t = <<>> PROVE f.seq = n
    OBVIOUS
  <2>1. Len(q) = 1
    BY <1>2
  <2>2. q[Len(q)].seq = n
    BY <1>1 DEF WriterOK, q
  <2> QED  BY <1>8, <2>1, <2>2
<1> QED  BY <1>3, <1>4, <1>7, <1>8, <1>9, <1>10 DEF f, t, v, q

\* A frame arrives.
LEMMA ReceiveStep ==
    ASSUME FeedInv, NEW c \in Connections, Receive(c)
    PROVE  FeedInv' /\ ReaderStep
<1> DEFINE w == conns[c]
           v == conns'[c]
           f == w.wire[1]
           t == Tail(w.wire)
<1>0. /\ w \in Writer /\ WriterOK(w, committed) /\ w.wire # <<>> /\ committed \in Nat /\ committed' = committed
      /\ conns' = [conns EXCEPT ![c] = v] /\ v = [w EXCEPT !.wire = t] /\ f = Head(w.wire)
      /\ viewSeq \in Nat /\ viewSeq <= committed /\ opened \in Connections /\ conns \in [Connections -> Writer]
      /\ pending \in Seq(Nat)
  BY FeedAssumption DEF FeedInv, FeedTypes, Receive
<1> HIDE DEF w, v, t, f
<1>1. /\ f \in Message /\ v \in Writer /\ WriterOK(v, committed) /\ v.phase = w.phase /\ v.content = w.content
      /\ v.wire = t /\ w.phase \in {"live", "closed"} /\ f.seq <= committed
      /\ f.kind = "snapshot" => f.content = f.seq
      /\ t # <<>> => t[1] \in Message /\ t[1].kind # "snapshot" /\ (t[1].kind = "event" => t[1].seq = f.seq + 1)
      /\ w.phase = "live" /\ t = <<>> => f.seq = committed
  BY <1>0, TailOK DEF f, t
<1>2. f.seq \in Nat
  BY <1>1 DEF Message
<1>3. w.phase # "unused"
  BY <1>1
<1>4. CASE ~Current(c)
  <2>1. UNCHANGED <<committed, clientVars>>
    BY <1>4 DEF Receive
  <2>2. ~(attached /\ c = opened)
    BY <1>4 DEF Current
  <2> QED  BY <1>0, <1>1, <1>3, <2>1, <2>2, ConnectionChanges DEF w, v
<1>5. CASE Current(c)
  <2>0. /\ attached /\ c = opened /\ ServedBy(w, committed) /\ view = UpTo(viewSeq)
        /\ pending = Between(viewSeq, Ahead) /\ Ahead <= committed /\ (~hasSnapshot => pending = <<>>)
        /\ Ahead \in Nat /\ viewSeq <= Ahead
    BY <1>0, <1>5 DEF Current, FeedInv, ClientOK, Ahead, w
  <2>1. /\ conns' \in [Connections -> Writer] /\ \A d \in Connections : d # c => conns'[d] = conns[d]
    BY <1>0, <1>1
  <2>2. \A d \in Connections : d > opened => conns'[d] = Unused
    BY <2>0, <2>1, <1>0 DEF FeedInv, FeedTypes, Connections
  <2>3. \A d \in Connections : WriterOK(conns'[d], committed)
    BY <1>1, <2>1 DEF FeedInv, v
  <2>4. (\A d \in Connections : WriterOK(conns[d], committed))'
    BY <1>0, <2>3 DEF WriterOK, InOrder
  <2>5. FeedTypes /\ opened' = opened
    BY <1>5 DEF FeedInv, Receive, clientVars
  <2>6. \/ /\ f.kind = "end" /\ Stop /\ UNCHANGED <<opened, view, viewSeq>>
        \/ /\ f.kind = "snapshot" /\ hasSnapshot' = TRUE /\ pending' = <<>>
           /\ view' = UpTo(f.content) /\ viewSeq' = f.seq /\ UNCHANGED <<opened, attached>>
        \/ /\ f.kind = "event" /\ pending' = (IF hasSnapshot THEN Append(pending, f.seq) ELSE pending)
           /\ UNCHANGED <<opened, attached, hasSnapshot, view, viewSeq>>
    BY <1>0, <1>5 DEF Receive, w
  <2>7. v = conns'[opened] /\ v = conns'[opened']
    BY <2>0, <2>5 DEF v
  <2> HIDE DEF Stop
  <2>8. CASE f.kind = "end"
    <3>1. attached' = FALSE /\ hasSnapshot' = FALSE /\ pending' = <<>> /\ UNCHANGED <<view, viewSeq>>
      BY <2>6, <2>8 DEF Stop
    <3>2. FeedTypes'
      <4>1. pending' \in Seq(Nat) /\ viewSeq' \in 0 .. committed
        BY <1>0, <3>1
      <4> QED  BY <1>0, <2>1, <2>2, <2>5, <3>1, <4>1 DEF FeedTypes
    <3>3. ClientOK'
      <4>1. Between(viewSeq, viewSeq) = <<>> /\ viewSeq + 0 = viewSeq /\ Len(<<>>) = 0
        BY <1>0, BetweenFacts
      <4>2. Ahead' = viewSeq
        BY <3>1, <4>1 DEF Ahead
      <4> QED  BY <1>0, <2>0, <3>1, <4>1, <4>2 DEF ClientOK
    <3> QED  BY <1>0, <2>4, <3>1, <3>2, <3>3 DEF FeedInv, ReaderStep
  <2>9. CASE f.kind = "snapshot"
    <3> DEFINE s == f.seq
    <3>1. /\ hasSnapshot' = TRUE /\ pending' = <<>> /\ view' = UpTo(s) /\ viewSeq' = s /\ attached' = attached
          /\ s \in Nat /\ s <= committed
      BY <1>1, <1>2, <2>6, <2>9
    <3>2. viewSeq <= s
      BY <1>0, <2>0, <2>9 DEF ServedBy, Covers, Continues, f
    <3> HIDE DEF s
    <3>3. ReaderStep
      BY <1>0, <2>0, <3>1, <3>2, ViewStep
    <3>4. FeedTypes'
      <4>1. pending' \in Seq(Nat) /\ viewSeq' \in 0 .. committed /\ hasSnapshot' \in BOOLEAN
        BY <3>1
      <4> QED  BY <1>0, <2>1, <2>2, <2>5, <3>1, <4>1 DEF FeedTypes
    <3>5. Ahead' = s /\ Between(s, s) = <<>>
      <4>1. s + 0 = s /\ Len(<<>>) = 0 /\ Between(s, s) = <<>>
        BY <3>1, BetweenFacts
      <4> QED  BY <3>1, <4>1 DEF Ahead
    <3>6. ServedBy(conns[opened], committed)'
      <4>1. /\ v.phase \in {"live", "closed"} /\ (v.wire # <<>> => v.wire[1].kind # "snapshot"
                 /\ (v.wire[1].kind = "event" => v.wire[1].seq = s + 1))
            /\ v.phase = "live" /\ v.wire = <<>> => s = committed
        BY <1>1 DEF s
      <4> QED  BY <1>0, <2>7, <3>1, <3>5, <4>1 DEF ServedBy, Continues
    <3>7. ClientOK'
      BY <1>0, <2>0, <3>1, <3>5, <3>6 DEF ClientOK
    <3> QED  BY <2>4, <3>3, <3>4, <3>7 DEF FeedInv
  <2>10. CASE f.kind = "event" /\ hasSnapshot
    <3>1. /\ pending' = Append(pending, f.seq) /\ UNCHANGED <<attached, hasSnapshot, view, viewSeq>>
      BY <2>6, <2>10
    <3>2. f.seq = Ahead + 1
      BY <1>0, <2>0, <2>10 DEF ServedBy, Continues, f
    <3>3. pending' \in Seq(Nat) /\ Len(pending') = Len(pending) + 1 /\ Len(pending) \in Nat
      BY <1>0, <1>2, <3>1
    <3>4. Ahead' = Ahead + 1
      BY <1>0, <3>1, <3>3 DEF Ahead
    <3>5. pending' = Between(viewSeq, Ahead + 1)
      <4> HIDE DEF Ahead
      <4> QED  BY <1>0, <2>0, <3>1, <3>2, BetweenFacts
    <3>6. FeedTypes'
      BY <1>0, <2>1, <2>2, <2>5, <3>1, <3>3 DEF FeedTypes
    <3>7. ServedBy(conns[opened], committed)'
      <4>1. /\ v.phase \in {"live", "closed"} /\ (v.wire # <<>> => v.wire[1].kind # "snapshot"
                 /\ (v.wire[1].kind = "event" => v.wire[1].seq = (Ahead + 1) + 1))
            /\ v.phase = "live" /\ v.wire = <<>> => Ahead + 1 = committed
        BY <1>1, <3>2
      <4> QED  BY <1>0, <2>7, <2>10, <3>1, <3>4, <4>1 DEF ServedBy, Continues
    <3>8. ClientOK'
      BY <1>0, <1>1, <2>0, <2>10, <3>1, <3>2, <3>4, <3>5, <3>7 DEF ClientOK
    <3> QED  BY <1>0, <2>4, <3>1, <3>6, <3>8 DEF FeedInv, ReaderStep
  <2>11. CASE f.kind = "event" /\ ~hasSnapshot
    <3>1. UNCHANGED clientVars
      BY <2>6, <2>11 DEF clientVars
    <3>2. ServedBy(v, committed)
      BY <1>1, <2>11 DEF ServedBy, Covers
    <3> QED  BY <1>0, <1>1, <1>3, <3>1, <3>2, ConnectionChanges DEF w, v
  <2> QED  BY <2>6, <2>8, <2>9, <2>10, <2>11
<1> QED  BY <1>4, <1>5

\* The frame of the browser shows what waits.
LEMMA ShowStep ==
    ASSUME FeedInv, AnimationFrame
    PROVE  FeedInv' /\ ReaderStep
<1> DEFINE host == FoldLeft(Reduce, [events |-> view, seq |-> viewSeq], pending)
           a == Ahead
<1>0. /\ view' = host.events /\ viewSeq' = host.seq /\ pending' = <<>> /\ pending # <<>>
      /\ UNCHANGED <<committed, conns, opened, attached, hasSnapshot>>
  BY DEF AnimationFrame
<1>1. /\ view = UpTo(viewSeq) /\ pending = Between(viewSeq, a) /\ viewSeq \in Nat /\ a \in Nat /\ viewSeq <= a
      /\ a <= committed /\ committed \in Nat
  BY FeedAssumption DEF FeedInv, FeedTypes, ClientOK, Ahead
<1> HIDE DEF a
<1>2. host = [events |-> UpTo(a), seq |-> a]
  BY <1>1, ShownAll
<1> HIDE DEF host
<1>3. view' = UpTo(a) /\ viewSeq' = a
  BY <1>0, <1>2
<1>4. ReaderStep
  BY <1>0, <1>1, <1>3, ViewStep
<1>5. Ahead' = a /\ Between(a, a) = <<>>
  <2>1. a + 0 = a /\ Len(<<>>) = 0 /\ Between(a, a) = <<>>
    BY <1>1, BetweenFacts
  <2> QED  BY <1>0, <1>3, <2>1 DEF Ahead
<1>6. FeedTypes'
  <2>1. pending' \in Seq(Nat) /\ viewSeq' \in 0 .. committed'
    BY <1>0, <1>1, <1>3
  <2> QED  BY <1>0, <2>1 DEF FeedInv, FeedTypes
<1>7. ClientOK'
  <2>1. attached => ServedBy(conns[opened], committed)'
    <3>1. hasSnapshot
      BY <1>0 DEF FeedInv, ClientOK
    <3>2. attached => ServedBy(conns[opened], committed)
      BY DEF FeedInv, ClientOK
    <3>3. Ahead' = Ahead
      BY <1>5 DEF a
    <3> HIDE DEF Ahead
    <3> QED  BY <1>0, <3>1, <3>2, <3>3 DEF ServedBy, Continues
  <2>2. ~hasSnapshot => pending' = <<>>
    BY <1>0
  <2> QED  BY <1>0, <1>1, <1>3, <1>5, <2>1 DEF ClientOK, FeedInv
<1>8. (\A c \in Connections : WriterOK(conns[c], committed))'
  BY <1>0 DEF FeedInv, WriterOK, InOrder
<1> QED  BY <1>4, <1>6, <1>7, <1>8 DEF FeedInv

LEMMA FeedStep == FeedInv /\ WholeSnapshots /\ [FeedNext]_feedVars => FeedInv' /\ ReaderStep
<1> SUFFICES ASSUME FeedInv, WholeSnapshots, [FeedNext]_feedVars PROVE FeedInv' /\ ReaderStep
  OBVIOUS
<1>1. CASE UNCHANGED feedVars
  <2>1. FeedInv'
    BY <1>1 DEF feedVars, FeedInv, FeedTypes, ClientOK, ServedBy, Covers, Continues, Ahead, WriterOK, InOrder
  <2> QED  BY <1>1, <2>1 DEF feedVars, ReaderStep
<1>2. CASE \E n \in 1 .. MaxBatch : Commit(n)
  BY <1>2, CommitStep
<1>3. ASSUME NEW c \in Connections,
             Subscribe(c) \/ ReadEntity(c) \/ WriteSnapshot(c) \/ WriterEnds(c) \/ Receive(c)
      PROVE  FeedInv' /\ ReaderStep
  BY <1>3, SubscribeStep, ReadStep, SnapshotStep, WriterEndStep, ReceiveStep
<1>4. CASE ServerRestarts \/ Connect \/ AnimationFrame
  BY <1>4, RestartStep, ConnectStep, ShowStep
<1> QED  BY <1>1, <1>2, <1>3, <1>4 DEF FeedNext

\* A stream whose snapshots are read in one step and replay the whole log keeps
\* the promise of LogReader: the view is the log up to some number, which only
\* grows, whatever is lost, cut, restarted or buffered over the limit.
THEOREM FeedReads ==
    ASSUME ~SplitSnapshot, MaxEvents <= ReplayLimit
    PROVE  FeedSpec => FeedImplementsReader
<1>0. WholeSnapshots
  BY DEF WholeSnapshots
<1>1. FeedInit => Promise!ReaderInit
  BY DEF FeedInit, Promise!ReaderInit
<1>2. FeedInv /\ [FeedNext]_feedVars => [Promise!ReaderNext]_<<committed, view>>
  BY <1>0, FeedStep DEF ReaderStep
<1>3. FeedInv /\ [FeedNext]_feedVars => FeedInv'
  BY <1>0, FeedStep
<1> QED  BY <1>1, <1>2, <1>3, InitialFeed, PTL DEF FeedSpec, FeedImplementsReader, Promise!ReaderSpec

\* A view never shows an event twice, out of order or before it is committed,
\* and what waits to be shown is exactly what comes next.
THEOREM ViewIsPrefix ==
    ASSUME ~SplitSnapshot, MaxEvents <= ReplayLimit
    PROVE  FeedSpec => [](view = UpTo(viewSeq) /\ viewSeq <= committed /\ (pending # <<>> => pending[1] = viewSeq + 1))
<1>0. WholeSnapshots
  BY DEF WholeSnapshots
<1>1. FeedInv /\ [FeedNext]_feedVars => FeedInv'
  BY <1>0, FeedStep
<1>2. FeedInv => view = UpTo(viewSeq) /\ viewSeq <= committed /\ (pending # <<>> => pending[1] = viewSeq + 1)
  <2> SUFFICES ASSUME FeedInv
               PROVE  view = UpTo(viewSeq) /\ viewSeq <= committed /\ (pending # <<>> => pending[1] = viewSeq + 1)
    OBVIOUS
  <2> DEFINE a == Ahead
  <2>1. /\ view = UpTo(viewSeq) /\ pending = Between(viewSeq, a) /\ viewSeq \in Nat /\ a \in Nat /\ viewSeq <= a
        /\ viewSeq <= committed /\ pending \in Seq(Nat)
    BY FeedAssumption DEF FeedInv, FeedTypes, ClientOK, Ahead
  <2> HIDE DEF a
  <2>2. Len(pending) = a - viewSeq /\ \A k \in 1 .. a - viewSeq : pending[k] = viewSeq + k
    BY <2>1, BetweenFacts
  <2>3. pending # <<>> => 1 \in 1 .. a - viewSeq
    BY <2>1, <2>2
  <2> QED  BY <2>1, <2>2, <2>3
<1> QED  BY <1>1, <1>2, InitialFeed, PTL DEF FeedSpec

-----------------------------------------------------------------------------
(***************************************************************************)
(* The activity of a task: its numbers, in order.                           *)
(***************************************************************************)
Increasing(q) == \A i, j \in DOMAIN q : i < j => q[i] < q[j]

Numbers == {s \in Nat : /\ s \div 4 \in 1 .. Len(source)
                        /\ \/ s % 4 = 0 /\ source[s \div 4] # "silent"
                           \/ s % 4 = 1 /\ source[s \div 4] \in {"halted", "ended"}}
NumbersTo(n) == {s \in Numbers : s \div 4 <= n}

LEMMA Joined ==
    ASSUME NEW a \in Seq(Nat), NEW b \in Seq(Nat), Increasing(a), Increasing(b),
           \A x \in Range(a), y \in Range(b) : x < y
    PROVE  a \o b \in Seq(Nat) /\ Increasing(a \o b) /\ Range(a \o b) = Range(a) \cup Range(b)
<1> DEFINE c == a \o b
<1>1. /\ c \in Seq(Nat) /\ Len(a) \in Nat /\ Len(b) \in Nat /\ Len(c) = Len(a) + Len(b)
      /\ DOMAIN a = 1 .. Len(a) /\ DOMAIN b = 1 .. Len(b) /\ DOMAIN c = 1 .. Len(a) + Len(b)
      /\ \A i \in 1 .. Len(a) : c[i] = a[i]
      /\ \A i \in 1 .. Len(b) : c[Len(a) + i] = b[i]
  OBVIOUS
<1> HIDE DEF c
<1>2. ASSUME NEW i \in DOMAIN c
      PROVE  \/ i \in DOMAIN a /\ c[i] = a[i] /\ c[i] \in Range(a)
             \/ i - Len(a) \in DOMAIN b /\ c[i] = b[i - Len(a)] /\ c[i] \in Range(b) /\ i > Len(a)
  <2>1. CASE i <= Len(a)
    BY <1>1, <2>1 DEF Range
  <2>2. CASE ~(i <= Len(a))
    <3>1. i - Len(a) \in 1 .. Len(b) /\ Len(a) + (i - Len(a)) = i
      BY <1>1, <2>2
    <3> QED  BY <1>1, <2>2, <3>1 DEF Range
  <2> QED  BY <2>1, <2>2
<1>3. Increasing(c)
  <2> SUFFICES ASSUME NEW i \in DOMAIN c, NEW j \in DOMAIN c, i < j PROVE c[i] < c[j]
    BY DEF Increasing
  <2>1. CASE j \in DOMAIN a /\ c[j] = a[j]
    <3>1. i \in DOMAIN a /\ c[i] = a[i]
      BY <1>1, <2>1
    <3> QED  BY <2>1, <3>1 DEF Increasing
  <2>2. CASE j - Len(a) \in DOMAIN b /\ c[j] = b[j - Len(a)] /\ c[j] \in Range(b) /\ j > Len(a)
    <3>1. CASE c[i] \in Range(a)
      BY <2>2, <3>1
    <3>2. CASE i - Len(a) \in DOMAIN b /\ c[i] = b[i - Len(a)] /\ i > Len(a)
      <4>1. i - Len(a) < j - Len(a)
        BY <1>1
      <4> QED  BY <2>2, <3>2, <4>1 DEF Increasing
    <3> QED  BY <1>2, <3>1, <3>2
  <2> QED  BY <1>2, <2>1, <2>2
<1>4. Range(c) = Range(a) \cup Range(b)
  <2>1. \A x \in Range(c) : x \in Range(a) \cup Range(b)
    BY <1>2 DEF Range
  <2>2. ASSUME NEW x \in Range(a) PROVE x \in Range(c)
    <3>1. PICK i \in DOMAIN a : x = a[i]
      BY DEF Range
    <3>2. i \in DOMAIN c /\ c[i] = x
      BY <1>1, <3>1
    <3> QED  BY <3>2 DEF Range
  <2>3. ASSUME NEW x \in Range(b) PROVE x \in Range(c)
    <3>1. PICK i \in DOMAIN b : x = b[i]
      BY DEF Range
    <3>2. Len(a) + i \in DOMAIN c /\ c[Len(a) + i] = x
      BY <1>1, <3>1
    <3> QED  BY <3>2 DEF Range
  <2> QED  BY <2>1, <2>2, <2>3
<1> QED  BY <1>1, <1>3, <1>4 DEF c

LEMMA ProjectedIs ==
    ASSUME source \in Seq(Kinds), NEW i \in 1 .. Len(source)
    PROVE  /\ Projected(i) \in Seq(Nat) /\ Increasing(Projected(i)) /\ Len(Projected(i)) <= 2
           /\ Range(Projected(i)) = {s \in Numbers : s \div 4 = i}
<1> DEFINE p == Projected(i)
<1>0. i \in Nat /\ source[i] \in {"silent", "step", "halted", "ended"}
  <2>1. i \in Nat /\ source[i] \in Kinds
    OBVIOUS
  <2>2. Kinds \subseteq {"silent", "step", "halted", "ended"}
    BY IngestionAssumption
  <2> QED  BY <2>1, <2>2
<1>1. (4 * i) \div 4 = i /\ (4 * i) % 4 = 0 /\ (4 * i + 1) \div 4 = i /\ (4 * i + 1) % 4 = 1
      /\ 4 * i \in Nat /\ 4 * i + 1 \in Nat /\ 4 * i < 4 * i + 1
  BY <1>0
<1>2. \A s \in Nat : s \div 4 = i /\ s % 4 = 0 => s = 4 * i
  BY <1>0
<1>3. \A s \in Nat : s \div 4 = i /\ s % 4 = 1 => s = 4 * i + 1
  BY <1>0
<1>4. CASE source[i] = "silent"
  <2>1. p = <<>>
    BY <1>4 DEF Projected
  <2>2. {s \in Numbers : s \div 4 = i} = {}
    BY <1>4 DEF Numbers
  <2> QED  BY <2>1, <2>2 DEF Increasing, Range
<1>5. CASE source[i] = "step"
  <2>1. p = <<4 * i>>
    BY <1>5 DEF Projected
  <2>2. {s \in Numbers : s \div 4 = i} = {4 * i}
    BY <1>1, <1>2, <1>5 DEF Numbers
  <2>3. <<4 * i>> \in Seq(Nat) /\ Len(<<4 * i>>) = 1 /\ DOMAIN <<4 * i>> = {1} /\ <<4 * i>>[1] = 4 * i
    BY <1>1
  <2>4. Range(p) = {4 * i} /\ Increasing(p)
    BY <2>1, <2>3 DEF Increasing, Range
  <2> QED  BY <2>1, <2>2, <2>3, <2>4
<1>6. CASE source[i] \in {"halted", "ended"}
  <2>1. p = <<4 * i, 4 * i + 1>>
    BY <1>6 DEF Projected
  <2>2. {s \in Numbers : s \div 4 = i} = {4 * i, 4 * i + 1}
    BY <1>1, <1>2, <1>3, <1>6 DEF Numbers
  <2>3. p \in Seq(Nat) /\ Len(p) = 2 /\ DOMAIN p = {1, 2} /\ p[1] = 4 * i /\ p[2] = 4 * i + 1
    BY <1>1, <2>1
  <2>4. Range(p) = {4 * i, 4 * i + 1}
    BY <2>3 DEF Range
  <2>5. Increasing(p)
    BY <1>1, <2>3 DEF Increasing
  <2> QED  BY <2>2, <2>3, <2>4, <2>5
<1> QED  BY <1>0, <1>4, <1>5, <1>6

\* A sequence of sequences, flattened step by step.
Flattens(g, n, qs) == g = [i \in 1 .. n |-> IF i = 1 THEN qs[i] ELSE g[i - 1] \o qs[i]]

LEMMA FlattenExists ==
    ASSUME NEW qs \in Seq(Seq(Nat))
    PROVE  \E g \in [1 .. Len(qs) -> Seq(Nat)] : Flattens(g, Len(qs), qs)
<1> DEFINE S == {n \in Nat : \E g \in [1 .. n -> Seq(Nat)] : Flattens(g, n, qs)}
<1>0. Len(qs) \in Nat /\ \A k \in 1 .. Len(qs) : qs[k] \in Seq(Nat)
  OBVIOUS
<1>1. 0 \in S
  <2>1. [i \in 1 .. 0 |-> <<>>] \in [1 .. 0 -> Seq(Nat)] /\ Flattens([i \in 1 .. 0 |-> <<>>], 0, qs)
    BY DEF Flattens
  <2> QED  BY <2>1
<1>2. ASSUME NEW n \in 1 .. Len(qs), n - 1 \in S PROVE n \in S
  <2>1. PICK g \in [1 .. n - 1 -> Seq(Nat)] : Flattens(g, n - 1, qs)
    BY <1>2
  <2> DEFINE h == [i \in 1 .. n |-> IF i = n THEN (IF n = 1 THEN qs[n] ELSE g[n - 1] \o qs[n]) ELSE g[i]]
  <2>2. n \in Nat /\ qs[n] \in Seq(Nat) /\ \A i \in 1 .. n : i = n \/ i \in 1 .. n - 1
    BY <1>0
  <2>3. n # 1 => g[n - 1] \in Seq(Nat) /\ g[n - 1] \o qs[n] \in Seq(Nat) /\ n - 1 \in 1 .. n - 1
    <3> SUFFICES ASSUME n # 1 PROVE g[n - 1] \in Seq(Nat) /\ g[n - 1] \o qs[n] \in Seq(Nat) /\ n - 1 \in 1 .. n - 1
      OBVIOUS
    <3>1. n - 1 \in 1 .. n - 1
      BY <2>2
    <3>2. g[n - 1] \in Seq(Nat)
      BY <3>1
    <3> QED  BY <2>2, <3>1, <3>2
  <2>4. h \in [1 .. n -> Seq(Nat)]
    BY <2>2, <2>3
  <2>5. ASSUME NEW i \in 1 .. n PROVE h[i] = IF i = 1 THEN qs[i] ELSE h[i - 1] \o qs[i]
    <3>1. CASE i = n
      <4>1. n # 1 => h[n - 1] = g[n - 1]
        BY <2>2, <2>3
      <4> QED  BY <3>1, <4>1
    <3>2. CASE i # n
      <4>1. i \in 1 .. n - 1 /\ h[i] = g[i]
        BY <2>2, <3>2
      <4>2. i # 1 => i - 1 \in 1 .. n /\ i - 1 # n /\ h[i - 1] = g[i - 1]
        BY <2>2, <4>1
      <4>3. g[i] = IF i = 1 THEN qs[i] ELSE g[i - 1] \o qs[i]
        BY <2>1, <4>1 DEF Flattens
      <4> HIDE DEF h
      <4> QED  BY <4>1, <4>2, <4>3
    <3> QED  BY <3>1, <3>2
  <2>6. h = [i \in 1 .. n |-> h[i]]
    BY <2>4
  <2> HIDE DEF h
  <2>7. Flattens(h, n, qs)
    BY <2>5, <2>6 DEF Flattens
  <2> QED  BY <2>2, <2>4, <2>7
<1> HIDE DEF S
<1>3. \A k \in 0 .. Len(qs) : k \in S
  BY <1>0, <1>1, <1>2, StepByStep
<1>4. Len(qs) \in S
  BY <1>0, <1>3
<1> QED  BY <1>4 DEF S

LEMMA ActivityIs ==
    ASSUME source \in Seq(Kinds)
    PROVE  /\ Activity \in Seq(Nat) /\ Increasing(Activity) /\ Range(Activity) = Numbers
           /\ Len(Activity) <= 2 * Len(source)
<1> DEFINE n == Len(source)
           qs == [i \in 1 .. Len(source) |-> Projected(i)]
           F(g) == g = [i \in 1 .. Len(qs) |-> IF i = 1 THEN qs[i] ELSE g[i - 1] \o qs[i]]
           fl == CHOOSE g : F(g)
<1>0. n \in Nat /\ qs \in Seq(Seq(Nat)) /\ Len(qs) = n
  BY ProjectedIs
<1>1. CASE n = 0
  <2>1. Activity = <<>>
    <3>1. qs = <<>>
      BY <1>0, <1>1
    <3> QED  BY <1>0, <1>1, <3>1 DEF Activity, FlattenSeq
  <2>2. Numbers = {}
    BY <1>1 DEF Numbers
  <2> QED  BY <1>1, <2>1, <2>2 DEF Increasing, Range
<1>2. CASE n > 0
  <2>1. Activity = fl[n]
    BY <1>0, <1>2 DEF Activity, FlattenSeq
  <2>2. PICK g \in [1 .. Len(qs) -> Seq(Nat)] : Flattens(g, Len(qs), qs)
    <3> HIDE DEF qs
    <3> QED  BY <1>0, FlattenExists
  <2>3. F(g)
    BY <2>2 DEF Flattens
  <2>4. F(fl)
    <3> HIDE DEF qs
    <3> QED  BY <2>3
  <2> HIDE DEF fl
  <2>5. \A i \in 1 .. n : qs[i] = Projected(i)
    OBVIOUS
  <2>6. \A i \in 1 .. n : fl[i] = IF i = 1 THEN Projected(i) ELSE fl[i - 1] \o Projected(i)
    <3> HIDE DEF qs, n
    <3> QED  BY <1>0, <2>4, <2>5
  <2> DEFINE S == {0} \cup {k \in 1 .. n : /\ fl[k] \in Seq(Nat) /\ Increasing(fl[k])
                                           /\ Range(fl[k]) = NumbersTo(k) /\ Len(fl[k]) <= 2 * k}
  <2>7. ASSUME NEW k \in 1 .. n, k - 1 \in S PROVE k \in S
    <3>1. /\ Projected(k) \in Seq(Nat) /\ Increasing(Projected(k)) /\ Len(Projected(k)) <= 2
          /\ Range(Projected(k)) = {s \in Numbers : s \div 4 = k} /\ k \in Nat /\ k >= 1
      BY ProjectedIs
    <3>2. \A s \in Numbers : s \in Nat /\ s \div 4 \in Nat /\ s \div 4 >= 1
      BY DEF Numbers
    <3>3. CASE k = 1
      <4>1. Range(Projected(k)) = NumbersTo(k)
        BY <3>1, <3>2, <3>3 DEF NumbersTo
      <4> QED  BY <2>6, <3>1, <3>3, <4>1
    <3>4. CASE k # 1
      <4> DEFINE a == fl[k - 1]
      <4>1. a \in Seq(Nat) /\ Increasing(a) /\ Range(a) = NumbersTo(k - 1) /\ Len(a) <= 2 * (k - 1)
            /\ fl[k] = a \o Projected(k)
        <5>1. k - 1 # 0 /\ k - 1 \in S
          BY <2>7, <3>1, <3>4
        <5>2. /\ fl[k - 1] \in Seq(Nat) /\ Increasing(fl[k - 1]) /\ Range(fl[k - 1]) = NumbersTo(k - 1)
              /\ Len(fl[k - 1]) <= 2 * (k - 1)
          BY <5>1
        <5>3. fl[k] = fl[k - 1] \o Projected(k)
          BY <2>6, <3>4
        <5> QED  BY <5>2, <5>3
      <4>2. \A x \in Range(a), y \in Range(Projected(k)) : x < y
        <5> SUFFICES ASSUME NEW x \in Range(a), NEW y \in Range(Projected(k)) PROVE x < y
          OBVIOUS
        <5>1. x \in Nat /\ y \in Nat /\ x \div 4 <= k - 1 /\ y \div 4 = k
          BY <3>1, <3>2, <4>1 DEF NumbersTo
        <5> QED  BY <3>1, <5>1
      <4>3. NumbersTo(k) = NumbersTo(k - 1) \cup {s \in Numbers : s \div 4 = k}
        BY <3>1, <3>2 DEF NumbersTo
      <4> HIDE DEF a
      <4>4. fl[k] \in Seq(Nat) /\ Increasing(fl[k]) /\ Range(fl[k]) = NumbersTo(k)
        BY <3>1, <4>1, <4>2, <4>3, Joined
      <4>5. Len(fl[k]) = Len(a) + Len(Projected(k)) /\ Len(a) \in Nat /\ Len(Projected(k)) \in Nat
        BY <3>1, <4>1
      <4>6. Len(fl[k]) <= 2 * k
        BY <3>1, <4>1, <4>5
      <4> QED  BY <4>4, <4>6
    <3> QED  BY <3>3, <3>4
  <2>8. 0 \in S
    OBVIOUS
  <2> HIDE DEF S
  <2>9. \A k \in 0 .. n : k \in S
    <3> HIDE DEF n
    <3> QED  BY <1>0, <2>7, <2>8, StepByStep
  <2>10. n \in S
    BY <1>0, <2>9
  <2>11. NumbersTo(n) = Numbers
    BY <1>0 DEF NumbersTo, Numbers
  <2> QED  BY <1>2, <2>1, <2>10, <2>11 DEF S
<1> QED  BY <1>0, <1>1, <1>2

-----------------------------------------------------------------------------
\* A sequence in order that leaves nothing out is the beginning of the other.
LEMMA IncreasingPrefix ==
    ASSUME NEW a \in Seq(Nat), NEW b \in Seq(Nat), Increasing(a), Increasing(b), Range(a) \subseteq Range(b),
           \A x \in Range(a), y \in Range(b) : y < x => y \in Range(a)
    PROVE  Len(a) <= Len(b) /\ \A k \in 1 .. Len(a) : a[k] = b[k]
<1> DEFINE S == {k \in 0 .. Len(a) : k <= Len(b) /\ \A i \in 1 .. k : a[i] = b[i]}
<1>0. /\ Len(a) \in Nat /\ Len(b) \in Nat /\ DOMAIN a = 1 .. Len(a) /\ DOMAIN b = 1 .. Len(b)
      /\ \A i \in 1 .. Len(a) : a[i] \in Nat /\ a[i] \in Range(a)
      /\ \A i \in 1 .. Len(b) : b[i] \in Nat /\ b[i] \in Range(b)
  BY DEF Range
<1>1. 0 \in S
  BY <1>0
<1>2. ASSUME NEW k \in 1 .. Len(a), k - 1 \in S PROVE k \in S
  <2>0. k \in Nat /\ \A i \in 1 .. k - 1 : a[i] = b[i] /\ i \in 1 .. Len(a) /\ i \in 1 .. Len(b)
    BY <1>0, <1>2
  <2>1. PICK j \in 1 .. Len(b) : b[j] = a[k]
    BY <1>0 DEF Range
  <2>2. j >= k
    <3> SUFFICES ASSUME j < k PROVE FALSE
      BY <2>0
    <3>1. j \in 1 .. k - 1
      BY <1>0, <2>0
    <3>2. a[j] = a[k] /\ a[j] < a[k]
      BY <1>0, <2>0, <2>1, <3>1 DEF Increasing
    <3> QED  BY <1>0, <3>2
  <2>3. j = k
    <3> SUFFICES ASSUME j > k PROVE FALSE
      BY <2>2
    <3>1. k \in 1 .. Len(b)
      BY <1>0, <2>0
    <3>2. b[k] < a[k] /\ b[k] \in Range(a)
      BY <1>0, <2>1, <3>1 DEF Increasing
    <3>3. PICK m \in 1 .. Len(a) : a[m] = b[k]
      BY <1>0, <3>2 DEF Range
    <3>4. m < k
      <4> SUFFICES ASSUME m >= k PROVE FALSE
        BY <2>0
      <4>1. m = k \/ k < m
        BY <1>0, <2>0
      <4>2. k < m => a[k] < a[m]
        BY <1>0 DEF Increasing
      <4> QED  BY <1>0, <3>1, <3>2, <3>3, <4>1, <4>2
    <3>5. m \in 1 .. k - 1
      BY <2>0, <3>4
    <3>6. b[m] < b[k] /\ b[m] = b[k]
      BY <1>0, <2>0, <3>1, <3>3, <3>4, <3>5 DEF Increasing
    <3> QED  BY <1>0, <3>1, <3>6
  <2>4. k \in 0 .. Len(a) /\ k <= Len(b) /\ \A i \in 1 .. k : i = k \/ i \in 1 .. k - 1
    BY <1>0, <2>0, <2>3
  <2> QED  BY <2>0, <2>1, <2>3, <2>4
<1> HIDE DEF S
<1>3. \A k \in 0 .. Len(a) : k \in S
  BY <1>0, <1>1, <1>2, StepByStep
<1>4. Len(a) \in S
  BY <1>0, <1>3
<1> QED  BY <1>4 DEF S

\* What the context's log is of the task's activity.
Synced(l) ==
    /\ Increasing(l) /\ Range(l) \subseteq Numbers
    /\ \A x \in Range(l), y \in Numbers : y < x => y \in Range(l)

Positions == [k \in 1 .. Len(ingested) |-> CHOOSE n \in 1 .. Len(Activity) : Activity[n] = ingested[k]]

LEMMA PositionsAre ==
    ASSUME source \in Seq(Kinds), ingested \in Seq(Nat), Synced(ingested)
    PROVE  Positions = SourcePromise!Prefix(Len(ingested)) /\ Len(ingested) <= Len(Activity)
<1>1. /\ Activity \in Seq(Nat) /\ Increasing(Activity) /\ Range(Activity) = Numbers
  BY ActivityIs
<1>2. Len(ingested) <= Len(Activity) /\ \A k \in 1 .. Len(ingested) : ingested[k] = Activity[k]
  BY <1>1, IncreasingPrefix DEF Synced
<1>3. ASSUME NEW k \in 1 .. Len(ingested)
      PROVE  (CHOOSE n \in 1 .. Len(Activity) : Activity[n] = ingested[k]) = k
  <2> DEFINE A == Activity
             c == CHOOSE n \in 1 .. Len(A) : A[n] = ingested[k]
  <2>1. k \in 1 .. Len(A) /\ A[k] = ingested[k] /\ A \in Seq(Nat) /\ Increasing(A)
    BY <1>1, <1>2
  <2> HIDE DEF A
  <2>2. c \in 1 .. Len(A) /\ A[c] = A[k]
    BY <2>1
  <2> HIDE DEF c
  <2>3. DOMAIN A = 1 .. Len(A) /\ \A i \in 1 .. Len(A) : i \in Nat /\ A[i] \in Nat
    BY <2>1
  <2>4. ~(c < k) /\ ~(k < c)
    <3>1. c \in DOMAIN A /\ k \in DOMAIN A /\ A[c] \in Nat /\ A[k] \in Nat
      BY <2>1, <2>2, <2>3
    <3>2. (c < k => A[c] < A[k]) /\ (k < c => A[k] < A[c])
      BY <2>1, <3>1 DEF Increasing
    <3> QED  BY <2>2, <3>1, <3>2
  <2>5. c = k
    BY <2>1, <2>2, <2>3, <2>4
  <2> QED  BY <2>5 DEF c, A
<1> QED  BY <1>2, <1>3 DEF Positions, SourcePromise!Prefix

LEMMA Appended ==
    ASSUME NEW l \in Seq(Nat), NEW s \in Nat
    PROVE  AppendActivity(l, s) \in Seq(Nat) /\ Append(l, s) \in Seq(Nat)
  BY DEF AppendActivity

LEMMA AppendedRange ==
    ASSUME NEW l \in Seq(Nat), NEW s \in Nat
    PROVE  LET v == Append(l, s)
           IN  /\ v \in Seq(Nat) /\ Len(v) = Len(l) + 1 /\ Range(v) = Range(l) \cup {s}
               /\ Increasing(l) /\ (\A x \in Range(l) : x < s) => Increasing(v)
<1> DEFINE v == Append(l, s)
<1>1. /\ v \in Seq(Nat) /\ Len(l) \in Nat /\ Len(v) = Len(l) + 1 /\ DOMAIN l = 1 .. Len(l) /\ DOMAIN v = 1 .. Len(l) + 1
      /\ v[Len(l) + 1] = s /\ \A i \in 1 .. Len(l) : v[i] = l[i] /\ l[i] \in Nat
  OBVIOUS
<1> HIDE DEF v
<1>2. \A i \in DOMAIN v : i = Len(l) + 1 \/ i \in DOMAIN l
  BY <1>1
<1>3. \A i \in DOMAIN l : i \in DOMAIN v /\ l[i] \in Range(l)
  BY <1>1 DEF Range
<1>4. Len(l) + 1 \in DOMAIN v
  BY <1>1
<1>5. Range(v) = Range(l) \cup {s}
  BY <1>1, <1>2, <1>3, <1>4 DEF Range
<1>6. ASSUME Increasing(l), \A x \in Range(l) : x < s PROVE Increasing(v)
  <2> SUFFICES ASSUME NEW i \in DOMAIN v, NEW j \in DOMAIN v, i < j PROVE v[i] < v[j]
    BY DEF Increasing
  <2>1. i \in DOMAIN l
    BY <1>1
  <2>2. CASE j = Len(l) + 1
    BY <1>1, <1>3, <1>6, <2>1, <2>2
  <2>3. CASE j \in DOMAIN l
    BY <1>1, <1>6, <2>1, <2>3 DEF Increasing
  <2> QED  BY <1>2, <2>2, <2>3
<1> QED  BY <1>1, <1>5, <1>6 DEF v

\* append keeps the log in step when what comes before the event is there.
LEMMA AppendOK ==
    ASSUME NEW l \in Seq(Nat), Synced(l), NEW s \in Numbers, \A t \in Numbers : t < s => t \in Range(l)
    PROVE  LET v == AppendActivity(l, s)
           IN  v \in Seq(Nat) /\ Synced(v) /\ Range(v) = Range(l) \cup {s} /\ Len(v) >= Len(l)
<1>0. s \in Nat /\ Numbers \subseteq Nat
  BY DEF Numbers
<1>1. CASE s \in Range(l)
  <2>1. AppendActivity(l, s) = l
    BY <1>1 DEF AppendActivity
  <2> QED  BY <1>1, <2>1
<1>2. CASE s \notin Range(l)
  <2> DEFINE v == Append(l, s)
  <2>1. AppendActivity(l, s) = v
    BY <1>2 DEF AppendActivity
  <2>2. \A x \in Range(l) : x < s
    <3> SUFFICES ASSUME NEW x \in Range(l) PROVE x < s
      OBVIOUS
    <3>1. x \in Nat /\ x # s /\ ~(s < x)
      BY <1>0, <1>2 DEF Synced
    <3> QED  BY <1>0, <3>1
  <2>3. v \in Seq(Nat) /\ Len(v) = Len(l) + 1 /\ Range(v) = Range(l) \cup {s} /\ Increasing(v)
    BY <1>0, <2>2, AppendedRange DEF Synced
  <2> HIDE DEF v
  <2>4. Synced(v)
    BY <2>3 DEF Synced
  <2> QED  BY <2>1, <2>3, <2>4
<1> QED  BY <1>1, <1>2

LEMMA AppendSteps ==
    ASSUME NEW w \in Seq(Nat), NEW q \in Seq(Nat)
    PROVE  \E f : /\ FoldLeft(AppendActivity, w, q) = f[Len(q)] /\ f[0] = w
                  /\ \A k \in 1 .. Len(q) : f[k] = AppendActivity(f[k - 1], q[k])
                  /\ \A k \in 0 .. Len(q) : f[k] \in Seq(Nat)
<1> DEFINE op == [x \in Seq(Nat) \X Nat |-> AppendActivity(x[1], x[2])]
           D == DOMAIN q
           F(g) == g = [s \in SUBSET D |-> IF s = {} THEN w ELSE AppendActivity(g[s \ {Max(s)}], q[Max(s)])]
           it == CHOOSE g : F(g)
<1>1. FoldLeft(AppendActivity, w, q) = it[D]
  BY DEF FoldLeft, MapThenFoldSet
<1>2. op \in [Seq(Nat) \X Nat -> Seq(Nat)]
  BY Appended
<1>3. \A x \in Seq(Nat), s \in Nat : op[<<x, s>>] = AppendActivity(x, s)
  OBVIOUS
<1> HIDE DEF op
<1>4. PICK g \in [SUBSET D -> Seq(Nat)] : Folds(g, D, w, op, q)
  BY <1>2, FoldExists
<1>5. \A s \in SUBSET D : s # {} => Max(s) \in D /\ q[Max(s)] \in Nat
  <2>1. Len(q) \in Nat /\ D = 1 .. Len(q) /\ \A k \in D : q[k] \in Nat
    OBVIOUS
  <2> HIDE DEF D
  <2>2. \A s \in SUBSET D : s # {} => Max(s) \in s
    BY <2>1, MaxOf
  <2> QED  BY <2>1, <2>2
<1>6. F(g)
  <2> SUFFICES \A s \in SUBSET D : (IF s = {} THEN w ELSE op[<<g[s \ {Max(s)}], q[Max(s)]>>])
                                  = (IF s = {} THEN w ELSE AppendActivity(g[s \ {Max(s)}], q[Max(s)]))
    BY <1>4 DEF Folds
  <2> HIDE DEF D
  <2> QED  BY <1>3, <1>5
<1>7. F(it)
  <2> HIDE DEF D
  <2> QED  BY <1>6
<1> HIDE DEF it
<1>8. it[{}] = w
  BY <1>7
<1>9. FoldsOn(it, Seq(Nat), w, op, q)
  <2>1. \A s \in SUBSET D : s # {} /\ it[s \ {Max(s)}] \in Seq(Nat) => it[s] = op[<<it[s \ {Max(s)}], q[Max(s)]>>]
    <3> HIDE DEF D
    <3> QED  BY <1>3, <1>5, <1>7
  <2> QED  BY <1>8, <2>1 DEF FoldsOn
<1>10. PICK f : it[D] = f[Len(q)] /\ Along(f, Seq(Nat), w, op, q)
  BY <1>2, <1>9, FoldSteps
<1>11. ASSUME NEW k \in 1 .. Len(q) PROVE f[k] = AppendActivity(f[k - 1], q[k])
  <2>1. k - 1 \in 0 .. Len(q) /\ q[k] \in Nat
    OBVIOUS
  <2> QED  BY <1>3, <1>10, <2>1 DEF Along
<1> QED  BY <1>1, <1>10, <1>11 DEF Along

\* What a page keeps of the activity.
Kept(after, q) == FoldLeft(LAMBDA p, s : IF InWindow(after, s) THEN Append(p, s) ELSE p, <<>>, q)

LEMMA KeptSteps ==
    ASSUME NEW after \in Nat, NEW q \in Seq(Nat)
    PROVE  \E f : /\ Kept(after, q) = f[Len(q)] /\ f[0] = <<>>
                  /\ \A k \in 1 .. Len(q) : f[k] = (IF InWindow(after, q[k]) THEN Append(f[k - 1], q[k]) ELSE f[k - 1])
                  /\ \A k \in 0 .. Len(q) : f[k] \in Seq(Nat)
<1> DEFINE w == <<>>
           op == [x \in Seq(Nat) \X Nat |-> (IF InWindow(after, x[2]) THEN Append(x[1], x[2]) ELSE x[1])]
           D == DOMAIN q
           F(g) == g = [s \in SUBSET D |-> IF s = {} THEN w
                                       ELSE IF InWindow(after, q[Max(s)]) THEN Append(g[s \ {Max(s)}], q[Max(s)])
                                       ELSE g[s \ {Max(s)}]]
           it == CHOOSE g : F(g)
<1>1. Kept(after, q) = it[D]
  BY DEF Kept, FoldLeft, MapThenFoldSet
<1>0. w \in Seq(Nat)
  OBVIOUS
<1> HIDE DEF w
<1>2. op \in [Seq(Nat) \X Nat -> Seq(Nat)]
  BY Appended
<1>3. \A x \in Seq(Nat), s \in Nat : op[<<x, s>>] = (IF InWindow(after, s) THEN Append(x, s) ELSE x)
  OBVIOUS
<1> HIDE DEF op
<1>4. PICK g \in [SUBSET D -> Seq(Nat)] : Folds(g, D, w, op, q)
  BY <1>0, <1>2, FoldExists
<1>5. \A s \in SUBSET D : s # {} => Max(s) \in D /\ q[Max(s)] \in Nat
  <2>1. Len(q) \in Nat /\ D = 1 .. Len(q) /\ \A k \in D : q[k] \in Nat
    OBVIOUS
  <2> HIDE DEF D
  <2>2. \A s \in SUBSET D : s # {} => Max(s) \in s
    BY <2>1, MaxOf
  <2> QED  BY <2>1, <2>2
<1>6. F(g)
  <2> SUFFICES \A s \in SUBSET D : (IF s = {} THEN w ELSE op[<<g[s \ {Max(s)}], q[Max(s)]>>])
                                  = (IF s = {} THEN w
                                     ELSE IF InWindow(after, q[Max(s)]) THEN Append(g[s \ {Max(s)}], q[Max(s)])
                                     ELSE g[s \ {Max(s)}])
    BY <1>4 DEF Folds
  <2> HIDE DEF D
  <2> QED  BY <1>3, <1>5
<1>7. F(it)
  <2> HIDE DEF D
  <2> QED  BY <1>6
<1> HIDE DEF it
<1>8. it[{}] = w
  BY <1>7
<1>9. FoldsOn(it, Seq(Nat), w, op, q)
  <2>1. \A s \in SUBSET D : s # {} /\ it[s \ {Max(s)}] \in Seq(Nat) => it[s] = op[<<it[s \ {Max(s)}], q[Max(s)]>>]
    <3> HIDE DEF D
    <3> QED  BY <1>3, <1>5, <1>7
  <2> QED  BY <1>8, <2>1 DEF FoldsOn
<1>10. PICK f : it[D] = f[Len(q)] /\ Along(f, Seq(Nat), w, op, q)
  BY <1>0, <1>2, <1>9, FoldSteps
<1>11. ASSUME NEW k \in 1 .. Len(q) PROVE f[k] = (IF InWindow(after, q[k]) THEN Append(f[k - 1], q[k]) ELSE f[k - 1])
  <2>1. k - 1 \in 0 .. Len(q) /\ q[k] \in Nat
    OBVIOUS
  <2> QED  BY <1>3, <1>10, <2>1 DEF Along
<1> QED  BY <1>1, <1>10, <1>11 DEF Along, w

\* A page, or its beginning, appended.
LEMMA TakenOK ==
    ASSUME NEW l \in Seq(Nat), Synced(l), NEW q \in Seq(Nat), Increasing(q), Range(q) \subseteq Numbers,
           \A k \in DOMAIN q, t \in Numbers : t < q[k] => t \in Range(l) \/ t \in Range(q)
    PROVE  LET v == FoldLeft(AppendActivity, l, q)
           IN  v \in Seq(Nat) /\ Synced(v) /\ Range(v) = Range(l) \cup Range(q) /\ Len(v) >= Len(l)
<1>0. /\ Len(q) \in Nat /\ DOMAIN q = 1 .. Len(q) /\ \A k \in 1 .. Len(q) : q[k] \in Numbers /\ q[k] \in Nat
      /\ Len(l) \in Nat
  BY DEF Range
<1>1. PICK f : /\ FoldLeft(AppendActivity, l, q) = f[Len(q)] /\ f[0] = l
               /\ \A k \in 1 .. Len(q) : f[k] = AppendActivity(f[k - 1], q[k])
               /\ \A k \in 0 .. Len(q) : f[k] \in Seq(Nat)
  BY AppendSteps
<1> DEFINE R(k) == Range(l) \cup {q[i] : i \in 1 .. k}
           S == {k \in 0 .. Len(q) : Synced(f[k]) /\ Range(f[k]) = R(k) /\ Len(f[k]) >= Len(l)}
<1>2. 0 \in S
  BY <1>0, <1>1
<1>3. ASSUME NEW k \in 1 .. Len(q), k - 1 \in S PROVE k \in S
  <2> DEFINE u == f[k - 1]
             v == f[k]
  <2>1. /\ u \in Seq(Nat) /\ Synced(u) /\ Range(u) = R(k - 1) /\ Len(u) >= Len(l) /\ Len(u) \in Nat
        /\ v = AppendActivity(u, q[k]) /\ k \in 0 .. Len(q) /\ k \in Nat
    <3>1. k - 1 \in 0 .. Len(q) /\ k \in 0 .. Len(q) /\ k \in Nat
      BY <1>0
    <3>2. u \in Seq(Nat) /\ v = AppendActivity(u, q[k])
      BY <1>1, <3>1
    <3>3. Synced(u) /\ Range(u) = R(k - 1) /\ Len(u) >= Len(l)
      <4> HIDE DEF R
      <4> QED  BY <1>3
    <3>4. Len(u) \in Nat
      BY <3>2
    <3> QED  BY <3>1, <3>2, <3>3, <3>4
  <2>2. \A t \in Numbers : t < q[k] => t \in Range(u)
    <3> SUFFICES ASSUME NEW t \in Numbers, t < q[k], t \notin Range(l) PROVE t \in R(k - 1)
      BY <2>1
    <3>1. PICK i \in 1 .. Len(q) : t = q[i]
      BY <1>0 DEF Range
    <3>2. i < k
      <4> SUFFICES ASSUME i >= k PROVE FALSE
        BY <1>0
      <4>1. i = k \/ q[k] < q[i]
        BY <1>0 DEF Increasing
      <4> QED  BY <1>0, <3>1, <4>1
    <3>3. i \in 1 .. k - 1
      BY <1>0, <3>2
    <3> QED  BY <3>1, <3>3
  <2>3. R(k) = R(k - 1) \cup {q[k]}
    <3>1. \A i : i \in 1 .. k <=> i \in 1 .. k - 1 \/ i = k
      BY <2>1
    <3> QED  BY <3>1
  <2> HIDE DEF u, v, R
  <2>4. v \in Seq(Nat) /\ Synced(v) /\ Range(v) = Range(u) \cup {q[k]} /\ Len(v) >= Len(u) /\ Len(v) \in Nat
    <3>1. q[k] \in Numbers
      BY <1>0
    <3>2. v \in Seq(Nat) /\ Synced(v) /\ Range(v) = Range(u) \cup {q[k]} /\ Len(v) >= Len(u)
      BY <2>1, <2>2, <3>1, AppendOK
    <3> QED  BY <3>2
  <2>5. Len(v) >= Len(l) /\ Range(v) = R(k)
    BY <1>0, <2>1, <2>3, <2>4
  <2> QED  BY <2>1, <2>4, <2>5 DEF v
<1> HIDE DEF S
<1>4. \A k \in 0 .. Len(q) : k \in S
  BY <1>0, <1>2, <1>3, StepByStep
<1>5. Len(q) \in S
  BY <1>0, <1>4
<1>6. R(Len(q)) = Range(l) \cup Range(q)
  BY <1>0 DEF Range
<1> QED  BY <1>0, <1>1, <1>5, <1>6 DEF S

-----------------------------------------------------------------------------
\* Pages.
LEMMA MinOf ==
    ASSUME NEW s \in SUBSET Nat, s # {}
    PROVE  Min(s) \in s /\ \A y \in s : Min(s) <= y
<1>1. PICK x \in s : \A y \in s : x <= y
  BY LeastOf
<1> QED  BY <1>1 DEF Min

LEMMA Beginning ==
    ASSUME NEW q \in Seq(Nat), Increasing(q), NEW m \in 0 .. Len(q)
    PROVE  LET b == SubSeq(q, 1, m)
           IN  /\ b \in Seq(Nat) /\ Len(b) = m /\ Increasing(b) /\ Range(b) \subseteq Range(q)
               /\ \A i \in 1 .. m : b[i] = q[i]
               /\ \A x \in Range(b), y \in Range(q) : y < x => y \in Range(b)
               /\ m = Len(q) => b = q
<1> DEFINE b == SubSeq(q, 1, m)
<1>1. /\ Len(q) \in Nat /\ DOMAIN q = 1 .. Len(q) /\ m \in Nat /\ m <= Len(q)
      /\ \A i \in 1 .. Len(q) : q[i] \in Nat
  OBVIOUS
<1>2. /\ b \in Seq(Nat) /\ Len(b) = m /\ DOMAIN b = 1 .. m /\ \A i \in 1 .. m : b[i] = q[i] /\ i \in 1 .. Len(q)
  BY <1>1
<1> HIDE DEF b
<1>3. Increasing(b)
  BY <1>1, <1>2 DEF Increasing
<1>4. Range(b) \subseteq Range(q)
  BY <1>1, <1>2 DEF Range
<1>5. ASSUME NEW x \in Range(b), NEW y \in Range(q), y < x PROVE y \in Range(b)
  <2>1. PICK i \in 1 .. m : x = q[i]
    BY <1>2 DEF Range
  <2>2. PICK j \in 1 .. Len(q) : y = q[j]
    BY <1>1 DEF Range
  <2>3. j < i
    <3> SUFFICES ASSUME j >= i PROVE FALSE
      BY <1>1
    <3>1. j = i \/ i < j
      BY <1>1
    <3>2. i < j => q[i] < q[j]
      BY <1>1, <1>2 DEF Increasing
    <3> QED  BY <1>1, <1>2, <1>5, <2>1, <2>2, <3>1, <3>2
  <2>4. j \in 1 .. m
    BY <1>1, <2>3
  <2> QED  BY <1>2, <2>2, <2>4 DEF Range
<1>6. m = Len(q) => b = q
  BY <1>1, <1>2
<1> QED  BY <1>2, <1>3, <1>4, <1>5, <1>6 DEF b

LEMMA KeptOK ==
    ASSUME source \in Seq(Kinds), NEW after \in Nat
    PROVE  /\ Kept(after, Activity) \in Seq(Nat) /\ Increasing(Kept(after, Activity))
           /\ Range(Kept(after, Activity)) = {s \in Numbers : InWindow(after, s)}
<1> DEFINE A == Activity
           In(s) == InWindow(after, s)
<1>0. /\ A \in Seq(Nat) /\ Increasing(A) /\ Range(A) = Numbers /\ Len(A) \in Nat /\ DOMAIN A = 1 .. Len(A)
      /\ \A k \in 1 .. Len(A) : A[k] \in Nat
  BY ActivityIs
<1> HIDE DEF A
<1>1. PICK f : /\ Kept(after, A) = f[Len(A)] /\ f[0] = <<>>
               /\ \A k \in 1 .. Len(A) : f[k] = IF InWindow(after, A[k]) THEN Append(f[k - 1], A[k]) ELSE f[k - 1]
               /\ \A k \in 0 .. Len(A) : f[k] \in Seq(Nat)
  BY <1>0, KeptSteps
<1> HIDE DEF In
<1> DEFINE R(k) == {A[i] : i \in {j \in 1 .. k : In(A[j])}}
           S == {k \in 0 .. Len(A) : Increasing(f[k]) /\ Range(f[k]) = R(k)}
<1>2. 0 \in S
  BY <1>0, <1>1 DEF Increasing, Range
<1>3. ASSUME NEW k \in 1 .. Len(A), k - 1 \in S PROVE k \in S
  <2> DEFINE u == f[k - 1]
             v == f[k]
  <2>1. /\ u \in Seq(Nat) /\ Increasing(u) /\ Range(u) = R(k - 1) /\ k \in Nat /\ k \in 0 .. Len(A)
        /\ v = IF In(A[k]) THEN Append(u, A[k]) ELSE u
    <3>1. k - 1 \in 0 .. Len(A) /\ k \in 0 .. Len(A) /\ k \in Nat
      BY <1>0
    <3>2. u \in Seq(Nat) /\ v = IF In(A[k]) THEN Append(u, A[k]) ELSE u
      BY <1>1, <3>1 DEF In
    <3>3. Increasing(u) /\ Range(u) = R(k - 1)
      <4> HIDE DEF R
      <4> QED  BY <1>3
    <3> QED  BY <3>1, <3>2, <3>3
  <2>2. \A j : j \in 1 .. k <=> j \in 1 .. k - 1 \/ j = k
    BY <2>1
  <2>3. CASE ~In(A[k])
    <3>1. R(k) = R(k - 1)
      BY <2>2, <2>3
    <3> HIDE DEF R
    <3> QED  BY <2>1, <2>3, <3>1
  <2>4. CASE In(A[k])
    <3>1. R(k) = R(k - 1) \cup {A[k]}
      BY <2>2, <2>4
    <3>2. \A x \in R(k - 1) : x < A[k]
      <4> SUFFICES ASSUME NEW i \in 1 .. k - 1 PROVE A[i] < A[k]
        OBVIOUS
      <4>1. i \in 1 .. Len(A) /\ i < k
        BY <1>0, <2>1
      <4> QED  BY <1>0, <4>1 DEF Increasing
    <3> HIDE DEF R, u, v
    <3>3. v = Append(u, A[k]) /\ A[k] \in Nat
      BY <1>0, <2>1, <2>4
    <3>4. Range(v) = Range(u) \cup {A[k]} /\ Increasing(v)
      BY <2>1, <3>2, <3>3, AppendedRange
    <3> QED  BY <2>1, <3>1, <3>4 DEF v
  <2> QED  BY <2>3, <2>4
<1> HIDE DEF S
<1>4. \A k \in 0 .. Len(A) : k \in S
  BY <1>0, <1>2, <1>3, StepByStep
<1>5. Len(A) \in S
  BY <1>0, <1>4
<1>6. R(Len(A)) = {s \in Numbers : InWindow(after, s)}
  BY <1>0 DEF Range, In
<1> HIDE DEF R
<1> QED  BY <1>0, <1>1, <1>5, <1>6 DEF S, A

\* A page, after a number: nothing is left out in it.
Follows(p, after) ==
    /\ p \in Seq(Nat) /\ Increasing(p) /\ Range(p) \subseteq Numbers /\ \A x \in Range(p) : x > after
    /\ \A x \in Range(p), t \in Numbers : after < t /\ t < x => t \in Range(p)

LEMMA WindowIs ==
    ASSUME NEW after \in Nat, NEW t \in Numbers, after < t
    PROVE  /\ SourceAfter(after) \in Nat /\ SourceAfter(after) + 1 <= t \div 4 /\ t \div 4 <= Len(source)
           /\ after < 4 * (SourceAfter(after) + 2)
<1>1. t \in Nat /\ t \div 4 \in Nat /\ t \div 4 >= 1 /\ t \div 4 <= Len(source)
  BY DEF Numbers
<1>2. after \div 4 \in Nat /\ after < 4 * (after \div 4 + 1) /\ after \div 4 <= t \div 4
  BY <1>1
<1>3. CASE after \div 4 = 0
  <2>1. SourceAfter(after) = 0
    BY <1>3 DEF SourceAfter
  <2> QED  BY <1>1, <1>2, <1>3, <2>1
<1>4. CASE after \div 4 # 0
  <2>1. SourceAfter(after) = (after \div 4) - 1
    BY <1>4 DEF SourceAfter
  <2> QED  BY <1>1, <1>2, <1>4, <2>1
<1> QED  BY <1>3, <1>4

LEMMA PageOK ==
    ASSUME source \in Seq(Kinds), NEW after \in Nat
    PROVE  LET p == ListActivity(after)
           IN  /\ Follows(p, after) /\ Len(p) <= Batch
               /\ Len(p) # Batch => Range(p) = {s \in Numbers : InWindow(after, s)}
<1> DEFINE q == Kept(after, Activity)
           m == Min({Batch, Len(q)})
           p == SubSeq(q, 1, m)
<1>1. ListActivity(after) = p
  BY DEF ListActivity, Kept
<1>2. q \in Seq(Nat) /\ Increasing(q) /\ Range(q) = {s \in Numbers : InWindow(after, s)} /\ Len(q) \in Nat
  BY KeptOK
<1> HIDE DEF q
<1>3. m \in {Batch, Len(q)} /\ m <= Batch /\ m <= Len(q) /\ m \in 0 .. Len(q)
  <2>1. {Batch, Len(q)} \in SUBSET Nat /\ {Batch, Len(q)} # {}
    BY <1>2, IngestionAssumption
  <2>2. m \in {Batch, Len(q)} /\ \A y \in {Batch, Len(q)} : m <= y
    BY <2>1, MinOf
  <2> HIDE DEF m
  <2> QED  BY <1>2, <2>1, <2>2
<1> HIDE DEF m
<1>4. /\ p \in Seq(Nat) /\ Len(p) = m /\ Increasing(p) /\ Range(p) \subseteq Range(q)
      /\ \A x \in Range(p), y \in Range(q) : y < x => y \in Range(p)
      /\ m = Len(q) => p = q
  BY <1>2, <1>3, Beginning
<1> HIDE DEF p
<1>5. Range(p) \subseteq Numbers /\ \A x \in Range(p) : x > after /\ InWindow(after, x)
  BY <1>2, <1>4 DEF InWindow
<1>6. ASSUME NEW x \in Range(p), NEW t \in Numbers, after < t, t < x PROVE t \in Range(p)
  <2>1. x \in Numbers /\ x \in Nat /\ t \in Nat
        /\ x \div 4 \in (SourceAfter(after) + 1) .. (SourceAfter(after) + Window) /\ x \div 4 \in Nat
    BY <1>5 DEF Numbers, InWindow
  <2>2. SourceAfter(after) \in Nat /\ SourceAfter(after) + 1 <= t \div 4 /\ t \div 4 <= x \div 4 /\ t \div 4 \in Nat
    BY <1>6, <2>1, WindowIs
  <2>3. InWindow(after, t)
    <3>1. t \div 4 \in (SourceAfter(after) + 1) .. (SourceAfter(after) + Window)
      <4>1. Window \in Nat
        BY IngestionAssumption
      <4> QED  BY <2>1, <2>2, <4>1
    <3> QED  BY <1>6, <2>1, <3>1 DEF InWindow
  <2> QED  BY <1>2, <1>4, <1>6, <2>3
<1>7. Len(p) # Batch => Range(p) = {s \in Numbers : InWindow(after, s)}
  BY <1>2, <1>3, <1>4
<1> QED  BY <1>1, <1>3, <1>4, <1>5, <1>6, <1>7 DEF Follows

\* A page that is not full goes to the end of the log: of the events of a window that
\* project to nothing there are too few to keep a full page from being full.
Silent == {i \in 1 .. Len(source) : source[i] = "silent"}

LEMMA WholePage ==
    ASSUME source \in Seq(Kinds), Cardinality(Silent) <= MaxSilent, Batch + MaxSilent < Window,
           NEW after \in Nat, Len(ListActivity(after)) # Batch, NEW t \in Numbers, after < t
    PROVE  t \in Range(ListActivity(after))
<1> DEFINE p == ListActivity(after)
           from == SourceAfter(after)
           J == (from + 2) .. (from + Window)
           G == J \ Silent
<1> SUFFICES ASSUME t \notin Range(p) PROVE FALSE
  OBVIOUS
<1>0. Batch \in Nat /\ Window \in Nat /\ MaxSilent \in Nat /\ Len(source) \in Nat
  BY IngestionAssumption
<1>1. p \in Seq(Nat) /\ Len(p) < Batch /\ Len(p) \in Nat /\ Range(p) = {s \in Numbers : InWindow(after, s)}
  <2>1. p \in Seq(Nat) /\ Len(p) <= Batch /\ Len(p) # Batch /\ Range(p) = {s \in Numbers : InWindow(after, s)}
    BY PageOK DEF Follows
  <2> HIDE DEF p
  <2> QED  BY <1>0, <2>1
<1> HIDE DEF p
<1>2. /\ from \in Nat /\ from + 1 <= t \div 4 /\ t \div 4 <= Len(source) /\ after < 4 * (from + 2)
      /\ t \in Nat /\ t \div 4 \in Nat
  <2>1. t \in Nat /\ t \div 4 \in Nat
    BY <1>0 DEF Numbers
  <2>2. from \in Nat /\ from + 1 <= t \div 4 /\ t \div 4 <= Len(source) /\ after < 4 * (from + 2)
    BY WindowIs
  <2> QED  BY <2>1, <2>2
<1>3. from + Window < t \div 4
  <2>1. ~InWindow(after, t)
    BY <1>1
  <2>2. t \div 4 \notin (from + 1) .. (from + Window)
    BY <2>1 DEF InWindow
  <2> HIDE DEF from
  <2> QED  BY <1>0, <1>2, <2>2
<1> HIDE DEF from
<1>4. IsFiniteSet(J) /\ Cardinality(J) = Window - 1
  <2>1. from + 2 \in Int /\ from + Window \in Int /\ Window >= 1
    BY <1>0, <1>2
  <2>2. IsFiniteSet(J) /\ Cardinality(J) = IF from + 2 > from + Window THEN 0 ELSE (from + Window) - (from + 2) + 1
    BY <2>1, FS_Interval
  <2> HIDE DEF J
  <2> QED  BY <1>0, <1>2, <2>1, <2>2
<1>5. IsFiniteSet(Silent) /\ Cardinality(Silent) \in Nat
  <2>1. IsFiniteSet(1 .. Len(source))
    BY <1>0, FS_Interval
  <2>2. Silent \in SUBSET (1 .. Len(source))
    BY DEF Silent
  <2>3. IsFiniteSet(Silent)
    BY <2>1, <2>2, FS_Subset
  <2> QED  BY <2>3, FS_CardinalityType
<1>6. IsFiniteSet(G) /\ Cardinality(G) >= Batch /\ Cardinality(G) \in Nat
  <2> DEFINE K == J \cap Silent
  <2>1. IsFiniteSet(G) /\ Cardinality(G) = Cardinality(J) - Cardinality(K)
    <3> HIDE DEF J
    <3> QED  BY <1>4, FS_Difference
  <2>2. K \in SUBSET Silent
    OBVIOUS
  <2> HIDE DEF K
  <2>3. IsFiniteSet(K) /\ Cardinality(K) <= Cardinality(Silent)
    BY <1>5, <2>2, FS_Subset
  <2>4. Cardinality(K) \in Nat
    BY <2>3, FS_CardinalityType
  <2> HIDE DEF G, J
  <2>5. Cardinality(G) \in Nat
    BY <2>1, FS_CardinalityType
  <2> QED  BY <1>0, <1>4, <1>5, <2>1, <2>3, <2>4, <2>5
<1>7. ASSUME NEW j \in G PROVE 4 * j \in Range(p)
  <2>1. j \in Nat /\ from + 2 <= j /\ j <= from + Window /\ j \notin Silent
    BY <1>0, <1>2
  <2> HIDE DEF G, J
  <2>2. j \in 1 .. Len(source) /\ source[j] # "silent"
    <3>1. j \in 1 .. Len(source)
      BY <1>0, <1>2, <1>3, <2>1
    <3> QED  BY <2>1, <3>1 DEF Silent
  <2>3. 4 * j \in Nat /\ (4 * j) \div 4 = j /\ (4 * j) % 4 = 0 /\ after < 4 * j
    BY <1>2, <2>1
  <2>4. 4 * j \in Numbers
    BY <2>2, <2>3 DEF Numbers
  <2>5. j \in (from + 1) .. (from + Window)
    BY <1>0, <1>2, <2>1
  <2>6. InWindow(after, 4 * j)
    BY <2>3, <2>5 DEF InWindow, from
  <2> QED  BY <1>1, <2>4, <2>6
<1> DEFINE f == [j \in G |-> CHOOSE k \in 1 .. Len(p) : p[k] = 4 * j]
<1>8. \A j \in G : j \in Nat
  BY <1>0, <1>2
<1> HIDE DEF G
<1>9. ASSUME NEW j \in G PROVE f[j] \in 1 .. Len(p) /\ p[f[j]] = 4 * j
  <2>1. DOMAIN p = 1 .. Len(p) /\ 4 * j \in Range(p)
    BY <1>1, <1>7
  <2>2. \E k \in 1 .. Len(p) : p[k] = 4 * j
    BY <2>1 DEF Range
  <2> QED  BY <2>2
<1>10. f \in [G -> 1 .. Len(p)]
  BY <1>9
<1> HIDE DEF f
<1>11. f \in Injection(G, 1 .. Len(p))
  <2>1. ASSUME NEW a \in G, NEW b \in G, f[a] = f[b] PROVE a = b
    <3>1. 4 * a = 4 * b
      BY <1>9, <2>1
    <3> QED  BY <1>8, <3>1
  <2> QED  BY <1>10, <2>1 DEF Injection, IsInjective
<1>12. IsFiniteSet(1 .. Len(p)) /\ Cardinality(1 .. Len(p)) = Len(p)
  <2>1. 1 \in Int /\ Len(p) \in Int
    BY <1>1
  <2>2. IsFiniteSet(1 .. Len(p)) /\ Cardinality(1 .. Len(p)) = IF 1 > Len(p) THEN 0 ELSE Len(p) - 1 + 1
    BY <2>1, FS_Interval
  <2> QED  BY <1>1, <2>2
<1>13. Cardinality(G) <= Len(p)
  BY <1>11, <1>12, FS_Injection
<1> QED  BY <1>0, <1>1, <1>6, <1>13

-----------------------------------------------------------------------------
(***************************************************************************)
(* The invariant of the ingestion.  The context's log has the task's        *)
(* activity up to some number; a page follows the cursor it was asked with;  *)
(* the stream carries, after its snapshot, all that has come since it was    *)
(* opened; and from the second reading of the log on, what is not ingested   *)
(* is in the page or in the stream.                                          *)
(***************************************************************************)
StreamFrame == [kind : {"snapshot", "event"}, seq : Nat, over : BOOLEAN]
Ingestion == [at : At, bridging : BOOLEAN, answered : BOOLEAN, page : Seq(Nat), after : Nat,
              over : BOOLEAN, stopAfterCatchUp : BOOLEAN, aborted : BOOLEAN,
              connected : BOOLEAN, wire : Seq(StreamFrame)]

InWire(w) == {w[k].seq : k \in {j \in DOMAIN w : w[j].kind = "event"}}
OnlyEvents(w) == \A k \in DOMAIN w : w[k].kind = "event"
WireOK(w) ==
    /\ InWire(w) \subseteq Numbers
    /\ \A j, k \in DOMAIN w : j < k => /\ w[k].kind = "event"
                                       /\ w[j].kind = "event" => w[j].seq < w[k].seq
    /\ \A x \in InWire(w), t \in Numbers : x < t => t \in InWire(w)

IngOK(i, l) ==
    /\ i \in Ingestion
    /\ i.at = "catching" => i.after = 0 \/ i.after \in Range(l)
    /\ i.answered \/ i.bridging => i.at = "catching"
    /\ i.answered => Follows(i.page, i.after)
    /\ i.at = "reading" \/ i.bridging => i.connected
    /\ i.connected => WireOK(i.wire)
    /\ i.bridging => OnlyEvents(i.wire)
    /\ i.at = "reading" /\ OnlyEvents(i.wire) => Numbers \subseteq Range(l) \cup InWire(i.wire)
    /\ i.bridging /\ i.answered /\ Len(i.page) # Batch
          => \A t \in Numbers : i.after < t => t \in Range(i.page) \cup InWire(i.wire)

SourceOK == source \in Seq(Kinds) /\ Len(source) <= MaxTaskEvents /\ Cardinality(Silent) <= MaxSilent
IngestInv == SourceOK /\ ingested \in Seq(Nat) /\ Synced(ingested) /\ IngOK(ing, ingested)

\* While the task produces nothing it is the log and the ingestion that count.
LEMMA StillInv ==
    ASSUME SourceOK, source' = source, ingested' \in Seq(Nat), Synced(ingested'), IngOK(ing', ingested')
    PROVE  IngestInv'
<1>1. SourceOK'
  BY DEF SourceOK, Silent
<1>2. Synced(ingested)'
  BY DEF Synced, Numbers, Increasing
<1>3. IngOK(ing, ingested)'
  BY DEF IngOK, Numbers, Follows, WireOK, OnlyEvents, InWire, Increasing
<1> QED  BY <1>1, <1>2, <1>3 DEF IngestInv

LEMMA InitialIngestion == IngestionInit => IngestInv
<1> SUFFICES ASSUME IngestionInit PROVE IngestInv
  OBVIOUS
<1>1. Silent = {}
  BY DEF IngestionInit, Silent
<1>2. SourceOK
  BY <1>1, FS_EmptySet, IngestionAssumption DEF IngestionInit, SourceOK
<1>3. ingested \in Seq(Nat) /\ Synced(ingested)
  BY DEF IngestionInit, Synced, Increasing, Range
<1>4. IngOK(ing, ingested)
  BY DEF IngestionInit, Off, IngOK, Ingestion, At
<1> QED  BY <1>2, <1>3, <1>4 DEF IngestInv

LEMMA OffOK == ASSUME NEW l PROVE IngOK(Off, l)
  BY DEF Off, IngOK, Ingestion, At

LEMMA CursorIs ==
    ASSUME NEW l \in Seq(Nat), Increasing(l)
    PROVE  Cursor(l) \in Nat /\ (Cursor(l) = 0 \/ Cursor(l) \in Range(l))
<1>1. CASE l = <<>>
  BY <1>1 DEF Cursor
<1>2. CASE l # <<>>
  <2> DEFINE n == Len(l)
  <2>1. n \in Nat /\ n \in 1 .. n /\ DOMAIN l = 1 .. n /\ \A k \in 1 .. n : l[k] \in Nat
    BY <1>2
  <2> HIDE DEF n
  <2>2. l[n] \in Range(l) /\ \A y \in Range(l) : l[n] >= y
    <3>1. \A k \in 1 .. n : k = n \/ k < n
      BY <2>1
    <3> QED  BY <2>1, <3>1 DEF Range, Increasing
  <2>3. Max(Range(l)) \in Range(l)
    BY <2>2 DEF Max
  <2>4. Range(l) \subseteq Nat
    BY <2>1 DEF Range
  <2> QED  BY <1>2, <2>3, <2>4 DEF Cursor
<1> QED  BY <1>1, <1>2

\* catchUp begins after what is ingested, whatever the stream holds.
LEMMA CatchingOK ==
    ASSUME ingested \in Seq(Nat), Synced(ingested), NEW i \in Ingestion,
           i.bridging => i.connected /\ OnlyEvents(i.wire), i.connected => WireOK(i.wire)
    PROVE  IngOK(CatchingUp(i), ingested)
<1> DEFINE c == CatchingUp(i)
<1>1. Cursor(ingested) \in Nat /\ (Cursor(ingested) = 0 \/ Cursor(ingested) \in Range(ingested))
  BY CursorIs DEF Synced
<1>2. /\ c \in Ingestion /\ c.at = "catching" /\ c.answered = FALSE /\ c.after = Cursor(ingested)
      /\ c.bridging = i.bridging /\ c.connected = i.connected /\ c.wire = i.wire
  <2> DEFINE n == Cursor(ingested)
  <2>1. c = [i EXCEPT !.at = "catching", !.answered = FALSE, !.page = <<>>, !.after = n]
    BY DEF CatchingUp
  <2>2. "catching" \in At /\ n \in Nat /\ <<>> \in Seq(Nat) /\ FALSE \in BOOLEAN
    BY <1>1 DEF At
  <2> HIDE DEF c, n
  <2>3. c \in Ingestion
    BY <2>1, <2>2 DEF Ingestion
  <2> QED  BY <2>1, <2>3 DEF Ingestion, n
<1> HIDE DEF c
<1>3. IngOK(c, ingested)
  BY <1>1, <1>2 DEF IngOK
<1> QED  BY <1>3 DEF c

LEMMA FlagOK ==
    ASSUME NEW l, NEW i, IngOK(i, l)
    PROVE  IngOK([i EXCEPT !.stopAfterCatchUp = TRUE], l) /\ IngOK([i EXCEPT !.aborted = TRUE], l)
<1> DEFINE s == [i EXCEPT !.stopAfterCatchUp = TRUE]
           a == [i EXCEPT !.aborted = TRUE]
<1>1. i \in Ingestion
  BY DEF IngOK
<1>2. /\ s \in Ingestion /\ s.at = i.at /\ s.answered = i.answered /\ s.after = i.after /\ s.page = i.page
      /\ s.bridging = i.bridging /\ s.connected = i.connected /\ s.wire = i.wire
  BY <1>1 DEF Ingestion
<1>3. /\ a \in Ingestion /\ a.at = i.at /\ a.answered = i.answered /\ a.after = i.after /\ a.page = i.page
      /\ a.bridging = i.bridging /\ a.connected = i.connected /\ a.wire = i.wire
  BY <1>1 DEF Ingestion
<1> HIDE DEF a, s
<1>4. IngOK(s, l)
  BY <1>2 DEF IngOK
<1>5. IngOK(a, l)
  BY <1>3 DEF IngOK
<1> QED  BY <1>4, <1>5 DEF a, s

\* Only the frame of a snapshot is not an event, and it comes first.
LEMMA WireTail ==
    ASSUME NEW w \in Seq(StreamFrame), w # <<>>, WireOK(w)
    PROVE  /\ Tail(w) \in Seq(StreamFrame) /\ WireOK(Tail(w)) /\ OnlyEvents(Tail(w)) /\ Head(w) \in StreamFrame
           /\ Head(w).kind = "event" =>
                 /\ Head(w).seq \in Numbers /\ OnlyEvents(w)
                 /\ InWire(w) = {Head(w).seq} \cup InWire(Tail(w))
                 /\ \A x \in InWire(w) : Head(w).seq <= x
<1> DEFINE n == Len(w)
           v == Tail(w)
<1>0. /\ n \in Nat /\ DOMAIN w = 1 .. n /\ 1 \in 1 .. n /\ v \in Seq(StreamFrame) /\ DOMAIN v = 1 .. n - 1
      /\ Head(w) = w[1] /\ \A k \in 1 .. n - 1 : v[k] = w[k + 1] /\ k + 1 \in 1 .. n /\ 1 < k + 1
      /\ \A k \in 1 .. n : w[k] \in StreamFrame
  OBVIOUS
<1>1. ASSUME NEW k \in 1 .. n PROVE k = 1 \/ (k - 1 \in 1 .. n - 1 /\ v[k - 1] = w[k])
  <2>1. CASE k # 1
    <3>1. k - 1 \in 1 .. n - 1 /\ (k - 1) + 1 = k
      BY <1>0, <2>1
    <3> QED  BY <1>0, <3>1
  <2> QED  BY <2>1
<1> HIDE DEF n, v
<1>w. \A j, k \in 1 .. n : j < k => w[k].kind = "event" /\ (w[j].kind = "event" => w[j].seq < w[k].seq)
  BY <1>0 DEF WireOK
<1>2. OnlyEvents(v)
  <2> SUFFICES ASSUME NEW k \in 1 .. n - 1 PROVE v[k].kind = "event"
    BY <1>0 DEF OnlyEvents
  <2>1. v[k] = w[k + 1] /\ k + 1 \in 1 .. n /\ 1 < k + 1
    BY <1>0
  <2> QED  BY <1>0, <1>w, <2>1
<1>3. InWire(v) \subseteq InWire(w)
  BY <1>0 DEF InWire
<1>4. InWire(w) \subseteq {w[1].seq} \cup InWire(v)
  <2> SUFFICES ASSUME NEW k \in 1 .. n, w[k].kind = "event", k # 1 PROVE w[k].seq \in InWire(v)
    BY <1>0 DEF InWire
  <2> QED  BY <1>0, <1>1 DEF InWire
<1>5. \A x \in InWire(v) : w[1].kind = "event" => w[1].seq < x
  <2> SUFFICES ASSUME NEW k \in 1 .. n - 1, w[1].kind = "event" PROVE w[1].seq < v[k].seq
    BY <1>0 DEF InWire
  <2>1. v[k] = w[k + 1] /\ k + 1 \in 1 .. n /\ 1 < k + 1
    BY <1>0
  <2> QED  BY <1>0, <1>w, <2>1
<1>6. \A j, k \in 1 .. n - 1 : j < k => j + 1 < k + 1
  BY <1>0
<1>7. \A j, k \in DOMAIN v : j < k => v[k].kind = "event" /\ (v[j].kind = "event" => v[j].seq < v[k].seq)
  <2> SUFFICES ASSUME NEW j \in 1 .. n - 1, NEW k \in 1 .. n - 1, j < k
               PROVE  v[k].kind = "event" /\ (v[j].kind = "event" => v[j].seq < v[k].seq)
    BY <1>0
  <2>1. v[k] = w[k + 1] /\ k + 1 \in 1 .. n /\ v[j] = w[j + 1] /\ j + 1 \in 1 .. n
    BY <1>0
  <2>2. j + 1 < k + 1
    BY <1>6
  <2> QED  BY <1>w, <2>1, <2>2
<1>8. InWire(w) \subseteq Nat /\ Numbers \subseteq Nat
  BY DEF WireOK, Numbers
<1>9. ASSUME NEW x \in InWire(v), NEW t \in Numbers, x < t PROVE t \in InWire(v)
  <2>1. t \in InWire(w)
    BY <1>3, <1>9 DEF WireOK
  <2>2. CASE t = w[1].seq /\ w[1].kind = "event"
    BY <1>3, <1>5, <1>8, <1>9, <2>2
  <2>3. CASE w[1].kind # "event"
    <3>1. PICK k \in 1 .. n : w[k].kind = "event" /\ t = w[k].seq
      BY <1>0, <2>1 DEF InWire
    <3> QED  BY <1>0, <1>1, <2>3, <3>1 DEF InWire
  <2> QED  BY <1>4, <2>1, <2>2, <2>3
<1>10. WireOK(v)
  BY <1>3, <1>7, <1>9 DEF WireOK
<1>11. ASSUME w[1].kind = "event"
       PROVE  /\ w[1].seq \in Numbers /\ OnlyEvents(w) /\ InWire(w) = {w[1].seq} \cup InWire(v)
              /\ \A x \in InWire(w) : w[1].seq <= x
  <2>1. w[1].seq \in InWire(w)
    BY <1>0, <1>11 DEF InWire
  <2>2. OnlyEvents(w)
    <3>1. \A k \in 1 .. n : k = 1 \/ 1 < k
      BY <1>0
    <3> QED  BY <1>0, <1>11, <3>1 DEF OnlyEvents, WireOK
  <2>3. w[1].seq \in Nat /\ w[1].seq \in Numbers
    BY <1>8, <2>1 DEF WireOK
  <2> QED  BY <1>3, <1>4, <1>5, <1>8, <1>11, <2>1, <2>2, <2>3
<1> QED  BY <1>0, <1>2, <1>10, <1>11 DEF v

-----------------------------------------------------------------------------
(***************************************************************************)
(* The steps of the ingester and of the coordinator.                        *)
(***************************************************************************)
Advances == source' = source /\ ingested' \in Seq(Nat) /\ Len(ingested') >= Len(ingested)

LEMMA CoordinatorKeeps ==
    ASSUME IngestInv, AskTask \/ TaskAnswers \/ Reconcile \/ Settle \/ Close \/ Restart
    PROVE  IngestInv' /\ Advances
<1>1. source' = source /\ ingested' = ingested
  BY DEF AskTask, TaskAnswers, Reconcile, Settle, Close, Restart
<1>2. SourceOK /\ ingested \in Seq(Nat) /\ Synced(ingested) /\ IngOK(ing, ingested) /\ ing \in Ingestion
  BY DEF IngestInv, IngOK
<1>3. IngOK(StartedTask, ingested)
  <2>1. CASE ing.at = "off"
    <3>1. Off \in Ingestion /\ Off.bridging = FALSE /\ Off.connected = FALSE
      BY DEF Off, Ingestion, At
    <3> QED  BY <1>2, <2>1, <3>1, CatchingOK DEF StartedTask
  <2>2. CASE ing.at # "off"
    BY <1>2, <2>2 DEF StartedTask
  <2> QED  BY <2>1, <2>2
<1>4. IngOK(StoppedTask(ing), ingested) /\ IngOK(StoppedTask(StartedTask), ingested)
  BY <1>2, <1>3, FlagOK DEF StoppedTask
<1>5. IngOK(ing', ingested)
  <2>1. CASE AskTask \/ TaskAnswers \/ Settle
    BY <1>2, <2>1 DEF AskTask, TaskAnswers, Settle
  <2>2. CASE Reconcile
    BY <1>3, <1>4, <2>2 DEF Reconcile, CallIngester
  <2>3. CASE Close
    BY <1>2, <2>3, FlagOK DEF Close
  <2>4. CASE Restart
    BY <2>4, OffOK DEF Restart
  <2> QED  BY <2>1, <2>2, <2>3, <2>4
<1>6. Len(ingested) \in Nat
  BY <1>2
<1>7. IngestInv'
  BY <1>1, <1>2, <1>5, StillInv
<1> QED  BY <1>1, <1>2, <1>6, <1>7 DEF Advances

LEMMA RequestsKeep ==
    ASSUME IngestInv, Batch + MaxSilent < Window,
           ListTaskActivity \/ StreamTaskActivity \/ RequestFails \/ RequestRefused \/ RetryIngestion \/ AbortEnds
    PROVE  IngestInv' /\ Advances
<1>1. source' = source /\ ingested' = ingested
  BY DEF ListTaskActivity, StreamTaskActivity, RequestFails, RequestRefused, RetryIngestion, AbortEnds
<1>2. SourceOK /\ ingested \in Seq(Nat) /\ Synced(ingested) /\ IngOK(ing, ingested) /\ ing \in Ingestion
  BY DEF IngestInv, IngOK
<1>3. ASSUME ListTaskActivity PROVE IngOK(ing', ingested)
  <2> DEFINE p == ListActivity(ing.after)
             j == ing'
  <2>1. ing.after \in Nat
    BY <1>2 DEF Ingestion
  <2>2. Follows(p, ing.after) /\ p \in Seq(Nat)
    BY <1>2, <2>1, PageOK DEF SourceOK, Follows
  <2>3. Len(p) # Batch => \A t \in Numbers : ing.after < t => t \in Range(p)
    BY <1>2, <2>1, WholePage DEF SourceOK
  <2> HIDE DEF p
  <2>4. ing.at = "catching" /\ j = [ing EXCEPT !.answered = TRUE, !.page = p]
    BY <1>3 DEF ListTaskActivity, p
  <2>5. /\ j \in Ingestion /\ j.at = ing.at /\ j.answered = TRUE /\ j.after = ing.after /\ j.page = p
        /\ j.bridging = ing.bridging /\ j.connected = ing.connected /\ j.wire = ing.wire
    BY <1>2, <2>2, <2>4 DEF Ingestion
  <2> HIDE DEF j
  <2>6. IngOK(j, ingested)
    BY <1>2, <2>2, <2>3, <2>4, <2>5 DEF IngOK
  <2> QED  BY <2>6 DEF j
<1>4. ASSUME StreamTaskActivity PROVE IngOK(ing', ingested)
  <2> DEFINE j == ing'
             w == <<ActivitySnapshot>>
  <2>1. ing.at = "connecting" /\ j = [ing EXCEPT !.at = "reading", !.connected = TRUE, !.wire = w]
    BY <1>4 DEF StreamTaskActivity
  <2>2. w \in Seq(StreamFrame) /\ DOMAIN w = {1} /\ w[1].kind = "snapshot" /\ ActivitySnapshot \in StreamFrame
    BY DEF ActivitySnapshot, StreamFrame, StreamEnded
  <2> HIDE DEF w
  <2>3. ~OnlyEvents(w) /\ InWire(w) = {} /\ WireOK(w)
    BY <2>2 DEF OnlyEvents, InWire, WireOK
  <2>4. /\ j \in Ingestion /\ j.at = "reading" /\ j.answered = ing.answered /\ j.after = ing.after
        /\ j.bridging = ing.bridging /\ j.connected = TRUE /\ j.wire = w
    BY <1>2, <2>1, <2>2 DEF Ingestion, At
  <2>5. ing.answered = FALSE /\ ing.bridging = FALSE
    BY <1>2, <2>1 DEF IngOK, Ingestion
  <2> HIDE DEF j
  <2>6. IngOK(j, ingested)
    BY <2>3, <2>4, <2>5 DEF IngOK
  <2> QED  BY <2>6 DEF j
<1>5. ASSUME RequestFails PROVE IngOK(ing', ingested)
  <2> DEFINE j == ing'
  <2>1. j = [Disconnected(ing) EXCEPT !.at = "waiting", !.answered = FALSE, !.page = <<>>]
    BY <1>5 DEF RequestFails
  <2>2. /\ j \in Ingestion /\ j.at = "waiting" /\ j.answered = FALSE /\ j.bridging = FALSE /\ j.connected = FALSE
    <3> DEFINE d == Disconnected(ing)
    <3>1. d \in Ingestion /\ d.bridging = FALSE /\ d.connected = FALSE
      <4>1. <<>> \in Seq(StreamFrame)
        OBVIOUS
      <4>2. d = [ing EXCEPT !.connected = FALSE, !.wire = <<>>, !.bridging = FALSE]
        BY DEF Disconnected
      <4> HIDE DEF d
      <4> QED  BY <1>2, <4>1, <4>2 DEF Ingestion
    <3> HIDE DEF d
    <3>2. j = [d EXCEPT !.at = "waiting", !.answered = FALSE, !.page = <<>>]
      BY <2>1 DEF d
    <3> HIDE DEF j
    <3>3. <<>> \in Seq(Nat) /\ "waiting" \in At
      BY DEF At
    <3> QED  BY <3>1, <3>2, <3>3 DEF Ingestion
  <2> HIDE DEF j
  <2>3. IngOK(j, ingested)
    BY <2>2 DEF IngOK
  <2> QED  BY <2>3 DEF j
<1>6. ASSUME RequestRefused \/ AbortEnds PROVE IngOK(ing', ingested)
  BY <1>6, OffOK DEF RequestRefused, AbortEnds
<1>7. ASSUME RetryIngestion PROVE IngOK(ing', ingested)
  <2>1. IngOK(CatchingUp(ing), ingested)
    BY <1>2, CatchingOK DEF IngOK
  <2> QED  BY <1>7, <2>1 DEF RetryIngestion
<1>8. IngOK(ing', ingested)
  BY <1>3, <1>4, <1>5, <1>6, <1>7
<1>9. Len(ingested) \in Nat
  BY <1>2
<1>10. IngestInv'
  BY <1>1, <1>2, <1>8, StillInv
<1> QED  BY <1>1, <1>2, <1>9, <1>10 DEF Advances

LEMMA DispatchKeeps == ASSUME IngestInv, DispatchFrame PROVE IngestInv' /\ Advances
<1> DEFINE w == ing.wire
           v == Tail(ing.wire)
           frame == Head(ing.wire)
           j == [ing EXCEPT !.wire = v]
<1>1. SourceOK /\ ingested \in Seq(Nat) /\ Synced(ingested) /\ IngOK(ing, ingested) /\ ing \in Ingestion
  BY DEF IngestInv, IngOK
<1>2. /\ ing.at = "reading" /\ w # <<>> /\ w \in Seq(StreamFrame) /\ source' = source /\ WireOK(w)
      /\ ing.answered = FALSE /\ ing.bridging = FALSE /\ Len(ingested) \in Nat /\ ing.connected
  BY <1>1 DEF DispatchFrame, IngOK, Ingestion
<1>3. /\ v \in Seq(StreamFrame) /\ WireOK(v) /\ OnlyEvents(v) /\ frame \in StreamFrame
      /\ frame.kind = "event" =>
            /\ frame.seq \in Numbers /\ OnlyEvents(w) /\ InWire(w) = {frame.seq} \cup InWire(v)
            /\ \A x \in InWire(w) : frame.seq <= x
  BY <1>2, WireTail
<1> HIDE DEF w, v, frame
<1>4. /\ j \in Ingestion /\ j.at = "reading" /\ j.answered = FALSE /\ j.bridging = ing.bridging
      /\ j.connected = ing.connected /\ j.wire = v
  BY <1>1, <1>2, <1>3 DEF Ingestion
<1>5. CASE frame.kind = "snapshot"
  <2>1. ingested' = ingested /\ ing' = IF ing.aborted THEN Off ELSE OnSnapshot(frame)
    BY <1>5 DEF DispatchFrame, frame
  <2> DEFINE c == [ing EXCEPT !.bridging = TRUE, !.over = frame.over, !.wire = v]
             k == OnSnapshot(frame)
  <2>2. c \in Ingestion /\ c.bridging = TRUE /\ c.connected = ing.connected /\ c.wire = v
    BY <1>1, <1>3 DEF Ingestion, StreamFrame
  <2>3. k = CatchingUp(c)
    BY <1>1 DEF OnSnapshot, CatchingUp, Ingestion, v
  <2> HIDE DEF c
  <2>4. IngOK(CatchingUp(c), ingested)
    BY <1>1, <1>2, <1>3, <2>2, CatchingOK
  <2>5. IngOK(ing', ingested)
    BY <2>1, <2>3, <2>4, OffOK
  <2>6. IngestInv'
    BY <1>1, <1>2, <2>1, <2>5, StillInv
  <2> QED  BY <1>1, <1>2, <2>1, <2>6 DEF Advances
<1>6. CASE frame.kind = "event"
  <2> DEFINE l == AppendActivity(ingested, frame.seq)
  <2>1. ingested' = l /\ (ing' = Off \/ ing' = j)
    BY <1>6 DEF DispatchFrame, frame, v
  <2>2. Numbers \subseteq Range(ingested) \cup InWire(w) /\ Numbers \subseteq Nat
    BY <1>1, <1>2, <1>3, <1>6 DEF IngOK, Numbers, w
  <2>3. \A t \in Numbers : t < frame.seq => t \in Range(ingested)
    <3> SUFFICES ASSUME NEW t \in Numbers, t < frame.seq, t \in InWire(w) PROVE FALSE
      BY <2>2
    <3>1. frame.seq <= t /\ frame.seq \in Nat /\ t \in Nat
      BY <1>3, <1>6, <2>2
    <3> QED  BY <3>1
  <2>4. l \in Seq(Nat) /\ Synced(l) /\ Range(l) = Range(ingested) \cup {frame.seq} /\ Len(l) >= Len(ingested)
    BY <1>1, <1>3, <1>6, <2>3, AppendOK
  <2> HIDE DEF l
  <2>5. Numbers \subseteq Range(l) \cup InWire(v)
    BY <1>3, <1>6, <2>2, <2>4
  <2> HIDE DEF j
  <2>6. IngOK(j, l)
    BY <1>2, <1>3, <1>4, <2>5 DEF IngOK
  <2>7. IngOK(ing', l)
    BY <2>1, <2>6, OffOK
  <2>8. IngestInv'
    BY <1>1, <1>2, <2>1, <2>4, <2>7, StillInv
  <2> QED  BY <1>2, <2>1, <2>4, <2>8 DEF Advances
<1> QED  BY <1>3, <1>5, <1>6 DEF StreamFrame

\* What is taken of a page is its beginning, and all of it unless it ends the stream.
LEMMA TakenIs ==
    ASSUME NEW p \in Seq(Nat), Increasing(p)
    PROVE  LET b == Taken(p)
           IN  /\ b \in Seq(Nat) /\ Increasing(b) /\ Range(b) \subseteq Range(p)
               /\ \A x \in Range(b), y \in Range(p) : y < x => y \in Range(b)
               /\ b = p \/ (b # <<>> /\ IsTerminal(Last(b)))
<1> DEFINE ends == {k \in 1 .. Len(p) : IsTerminal(p[k])}
           m == Min(ends)
           b == SubSeq(p, 1, m)
<1>1. CASE ends = {}
  <2>1. Taken(p) = p
    BY <1>1 DEF Taken
  <2> QED  BY <2>1
<1>2. CASE ends # {}
  <2>1. Taken(p) = b
    BY <1>2 DEF Taken
  <2>2. ends \in SUBSET Nat /\ ends \subseteq 1 .. Len(p) /\ \A k \in ends : IsTerminal(p[k])
    OBVIOUS
  <2> HIDE DEF ends
  <2>3. m \in ends
    BY <1>2, <2>2, MinOf
  <2>4. m \in 0 .. Len(p) /\ m \in 1 .. m /\ m \in Nat
    <3>1. Len(p) \in Nat
      OBVIOUS
    <3> HIDE DEF m
    <3>2. m \in 1 .. Len(p)
      BY <2>2, <2>3
    <3> QED  BY <3>1, <3>2
  <2>5. IsTerminal(p[m])
    BY <2>2, <2>3
  <2> HIDE DEF m
  <2>6. /\ b \in Seq(Nat) /\ Len(b) = m /\ Increasing(b) /\ Range(b) \subseteq Range(p)
        /\ \A i \in 1 .. m : b[i] = p[i]
        /\ \A x \in Range(b), y \in Range(p) : y < x => y \in Range(b)
    BY <2>4, Beginning
  <2> HIDE DEF b
  <2>7. b # <<>> /\ Last(b) = p[m]
    BY <2>4, <2>6 DEF Last
  <2> QED  BY <2>1, <2>5, <2>6, <2>7
<1> QED  BY <1>1, <1>2

LEMMA TakePageKeeps == ASSUME IngestInv, TakePage PROVE IngestInv' /\ Advances
<1> DEFINE p == ing.page
           b == Taken(ing.page)
           l == ingested
           v == FoldLeft(AppendActivity, ingested, Taken(ing.page))
           next == [ing EXCEPT !.answered = FALSE, !.page = <<>>, !.after = Last(b)]
           on == [ing EXCEPT !.at = IF ing.bridging THEN "reading" ELSE "connecting",
                             !.bridging = FALSE, !.answered = FALSE, !.page = <<>>]
<1>1. /\ SourceOK /\ l \in Seq(Nat) /\ Synced(l) /\ IngOK(ing, l) /\ ing \in Ingestion /\ source' = source
      /\ Numbers \subseteq Nat /\ Batch \in Nat \ {0}
  BY IngestionAssumption DEF IngestInv, IngOK, TakePage, Numbers
<1>2. /\ ing.at = "catching" /\ Follows(p, ing.after) /\ p \in Seq(Nat) /\ Increasing(p) /\ ing.after \in Nat
      /\ Range(p) \subseteq Numbers /\ ing.answered /\ (ing.after = 0 \/ ing.after \in Range(l))
  BY <1>1 DEF TakePage, IngOK, Follows, Ingestion
<1>3. /\ ingested' = v
      /\ \/ ing' = next /\ Len(p) = Batch /\ ~(b # <<>> /\ IsTerminal(Last(b)))
         \/ ing' = Off
         \/ ing' = on /\ Len(p) # Batch /\ ~(b # <<>> /\ IsTerminal(Last(b)))
  BY DEF TakePage, AnotherPage
<1>4. /\ b \in Seq(Nat) /\ Increasing(b) /\ Range(b) \subseteq Range(p)
      /\ \A x \in Range(b), y \in Range(p) : y < x => y \in Range(b)
      /\ b = p \/ (b # <<>> /\ IsTerminal(Last(b)))
  BY <1>2, TakenIs
<1>5. \A t \in Numbers : ~(ing.after < t) => t \in Range(l)
  <2> SUFFICES ASSUME NEW t \in Numbers, ~(ing.after < t) PROVE t \in Range(l)
    OBVIOUS
  <2>1. t \in Nat /\ t # 0
    BY <1>1 DEF Numbers
  <2>2. ing.after \in Range(l) /\ (t = ing.after \/ t < ing.after)
    BY <1>2, <2>1
  <2> QED  BY <1>1, <2>2 DEF Synced
<1> HIDE DEF b
<1>6. v \in Seq(Nat) /\ Synced(v) /\ Range(v) = Range(l) \cup Range(b) /\ Len(v) >= Len(l)
  <2>1. ASSUME NEW k \in DOMAIN b, NEW t \in Numbers, t < b[k] PROVE t \in Range(l) \/ t \in Range(b)
    <3>1. b[k] \in Range(b) /\ b[k] \in Range(p)
      BY <1>4 DEF Range
    <3>2. ing.after < t => t \in Range(p)
      BY <1>2, <2>1, <3>1 DEF Follows
    <3> QED  BY <1>4, <1>5, <2>1, <3>1, <3>2
  <2>2. Range(b) \subseteq Numbers
    BY <1>2, <1>4
  <2>3. v = FoldLeft(AppendActivity, l, b)
    BY DEF b
  <2> HIDE DEF v
  <2> QED  BY <1>1, <1>4, <2>1, <2>2, <2>3, TakenOK
<1> HIDE DEF v, p, l
<1>7. ASSUME ing' = next, Len(p) = Batch, b = p PROVE IngOK(ing', v)
  <2>1. Last(b) \in Range(b) /\ Last(b) \in Nat
    <3>1. Len(b) \in 1 .. Len(b) /\ DOMAIN b = 1 .. Len(b) /\ Last(b) = b[Len(b)]
      BY <1>1, <1>4, <1>7 DEF Last
    <3> QED  BY <1>4, <3>1 DEF Range
  <2> DEFINE a == Last(b)
             j == next
  <2>2. /\ j \in Ingestion /\ j.at = "catching" /\ j.answered = FALSE /\ j.after = a
        /\ j.bridging = ing.bridging /\ j.connected = ing.connected /\ j.wire = ing.wire
    <3>1. <<>> \in Seq(Nat) /\ a \in Nat
      BY <2>1
    <3> HIDE DEF a
    <3>2. j = [ing EXCEPT !.answered = FALSE, !.page = <<>>, !.after = a]
      BY DEF a
    <3> HIDE DEF j
    <3> QED  BY <1>1, <1>2, <3>1, <3>2 DEF Ingestion
  <2> HIDE DEF a, j
  <2>3. IngOK(j, v)
    BY <1>1, <1>6, <2>1, <2>2 DEF IngOK, a
  <2> QED  BY <1>7, <2>3 DEF j
<1>8. ASSUME ing' = on, Len(p) # Batch, b = p PROVE IngOK(ing', v)
  <2> DEFINE j == on
  <2>1. /\ j \in Ingestion /\ j.at = (IF ing.bridging THEN "reading" ELSE "connecting") /\ j.answered = FALSE
        /\ j.bridging = FALSE /\ j.connected = ing.connected /\ j.wire = ing.wire
    <3> DEFINE h == IF ing.bridging THEN "reading" ELSE "connecting"
    <3>1. <<>> \in Seq(Nat) /\ h \in At
      BY DEF At
    <3> HIDE DEF h
    <3>2. j = [ing EXCEPT !.at = h, !.bridging = FALSE, !.answered = FALSE, !.page = <<>>]
      BY DEF h
    <3> HIDE DEF j
    <3>3. /\ j \in Ingestion /\ j.at = h /\ j.answered = FALSE /\ j.bridging = FALSE
          /\ j.connected = ing.connected /\ j.wire = ing.wire
      BY <1>1, <3>1, <3>2 DEF Ingestion
    <3> QED  BY <3>3 DEF h
  <2>2. ing.bridging => Numbers \subseteq Range(v) \cup InWire(ing.wire)
    <3> SUFFICES ASSUME ing.bridging, NEW t \in Numbers PROVE t \in Range(v) \cup InWire(ing.wire)
      OBVIOUS
    <3>1. ing.after < t => t \in Range(p) \cup InWire(ing.wire)
      BY <1>1, <1>2, <1>8 DEF IngOK, p
    <3> QED  BY <1>5, <1>6, <1>8, <3>1
  <2> HIDE DEF j
  <2>3. IngOK(j, v)
    BY <1>1, <2>1, <2>2 DEF IngOK
  <2> QED  BY <1>8, <2>3 DEF j
<1>9. IngOK(ing', v)
  BY <1>3, <1>4, <1>7, <1>8, OffOK
<1>10. IngestInv'
  BY <1>1, <1>3, <1>6, <1>9, StillInv
<1> QED  BY <1>1, <1>3, <1>6, <1>10 DEF Advances, l

-----------------------------------------------------------------------------
(***************************************************************************)
(* A step of the task.                                                      *)
(***************************************************************************)
NewNumbers(kind) == CASE kind = "silent" -> <<>>
                      [] kind = "step"   -> <<4 * (Len(source) + 1)>>
                      [] OTHER -> <<4 * (Len(source) + 1), 4 * (Len(source) + 1) + 1>>

\* What the task adds has the highest numbers.
LEMMA EmitNumbers ==
    ASSUME source \in Seq(Kinds), NEW kind \in Kinds, source' = Append(source, kind)
    PROVE  /\ NewNumbers(kind) \in Seq(Nat) /\ Increasing(NewNumbers(kind))
           /\ Numbers' = Numbers \cup Range(NewNumbers(kind))
           /\ \A x \in Numbers, y \in Range(NewNumbers(kind)) : x < y
<1> DEFINE n == Len(source) + 1
           q == NewNumbers(kind)
           Fresh == {s \in Nat : /\ s \div 4 = n
                                 /\ (s % 4 = 0 /\ kind # "silent") \/ (s % 4 = 1 /\ kind \in {"halted", "ended"})}
<1>0. /\ n \in Nat /\ Len(source) \in Nat /\ n = Len(source) + 1 /\ Len(source') = n /\ source'[n] = kind
      /\ \A i \in 1 .. Len(source) : source'[i] = source[i]
      /\ \A i : i \in 1 .. n <=> i \in 1 .. Len(source) \/ i = n
      /\ kind \in {"silent", "step", "halted", "ended"} /\ n \notin 1 .. Len(source)
  <2>1. kind \in {"silent", "step", "halted", "ended"}
    BY IngestionAssumption
  <2>2. Len(source) \in Nat /\ Len(source') = n /\ source'[n] = kind /\ \A i \in 1 .. Len(source) : source'[i] = source[i]
    OBVIOUS
  <2>3. \A i : i \in 1 .. n <=> i \in 1 .. Len(source) \/ i = n
    BY <2>2
  <2> QED  BY <2>1, <2>2, <2>3
<1> HIDE DEF n
<1>1. Numbers' = Numbers \cup Fresh
  <2>1. Numbers \subseteq Nat /\ Numbers' \subseteq Nat
    BY DEF Numbers
  <2>2. ASSUME NEW s \in Nat PROVE s \in Numbers' <=> s \in Numbers \/ s \in Fresh
    <3> DEFINE d == s \div 4
               e == s % 4
    <3>1. s \in Numbers' <=> /\ d \in 1 .. n
                             /\ (e = 0 /\ source'[d] # "silent") \/ (e = 1 /\ source'[d] \in {"halted", "ended"})
      BY <1>0 DEF Numbers
    <3>2. s \in Numbers <=> /\ d \in 1 .. Len(source)
                            /\ (e = 0 /\ source[d] # "silent") \/ (e = 1 /\ source[d] \in {"halted", "ended"})
      BY DEF Numbers
    <3>3. s \in Fresh <=> d = n /\ ((e = 0 /\ kind # "silent") \/ (e = 1 /\ kind \in {"halted", "ended"}))
      OBVIOUS
    <3> HIDE DEF d, e, Fresh
    <3> QED  BY <1>0, <3>1, <3>2, <3>3
  <2> QED  BY <2>1, <2>2
<1>2. (4 * n) \div 4 = n /\ (4 * n) % 4 = 0 /\ (4 * n + 1) \div 4 = n /\ (4 * n + 1) % 4 = 1
      /\ 4 * n \in Nat /\ 4 * n + 1 \in Nat /\ 4 * n < 4 * n + 1
  BY <1>0
<1>3. \A s \in Nat : s \div 4 = n /\ s % 4 = 0 => s = 4 * n
  BY <1>0
<1>4. \A s \in Nat : s \div 4 = n /\ s % 4 = 1 => s = 4 * n + 1
  BY <1>0
<1>5. q \in Seq(Nat) /\ Increasing(q) /\ Range(q) = Fresh
  <2>1. CASE kind = "silent"
    <3>1. q = <<>>
      BY <2>1 DEF NewNumbers
    <3>2. Fresh = {}
      BY <2>1
    <3> QED  BY <3>1, <3>2 DEF Increasing, Range
  <2>2. CASE kind = "step"
    <3>1. q = <<4 * n>>
      BY <2>2 DEF NewNumbers, n
    <3>2. Fresh = {4 * n}
      <4>1. \A s \in Fresh : s = 4 * n
        BY <1>3, <2>2
      <4>2. 4 * n \in Fresh
        BY <1>2, <2>2
      <4> QED  BY <4>1, <4>2
    <3>3. <<4 * n>> \in Seq(Nat) /\ DOMAIN <<4 * n>> = {1} /\ <<4 * n>>[1] = 4 * n
      BY <1>2
    <3>4. Range(q) = {4 * n} /\ Increasing(q)
      BY <3>1, <3>3 DEF Increasing, Range
    <3> QED  BY <3>1, <3>2, <3>3, <3>4
  <2>3. CASE kind \in {"halted", "ended"}
    <3>1. q = <<4 * n, 4 * n + 1>>
      BY <2>3 DEF NewNumbers, n
    <3>2. Fresh = {4 * n, 4 * n + 1}
      BY <1>2, <1>3, <1>4, <2>3
    <3>3. q \in Seq(Nat) /\ DOMAIN q = {1, 2} /\ q[1] = 4 * n /\ q[2] = 4 * n + 1
      BY <1>2, <3>1
    <3>4. Range(q) = {4 * n, 4 * n + 1}
      BY <3>3 DEF Range
    <3>5. Increasing(q)
      <4> SUFFICES ASSUME NEW i \in {1, 2}, NEW j \in {1, 2}, i < j PROVE q[i] < q[j]
        BY <3>3 DEF Increasing
      <4>1. i = 1 /\ j = 2
        OBVIOUS
      <4> QED  BY <1>2, <3>3, <4>1
    <3> QED  BY <3>2, <3>3, <3>4, <3>5
  <2> QED  BY <1>0, <2>1, <2>2, <2>3
<1>6. ASSUME NEW x \in Numbers, NEW y \in Fresh PROVE x < y
  <2>1. x \in Nat /\ y \in Nat /\ x \div 4 <= Len(source) /\ y \div 4 = n
    BY <1>0 DEF Numbers
  <2> QED  BY <1>0, <2>1
<1> QED  BY <1>1, <1>5, <1>6

LEMMA Concatenated ==
    ASSUME NEW S, NEW a \in Seq(S), NEW b \in Seq(S)
    PROVE  /\ a \o b \in Seq(S) /\ DOMAIN (a \o b) = 1 .. Len(a) + Len(b)
           /\ \A k \in 1 .. Len(a) : (a \o b)[k] = a[k] /\ k \in DOMAIN (a \o b)
           /\ \A k \in 1 .. Len(b) : (a \o b)[Len(a) + k] = b[k] /\ Len(a) + k \in DOMAIN (a \o b)
<1>1. Len(a) \in Nat /\ Len(b) \in Nat
  OBVIOUS
<1>2. a \o b \in Seq(S) /\ Len(a \o b) = Len(a) + Len(b)
  OBVIOUS
<1>3. DOMAIN (a \o b) = 1 .. Len(a) + Len(b)
  BY <1>2
<1>4. \A k \in 1 .. Len(a) : (a \o b)[k] = a[k]
  OBVIOUS
<1>5. \A k \in 1 .. Len(b) : (a \o b)[Len(a) + k] = b[k]
  OBVIOUS
<1>6. \A k \in 1 .. Len(a) : k \in 1 .. Len(a) + Len(b)
  BY <1>1
<1>7. \A k \in 1 .. Len(b) : Len(a) + k \in 1 .. Len(a) + Len(b)
  BY <1>1
<1> QED  BY <1>2, <1>3, <1>4, <1>5, <1>6, <1>7

\* A stream that carries the numbers that are added stays whole.
Carrying(w, q) == w \o [k \in 1 .. Len(q) |-> ActivityFrame(q[k])]

LEMMA WireGrows ==
    ASSUME NEW w \in Seq(StreamFrame), WireOK(w), NEW q \in Seq(Nat), Increasing(q),
           \A x \in Numbers, y \in Range(q) : x < y
    PROVE  LET u == Carrying(w, q)
           IN  /\ u \in Seq(StreamFrame) /\ InWire(u) = InWire(w) \cup Range(q) /\ (OnlyEvents(u) <=> OnlyEvents(w))
               /\ \A j, k \in DOMAIN u : j < k => /\ u[k].kind = "event"
                                                  /\ u[j].kind = "event" => u[j].seq < u[k].seq
<1> DEFINE n == Len(w)
           r == [k \in 1 .. Len(q) |-> ActivityFrame(q[k])]
           u == w \o r
<1>0. /\ n \in Nat /\ Len(q) \in Nat /\ DOMAIN w = 1 .. n /\ DOMAIN q = 1 .. Len(q)
      /\ \A k \in 1 .. Len(q) : q[k] \in Nat /\ q[k] \in Range(q)
  BY DEF Range
<1>1. r \in Seq(StreamFrame) /\ Len(r) = Len(q) /\ \A k \in 1 .. Len(q) : r[k].kind = "event" /\ r[k].seq = q[k]
  <2>1. \A s \in Nat : ActivityFrame(s) \in StreamFrame /\ ActivityFrame(s).kind = "event" /\ ActivityFrame(s).seq = s
    BY DEF ActivityFrame, StreamFrame
  <2> QED  BY <1>0, <2>1
<1> HIDE DEF r
<1>2. /\ u \in Seq(StreamFrame) /\ DOMAIN u = 1 .. n + Len(q)
      /\ \A k \in 1 .. n : u[k] = w[k] /\ k \in DOMAIN u
      /\ \A k \in 1 .. Len(q) : u[n + k] = r[k] /\ n + k \in DOMAIN u
  <2>1. r \in Seq(StreamFrame)
    BY <1>1
  <2>2. /\ w \o r \in Seq(StreamFrame) /\ DOMAIN (w \o r) = 1 .. Len(w) + Len(r)
        /\ \A k \in 1 .. Len(w) : (w \o r)[k] = w[k] /\ k \in DOMAIN (w \o r)
        /\ \A k \in 1 .. Len(r) : (w \o r)[Len(w) + k] = r[k] /\ Len(w) + k \in DOMAIN (w \o r)
    BY <2>1, Concatenated
  <2> HIDE DEF n
  <2>3. Len(r) = Len(q) /\ n = Len(w)
    BY <1>1 DEF n
  <2> QED  BY <2>2, <2>3
<1> HIDE DEF u, n
<1>3. ASSUME NEW k \in DOMAIN u
      PROVE  \/ k \in 1 .. n
             \/ k - n \in 1 .. Len(q) /\ u[k] = r[k - n] /\ u[k].kind = "event" /\ u[k].seq = q[k - n] /\ k > n
  <2>1. CASE k > n
    <3>1. k - n \in 1 .. Len(q) /\ n + (k - n) = k
      BY <1>0, <1>2, <2>1
    <3> QED  BY <1>1, <1>2, <2>1, <3>1
  <2> QED  BY <1>0, <1>2, <2>1
<1>4. InWire(u) = InWire(w) \cup Range(q)
  <2>1. \A k \in DOMAIN u : u[k].kind = "event" => u[k].seq \in InWire(w) \cup Range(q)
    BY <1>0, <1>2, <1>3 DEF InWire
  <2>2. InWire(w) \subseteq InWire(u)
    BY <1>0, <1>2 DEF InWire
  <2>3. ASSUME NEW k \in 1 .. Len(q) PROVE q[k] \in InWire(u)
    <3>1. n + k \in DOMAIN u /\ u[n + k].kind = "event" /\ u[n + k].seq = q[k]
      BY <1>1, <1>2
    <3> QED  BY <3>1 DEF InWire
  <2> QED  BY <1>0, <2>1, <2>2, <2>3 DEF InWire, Range
<1>5. OnlyEvents(u) <=> OnlyEvents(w)
  BY <1>0, <1>2, <1>3 DEF OnlyEvents
<1>6. ASSUME NEW j \in DOMAIN u, NEW k \in DOMAIN u, j < k
      PROVE  u[k].kind = "event" /\ (u[j].kind = "event" => u[j].seq < u[k].seq)
  <2>1. CASE k \in 1 .. n
    <3>1. j \in 1 .. n
      BY <1>0, <1>2, <1>6, <2>1
    <3> QED  BY <1>0, <1>2, <1>6, <2>1, <3>1 DEF WireOK
  <2>2. CASE k - n \in 1 .. Len(q) /\ u[k].kind = "event" /\ u[k].seq = q[k - n]
    <3>1. CASE j \in 1 .. n
      <4>1. u[j].kind = "event" => u[j].seq \in Numbers
        BY <1>0, <1>2, <3>1 DEF InWire, WireOK
      <4> QED  BY <1>0, <2>2, <4>1
    <3>2. CASE j - n \in 1 .. Len(q) /\ u[j].seq = q[j - n]
      <4>1. j - n < k - n
        BY <1>0, <1>2, <1>6
      <4> QED  BY <1>0, <2>2, <3>2, <4>1 DEF Increasing
    <3> QED  BY <1>3, <3>1, <3>2
  <2> QED  BY <1>3, <2>1, <2>2
<1> QED  BY <1>2, <1>4, <1>5, <1>6 DEF u, r, Carrying

LEMMA EmitSource == ASSUME SourceOK, NEW kind \in Kinds, Emit(kind) PROVE SourceOK'
<1> DEFINE n == Len(source) + 1
<1>1. /\ source \in Seq(Kinds) /\ Len(source) \in Nat /\ Len(source) < MaxTaskEvents
      /\ Cardinality(Silent) <= MaxSilent /\ source' = Append(source, kind) /\ MaxTaskEvents \in Nat /\ MaxSilent \in Nat
      /\ kind = "silent" => Cardinality(Silent) < MaxSilent
  BY IngestionAssumption DEF SourceOK, Emit, Silent
<1>2. /\ source' \in Seq(Kinds) /\ Len(source') = n /\ source'[n] = kind /\ n \in Nat
      /\ \A i \in 1 .. Len(source) : source'[i] = source[i]
      /\ \A i : i \in 1 .. n <=> i \in 1 .. Len(source) \/ i = n
      /\ n \notin 1 .. Len(source)
  BY <1>1
<1>3. Len(source') <= MaxTaskEvents
  BY <1>1, <1>2
<1> HIDE DEF n
<1>4. Silent' = IF kind = "silent" THEN Silent \cup {n} ELSE Silent
  <2>1. \A i : i \in Silent' <=> i \in 1 .. n /\ source'[i] = "silent"
    BY <1>2 DEF Silent
  <2>2. \A i : i \in Silent <=> i \in 1 .. Len(source) /\ source[i] = "silent"
    BY DEF Silent
  <2> QED  BY <1>2, <2>1, <2>2
<1>5. IsFiniteSet(Silent) /\ Cardinality(Silent) \in Nat /\ n \notin Silent
  <2>1. IsFiniteSet(1 .. Len(source))
    BY <1>1, FS_Interval
  <2>2. Silent \in SUBSET (1 .. Len(source))
    BY DEF Silent
  <2>3. IsFiniteSet(Silent)
    BY <2>1, <2>2, FS_Subset
  <2> QED  BY <1>2, <2>2, <2>3, FS_CardinalityType
<1>6. Cardinality(Silent') <= MaxSilent
  <2>1. CASE kind = "silent"
    <3>1. Cardinality(Silent \cup {n}) = Cardinality(Silent) + 1
      BY <1>5, FS_AddElement
    <3> QED  BY <1>1, <1>4, <1>5, <2>1, <3>1
  <2>2. CASE kind # "silent"
    BY <1>1, <1>4, <2>2
  <2> QED  BY <2>1, <2>2
<1> QED  BY <1>2, <1>3, <1>6 DEF SourceOK

\* What the task adds follows what is ingested, in the page and in the stream.
LEMMA EmitKeeps ==
    ASSUME IngestInv, NEW kind \in Kinds, Emit(kind)
    PROVE  /\ IngestInv' /\ ingested' = ingested
           /\ Numbers \subseteq Numbers' /\ \A x \in Numbers, y \in Numbers' : y < x => y \in Numbers
<1> DEFINE q == NewNumbers(kind)
           u == Carrying(ing.wire, q)
           j == ing'
           N == Numbers'
<1>1. /\ SourceOK /\ ingested \in Seq(Nat) /\ Synced(ingested) /\ IngOK(ing, ingested) /\ ing \in Ingestion
      /\ source \in Seq(Kinds) /\ source' = Append(source, kind) /\ ingested' = ingested
  BY DEF IngestInv, IngOK, SourceOK, Emit
<1>2. j = IF ing.connected THEN [ing EXCEPT !.wire = u] ELSE ing
  BY DEF Emit, NewNumbers, Carrying
<1>3. /\ q \in Seq(Nat) /\ Increasing(q) /\ N = Numbers \cup Range(q)
      /\ \A x \in Numbers, y \in Range(q) : x < y
  BY <1>1, EmitNumbers
<1>4. ing.connected => /\ u \in Seq(StreamFrame) /\ InWire(u) = InWire(ing.wire) \cup Range(q)
                       /\ OnlyEvents(u) <=> OnlyEvents(ing.wire)
                       /\ \A i, k \in DOMAIN u : i < k => /\ u[k].kind = "event"
                                                          /\ u[i].kind = "event" => u[i].seq < u[k].seq
  <2> HIDE DEF q
  <2> SUFFICES ASSUME ing.connected
               PROVE  /\ u \in Seq(StreamFrame) /\ InWire(u) = InWire(ing.wire) \cup Range(q)
                      /\ OnlyEvents(u) <=> OnlyEvents(ing.wire)
                      /\ \A i, k \in DOMAIN u : i < k => /\ u[k].kind = "event"
                                                         /\ u[i].kind = "event" => u[i].seq < u[k].seq
    OBVIOUS
  <2>1. ing.wire \in Seq(StreamFrame) /\ WireOK(ing.wire)
    BY <1>1 DEF IngOK, Ingestion
  <2> QED  BY <1>3, <2>1, WireGrows
<1>5. Range(q) \subseteq Nat /\ Numbers \subseteq Nat
  BY <1>3 DEF Range, Numbers
<1> HIDE DEF q, u
<1>6. \A x \in Numbers, y \in N : y < x => y \in Numbers
  <2> HIDE DEF N
  <2> SUFFICES ASSUME NEW x \in Numbers, NEW y \in Range(q), y < x PROVE FALSE
    BY <1>3
  <2>1. x < y /\ x \in Nat /\ y \in Nat
    BY <1>3, <1>5
  <2> QED  BY <2>1
<1>7. SourceOK'
  BY <1>1, EmitSource
<1>8. Synced(ingested)'
  <2>1. /\ Increasing(ingested) /\ Range(ingested) \subseteq N
        /\ \A x \in Range(ingested), y \in N : y < x => y \in Range(ingested)
    <3> HIDE DEF N
    <3> QED  BY <1>1, <1>3, <1>6 DEF Synced
  <2> QED  BY <1>1, <2>1 DEF Synced, Increasing
<1>9. /\ j \in Ingestion /\ j.at = ing.at /\ j.answered = ing.answered /\ j.after = ing.after /\ j.page = ing.page
      /\ j.bridging = ing.bridging /\ j.connected = ing.connected /\ j.wire = IF ing.connected THEN u ELSE ing.wire
  <2> HIDE DEF j
  <2> QED  BY <1>1, <1>2, <1>4 DEF Ingestion
<1>10. ing.answered =>
          /\ ing.page \in Seq(Nat) /\ Increasing(ing.page) /\ Range(ing.page) \subseteq N
          /\ \A x \in Range(ing.page) : x > ing.after
          /\ \A x \in Range(ing.page), t \in N : ing.after < t /\ t < x => t \in Range(ing.page)
  <2> HIDE DEF N
  <2> QED  BY <1>1, <1>3, <1>6 DEF IngOK, Follows
<1>11. ing.connected =>
          /\ InWire(u) \subseteq N
          /\ \A x \in InWire(u), t \in N : x < t => t \in InWire(u)
  <2> HIDE DEF N
  <2> SUFFICES ASSUME ing.connected
               PROVE  InWire(u) \subseteq N /\ \A x \in InWire(u), t \in N : x < t => t \in InWire(u)
    OBVIOUS
  <2>1. InWire(ing.wire) \subseteq Numbers /\ \A x \in InWire(ing.wire), t \in Numbers : x < t => t \in InWire(ing.wire)
    BY <1>1 DEF IngOK, WireOK
  <2>2. ASSUME NEW x \in InWire(u), NEW t \in Numbers, x < t PROVE t \in InWire(ing.wire)
    <3>1. x \notin Range(q)
      <4> SUFFICES ASSUME x \in Range(q) PROVE FALSE
        OBVIOUS
      <4>1. t < x /\ t \in Nat /\ x \in Nat
        BY <1>3, <1>5
      <4> QED  BY <2>2, <4>1
    <3> QED  BY <1>4, <2>1, <2>2, <3>1
  <2> QED  BY <1>3, <1>4, <2>1, <2>2
<1>12. ing.at = "reading" /\ OnlyEvents(ing.wire) /\ ing.connected => N \subseteq Range(ingested) \cup InWire(u)
  <2> HIDE DEF N
  <2> QED  BY <1>1, <1>3, <1>4 DEF IngOK
<1>13. ing.bridging /\ ing.answered /\ Len(ing.page) # Batch /\ ing.connected
          => \A t \in N : ing.after < t => t \in Range(ing.page) \cup InWire(u)
  <2> HIDE DEF N
  <2> QED  BY <1>1, <1>3, <1>4 DEF IngOK
<1>14. (ing.at = "reading" \/ ing.bridging => ing.connected) /\ (ing.answered \/ ing.bridging => ing.at = "catching")
       /\ (ing.at = "catching" => ing.after = 0 \/ ing.after \in Range(ingested)) /\ (ing.bridging => OnlyEvents(ing.wire))
  BY <1>1 DEF IngOK
<1>15. (ing.answered => Follows(ing.page, ing.after)')
  <2>1. j.page = ing.page /\ j.after = ing.after
    BY <1>9
  <2> QED  BY <1>10, <2>1 DEF Follows, Increasing
<1>16. (ing.connected => WireOK(ing.wire)')
  <2> SUFFICES ASSUME ing.connected PROVE WireOK(ing.wire)'
    OBVIOUS
  <2>1. ing'.wire = u
    BY <1>9
  <2> QED  BY <1>4, <1>11, <2>1 DEF WireOK, InWire
<1>17. IngOK(ing, ingested)'
  <2> SUFFICES /\ j \in Ingestion
               /\ j.at = "catching" => j.after = 0 \/ j.after \in Range(ingested)
               /\ j.answered \/ j.bridging => j.at = "catching"
               /\ j.answered => Follows(ing.page, ing.after)'
               /\ j.at = "reading" \/ j.bridging => j.connected
               /\ j.connected => WireOK(ing.wire)'
               /\ j.bridging => OnlyEvents(j.wire)
               /\ j.at = "reading" /\ OnlyEvents(j.wire) => N \subseteq Range(ingested) \cup InWire(j.wire)
               /\ j.bridging /\ j.answered /\ Len(j.page) # Batch
                    => \A t \in N : j.after < t => t \in Range(j.page) \cup InWire(j.wire)
    BY <1>1 DEF IngOK, InWire, OnlyEvents
  <2> HIDE DEF j, N
  <2> QED  BY <1>4, <1>9, <1>12, <1>13, <1>14, <1>15, <1>16
<1>18. IngestInv'
  BY <1>1, <1>7, <1>8, <1>17 DEF IngestInv
<1> QED  BY <1>1, <1>3, <1>6, <1>18

-----------------------------------------------------------------------------
\* What the invariant says of the reader.
ReaderOK ==
    /\ Positions = SourcePromise!Prefix(Len(ingested)) /\ Len(ingested) \in Nat
    /\ Len(ingested) <= Len(Activity) /\ Len(Activity) \in Nat /\ Len(Activity) <= 2 * MaxTaskEvents
    /\ Activity \in Seq(Nat) /\ Increasing(Activity) /\ Range(Activity) = Numbers

LEMMA ReaderIs == IngestInv => ReaderOK
<1> SUFFICES ASSUME IngestInv PROVE ReaderOK
  OBVIOUS
<1>1. source \in Seq(Kinds) /\ ingested \in Seq(Nat) /\ Synced(ingested) /\ Len(source) <= MaxTaskEvents
  BY DEF IngestInv, SourceOK
<1>2. /\ Activity \in Seq(Nat) /\ Increasing(Activity) /\ Range(Activity) = Numbers
      /\ Len(Activity) <= 2 * Len(source)
  BY <1>1, ActivityIs
<1>3. Positions = SourcePromise!Prefix(Len(ingested)) /\ Len(ingested) <= Len(Activity)
  BY <1>1, PositionsAre
<1>4. Len(source) \in Nat /\ Len(ingested) \in Nat /\ Len(Activity) \in Nat /\ MaxTaskEvents \in Nat
  <2> DEFINE A == Activity
  <2>1. A \in Seq(Nat)
    BY <1>2
  <2> HIDE DEF A
  <2>2. Len(A) \in Nat
    BY <2>1
  <2>3. Len(source) \in Nat /\ Len(ingested) \in Nat
    BY <1>1
  <2> QED  BY <2>2, <2>3, IngestionAssumption DEF A
<1>5. Len(Activity) <= 2 * MaxTaskEvents
  BY <1>1, <1>2, <1>4
<1> QED  BY <1>2, <1>3, <1>4, <1>5 DEF ReaderOK

LEMMA IngestStep ==
    IngestInv /\ Batch + MaxSilent < Window /\ [IngestionNext]_ingestionVars
        => /\ IngestInv'
           /\ \/ Advances
              \/ /\ ingested' = ingested /\ Numbers \subseteq Numbers'
                 /\ \A x \in Numbers, y \in Numbers' : y < x => y \in Numbers
<1> SUFFICES ASSUME IngestInv, Batch + MaxSilent < Window, [IngestionNext]_ingestionVars
             PROVE  /\ IngestInv'
                    /\ \/ Advances
                       \/ /\ ingested' = ingested /\ Numbers \subseteq Numbers'
                          /\ \A x \in Numbers, y \in Numbers' : y < x => y \in Numbers
  OBVIOUS
<1>1. CASE UNCHANGED ingestionVars
  <2>1. source' = source /\ ingested' = ingested /\ ing' = ing
    BY <1>1 DEF ingestionVars
  <2>2. SourceOK /\ ingested \in Seq(Nat) /\ Synced(ingested) /\ IngOK(ing, ingested) /\ Len(ingested) \in Nat
    BY DEF IngestInv
  <2>3. IngestInv'
    BY <2>1, <2>2, StillInv
  <2> QED  BY <2>1, <2>2, <2>3 DEF Advances
<1>2. CASE \E kind \in Kinds : Emit(kind)
  BY <1>2, EmitKeeps
<1>3. CASE ListTaskActivity \/ StreamTaskActivity \/ RequestFails \/ RequestRefused \/ RetryIngestion \/ AbortEnds
  BY <1>3, RequestsKeep
<1>4. CASE TakePage
  BY <1>4, TakePageKeeps
<1>5. CASE DispatchFrame
  BY <1>5, DispatchKeeps
<1>6. CASE AskTask \/ TaskAnswers \/ Reconcile \/ Settle \/ Close \/ Restart
  BY <1>6, CoordinatorKeeps
<1> QED  BY <1>1, <1>2, <1>3, <1>4, <1>5, <1>6 DEF IngestionNext

\* The context's log takes in the task's activity in order, leaving nothing out and
\* repeating nothing, whatever fails, is refused, is aborted or restarts, as long as
\* a window of the log has more events than a page and those that project to nothing.
THEOREM IngestionReads ==
    ASSUME Batch + MaxSilent < Window
    PROVE  IngestionSpec => IngestionImplementsReader
<1>1. IngestionInit => SourcePromise!ReaderInit
  <2> SUFFICES ASSUME IngestionInit PROVE SourcePromise!ReaderInit
    OBVIOUS
  <2>1. IngestInv
    BY InitialIngestion
  <2>2. Len(Activity) = 0
    <3>1. Len(source) = 0 /\ source \in Seq(Kinds)
      BY DEF IngestionInit
    <3>2. Len(Activity) <= 2 * Len(source) /\ Len(Activity) \in Nat
      BY <2>1, <3>1, ActivityIs, ReaderIs DEF ReaderOK
    <3> QED  BY <3>1, <3>2
  <2>3. Positions = <<>>
    BY DEF IngestionInit, Positions
  <2> QED  BY <2>2, <2>3 DEF SourcePromise!ReaderInit, Positions
<1>2. IngestInv /\ [IngestionNext]_ingestionVars => IngestInv'
  BY IngestStep
<1>3. IngestInv => ReaderOK
  BY ReaderIs
<1>4. IngestInv /\ ReaderOK /\ IngestInv' /\ ReaderOK' /\ [IngestionNext]_ingestionVars
          => [SourcePromise!ReaderNext]_<<Len(Activity), Positions>>
  <2> SUFFICES ASSUME IngestInv, ReaderOK, IngestInv', ReaderOK', [IngestionNext]_ingestionVars
               PROVE  SourcePromise!ReaderNext \/ (Len(Activity)' = Len(Activity) /\ Positions' = Positions)
    BY DEF Positions
  <2> DEFINE A == Activity
             B == Activity'
             n == Len(ingested)
             m == Len(ingested')
  <2>1. /\ A \in Seq(Nat) /\ Increasing(A) /\ Range(A) = Numbers /\ Len(A) \in Nat /\ n \in Nat /\ n <= Len(A)
        /\ Positions = SourcePromise!Prefix(n)
    BY DEF ReaderOK
  <2>2. /\ B \in Seq(Nat) /\ Increasing(B) /\ Range(B) = Numbers' /\ Len(B) \in Nat /\ m \in Nat /\ m <= Len(B)
        /\ Positions' = SourcePromise!Prefix(m) /\ Len(B) <= 2 * MaxTaskEvents
    BY DEF ReaderOK, Increasing, SourcePromise!Prefix
  <2>3. DOMAIN SourcePromise!Prefix(n) = 1 .. n /\ Len(SourcePromise!Prefix(n)) = n
    BY <2>1 DEF SourcePromise!Prefix
  <2> HIDE DEF n, m
  <2>4. CASE Advances
    <3>1. B = A /\ m >= n
      BY <2>4 DEF Advances, Activity, Projected, n, m
    <3> HIDE DEF A, B
    <3>2. CASE m = n
      BY <2>1, <2>2, <3>1, <3>2 DEF A, B
    <3>3. CASE m # n
      <4>1. m \in (n + 1) .. Len(A)
        BY <2>1, <2>2, <3>1, <3>3
      <4> QED  BY <2>1, <2>2, <2>3, <3>1, <4>1 DEF SourcePromise!ReaderNext, SourcePromise!Learn, Positions, A, B
    <3> QED  BY <3>2, <3>3
  <2>5. CASE /\ ingested' = ingested /\ Numbers \subseteq Numbers'
             /\ \A x \in Numbers, y \in Numbers' : y < x => y \in Numbers
    <3>1. Len(A) <= Len(B)
      <4> HIDE DEF A, B
      <4> QED  BY <2>1, <2>2, <2>5, IncreasingPrefix
    <3>2. m = n /\ Positions' = Positions
      BY <2>1, <2>2, <2>5 DEF n, m
    <3> HIDE DEF A, B
    <3>3. CASE Len(B) = Len(A)
      BY <3>2, <3>3 DEF A, B
    <3>4. CASE Len(B) # Len(A)
      <4>1. Len(B) \in (Len(A) + 1) .. (2 * MaxTaskEvents)
        BY <2>1, <2>2, <3>1, <3>4, IngestionAssumption
      <4> QED  BY <3>2, <4>1 DEF SourcePromise!ReaderNext, SourcePromise!Grow, Positions, A, B
    <3> QED  BY <3>3, <3>4
  <2> QED  BY <2>4, <2>5, IngestStep
<1> QED  BY <1>1, <1>2, <1>3, <1>4, InitialIngestion, PTL
      DEF IngestionSpec, IngestionImplementsReader, SourcePromise!ReaderSpec, Positions

===============================================================================
