---------------------------- MODULE SemanticRuns ----------------------------
(***************************************************************************)
(* SemanticRunControlRepository and the parts of SemanticWorkflowRepository *)
(* and SemanticPolicyRepository it calls (services/ai-e2e).  A formal run   *)
(* owns a frozen graph of TODOs, is admitted by the side-effect policy,     *)
(* driven by commands, and settled when its TODOs are.                      *)
(*                                                                         *)
(* Every public method is one database transaction, so one action; the      *)
(* private methods it calls are operators from a run to a run.  The         *)
(* optimistic check of expectedStateVersion and the replay of a command     *)
(* identifier change nothing and are left out, like the rows of             *)
(* run_events.  A new release of the policy makes every earlier evaluation  *)
(* stale.                                                                   *)
(***************************************************************************)
EXTENDS Naturals

CONSTANTS TestRuns,
          Todos,
          NeedsSuccess,   \* edges of mode requires_success: TODO |-> upstreams
          NeedsEnd,       \* edges of mode requires_completion
          MaxTries,       \* bound: page tasks of one TODO
          NoTodo

ASSUME GraphAssumption ==
    /\ NeedsSuccess \in [Todos -> SUBSET Todos] /\ NeedsEnd \in [Todos -> SUBSET Todos]
    /\ NoTodo \notin Todos /\ MaxTries \in Nat

VARIABLE run      \* the row of test_runs, its todos, decisions and grant

Lifecycle  == {"absent", "created", "ready", "running", "paused", "completed",
               "cancelling", "cancelled"}
Sealed     == {"completed", "cancelled"}
TodoState  == {"waiting_dependencies", "ready", "running", "waiting_decision", "blocked",
               "interrupted", "passed", "failed", "skipped", "cancelled"}
TodoEnded  == {"passed", "failed", "skipped", "cancelled"}
AttemptResult     == {"succeeded", "execution_failed", "precondition_blocked",
               "recoverable_interruption", "outcome_unknown", "cancelled"}
PolicyResult == {"auto_allowed", "approval_required", "denied"}
DecisionStatus == {"none", "open", "applied"}

RunRecord ==
    [lifecycle : Lifecycle,
     outcome : {"none", "passed", "failed", "cancelled"},
     evaluation : PolicyResult \cup {"none"},
     stale : BOOLEAN,                           \* the evaluation is of an older policy
     grant : {"none", "active", "expired"},     \* the grant the run points to
     approval : DecisionStatus,                 \* latest side_effect_approval decision
     todo : [Todos -> TodoState],
     decision : [Todos -> DecisionStatus],      \* latest decision about the TODO
     attempt : [Todos -> AttemptResult \cup {"none"}], \* result of its latest attempt
     tries : [Todos -> 0 .. MaxTries],          \* page tasks started for it
     page : Todos \cup {NoTodo}]                \* active page task

-----------------------------------------------------------------------------
\* Operators from a run to a run.

Some(r, states) == {t \in Todos : r.todo[t] \in states}
HasOpenDecision(r) == r.approval = "open" \/ \E t \in Todos : r.decision[t] = "open"

\* policy.invalidate
Invalidate(r) == [r EXCEPT !.grant = IF @ = "active" THEN "expired" ELSE @]

CancelRemainingTodos(r) ==
    [r EXCEPT !.todo = [t \in Todos |->
        IF r.todo[t] \in TodoEnded \cup {"running"} THEN r.todo[t] ELSE "cancelled"]]

\* dependenciesSatisfied, when the states of the TODOs are f
DependenciesSatisfied(f, t) ==
    /\ \A u \in NeedsSuccess[t] : f[u] = "passed"
    /\ \A u \in NeedsEnd[t] : f[u] \in TodoEnded

\* What propagateTodoDependencies visits from t: t itself, unless it passed,
\* and every TODO that waits and needs the success of a visited one.
Visits(r, t, S) ==
    /\ r.todo[t] # "passed" => t \in S
    /\ \A u \in Some(r, {"waiting_dependencies", "ready"}) : NeedsSuccess[u] \cap S # {} => u \in S

\* The least such set: the TODOs it skips.
Skipped(r, t) == {u \in Todos \ {t} : \A S \in SUBSET Todos : Visits(r, t, S) => u \in S}

\* Fault: what needs the success of a skipped TODO is not skipped.
PropagateOneLevel(r, t) ==
    [r EXCEPT !.todo = [u \in Todos |->
        IF r.todo[u] \notin {"waiting_dependencies", "ready"} THEN r.todo[u]
        ELSE IF t \in NeedsSuccess[u] /\ r.todo[t] # "passed" THEN "skipped"
        ELSE IF DependenciesSatisfied(r.todo, u) THEN "ready" ELSE r.todo[u]]]

\* TODO t has just ended: what needs its success is skipped, and what that
\* leaves satisfied becomes ready.
Propagate(r, t) ==
    LET skipped == Skipped(r, t)
        f == [u \in Todos |-> IF u \in skipped THEN "skipped" ELSE r.todo[u]]
        touched == {u \in Todos : (NeedsSuccess[u] \cup NeedsEnd[u]) \cap (skipped \cup {t}) # {}}
    IN  [r EXCEPT !.todo = [u \in Todos |->
            IF u \in touched /\ f[u] = "waiting_dependencies" /\ DependenciesSatisfied(f, u)
            THEN "ready" ELSE f[u]]]

\* settleRunIfPossible
SettleRunIfPossible(r) ==
    IF r.lifecycle = "cancelling"
    THEN IF Some(r, {"running"}) # {} THEN r
         ELSE Invalidate([CancelRemainingTodos(r) EXCEPT
                             !.lifecycle = "cancelled", !.outcome = "cancelled"])
    ELSE IF Some(r, TodoState \ TodoEnded) # {} THEN r
    ELSE Invalidate([r EXCEPT
            !.lifecycle = "completed",
            !.outcome = IF Some(r, {"passed"}) = Todos THEN "passed" ELSE "failed"])

\* checkPolicyBinding: the run's evaluation and grant allow execution.
PolicyCurrent(r) ==
    /\ r.evaluation \notin {"none", "denied"} /\ ~r.stale
    /\ r.lifecycle \notin Sealed \cup {"cancelling"}
    /\ r.evaluation = "auto_allowed" \/ r.grant = "active"

\* assertRunPolicyCurrent allows execution ...
ExecutionAllowed(r) == ~HasOpenDecision(r) /\ PolicyCurrent(r)

\* Fault: a stale run loses its grant and runs on.
StaleRunsOn(r) == IF HasOpenDecision(r) \/ PolicyCurrent(r) THEN r ELSE Invalidate(r)

\* ... and what it leaves behind: without an open decision, a run whose policy
\* is not current loses its grant and is paused for a new approval.
AssertRunPolicyCurrent(r) ==
    IF HasOpenDecision(r) \/ PolicyCurrent(r) THEN r
    ELSE IF r.evaluation = "none" \/ r.lifecycle \in Sealed \cup {"cancelling"}
    THEN Invalidate(r)
    ELSE [r EXCEPT !.approval = "open", !.lifecycle = "paused", !.grant = "none"]

\* commandTarget
CommandTarget(from, action) ==
    CASE action = "start"  /\ from = "ready" -> "running"
      [] action = "pause"  /\ from \in {"ready", "running"} -> "paused"
      [] action = "resume" /\ from = "paused" -> "running"
      [] action = "cancel" /\ from \notin Sealed -> "cancelling"
      [] OTHER -> "invalid"

\* command cancel: at once when no TODO runs
CancelRun(r) ==
    IF Some(r, {"running"}) # {} THEN [r EXCEPT !.lifecycle = "cancelling"]
    ELSE Invalidate([CancelRemainingTodos(r) EXCEPT
                        !.lifecycle = "cancelled", !.outcome = "cancelled"])

\* todoStateForResult
TodoStateForResult(result) ==
    CASE result = "succeeded" -> "passed"
      [] result = "execution_failed" -> "failed"
      [] result = "precondition_blocked" -> "blocked"
      [] result = "recoverable_interruption" -> "interrupted"
      [] result = "outcome_unknown" -> "waiting_decision"
      [] result = "cancelled" -> "cancelled"

\* Fault: no decision is asked for a TODO that is blocked.
CompleteAsksUnknownOnly(r, result) ==
    LET t == r.page
        s == TodoStateForResult(result)
        ended == [r EXCEPT !.todo[t] = s, !.attempt[t] = result, !.page = NoTodo,
                           !.decision[t] = IF s = "waiting_decision" THEN "open" ELSE @]
    IN  SettleRunIfPossible(
            IF s \in {"passed", "failed"} \/ (s = "cancelled" /\ r.lifecycle # "cancelling")
            THEN Propagate(ended, t) ELSE ended)

\* completeTodoAttempt of the TODO of the active page task
CompleteAttempt(r, result) ==
    LET t == r.page
        s == TodoStateForResult(result)
        ended == [r EXCEPT !.todo[t] = s, !.attempt[t] = result, !.page = NoTodo,
                           !.decision[t] = IF s \in {"waiting_decision", "blocked"}
                                           THEN "open" ELSE @]
    IN  SettleRunIfPossible(
            IF s \in {"passed", "failed"} \/ (s = "cancelled" /\ r.lifecycle # "cancelling")
            THEN Propagate(ended, t) ELSE ended)

\* cancelRunForDecision
CancelRunForDecision(r) ==
    Invalidate([CancelRemainingTodos(r) EXCEPT
                   !.lifecycle = "cancelled", !.outcome = "cancelled"])

\* answerDecision about the side effects
ApprovePlan(r) == SettleRunIfPossible(
    [r EXCEPT !.approval = "applied", !.grant = IF r.lifecycle = "paused" THEN "active" ELSE @,
              !.lifecycle = IF @ = "paused" THEN "ready" ELSE @])
RejectPlan(r) == SettleRunIfPossible(CancelRunForDecision([r EXCEPT !.approval = "applied"]))

\* answerDecision about TODO t: "ready", "failed" or "cancelled"
AnswerTodo(r, t, s) ==
    LET answered == [r EXCEPT !.decision[t] = "applied", !.todo[t] = s]
    IN  SettleRunIfPossible(IF s = "ready" THEN answered ELSE Propagate(answered, t))

-----------------------------------------------------------------------------
NewRun ==
    [lifecycle |-> "absent", outcome |-> "none", evaluation |-> "none", stale |-> FALSE,
     grant |-> "none", approval |-> "none",
     todo |-> [t \in Todos |-> IF NeedsSuccess[t] \cup NeedsEnd[t] = {} THEN "ready"
                               ELSE "waiting_dependencies"],
     decision |-> [t \in Todos |-> "none"], attempt |-> [t \in Todos |-> "none"],
     tries |-> [t \in Todos |-> 0], page |-> NoTodo]

RunsInit == run = [r \in TestRuns |-> NewRun]

\* applyAdmission
Admitted(result) ==
    CASE result = "auto_allowed" ->
             [NewRun EXCEPT !.lifecycle = "ready", !.evaluation = result]
      [] result = "approval_required" ->
             [NewRun EXCEPT !.lifecycle = "paused", !.evaluation = result, !.approval = "open"]
      [] result = "denied" ->
             [NewRun EXCEPT !.lifecycle = "cancelled", !.outcome = "cancelled",
                            !.evaluation = result]

\* createFormalRun: the run, its evaluation with the decision, and its
\* admission are three transactions.
CreateFormalRun(r, result) ==
    /\ run[r].lifecycle = "absent"
    /\ run' = [run EXCEPT ![r] = Admitted(result)]

\* The process dies after the first or the second of them.
CreateFormalRunDies(r, result, evaluated) ==
    /\ run[r].lifecycle = "absent"
    /\ run' = [run EXCEPT ![r] = [NewRun EXCEPT
                   !.lifecycle = "created",
                   !.approval = IF evaluated /\ result = "approval_required" THEN "open"
                                ELSE "none"]]

\* command: start and resume look at the policy first.
Start(r) ==
    /\ CommandTarget(run[r].lifecycle, "start") # "invalid" /\ ExecutionAllowed(run[r])
    /\ run' = [run EXCEPT ![r].lifecycle = "running"]

Resume(r) ==
    /\ CommandTarget(run[r].lifecycle, "resume") # "invalid" /\ ExecutionAllowed(run[r])
    /\ run' = [run EXCEPT ![r].lifecycle = "running"]

Pause(r) ==
    /\ CommandTarget(run[r].lifecycle, "pause") # "invalid"
    /\ run' = [run EXCEPT ![r].lifecycle = "paused"]

CancelFormalRun(r) ==
    /\ CommandTarget(run[r].lifecycle, "cancel") # "invalid"
    /\ run' = [run EXCEPT ![r] = CancelRun(@)]

\* assertRunPolicyCurrent refuses: a start, a resume, startTodo of a running
\* run, resumeInterruptedTodo, or the dispatch of an outbox item.
ExecutionRefused(r) ==
    /\ run[r].lifecycle # "absent" /\ ~ExecutionAllowed(run[r])
    /\ run' = [run EXCEPT ![r] = AssertRunPolicyCurrent(@)]

StartTodo(r, t) ==
    /\ run[r].lifecycle = "running" /\ ExecutionAllowed(run[r])
    /\ run[r].todo[t] = "ready" /\ run[r].page = NoTodo
    /\ run[r].tries[t] < MaxTries
    /\ run' = [run EXCEPT ![r].todo[t] = "running", ![r].page = t, ![r].tries[t] = @ + 1]

CompleteTodoAttempt(r, result) ==
    /\ run[r].page # NoTodo
    /\ run' = [run EXCEPT ![r] = CompleteAttempt(@, result)]

ResumeInterruptedTodo(r, t) ==
    /\ run[r].todo[t] = "interrupted" /\ run[r].attempt[t] = "recoverable_interruption"
    /\ ExecutionAllowed(run[r])
    /\ run' = [run EXCEPT ![r].todo[t] = "ready"]

\* answerDecision: the approval of a plan is checked against its evaluation,
\* its rejection is not.
AnswerApprove(r) ==
    /\ run[r].approval = "open" /\ run[r].evaluation = "approval_required" /\ ~run[r].stale
    /\ run[r].lifecycle \notin Sealed \cup {"cancelling"}
    /\ run' = [run EXCEPT ![r] = ApprovePlan(@)]

AnswerReject(r) ==
    /\ run[r].approval = "open"
    /\ run' = [run EXCEPT ![r] = RejectPlan(@)]

AnswerAboutTodo(r, t, s) ==
    /\ run[r].decision[t] = "open"
    /\ run' = [run EXCEPT ![r] = AnswerTodo(@, t, s)]

PauseRunForCoordinator(r) ==
    /\ run[r].lifecycle \in {"ready", "running"}
    /\ run' = [run EXCEPT ![r].lifecycle = "paused"]

\* A release with another SIDE_EFFECT_POLICY_VERSION: no evaluation made
\* before it binds.
PolicyUpgrade ==
    /\ \E r \in TestRuns : run[r].evaluation # "none" /\ ~run[r].stale
    /\ run' = [r \in TestRuns |->
                 [run[r] EXCEPT !.stale = run[r].lifecycle # "absent"]]

RunsNext ==
    \/ \E r \in TestRuns, result \in PolicyResult : CreateFormalRun(r, result)
    \/ \E r \in TestRuns, result \in PolicyResult, e \in BOOLEAN :
         CreateFormalRunDies(r, result, e)
    \/ \E r \in TestRuns : Start(r)
    \/ \E r \in TestRuns : Resume(r)
    \/ \E r \in TestRuns : Pause(r)
    \/ \E r \in TestRuns : CancelFormalRun(r)
    \/ \E r \in TestRuns : ExecutionRefused(r)
    \/ \E r \in TestRuns, t \in Todos : StartTodo(r, t)
    \/ \E r \in TestRuns, result \in AttemptResult : CompleteTodoAttempt(r, result)
    \/ \E r \in TestRuns, t \in Todos : ResumeInterruptedTodo(r, t)
    \/ \E r \in TestRuns : AnswerApprove(r)
    \/ \E r \in TestRuns : AnswerReject(r)
    \/ \E r \in TestRuns, t \in Todos, s \in {"ready", "failed", "cancelled"} :
         AnswerAboutTodo(r, t, s)
    \/ \E r \in TestRuns : PauseRunForCoordinator(r)
    \/ PolicyUpgrade

RunsSpec == RunsInit /\ [][RunsNext]_run

-----------------------------------------------------------------------------
\* The rows hold values of their columns' domains.
RunsTypeOK == run \in [TestRuns -> RunRecord]

\* While the run is open, a TODO is ready, runs or has ended only when what it
\* depends on allowed it: cascades of skips, cancellations and answers leave no
\* TODO before its upstreams, and none waiting for what came or cannot come.
DependenciesRespected ==
    \A r \in TestRuns : run[r].lifecycle \notin Sealed => \A t \in Todos :
        /\ run[r].todo[t] \notin {"waiting_dependencies", "skipped", "cancelled"}
              => DependenciesSatisfied(run[r].todo, t)
        /\ run[r].todo[t] = "waiting_dependencies"
              => /\ ~DependenciesSatisfied(run[r].todo, t)
                 /\ \A u \in NeedsSuccess[t] : run[r].todo[u] \notin TodoEnded \ {"passed"}
        /\ run[r].todo[t] = "skipped"
              => \E u \in NeedsSuccess[t] : run[r].todo[u] \in TodoEnded \ {"passed"}

\* A TODO that needs a person has a decision that person can still answer, and
\* no other TODO of an open run has one.
NeedsAnswerHasDecision ==
    \A r \in TestRuns : run[r].lifecycle \notin Sealed => \A t \in Todos :
        run[r].todo[t] \in {"waiting_decision", "blocked"} <=> run[r].decision[t] = "open"

\* What runs was approved or needed no approval, and an approval that is asked
\* for holds the run: it neither runs nor is ready to.
RunningIsAuthorised ==
    \A r \in TestRuns :
        /\ run[r].lifecycle = "running"
              => run[r].evaluation = "auto_allowed" \/ run[r].grant = "active"
        /\ run[r].approval = "open"
              => run[r].lifecycle \in {"created", "paused", "cancelling"} \cup Sealed

-----------------------------------------------------------------------------

=============================================================================
