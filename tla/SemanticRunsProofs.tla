-------------------------- MODULE SemanticRunsProofs --------------------------
(***************************************************************************)
(* Theorems about SemanticRuns, for any number of formal runs over any      *)
(* graph of TODOs, and, in the second half, about SemanticCoordinator,      *)
(* which drives those runs: for any number of runs, leases and crashes.     *)
(***************************************************************************)
EXTENDS SemanticCoordinator, TLAPS



-----------------------------------------------------------------------------
(***************************************************************************)
(* The graph of a run.  f gives the states of the TODOs.                   *)
(***************************************************************************)
Waits == {"waiting_dependencies", "ready"}
Lost  == TodoEnded \ {"passed"}

Ordered(f) ==
    \A t \in Todos :
        /\ f[t] \notin {"waiting_dependencies", "skipped", "cancelled"} => DependenciesSatisfied(f, t)
        /\ f[t] = "waiting_dependencies" => /\ ~DependenciesSatisfied(f, t)
                                            /\ \A u \in NeedsSuccess[t] : f[u] \notin Lost
        /\ f[t] = "skipped" => \E u \in NeedsSuccess[t] : f[u] \in Lost

\* The skipped TODOs are closed under the edges of required success ...
LEMMA SkippedClosed ==
    ASSUME NEW r, NEW t \in Todos, NEW u \in Some(r, Waits) \ {t}, NEW v \in NeedsSuccess[u],
           v \in Skipped(r, t) \/ (v = t /\ r.todo[t] # "passed")
    PROVE  u \in Skipped(r, t)
<1>1. \A S \in SUBSET Todos : Visits(r, t, S) => v \in S
  BY DEF Skipped, Visits
<1>2. u \in Todos \ {t}
  BY DEF Some
<1>3. ASSUME NEW S \in SUBSET Todos, Visits(r, t, S) PROVE u \in S
  BY <1>1, <1>3 DEF Visits, Waits
<1> QED BY <1>2, <1>3 DEF Skipped

\* ... and each of them has an upstream that is skipped or is t.
LEMMA SkippedGrounded ==
    ASSUME NEW r, NEW t \in Todos, NEW u \in Skipped(r, t)
    PROVE  /\ u \in Some(r, Waits) \ {t}
           /\ \E v \in NeedsSuccess[u] : v \in Skipped(r, t) \/ (v = t /\ r.todo[t] # "passed")
<1> DEFINE Seed == IF r.todo[t] # "passed" THEN {t} ELSE {}
           K    == Skipped(r, t) \cup Seed
           L    == {w \in K : w \in Seed \/ w \in Some(r, Waits)}
<1>1. K \in SUBSET Todos
  BY DEF Skipped
<1>2. \A S \in SUBSET Todos : Visits(r, t, S) => K \subseteq S
  BY DEF Skipped, Visits
<1>3. Visits(r, t, K)
  BY SkippedClosed, GraphAssumption DEF Visits, Some, Waits
<1>4. u \in Todos /\ u # t
  BY DEF Skipped
<1>5. u \in Some(r, Waits)
  <2>1. Visits(r, t, L)
    BY <1>3 DEF Visits, Waits
  <2>2. u \in L
    BY <1>1, <1>2, <2>1
  <2> QED BY <1>4, <2>2
<1>6. ASSUME \A v \in NeedsSuccess[u] : v \notin K
      PROVE  FALSE
  <2>1. Visits(r, t, K \ {u})
    BY <1>3, <1>4, <1>6 DEF Visits, Waits
  <2> QED BY <1>1, <1>2, <2>1
<1> QED BY <1>4, <1>5, <1>6

\* The end of a TODO that its upstreams had allowed leaves the graph in order.
LEMMA PropagateOrdered ==
    ASSUME NEW f \in [Todos -> TodoState], Ordered(f), NEW t \in Todos,
           f[t] \in {"running", "waiting_decision", "blocked"},
           NEW s \in {"passed", "failed", "cancelled"},
           NEW r, r.todo = [f EXCEPT ![t] = s]
    PROVE  Ordered(Propagate(r, t).todo)
<1> DEFINE K == Skipped(r, t)
           e == [u \in Todos |-> IF u \in K THEN "skipped" ELSE r.todo[u]]
           touched == {u \in Todos : (NeedsSuccess[u] \cup NeedsEnd[u]) \cap (K \cup {t}) # {}}
           g == [u \in Todos |->
                    IF u \in touched /\ e[u] = "waiting_dependencies" /\ DependenciesSatisfied(e, u)
                    THEN "ready" ELSE e[u]]
<1> USE GraphAssumption DEF Lost, TodoEnded
<1>0. r.todo[t] = s /\ \A u \in Todos \ {t} : r.todo[u] = f[u]
  OBVIOUS
<1>1. \A u \in K : u \in Todos \ {t} /\ f[u] \in Waits
                   /\ \E v \in NeedsSuccess[u] : v \in K \/ (v = t /\ s # "passed")
  <2> SUFFICES ASSUME NEW u \in Skipped(r, t)
               PROVE  u \in Todos \ {t} /\ f[u] \in Waits
                      /\ \E v \in NeedsSuccess[u] : v \in K \/ (v = t /\ s # "passed")
    OBVIOUS
  <2>1. /\ u \in Some(r, Waits) \ {t}
        /\ \E v \in NeedsSuccess[u] : v \in Skipped(r, t) \/ (v = t /\ r.todo[t] # "passed")
    BY SkippedGrounded
  <2> QED BY <1>0, <2>1 DEF Some
<1>2. \A u \in Todos \ {t} : f[u] \in Waits =>
          \A v \in NeedsSuccess[u] : v \in K \/ (v = t /\ s # "passed") => u \in K
  BY SkippedClosed DEF Some
<1>3. /\ e[t] = s
      /\ \A u \in K : e[u] = "skipped"
      /\ \A u \in Todos \ (K \cup {t}) : e[u] = f[u]
  <2>1. \A u \in Todos : e[u] = IF u \in K THEN "skipped" ELSE r.todo[u]
    OBVIOUS
  <2>2. t \notin K /\ \A u \in K : u \in Todos
    BY <1>1
  <2> HIDE DEF e, K
  <2> QED BY <1>0, <2>1, <2>2
<1>4. \A u \in Todos : DependenciesSatisfied(f, u) => DependenciesSatisfied(e, u)
  <2> HIDE DEF K, e
  <2> QED BY <1>1, <1>3 DEF DependenciesSatisfied, Waits
<1>5. \A u \in Todos : DependenciesSatisfied(g, u) <=> DependenciesSatisfied(e, u)
  <2>1. \A v \in Todos : /\ g[v] = "passed" <=> e[v] = "passed"
                         /\ g[v] \in TodoEnded <=> e[v] \in TodoEnded
    <3> HIDE DEF e, K, touched
    <3> QED OBVIOUS
  <2> HIDE DEF e, g, K, touched
  <2> QED BY <2>1 DEF DependenciesSatisfied
<1>6. \A u \in Todos \ touched : DependenciesSatisfied(e, u) => DependenciesSatisfied(f, u)
  <2>1. \A u \in Todos \ touched : \A v \in NeedsSuccess[u] \cup NeedsEnd[u] : e[v] = f[v]
    <3> HIDE DEF e, K
    <3> QED BY <1>3
  <2> HIDE DEF e, touched, K
  <2> QED BY <2>1 DEF DependenciesSatisfied
<1>7. \A u \in Todos : \/ g[u] = e[u]
                       \/ /\ g[u] = "ready" /\ DependenciesSatisfied(e, u)
                          /\ e[u] = "waiting_dependencies"
  <2> HIDE DEF e, K, touched
  <2> QED OBVIOUS
<1>8. \A u \in Todos : g[u] = "waiting_dependencies" =>
          u \notin touched \/ ~DependenciesSatisfied(e, u)
  <2> HIDE DEF e, K, touched
  <2> QED OBVIOUS
<1>9. Ordered(g)
  <2> SUFFICES ASSUME NEW u \in Todos
               PROVE  /\ g[u] \notin {"waiting_dependencies", "skipped", "cancelled"}
                            => DependenciesSatisfied(g, u)
                      /\ g[u] = "waiting_dependencies" => /\ ~DependenciesSatisfied(g, u)
                                                          /\ \A v \in NeedsSuccess[u] : g[v] \notin Lost
                      /\ g[u] = "skipped" => \E v \in NeedsSuccess[u] : g[v] \in Lost
    BY DEF Ordered
  <2>1. \A v \in Todos : g[v] \in Lost <=> e[v] \in Lost
    <3> HIDE DEF e, g, K, touched
    <3> QED BY <1>7
  <2>2. DependenciesSatisfied(f, t)
    BY DEF Ordered
  <2> HIDE DEF e, g, K, touched
  <2>3. g[u] \notin {"waiting_dependencies", "skipped", "cancelled"} => DependenciesSatisfied(g, u)
    BY <1>3, <1>4, <1>5, <1>7, <2>2 DEF Ordered
  <2>4. ASSUME g[u] = "waiting_dependencies"
        PROVE  ~DependenciesSatisfied(g, u) /\ \A v \in NeedsSuccess[u] : g[v] \notin Lost
    <3>1. u # t /\ u \notin K /\ f[u] = "waiting_dependencies"
      BY <1>3, <1>7, <2>4
    <3>2. ~DependenciesSatisfied(g, u)
      BY <1>5, <1>6, <1>8, <2>4, <3>1 DEF Ordered
    <3>3. ASSUME NEW v \in NeedsSuccess[u] PROVE e[v] \notin Lost
      BY <1>2, <1>3, <3>1 DEF Ordered, Waits
    <3> QED BY <2>1, <3>2, <3>3
  <2>5. ASSUME g[u] = "skipped" PROVE \E v \in NeedsSuccess[u] : g[v] \in Lost
    <3>1. CASE u \in K
      BY <1>1, <1>3, <2>1, <3>1
    <3>2. CASE u \notin K
      <4>1. f[u] = "skipped"
        BY <1>3, <1>7, <2>5, <3>2
      <4>2. PICK v \in NeedsSuccess[u] : f[v] \in Lost
        BY <4>1 DEF Ordered
      <4>3. v # t /\ v \notin K
        BY <1>1, <4>2 DEF Waits
      <4> QED BY <1>3, <2>1, <4>2, <4>3
    <3> QED BY <3>1, <3>2
  <2> QED BY <2>3, <2>4, <2>5
<1>10. Propagate(r, t).todo = g
  BY DEF Propagate
<1> QED BY <1>9, <1>10

-----------------------------------------------------------------------------
(***************************************************************************)
(* One run.                                                                 *)
(***************************************************************************)

\* The TODO that runs is the one of the active page task, and the others have
\* the decisions and the places in the graph their states ask for.
TodosInv(r) ==
    /\ Ordered(r.todo)
    /\ \A t \in Todos : r.todo[t] \in {"waiting_decision", "blocked"} <=> r.decision[t] = "open"
    /\ \A t \in Todos : r.todo[t] = "running" <=> r.page = t

\* Only an evaluated run runs, and only with what its evaluation asks for.
AuthorityInv(r) ==
    /\ r.evaluation = "none" => r.lifecycle \in {"absent", "created", "cancelling"} \cup Sealed
    /\ r.lifecycle = "running" => r.evaluation = "auto_allowed" \/ r.grant = "active"
    /\ r.approval = "open" => r.lifecycle \in {"created", "paused", "cancelling"} \cup Sealed

RowInv(r) ==
    /\ r \in RunRecord
    /\ r.lifecycle \notin Sealed => TodosInv(r) /\ AuthorityInv(r)

LEMMA InvalidateEffect ==
    ASSUME NEW r \in RunRecord
    PROVE  /\ Invalidate(r) \in RunRecord
           /\ Invalidate(r) = [r EXCEPT !.grant = Invalidate(r).grant]
BY DEF Invalidate, RunRecord

CancelledRun(r) ==
    [CancelRemainingTodos(r) EXCEPT !.lifecycle = "cancelled", !.outcome = "cancelled"]

LEMMA CancelledType ==
    ASSUME NEW r \in RunRecord
    PROVE  CancelledRun(r) \in RunRecord /\ CancelledRun(r).lifecycle = "cancelled"
<1>1. [t \in Todos |-> IF r.todo[t] \in TodoEnded \cup {"running"} THEN r.todo[t] ELSE "cancelled"]
      \in [Todos -> TodoState]
  BY DEF RunRecord, TodoState
<1>2. CancelRemainingTodos(r) \in RunRecord
  BY <1>1 DEF CancelRemainingTodos, RunRecord
<1> QED BY <1>2 DEF CancelledRun, RunRecord, Lifecycle

LEMMA PropagateEffect ==
    ASSUME NEW r \in RunRecord, NEW t \in Todos
    PROVE  /\ Propagate(r, t) \in RunRecord
           /\ Propagate(r, t) = [r EXCEPT !.todo = Propagate(r, t).todo]
           /\ \A u \in Todos : /\ r.todo[u] \in Waits => Propagate(r, t).todo[u] \in Waits \cup {"skipped"}
                               /\ r.todo[u] \notin Waits => Propagate(r, t).todo[u] = r.todo[u]
<1> DEFINE K == Skipped(r, t)
           e == [u \in Todos |-> IF u \in K THEN "skipped" ELSE r.todo[u]]
           touched == {u \in Todos : (NeedsSuccess[u] \cup NeedsEnd[u]) \cap (K \cup {t}) # {}}
           g == [u \in Todos |->
                    IF u \in touched /\ e[u] = "waiting_dependencies" /\ DependenciesSatisfied(e, u)
                    THEN "ready" ELSE e[u]]
<1>1. Propagate(r, t) = [r EXCEPT !.todo = g]
  BY DEF Propagate
<1>2. r.todo \in [Todos -> TodoState]
  BY DEF RunRecord
<1>3. \A u \in K : r.todo[u] \in Waits
  BY SkippedGrounded DEF Some
<1>4. \A u \in Todos : e[u] \in TodoState /\ (e[u] = r.todo[u] \/ (e[u] = "skipped" /\ u \in K))
  <2> HIDE DEF K
  <2> QED BY <1>2 DEF TodoState
<1>5. \A u \in Todos : g[u] = e[u] \/ (g[u] = "ready" /\ e[u] = "waiting_dependencies")
  <2> HIDE DEF e, K, touched
  <2> QED OBVIOUS
<1>6. g \in [Todos -> TodoState]
  <2>1. \A u \in Todos : g[u] \in TodoState
    <3> HIDE DEF g, e, K, touched
    <3> QED BY <1>4, <1>5 DEF TodoState
  <2> HIDE DEF e, K, touched
  <2> QED BY <2>1
<1>7. \A u \in Todos : /\ r.todo[u] \in Waits => g[u] \in Waits \cup {"skipped"}
                       /\ r.todo[u] \notin Waits => g[u] = r.todo[u]
  <2> HIDE DEF g, e, K, touched
  <2> QED BY <1>3, <1>4, <1>5 DEF Waits
<1> HIDE DEF g, e, K, touched
<1> QED BY <1>1, <1>6, <1>7 DEF RunRecord

\* A run is settled as it is, or it is sealed.
LEMMA SettleEffect ==
    ASSUME NEW r \in RunRecord
    PROVE  /\ SettleRunIfPossible(r) \in RunRecord
           /\ SettleRunIfPossible(r) = r \/ SettleRunIfPossible(r).lifecycle \in Sealed
           /\ r.lifecycle = "cancelling" /\ Some(r, {"running"}) = {}
                 => SettleRunIfPossible(r).lifecycle \in Sealed
<1> DEFINE completed == [r EXCEPT !.lifecycle = "completed",
                                  !.outcome = IF Some(r, {"passed"}) = Todos THEN "passed" ELSE "failed"]
<1>2. completed \in RunRecord /\ completed.lifecycle = "completed"
  BY DEF RunRecord, Lifecycle
<1>3. \/ SettleRunIfPossible(r) = r /\ ~(r.lifecycle = "cancelling" /\ Some(r, {"running"}) = {})
      \/ SettleRunIfPossible(r) = Invalidate(CancelledRun(r))
      \/ SettleRunIfPossible(r) = Invalidate(completed) /\ r.lifecycle # "cancelling"
  BY DEF SettleRunIfPossible, CancelledRun
<1> HIDE DEF completed
<1>4. \A q \in RunRecord : Invalidate(q) \in RunRecord /\ Invalidate(q).lifecycle = q.lifecycle
  BY DEF Invalidate, RunRecord
<1> QED BY CancelledType, <1>2, <1>3, <1>4 DEF Sealed

LEMMA SettleInv == ASSUME NEW r, RowInv(r) PROVE RowInv(SettleRunIfPossible(r))
BY SettleEffect DEF RowInv

\* A decided cancellation seals the run.
LEMMA CancelForDecisionEffect ==
    ASSUME NEW r \in RunRecord
    PROVE  CancelRunForDecision(r) \in RunRecord /\ CancelRunForDecision(r).lifecycle \in Sealed
<1>1. CancelRunForDecision(r) = Invalidate(CancelledRun(r))
  BY DEF CancelRunForDecision, CancelledRun
<1> QED BY <1>1, CancelledType DEF Invalidate, RunRecord, Sealed

-----------------------------------------------------------------------------
(***************************************************************************)
(* The steps of a run, as operators from a run to a run.                    *)
(***************************************************************************)

\* Nothing but the fields of the run's row outside its TODOs is written.
SameTodos(q, r) == q.todo = r.todo /\ q.decision = r.decision /\ q.page = r.page

LEMMA SameTodosInv ==
    ASSUME NEW r, NEW q, RowInv(r), q \in RunRecord, SameTodos(q, r),
           r.lifecycle \notin Sealed,
           q.lifecycle \notin Sealed => AuthorityInv(q)
    PROVE  RowInv(q)
BY DEF SameTodos, RowInv, TodosInv

LEMMA NewRunInv ==
    /\ NewRun \in RunRecord
    /\ TodosInv(NewRun)
    /\ \A result \in PolicyResult : RowInv(Admitted(result))
    /\ RowInv(NewRun)
    /\ \A approval \in DecisionStatus :
          RowInv([NewRun EXCEPT !.lifecycle = "created", !.approval = approval])
<1> USE GraphAssumption
<1>1. NewRun \in RunRecord
  BY DEF NewRun, RunRecord, Lifecycle, TodoState, DecisionStatus
<1>2. \A t \in Todos : NewRun.todo[t] = IF NeedsSuccess[t] \cup NeedsEnd[t] = {} THEN "ready"
                                         ELSE "waiting_dependencies"
  BY DEF NewRun
<1>3. Ordered(NewRun.todo)
  BY <1>2 DEF Ordered, DependenciesSatisfied, TodoEnded, Lost
<1>4. TodosInv(NewRun)
  BY <1>2, <1>3 DEF TodosInv, NewRun
<1>5. ASSUME NEW q \in RunRecord, SameTodos(q, NewRun), q.lifecycle \notin Sealed => AuthorityInv(q)
      PROVE  RowInv(q)
  BY <1>4, <1>5 DEF SameTodos, RowInv, TodosInv
<1>6. ASSUME NEW result \in PolicyResult PROVE RowInv(Admitted(result))
  <2>1. Admitted(result) \in RunRecord
    BY <1>1 DEF Admitted, RunRecord, Lifecycle, PolicyResult, DecisionStatus
  <2>2. SameTodos(Admitted(result), NewRun)
    BY <1>1 DEF Admitted, SameTodos, RunRecord, PolicyResult
  <2>3. Admitted(result).lifecycle \notin Sealed => AuthorityInv(Admitted(result))
    BY <1>1 DEF Admitted, NewRun, RunRecord, PolicyResult, AuthorityInv, Sealed
  <2> QED BY <1>5, <2>1, <2>2, <2>3
<1>7. RowInv(NewRun)
  BY <1>1, <1>5 DEF SameTodos, AuthorityInv, NewRun
<1>8. ASSUME NEW approval \in DecisionStatus
      PROVE  RowInv([NewRun EXCEPT !.lifecycle = "created", !.approval = approval])
  <2> DEFINE q == [NewRun EXCEPT !.lifecycle = "created", !.approval = approval]
  <2>1. q \in RunRecord /\ SameTodos(q, NewRun) /\ q.lifecycle = "created"
    BY <1>1 DEF RunRecord, Lifecycle, SameTodos
  <2>2. AuthorityInv(q)
    BY <2>1 DEF AuthorityInv
  <2>3. RowInv(q)
    <3> HIDE DEF q
    <3> QED BY <1>5, <2>1, <2>2
  <2> QED BY <2>3
<1> QED BY <1>1, <1>4, <1>6, <1>7, <1>8

\* A command changes the lifecycle; what runs is allowed to.
LEMMA LifecycleInv ==
    ASSUME NEW r, RowInv(r), NEW to \in {"running", "paused", "cancelling"},
           r.lifecycle \notin Sealed,
           r.lifecycle \in {"absent", "created"} => to = "cancelling",
           to = "running" => ExecutionAllowed(r),
           to = "paused" => r.lifecycle \in {"ready", "running"}
    PROVE  RowInv([r EXCEPT !.lifecycle = to])
<1> DEFINE q == [r EXCEPT !.lifecycle = to]
<1>1. r \in RunRecord /\ AuthorityInv(r)
  BY DEF RowInv
<1>2. q \in RunRecord /\ SameTodos(q, r)
  BY <1>1 DEF RunRecord, Lifecycle, SameTodos
<1>3. /\ q.lifecycle = to /\ q.evaluation = r.evaluation
      /\ q.grant = r.grant /\ q.approval = r.approval
  BY <1>1 DEF RunRecord
<1>4. to = "running" => r.evaluation # "none" /\ r.approval # "open"
                        /\ (r.evaluation = "auto_allowed" \/ r.grant = "active")
  BY DEF ExecutionAllowed, HasOpenDecision, PolicyCurrent
<1>5. to = "paused" => r.evaluation # "none"
  BY <1>1 DEF AuthorityInv, Sealed
<1> HIDE DEF q
<1>6. q.lifecycle \notin Sealed => AuthorityInv(q)
  BY <1>1, <1>3, <1>4, <1>5 DEF AuthorityInv
<1>7. RowInv(q)
  BY <1>2, <1>6, SameTodosInv
<1> QED BY <1>7 DEF q

LEMMA CancelRunInv ==
    ASSUME NEW r, RowInv(r), r.lifecycle \notin Sealed PROVE RowInv(CancelRun(r))
<1>1. CASE Some(r, {"running"}) # {}
  BY <1>1, LifecycleInv DEF CancelRun
<1>2. CASE Some(r, {"running"}) = {}
  <2>1. CancelRun(r) = CancelRunForDecision(r)
    BY <1>2 DEF CancelRun, CancelRunForDecision
  <2> QED BY <2>1, CancelForDecisionEffect DEF RowInv
<1> QED BY <1>1, <1>2

\* The refusal of a run whose policy is not current.
LEMMA AssertInv ==
    ASSUME NEW r, RowInv(r), r.lifecycle # "absent" PROVE RowInv(AssertRunPolicyCurrent(r))
<1>1. r \in RunRecord
  BY DEF RowInv
<1>2. CASE HasOpenDecision(r) \/ PolicyCurrent(r)
  BY <1>2 DEF AssertRunPolicyCurrent
<1>3. CASE /\ ~(HasOpenDecision(r) \/ PolicyCurrent(r))
           /\ r.evaluation = "none" \/ r.lifecycle \in Sealed \cup {"cancelling"}
  <2>1. AssertRunPolicyCurrent(r) = Invalidate(r)
    BY <1>3 DEF AssertRunPolicyCurrent
  <2>2. Invalidate(r) \in RunRecord /\ SameTodos(Invalidate(r), r)
        /\ Invalidate(r).lifecycle = r.lifecycle /\ Invalidate(r).evaluation = r.evaluation
        /\ Invalidate(r).approval = r.approval
    BY <1>1 DEF Invalidate, RunRecord, SameTodos
  <2>3. r.lifecycle \notin Sealed => AuthorityInv(Invalidate(r))
    BY <1>3, <2>2 DEF RowInv, AuthorityInv
  <2>4. r.lifecycle \in Sealed => RowInv(Invalidate(r))
    BY <2>2 DEF RowInv
  <2> QED BY <2>1, <2>2, <2>3, <2>4, SameTodosInv
<1>4. CASE /\ ~(HasOpenDecision(r) \/ PolicyCurrent(r))
           /\ ~(r.evaluation = "none" \/ r.lifecycle \in Sealed \cup {"cancelling"})
  <2> DEFINE q == [r EXCEPT !.approval = "open", !.lifecycle = "paused", !.grant = "none"]
  <2>1. AssertRunPolicyCurrent(r) = q
    BY <1>4 DEF AssertRunPolicyCurrent
  <2>2. q \in RunRecord /\ SameTodos(q, r)
    BY <1>1 DEF RunRecord, SameTodos, Lifecycle, DecisionStatus
  <2>3. q.lifecycle = "paused" /\ q.evaluation = r.evaluation
    BY <1>1 DEF RunRecord
  <2>4. AuthorityInv(q)
    BY <1>4, <2>3 DEF AuthorityInv
  <2> HIDE DEF q
  <2> QED BY <1>4, <2>1, <2>2, <2>4, SameTodosInv
<1> QED BY <1>2, <1>3, <1>4

\* The answers about the plan.
LEMMA ApproveInv ==
    ASSUME NEW r, RowInv(r), r.approval = "open", r.evaluation = "approval_required",
           r.lifecycle \notin Sealed \cup {"cancelling"}
    PROVE  RowInv(ApprovePlan(r))
<1> DEFINE q == [r EXCEPT !.approval = "applied",
                          !.grant = IF r.lifecycle = "paused" THEN "active" ELSE @,
                          !.lifecycle = IF @ = "paused" THEN "ready" ELSE @]
<1>1. r \in RunRecord /\ r.lifecycle \in {"created", "paused"} /\ AuthorityInv(r)
  BY DEF RowInv, AuthorityInv
<1>2. q \in RunRecord /\ SameTodos(q, r)
  BY <1>1 DEF RunRecord, SameTodos, Lifecycle, DecisionStatus
<1>3. q.lifecycle \in {"created", "ready"} /\ q.evaluation = r.evaluation /\ q.approval = "applied"
  BY <1>1 DEF RunRecord
<1>4. AuthorityInv(q)
  BY <1>3 DEF AuthorityInv
<1>5. ApprovePlan(r) = SettleRunIfPossible(q)
  BY DEF ApprovePlan
<1> HIDE DEF q
<1> QED BY <1>2, <1>4, <1>5, SameTodosInv, SettleInv

LEMMA RejectInv == ASSUME NEW r, RowInv(r) PROVE RowInv(RejectPlan(r))
<1>1. [r EXCEPT !.approval = "applied"] \in RunRecord
  BY DEF RowInv, RunRecord, DecisionStatus
<1>2. RowInv(CancelRunForDecision([r EXCEPT !.approval = "applied"]))
  BY <1>1, CancelForDecisionEffect DEF RowInv
<1> QED BY <1>2, SettleInv DEF RejectPlan

-----------------------------------------------------------------------------
(***************************************************************************)
(* The steps of one TODO.                                                   *)
(***************************************************************************)
Underway == {"ready", "running", "waiting_decision", "blocked", "interrupted"}

LEMMA MoveOrdered ==
    ASSUME NEW f \in [Todos -> TodoState], Ordered(f), NEW t \in Todos, f[t] \in Underway,
           NEW s \in Underway
    PROVE  Ordered([f EXCEPT ![t] = s])
<1> DEFINE g == [f EXCEPT ![t] = s]
<1>1. /\ g[t] = s /\ \A u \in Todos : u # t => g[u] = f[u]
      /\ \A u \in Todos : /\ g[u] = "passed" <=> f[u] = "passed"
                          /\ g[u] \in TodoEnded <=> f[u] \in TodoEnded
  BY DEF Underway, TodoEnded
<1> HIDE DEF g
<1>2. \A u \in Todos : DependenciesSatisfied(g, u) <=> DependenciesSatisfied(f, u)
  BY <1>1, GraphAssumption DEF DependenciesSatisfied
<1>3. \A u \in Todos : g[u] \in Lost <=> f[u] \in Lost
  BY <1>1 DEF Lost
<1>4. DependenciesSatisfied(f, t)
  BY DEF Ordered, Underway
<1>5. Ordered(g)
  BY <1>1, <1>2, <1>3, <1>4, GraphAssumption DEF Ordered, Underway
<1> QED BY <1>5 DEF g

SameAuthority(q, r) ==
    /\ q.lifecycle = r.lifecycle /\ q.evaluation = r.evaluation
    /\ q.grant = r.grant /\ q.approval = r.approval

LEMMA StartInv ==
    ASSUME NEW r, RowInv(r), r.lifecycle = "running", NEW t \in Todos, r.todo[t] = "ready",
           r.page = NoTodo, r.tries[t] < MaxTries
    PROVE  RowInv([r EXCEPT !.todo = [r.todo EXCEPT ![t] = "running"], !.page = t,
                            !.tries = [r.tries EXCEPT ![t] = @ + 1]])
<1> DEFINE q == [r EXCEPT !.todo = [r.todo EXCEPT ![t] = "running"], !.page = t,
                          !.tries = [r.tries EXCEPT ![t] = @ + 1]]
<1>1. r \in RunRecord /\ TodosInv(r) /\ AuthorityInv(r)
  BY DEF RowInv, Sealed
<1>2. [r.todo EXCEPT ![t] = "running"] \in [Todos -> TodoState]
      /\ [r.tries EXCEPT ![t] = @ + 1] \in [Todos -> 0 .. MaxTries]
  BY <1>1, GraphAssumption DEF RunRecord, TodoState
<1>3. q \in RunRecord /\ SameAuthority(q, r)
  BY <1>1, <1>2 DEF RunRecord, SameAuthority
<1>4. q.todo = [r.todo EXCEPT ![t] = "running"] /\ q.page = t /\ q.decision = r.decision
  BY <1>1 DEF RunRecord
<1> HIDE DEF q
<1>5. Ordered(q.todo)
  <2>1. r.todo \in [Todos -> TodoState] /\ Ordered(r.todo)
    BY <1>1 DEF TodosInv, RunRecord
  <2>2. r.todo[t] \in Underway /\ "running" \in Underway
    BY DEF Underway
  <2> QED BY <1>4, <2>1, <2>2, MoveOrdered
<1>6. \A u \in Todos : q.todo[u] = IF u = t THEN "running" ELSE r.todo[u]
  BY <1>1, <1>4 DEF RunRecord
<1>7. TodosInv(q)
  BY <1>1, <1>4, <1>5, <1>6, GraphAssumption DEF TodosInv
<1>8. AuthorityInv(q)
  BY <1>1, <1>3 DEF SameAuthority, AuthorityInv
<1>9. RowInv(q)
  BY <1>3, <1>7, <1>8 DEF RowInv
<1> QED BY <1>9 DEF q

LEMMA ResumeInv ==
    ASSUME NEW r, RowInv(r), NEW t \in Todos, r.todo[t] = "interrupted"
    PROVE  RowInv([r EXCEPT !.todo = [r.todo EXCEPT ![t] = "ready"]])
<1> DEFINE q == [r EXCEPT !.todo = [r.todo EXCEPT ![t] = "ready"]]
<1>1. r \in RunRecord
  BY DEF RowInv
<1>2. [r.todo EXCEPT ![t] = "ready"] \in [Todos -> TodoState]
  BY <1>1 DEF RunRecord, TodoState
<1>3. q \in RunRecord /\ SameAuthority(q, r)
  BY <1>1, <1>2 DEF RunRecord, SameAuthority
<1>4. q.todo = [r.todo EXCEPT ![t] = "ready"] /\ q.page = r.page /\ q.decision = r.decision
  BY <1>1 DEF RunRecord
<1> HIDE DEF q
<1>5. TodosInv(r) => Ordered(q.todo)
  <2>1. r.todo \in [Todos -> TodoState] /\ (TodosInv(r) => Ordered(r.todo))
    BY <1>1 DEF TodosInv, RunRecord
  <2>2. r.todo[t] \in Underway /\ "ready" \in Underway
    BY DEF Underway
  <2> QED BY <1>4, <2>1, <2>2, MoveOrdered
<1>6. \A u \in Todos : q.todo[u] = IF u = t THEN "ready" ELSE r.todo[u]
  BY <1>1, <1>4 DEF RunRecord
<1>7. TodosInv(r) => TodosInv(q)
  BY <1>4, <1>5, <1>6 DEF TodosInv
<1>8. RowInv(q)
  BY <1>3, <1>7 DEF RowInv, SameAuthority, AuthorityInv
<1> QED BY <1>8 DEF q

\* TODO t ends in q, which is r but for its state, its decision and the page
\* task.
TodoEnds(q, r, t, s) ==
    /\ SameAuthority(q, r)
    /\ r.lifecycle \notin Sealed => r.todo[t] \in {"running", "waiting_decision", "blocked"}
    /\ s \in {"passed", "failed", "cancelled"} /\ q.todo = [r.todo EXCEPT ![t] = s]
    /\ q.decision[t] # "open" /\ \A u \in Todos \ {t} : q.decision[u] = r.decision[u]
    /\ q.page = IF r.page = t THEN NoTodo ELSE r.page

\* The cascade from it leaves every TODO in order.
LEMMA PropagateInv ==
    ASSUME NEW r \in RunRecord, NEW q \in RunRecord, NEW t \in Todos, NEW s, RowInv(r),
           TodoEnds(q, r, t, s)
    PROVE  RowInv(Propagate(q, t))
<1> USE DEF TodoEnds
<1> DEFINE p == Propagate(q, t)
<1>0. r \in RunRecord
  BY DEF RowInv
<1>1. p \in RunRecord /\ SameAuthority(p, r) /\ p.decision = q.decision /\ p.page = q.page
  BY PropagateEffect DEF SameAuthority, RunRecord
<1>2. \A u \in Todos : q.todo[u] = IF u = t THEN s ELSE r.todo[u]
  BY <1>0 DEF RunRecord
<1>3. \A u \in Todos : /\ q.todo[u] \in Waits => p.todo[u] \in Waits \cup {"skipped"}
                       /\ q.todo[u] \notin Waits => p.todo[u] = q.todo[u]
  BY PropagateEffect
<1>4. ASSUME r.lifecycle \notin Sealed PROVE TodosInv(p)
  <2>1. TodosInv(r)
    BY <1>4 DEF RowInv
  <2>2. Ordered(p.todo)
    <3>1. r.todo \in [Todos -> TodoState] /\ Ordered(r.todo)
      BY <1>0, <2>1 DEF TodosInv, RunRecord
    <3>2. r.todo[t] \in {"running", "waiting_decision", "blocked"}
      BY <1>4
    <3> QED BY <3>1, <3>2, PropagateOrdered
  <2> HIDE DEF p
  <2>3. \A u \in Todos : p.todo[u] \in {"waiting_decision", "blocked"} <=> p.decision[u] = "open"
    BY <1>1, <1>2, <1>3, <2>1 DEF TodosInv, Waits
  <2>4. \A u \in Todos : p.todo[u] = "running" <=> p.page = u
    BY <1>1, <1>2, <1>3, <2>1, GraphAssumption DEF TodosInv, Waits
  <2> QED BY <2>2, <2>3, <2>4 DEF TodosInv
<1> HIDE DEF p
<1>5. RowInv(p)
  BY <1>1, <1>4 DEF RowInv, SameAuthority, AuthorityInv
<1> QED BY <1>5 DEF p

LEMMA CompleteInv ==
    ASSUME NEW r, RowInv(r), r.page # NoTodo, NEW result \in AttemptResult
    PROVE  RowInv(CompleteAttempt(r, result))
<1> DEFINE t == r.page
           s == TodoStateForResult(result)
           q == [r EXCEPT !.todo[t] = s, !.attempt[t] = result, !.page = NoTodo,
                          !.decision[t] = IF s \in {"waiting_decision", "blocked"}
                                          THEN "open" ELSE @]
<1>1. r \in RunRecord /\ t \in Todos
  BY DEF RowInv, RunRecord
<1>2. s \in {"passed", "failed", "blocked", "interrupted", "waiting_decision", "cancelled"}
  BY DEF TodoStateForResult, AttemptResult
<1> HIDE DEF t, s
<1>3. q \in RunRecord /\ SameAuthority(q, r) /\ q.page = NoTodo /\ q.todo = [r.todo EXCEPT ![t] = s]
  BY <1>1, <1>2 DEF RunRecord, SameAuthority, TodoState, DecisionStatus
<1>4. /\ \A u \in Todos \ {t} : q.decision[u] = r.decision[u]
      /\ q.decision[t] = IF s \in {"waiting_decision", "blocked"} THEN "open" ELSE r.decision[t]
  BY <1>1 DEF RunRecord
<1>5. /\ \A u \in Todos : q.todo[u] = IF u = t THEN s ELSE r.todo[u]
  BY <1>1, <1>3 DEF RunRecord
<1>6. CompleteAttempt(r, result) =
         SettleRunIfPossible(IF s \in {"passed", "failed"} \/ (s = "cancelled" /\ r.lifecycle # "cancelling")
                             THEN Propagate(q, t) ELSE q)
  BY DEF CompleteAttempt, s, t
<1> HIDE DEF q
<1>7. r.lifecycle \notin Sealed => r.todo[t] = "running" /\ r.decision[t] # "open"
  BY <1>1 DEF RowInv, TodosInv, t
<1>8. CASE r.lifecycle \in Sealed
  <2>1. RowInv(q)
    BY <1>3, <1>8 DEF RowInv, SameAuthority
  <2>2. RowInv(Propagate(q, t))
    BY <1>1, <1>3, <1>8, PropagateEffect DEF RowInv, SameAuthority, RunRecord
  <2> QED BY <1>6, <2>1, <2>2, SettleInv
<1>9. CASE /\ r.lifecycle \notin Sealed
           /\ s \in {"passed", "failed"} \/ (s = "cancelled" /\ r.lifecycle # "cancelling")
  <2>1. RowInv(Propagate(q, t))
    <3>1. q.page = IF r.page = t THEN NoTodo ELSE r.page
      BY <1>3 DEF t
    <3>2. s \in {"passed", "failed", "cancelled"}
      BY <1>9
    <3>3. q.decision[t] # "open" /\ r.todo[t] \in {"running", "waiting_decision", "blocked"}
      BY <1>4, <1>7, <1>9
    <3>4. TodoEnds(q, r, t, s)
      BY <1>3, <1>4, <3>1, <3>2, <3>3 DEF TodoEnds
    <3> QED BY <1>1, <1>3, <3>4, PropagateInv
  <2> QED BY <1>6, <1>9, <2>1, SettleInv
<1>10. CASE s \in {"blocked", "interrupted", "waiting_decision"} /\ r.lifecycle \notin Sealed
  <2>1. TodosInv(r)
    BY <1>10 DEF RowInv
  <2>2. Ordered(q.todo)
    <3>1. r.todo \in [Todos -> TodoState] /\ Ordered(r.todo)
      BY <1>1, <2>1 DEF TodosInv, RunRecord
    <3>2. r.todo[t] \in Underway /\ s \in Underway
      BY <1>7, <1>10 DEF Underway
    <3> QED BY <1>1, <1>3, <3>1, <3>2, MoveOrdered
  <2>3. \A u \in Todos : u # t => r.todo[u] # "running"
    BY <2>1 DEF TodosInv, t
  <2>4. TodosInv(q)
    BY <1>3, <1>4, <1>5, <1>7, <1>10, <2>1, <2>2, <2>3, GraphAssumption DEF TodosInv
  <2>5. RowInv(q)
    BY <1>3, <2>4 DEF RowInv, SameAuthority, AuthorityInv
  <2> QED BY <1>6, <1>10, <2>5, SettleInv
<1>11. CASE s = "cancelled" /\ r.lifecycle = "cancelling"
  <2>1. Some(q, {"running"}) = {}
    BY <1>5, <1>11 DEF Some, RowInv, TodosInv, Sealed, t
  <2> QED BY <1>3, <1>6, <1>11, <2>1, SettleEffect DEF RowInv, SameAuthority
<1> QED BY <1>2, <1>8, <1>9, <1>10, <1>11

LEMMA AnswerInv ==
    ASSUME NEW r, RowInv(r), NEW t \in Todos, r.decision[t] = "open",
           NEW s \in {"ready", "failed", "cancelled"}
    PROVE  RowInv(AnswerTodo(r, t, s))
<1> DEFINE q == [r EXCEPT !.decision[t] = "applied", !.todo[t] = s]
<1>1. r \in RunRecord
  BY DEF RowInv
<1>2. q \in RunRecord /\ SameAuthority(q, r) /\ q.page = r.page /\ q.todo = [r.todo EXCEPT ![t] = s]
  BY <1>1 DEF RunRecord, SameAuthority, TodoState, DecisionStatus
<1>3. \A u \in Todos : q.decision[u] = IF u = t THEN "applied" ELSE r.decision[u]
  BY <1>1 DEF RunRecord
<1>4. \A u \in Todos : q.todo[u] = IF u = t THEN s ELSE r.todo[u]
  BY <1>1, <1>2 DEF RunRecord
<1>5. AnswerTodo(r, t, s) = SettleRunIfPossible(IF s = "ready" THEN q ELSE Propagate(q, t))
  BY DEF AnswerTodo
<1> HIDE DEF q
<1>6. CASE r.lifecycle \in Sealed
  <2>1. RowInv(q)
    BY <1>2, <1>6 DEF RowInv, SameAuthority
  <2>2. RowInv(Propagate(q, t))
    BY <1>2, <1>6, PropagateEffect DEF RowInv, SameAuthority, RunRecord
  <2> QED BY <1>5, <2>1, <2>2, SettleInv
<1>7. CASE r.lifecycle \notin Sealed
  <2>1. TodosInv(r) /\ r.todo[t] \in {"waiting_decision", "blocked"} /\ r.page # t
    BY <1>7 DEF RowInv, TodosInv
  <2>2. CASE s = "ready"
    <3>1. Ordered(q.todo)
      <4>1. r.todo \in [Todos -> TodoState] /\ Ordered(r.todo)
        BY <1>1, <2>1 DEF TodosInv, RunRecord
      <4>2. r.todo[t] \in Underway /\ s \in Underway
        BY <2>1, <2>2 DEF Underway
      <4> QED BY <1>2, <4>1, <4>2, MoveOrdered
    <3>2. TodosInv(q)
      BY <1>2, <1>3, <1>4, <2>1, <2>2, <3>1 DEF TodosInv
    <3>3. RowInv(q)
      BY <1>2, <3>2 DEF RowInv, SameAuthority, AuthorityInv
    <3> QED BY <1>5, <2>2, <3>3, SettleInv
  <2>3. CASE s # "ready"
    <3>1. RowInv(Propagate(q, t))
      <4>1. q.page = IF r.page = t THEN NoTodo ELSE r.page
        BY <1>2, <2>1
      <4>2. s \in {"passed", "failed", "cancelled"}
        BY <2>3
      <4>3. q.decision[t] # "open" /\ \A u \in Todos \ {t} : q.decision[u] = r.decision[u]
        BY <1>3
      <4>4. TodoEnds(q, r, t, s)
        BY <1>2, <2>1, <4>1, <4>2, <4>3 DEF TodoEnds
      <4> QED BY <1>1, <1>2, <4>4, PropagateInv
    <3> QED BY <1>5, <2>3, <3>1, SettleInv
  <2> QED BY <2>2, <2>3
<1> QED BY <1>6, <1>7

-----------------------------------------------------------------------------
(***************************************************************************)
(* All runs.                                                                *)
(***************************************************************************)
RunsInv == run \in [TestRuns -> RunRecord] /\ \A r \in TestRuns : RowInv(run[r])

LEMMA OneRunMoves ==
    ASSUME RunsInv, NEW r \in TestRuns, NEW q, RowInv(q), run' = [run EXCEPT ![r] = q]
    PROVE  RunsInv'
BY DEF RunsInv, RowInv

LEMMA RunsInvStep == RunsInv /\ [RunsNext]_run => RunsInv'
<1> SUFFICES ASSUME RunsInv, [RunsNext]_run PROVE RunsInv'
  OBVIOUS
<1>0. \A r \in TestRuns : run[r] \in RunRecord /\ RowInv(run[r])
  BY DEF RunsInv
<1>f. run \in [TestRuns -> RunRecord]
  BY DEF RunsInv
<1>1. ASSUME NEW r \in TestRuns, NEW result \in PolicyResult, CreateFormalRun(r, result)
      PROVE  RunsInv'
  BY <1>1, NewRunInv, OneRunMoves DEF CreateFormalRun
<1>2. ASSUME NEW r \in TestRuns, NEW result \in PolicyResult, NEW e \in BOOLEAN,
             CreateFormalRunDies(r, result, e)
      PROVE  RunsInv'
  <2>1. PICK approval \in DecisionStatus :
           run' = [run EXCEPT ![r] = [NewRun EXCEPT !.lifecycle = "created", !.approval = approval]]
    BY <1>2 DEF CreateFormalRunDies, DecisionStatus
  <2> QED BY <2>1, NewRunInv, OneRunMoves
<1>3. ASSUME NEW r \in TestRuns, NEW to \in {"running", "paused"},
             run' = [run EXCEPT ![r].lifecycle = to],
             run[r].lifecycle \notin Sealed \cup {"absent", "created"},
             to = "running" => ExecutionAllowed(run[r]),
             to = "paused" => run[r].lifecycle \in {"ready", "running"}
      PROVE  RunsInv'
  <2>1. run' = [run EXCEPT ![r] = [run[r] EXCEPT !.lifecycle = to]]
    BY <1>f, <1>3
  <2>2. RowInv([run[r] EXCEPT !.lifecycle = to])
    BY <1>0, <1>3, LifecycleInv
  <2> QED BY <2>1, <2>2, OneRunMoves
<1>4. ASSUME NEW r \in TestRuns, Start(r) \/ Resume(r) PROVE RunsInv'
  <2>1. run[r].lifecycle \in {"ready", "paused"} /\ ExecutionAllowed(run[r])
        /\ run' = [run EXCEPT ![r].lifecycle = "running"]
    BY <1>4 DEF Start, Resume, CommandTarget
  <2> QED BY <1>3, <2>1 DEF Sealed
<1>5. ASSUME NEW r \in TestRuns, Pause(r) \/ PauseRunForCoordinator(r) PROVE RunsInv'
  <2>1. run[r].lifecycle \in {"ready", "running"}
        /\ run' = [run EXCEPT ![r].lifecycle = "paused"]
    BY <1>5 DEF Pause, PauseRunForCoordinator, CommandTarget
  <2> QED BY <1>3, <2>1 DEF Sealed
<1>6. ASSUME NEW r \in TestRuns, CancelFormalRun(r) PROVE RunsInv'
  <2>1. run[r].lifecycle \notin Sealed /\ run' = [run EXCEPT ![r] = CancelRun(run[r])]
    BY <1>f, <1>6 DEF CancelFormalRun, CommandTarget
  <2> QED BY <1>0, <2>1, CancelRunInv, OneRunMoves
<1>7. ASSUME NEW r \in TestRuns, ExecutionRefused(r) PROVE RunsInv'
  <2>1. run[r].lifecycle # "absent" /\ run' = [run EXCEPT ![r] = AssertRunPolicyCurrent(run[r])]
    BY <1>f, <1>7 DEF ExecutionRefused
  <2> QED BY <1>0, <2>1, AssertInv, OneRunMoves
<1>8. ASSUME NEW r \in TestRuns, NEW t \in Todos, StartTodo(r, t) PROVE RunsInv'
  <2> DEFINE q == [run[r] EXCEPT !.todo = [run[r].todo EXCEPT ![t] = "running"], !.page = t,
                                 !.tries = [run[r].tries EXCEPT ![t] = @ + 1]]
  <2>1. run' = [run EXCEPT ![r] = q]
    BY <1>0, <1>f, <1>8 DEF StartTodo, RunRecord
  <2>2. RowInv(q)
    BY <1>0, <1>8, StartInv DEF StartTodo
  <2> HIDE DEF q
  <2> QED BY <2>1, <2>2, OneRunMoves
<1>9. ASSUME NEW r \in TestRuns, NEW result \in AttemptResult, CompleteTodoAttempt(r, result)
      PROVE  RunsInv'
  <2>1. run[r].page # NoTodo /\ run' = [run EXCEPT ![r] = CompleteAttempt(run[r], result)]
    BY <1>f, <1>9 DEF CompleteTodoAttempt
  <2> QED BY <1>0, <2>1, CompleteInv, OneRunMoves
<1>10. ASSUME NEW r \in TestRuns, NEW t \in Todos, ResumeInterruptedTodo(r, t) PROVE RunsInv'
  <2> DEFINE q == [run[r] EXCEPT !.todo = [run[r].todo EXCEPT ![t] = "ready"]]
  <2>1. run' = [run EXCEPT ![r] = q]
    BY <1>f, <1>10 DEF ResumeInterruptedTodo
  <2>2. RowInv(q)
    BY <1>0, <1>10, ResumeInv DEF ResumeInterruptedTodo
  <2> HIDE DEF q
  <2> QED BY <2>1, <2>2, OneRunMoves
<1>11. ASSUME NEW r \in TestRuns, AnswerApprove(r) PROVE RunsInv'
  <2>1. /\ run[r].approval = "open" /\ run[r].evaluation = "approval_required"
        /\ run[r].lifecycle \notin Sealed \cup {"cancelling"}
        /\ run' = [run EXCEPT ![r] = ApprovePlan(run[r])]
    BY <1>f, <1>11 DEF AnswerApprove
  <2> QED BY <1>0, <2>1, ApproveInv, OneRunMoves
<1>12. ASSUME NEW r \in TestRuns, AnswerReject(r) PROVE RunsInv'
  <2>1. run' = [run EXCEPT ![r] = RejectPlan(run[r])]
    BY <1>f, <1>12 DEF AnswerReject
  <2> QED BY <1>0, <2>1, RejectInv, OneRunMoves
<1>13. ASSUME NEW r \in TestRuns, NEW t \in Todos, NEW s \in {"ready", "failed", "cancelled"},
              AnswerAboutTodo(r, t, s)
       PROVE  RunsInv'
  <2>1. run[r].decision[t] = "open" /\ run' = [run EXCEPT ![r] = AnswerTodo(run[r], t, s)]
    BY <1>f, <1>13 DEF AnswerAboutTodo
  <2> QED BY <1>0, <2>1, AnswerInv, OneRunMoves
<1>14. CASE PolicyUpgrade
  <2> DEFINE stale(r) == [run[r] EXCEPT !.stale = run[r].lifecycle # "absent"]
  <2>1. run' = [r \in TestRuns |-> stale(r)]
    BY <1>14 DEF PolicyUpgrade
  <2>2. ASSUME NEW r \in TestRuns PROVE stale(r) \in RunRecord /\ RowInv(stale(r))
    <3>1. stale(r) \in RunRecord
      <4>1. \A b \in BOOLEAN : [run[r] EXCEPT !.stale = b] \in RunRecord
        BY <1>0 DEF RunRecord
      <4>2. (run[r].lifecycle # "absent") \in BOOLEAN
        OBVIOUS
      <4> QED BY <4>1, <4>2, Zenon
    <3>2. SameTodos(stale(r), run[r]) /\ SameAuthority(stale(r), run[r])
      BY <1>0 DEF RunRecord, SameTodos, SameAuthority
    <3> HIDE DEF stale
    <3> QED BY <1>0, <3>1, <3>2 DEF RowInv, SameTodos, SameAuthority, TodosInv, AuthorityInv
  <2> HIDE DEF stale
  <2> QED BY <2>1, <2>2 DEF RunsInv
<1>15. CASE UNCHANGED run
  BY <1>15 DEF RunsInv
<1> QED BY <1>1, <1>2, <1>4, <1>5, <1>6, <1>7, <1>8, <1>9, <1>10, <1>11, <1>12, <1>13, <1>14, <1>15
        DEF RunsNext

LEMMA RunsInvariant == RunsSpec => []RunsInv
<1>1. RunsInit => RunsInv
  BY NewRunInv DEF RunsInit, RunsInv
<1> QED BY <1>1, RunsInvStep, PTL DEF RunsSpec

\* Every row keeps to the domains of its columns.
THEOREM RunsTypeCorrect == RunsSpec => []RunsTypeOK
<1>1. RunsInv => RunsTypeOK
  BY DEF RunsInv, RunsTypeOK
<1> QED BY <1>1, RunsInvariant, PTL

\* Whatever cascades of skips, answers and cancellations a run goes through,
\* no TODO is ahead of what it depends on and none waits for what cannot come.
THEOREM DependenciesAreRespected == RunsSpec => []DependenciesRespected
<1>1. RunsInv => DependenciesRespected
  BY DEF RunsInv, RowInv, TodosInv, Ordered, Lost, DependenciesRespected
<1> QED BY <1>1, RunsInvariant, PTL

\* A TODO of an open run waits for a person exactly when that person has a
\* decision to answer.
THEOREM AnswersHaveDecisions == RunsSpec => []NeedsAnswerHasDecision
<1>1. RunsInv => NeedsAnswerHasDecision
  BY DEF RunsInv, RowInv, TodosInv, NeedsAnswerHasDecision
<1> QED BY <1>1, RunsInvariant, PTL

\* A run runs with the approval its evaluation asks for, and an approval that
\* is asked for holds it, whatever releases of the policy come in between.
THEOREM RunningAuthorised == RunsSpec => []RunningIsAuthorised
<1>1. RunsInv => RunningIsAuthorised
  BY DEF RunsInv, RowInv, AuthorityInv, RunningIsAuthorised, Sealed
<1> QED BY <1>1, RunsInvariant, PTL

\* One TODO of a run runs at a time, and it is the one the page task is for.
OneTodoRuns ==
    \A r \in TestRuns : run[r].lifecycle \notin Sealed =>
        Some(run[r], {"running"}) = IF run[r].page = NoTodo THEN {} ELSE {run[r].page}

THEOREM OneTodoAtATime == RunsSpec => []OneTodoRuns
<1>1. RunsInv => OneTodoRuns
  <2> SUFFICES ASSUME RunsInv, NEW r \in TestRuns, run[r].lifecycle \notin Sealed
               PROVE  Some(run[r], {"running"}) = IF run[r].page = NoTodo THEN {} ELSE {run[r].page}
    BY DEF OneTodoRuns
  <2>1. run[r].page \in Todos \cup {NoTodo}
    BY DEF RunsInv, RunRecord
  <2>2. \A t \in Todos : run[r].todo[t] = "running" <=> run[r].page = t
    BY DEF RunsInv, RowInv, TodosInv
  <2> QED BY <2>1, <2>2, GraphAssumption DEF Some
<1> QED BY <1>1, RunsInvariant, PTL

-----------------------------------------------------------------------------
(***************************************************************************)
(* The coordinator.  What its steps do to the row of a run: every write of *)
(* SemanticRuns keeps CoordRow, and is a RowStep or a QuietStep.           *)
(***************************************************************************)

\* What the coordinator relies on besides: a run was admitted without an
\* approval, has no active page task when it is sealed, and has nothing open
\* that holds its execution while a page task is active, unless its policy is
\* an old one.
CoordRow(r) ==
    /\ RowInv(r) /\ r.evaluation = "auto_allowed" /\ r.lifecycle \notin {"absent", "created"}
    /\ r.lifecycle \in Sealed => r.page = NoTodo
    /\ r.page # NoTodo => r.tries[r.page] > 0
    /\ ~r.stale /\ r.lifecycle \notin Sealed => r.approval # "open"
    /\ r.page # NoTodo /\ ~r.stale => \A t \in Todos : r.decision[t] # "open"

\* A step of a run that starts no page task ...
RowStep(r, q) ==
    /\ CoordRow(q) /\ q.tries = r.tries /\ q.page \in {r.page, NoTodo}
    /\ r.lifecycle \in Sealed => q.lifecycle \in Sealed
    /\ r.stale => q.stale

\* ... and ends none, and takes no authority from a run at rest but by sealing it.
QuietStep(r, q) ==
    /\ RowStep(r, q) /\ q.page = r.page /\ q.stale = r.stale
    /\ r.page = NoTodo /\ (ExecutionAllowed(r) \/ r.lifecycle \in Sealed)
          => ExecutionAllowed(q) \/ q.lifecycle \in Sealed

Rest(q, r) == /\ q.page = r.page /\ q.tries = r.tries /\ q.stale = r.stale
              /\ q.evaluation = r.evaluation /\ q.approval = r.approval
              /\ q.decision = r.decision

LEMMA SettleRest ==
    ASSUME NEW r \in RunRecord
    PROVE  Rest(SettleRunIfPossible(r), r)
  BY DEF SettleRunIfPossible, Invalidate, CancelRemainingTodos, Rest, RunRecord

LEMMA CancelRest ==
    ASSUME NEW r \in RunRecord
    PROVE  Rest(CancelRun(r), r)
  BY DEF CancelRun, Invalidate, CancelRemainingTodos, Rest, RunRecord

\* A sealed run has no active page task.
LEMMA SealedAtRest ==
    ASSUME NEW r, RowInv(r), r.lifecycle \notin Sealed, NEW q,
           \/ q = SettleRunIfPossible(r) \/ q = CancelRun(r),
           q.lifecycle \in Sealed
    PROVE  q.page = NoTodo
<1>1. r \in RunRecord /\ TodosInv(r)
  BY DEF RowInv
<1>2. r.page \in Todos \cup {NoTodo} /\ q.page = r.page
  BY <1>1, SettleRest, CancelRest DEF Rest, RunRecord
<1>3. Some(r, {"running"}) = {} \/ Some(r, TodoState \ TodoEnded) = {}
  BY <1>1 DEF SettleRunIfPossible, CancelRun, Sealed, RunRecord
<1>4. \A t \in Todos : r.todo[t] # "running"
  BY <1>3 DEF Some, TodoState, TodoEnded
<1> QED  BY <1>1, <1>2, <1>4 DEF TodosInv

LEMMA SettleStep ==
    ASSUME NEW r, RowInv(r), r.evaluation = "auto_allowed", r.lifecycle \notin {"absent", "created"},
           r.page # NoTodo => r.tries[r.page] > 0,
           ~r.stale /\ r.lifecycle \notin Sealed => r.approval # "open",
           r.page # NoTodo /\ ~r.stale => \A t \in Todos : r.decision[t] # "open",
           r.lifecycle \in Sealed => r.page = NoTodo
    PROVE  CoordRow(SettleRunIfPossible(r))
<1> DEFINE q == SettleRunIfPossible(r)
<1>1. r \in RunRecord
  BY DEF RowInv
<1>2. RowInv(q) /\ Rest(q, r) /\ (q = r \/ q.lifecycle \in Sealed)
  BY <1>1, SettleInv, SettleRest, SettleEffect
<1>3. q.lifecycle \in Sealed => q.page = NoTodo
  <2>1. CASE r.lifecycle \in Sealed
    BY <1>2, <2>1 DEF Rest
  <2>2. CASE r.lifecycle \notin Sealed
    BY <2>2, SealedAtRest
  <2> QED  BY <2>1, <2>2
<1> HIDE DEF q
<1>4. CoordRow(q)
  BY <1>2, <1>3 DEF CoordRow, Rest, Sealed
<1> QED  BY <1>4 DEF q

\* completeTodoAttempt: no page task is active any more, and a run that was
\* being cancelled is cancelled.
LEMMA CompleteStep ==
    ASSUME NEW r, CoordRow(r), r.page # NoTodo, NEW result \in AttemptResult
    PROVE  LET q == CompleteAttempt(r, result)
           IN  /\ RowStep(r, q) /\ q.page = NoTodo /\ q.stale = r.stale
               /\ r.lifecycle = "cancelling" => q.lifecycle \in Sealed
<1> DEFINE t == r.page
           s == TodoStateForResult(result)
           e == [r EXCEPT !.todo[t] = s, !.attempt[t] = result, !.page = NoTodo,
                          !.decision[t] = IF s \in {"waiting_decision", "blocked"}
                                          THEN "open" ELSE @]
           p == IF s \in {"passed", "failed"} \/ (s = "cancelled" /\ r.lifecycle # "cancelling")
                THEN Propagate(e, t) ELSE e
           q == CompleteAttempt(r, result)
<1>1. r \in RunRecord /\ t \in Todos /\ r.lifecycle \notin Sealed /\ TodosInv(r)
  BY DEF CoordRow, RowInv, RunRecord
<1>2. s \in {"passed", "failed", "blocked", "interrupted", "waiting_decision", "cancelled"}
  BY DEF TodoStateForResult, AttemptResult
<1>3. q = SettleRunIfPossible(p)
  BY DEF CompleteAttempt
<1> HIDE DEF s, t
<1>4. /\ e \in RunRecord /\ e.lifecycle = r.lifecycle /\ e.page = NoTodo /\ e.tries = r.tries
      /\ e.stale = r.stale /\ e.evaluation = r.evaluation /\ e.approval = r.approval
      /\ e.todo = [r.todo EXCEPT ![t] = s]
  BY <1>1, <1>2 DEF RunRecord, TodoState, DecisionStatus
<1> HIDE DEF e
<1>5. /\ p \in RunRecord /\ p.lifecycle = r.lifecycle /\ p.page = NoTodo /\ p.tries = r.tries
      /\ p.stale = r.stale /\ p.evaluation = r.evaluation /\ p.approval = r.approval
  BY <1>1, <1>4, PropagateEffect DEF RunRecord
<1> HIDE DEF p
<1>6. RowInv(q)
  BY CompleteInv DEF CoordRow
<1>7. q.page = NoTodo /\ q.tries = r.tries /\ q.stale = r.stale /\ q.evaluation = r.evaluation
      /\ q.approval = r.approval /\ (q = p \/ q.lifecycle \in Sealed)
  BY <1>3, <1>5, SettleRest, SettleEffect DEF Rest
<1>8. CASE r.lifecycle = "cancelling"
  <2>1. p = IF s \in {"passed", "failed"} THEN Propagate(e, t) ELSE e
    BY <1>2, <1>8 DEF p
  <2>2. e.todo \in [Todos -> TodoState] /\ \A u \in Todos : e.todo[u] # "running"
    BY <1>1, <1>2, <1>4 DEF TodosInv, t, RunRecord, CoordRow
  <2>3. \A u \in Todos : p.todo[u] # "running"
    <3>1. \A u \in Todos : /\ e.todo[u] \in Waits => Propagate(e, t).todo[u] \in Waits \cup {"skipped"}
                           /\ e.todo[u] \notin Waits => Propagate(e, t).todo[u] = e.todo[u]
      BY <1>1, <1>4, PropagateEffect
    <3>2. \A u \in Todos : Propagate(e, t).todo[u] # "running"
      BY <2>2, <3>1 DEF Waits
    <3> QED  BY <2>1, <2>2, <3>2
  <2>4. Some(p, {"running"}) = {}
    BY <2>3 DEF Some
  <2>5. q.lifecycle \in Sealed
    BY <1>3, <1>5, <1>8, <2>4, SettleEffect
  <2> QED  BY <1>6, <1>7, <2>5 DEF RowStep, CoordRow, Sealed
<1>9. CASE r.lifecycle # "cancelling"
  BY <1>1, <1>5, <1>6, <1>7, <1>9 DEF RowStep, CoordRow, Sealed
<1> QED  BY <1>8, <1>9

\* A lifecycle that is set, with the rest of the row as it is.
LEMMA MovedStep ==
    ASSUME NEW r, CoordRow(r), NEW to \in {"running", "paused", "cancelling"},
           r.lifecycle \notin Sealed, to = "running" => ExecutionAllowed(r),
           to = "paused" => r.lifecycle \in {"ready", "running"},
           to = "cancelling" => r.page # NoTodo
    PROVE  QuietStep(r, [r EXCEPT !.lifecycle = to])
<1> DEFINE q == [r EXCEPT !.lifecycle = to]
<1>1. r \in RunRecord
  BY DEF CoordRow, RowInv
<1>2. RowInv(q)
  BY LifecycleInv DEF CoordRow
<1>3. q.lifecycle = to /\ Rest(q, r) /\ q.grant = r.grant
  BY <1>1 DEF RunRecord, Rest
<1> HIDE DEF q
<1>4. to # "cancelling" => (ExecutionAllowed(r) => ExecutionAllowed(q))
  BY <1>3 DEF Rest, ExecutionAllowed, HasOpenDecision, PolicyCurrent, Sealed
<1>5. QuietStep(r, q)
  BY <1>2, <1>3, <1>4 DEF QuietStep, RowStep, CoordRow, Rest, Sealed
<1> QED  BY <1>5 DEF q

\* The coordinator pauses a run that it may.
LEMMA PausedStep ==
    ASSUME NEW r, CoordRow(r)
    PROVE  QuietStep(r, Paused(r))
<1>1. r \in RunRecord
  BY DEF CoordRow, RowInv
<1>2. Paused(r) = IF r.lifecycle \in {"ready", "running"} THEN [r EXCEPT !.lifecycle = "paused"] ELSE r
  BY <1>1 DEF Paused, RunRecord
<1>3. QuietStep(r, r)
  BY DEF QuietStep, RowStep
<1> QED  BY <1>2, <1>3, MovedStep DEF Sealed

LEMMA CancelStep ==
    ASSUME NEW r, CoordRow(r), r.lifecycle \notin Sealed
    PROVE  QuietStep(r, CancelRun(r))
<1> DEFINE q == CancelRun(r)
<1>1. r \in RunRecord /\ TodosInv(r)
  BY DEF CoordRow, RowInv
<1>2. RowInv(q) /\ Rest(q, r)
  BY <1>1, CancelRunInv, CancelRest DEF CoordRow
<1>3. q.lifecycle \in {"cancelling", "cancelled"} /\ (r.page = NoTodo => q.lifecycle = "cancelled")
  <2>1. r.page = NoTodo => Some(r, {"running"}) = {}
    BY <1>1, GraphAssumption DEF TodosInv, Some
  <2>2. CASE Some(r, {"running"}) = {}
    BY <1>1, <2>2, CancelForDecisionEffect DEF CancelRun, Invalidate, CancelRemainingTodos, RunRecord
  <2>3. CASE Some(r, {"running"}) # {}
    BY <1>1, <2>1, <2>3 DEF CancelRun, RunRecord
  <2> QED  BY <2>2, <2>3
<1>4. q.lifecycle \in Sealed => q.page = NoTodo
  BY SealedAtRest DEF CoordRow
<1> HIDE DEF q
<1>5. QuietStep(r, q)
  BY <1>2, <1>3, <1>4 DEF QuietStep, RowStep, CoordRow, Rest, Sealed
<1> QED  BY <1>5 DEF q

\* assertRunPolicyCurrent refuses a run because its policy is stale, it is
\* being cancelled or sealed, or a decision holds it.
LEMMA AssertStep ==
    ASSUME NEW r, CoordRow(r)
    PROVE  LET q == AssertRunPolicyCurrent(r)
           IN  /\ RowStep(r, q) /\ q.page = r.page /\ q.stale = r.stale
               /\ ~ExecutionAllowed(r) /\ r.page # NoTodo /\ ~r.stale
                     => r.lifecycle = "cancelling" /\ q.lifecycle = "cancelling"
               /\ ~r.stale => q.lifecycle = r.lifecycle
<1> DEFINE q == AssertRunPolicyCurrent(r)
<1>1. r \in RunRecord
  BY DEF CoordRow, RowInv
<1>2. RowInv(q)
  BY AssertInv DEF CoordRow
<1>3. \/ q = r
      \/ q = Invalidate(r)
      \/ /\ q = [r EXCEPT !.approval = "open", !.lifecycle = "paused", !.grant = "none"]
         /\ r.lifecycle \notin Sealed /\ r.stale
  BY DEF AssertRunPolicyCurrent, CoordRow, PolicyCurrent
<1>4. /\ q.page = r.page /\ q.tries = r.tries /\ q.stale = r.stale /\ q.decision = r.decision
      /\ q.evaluation = r.evaluation
      /\ \/ q.approval = r.approval /\ q.lifecycle = r.lifecycle
         \/ r.stale /\ r.lifecycle \notin Sealed /\ q.lifecycle = "paused"
  <2>1. CASE q = r \/ q = Invalidate(r)
    <3> HIDE DEF q
    <3> QED  BY <1>1, <2>1 DEF RunRecord, Invalidate
  <2>2. CASE /\ q = [r EXCEPT !.approval = "open", !.lifecycle = "paused", !.grant = "none"]
             /\ r.lifecycle \notin Sealed /\ r.stale
    <3> HIDE DEF q
    <3> QED  BY <1>1, <2>2 DEF RunRecord
  <2> QED  BY <1>3, <2>1, <2>2
<1>5. ~ExecutionAllowed(r) /\ r.page # NoTodo /\ ~r.stale => r.lifecycle = "cancelling"
  BY DEF CoordRow, ExecutionAllowed, HasOpenDecision, PolicyCurrent
<1> HIDE DEF q
<1>6. RowStep(r, q)
  BY <1>2, <1>4 DEF RowStep, CoordRow, Sealed
<1> QED  BY <1>4, <1>5, <1>6 DEF q

\* The answer about a TODO leaves the other decisions, and the page task.
LEMMA AnswerStep ==
    ASSUME NEW r, CoordRow(r), r.lifecycle \notin Sealed, NEW t \in Todos, r.decision[t] = "open",
           NEW s \in {"ready", "failed"}
    PROVE  QuietStep(r, AnswerTodo(r, t, s))
<1> DEFINE e == [r EXCEPT !.decision[t] = "applied", !.todo[t] = s]
           p == IF s = "ready" THEN e ELSE Propagate(e, t)
           q == AnswerTodo(r, t, s)
<1>1. r \in RunRecord /\ TodosInv(r)
  BY DEF CoordRow, RowInv
<1>2. RowInv(q)
  BY AnswerInv DEF CoordRow
<1>3. q = SettleRunIfPossible(p)
  BY DEF AnswerTodo
<1>4. /\ e \in RunRecord /\ e.lifecycle = r.lifecycle /\ e.page = r.page /\ e.tries = r.tries
      /\ e.stale = r.stale /\ e.evaluation = r.evaluation /\ e.approval = r.approval
      /\ e.todo = [r.todo EXCEPT ![t] = s]
      /\ \A u \in Todos : e.decision[u] = "open" => r.decision[u] = "open"
  BY <1>1 DEF RunRecord, TodoState, DecisionStatus
<1> HIDE DEF e
<1>5. /\ p \in RunRecord /\ p.lifecycle = r.lifecycle /\ p.page = r.page /\ p.tries = r.tries
      /\ p.stale = r.stale /\ p.evaluation = r.evaluation /\ p.approval = r.approval
      /\ p.decision = e.decision
      /\ \A u \in Todos : e.todo[u] = "running" => p.todo[u] = "running"
  BY <1>1, <1>4, PropagateEffect DEF RunRecord, Waits
<1> HIDE DEF p
<1>6. /\ q.page = r.page /\ q.tries = r.tries /\ q.stale = r.stale /\ q.evaluation = r.evaluation
      /\ q.approval = r.approval /\ q.decision = e.decision /\ (q = p \/ q.lifecycle \in Sealed)
  BY <1>3, <1>5, SettleRest, SettleEffect DEF Rest
<1>7. q.lifecycle \in Sealed => q.page = NoTodo
  <2> SUFFICES ASSUME q.lifecycle \in Sealed, q.page # NoTodo PROVE FALSE
    OBVIOUS
  <2>1. r.page \in Todos /\ r.page # t /\ r.todo[r.page] = "running"
    BY <1>1, <1>6 DEF TodosInv, RunRecord
  <2>2. p.todo[r.page] = "running"
    BY <1>1, <1>4, <1>5, <2>1 DEF RunRecord
  <2>3. Some(p, {"running"}) # {} /\ Some(p, TodoState \ TodoEnded) # {}
    BY <2>1, <2>2 DEF Some, TodoState, TodoEnded
  <2> QED  BY <1>3, <1>5, <2>3 DEF SettleRunIfPossible, Sealed
<1>8. ~ExecutionAllowed(r)
  BY DEF ExecutionAllowed, HasOpenDecision
<1> HIDE DEF q
<1>9. QuietStep(r, q)
  BY <1>2, <1>4, <1>5, <1>6, <1>7, <1>8 DEF QuietStep, RowStep, CoordRow, Sealed
<1> QED  BY <1>9 DEF q

LEMMA ResumeStep ==
    ASSUME NEW r, CoordRow(r), NEW t \in Todos, r.todo[t] = "interrupted", ExecutionAllowed(r)
    PROVE  QuietStep(r, [r EXCEPT !.todo = [r.todo EXCEPT ![t] = "ready"]])
<1> DEFINE q == [r EXCEPT !.todo = [r.todo EXCEPT ![t] = "ready"]]
<1>1. r \in RunRecord
  BY DEF CoordRow, RowInv
<1>2. RowInv(q)
  BY ResumeInv DEF CoordRow
<1>3. q.lifecycle = r.lifecycle /\ Rest(q, r) /\ q.grant = r.grant
  BY <1>1 DEF RunRecord, Rest
<1> HIDE DEF q
<1>4. ExecutionAllowed(q)
  BY <1>3 DEF Rest, ExecutionAllowed, HasOpenDecision, PolicyCurrent
<1>5. QuietStep(r, q)
  BY <1>2, <1>3, <1>4 DEF QuietStep, RowStep, CoordRow, Rest
<1> QED  BY <1>5 DEF q

\* startTodo: the page task of a TODO that is allowed to run.
LEMMA StartStep ==
    ASSUME NEW r, CoordRow(r), r.lifecycle = "running", ExecutionAllowed(r),
           NEW t \in Todos, r.todo[t] = "ready", r.page = NoTodo, r.tries[t] < MaxTries
    PROVE  LET q == [r EXCEPT !.todo = [r.todo EXCEPT ![t] = "running"], !.page = t,
                              !.tries = [r.tries EXCEPT ![t] = @ + 1]]
           IN  /\ CoordRow(q) /\ q.page = t /\ q.stale = r.stale /\ q.lifecycle = r.lifecycle
               /\ q.tries[t] = r.tries[t] + 1
               /\ \A u \in Todos \ {t} : q.tries[u] = r.tries[u]
<1> DEFINE q == [r EXCEPT !.todo = [r.todo EXCEPT ![t] = "running"], !.page = t,
                          !.tries = [r.tries EXCEPT ![t] = @ + 1]]
<1>1. r \in RunRecord /\ r.tries[t] \in Nat
  BY GraphAssumption DEF CoordRow, RowInv, RunRecord
<1>2. RowInv(q)
  BY StartInv DEF CoordRow
<1>3. /\ q.lifecycle = r.lifecycle /\ q.page = t /\ q.stale = r.stale /\ q.decision = r.decision
      /\ q.evaluation = r.evaluation /\ q.approval = r.approval
      /\ q.tries[t] = r.tries[t] + 1 /\ \A u \in Todos \ {t} : q.tries[u] = r.tries[u]
  BY <1>1 DEF RunRecord
<1> HIDE DEF q
<1>4. CoordRow(q)
  BY <1>1, <1>2, <1>3 DEF CoordRow, ExecutionAllowed, HasOpenDecision, Sealed
<1> QED  BY <1>3, <1>4 DEF q

LEMMA UpgradeStep ==
    ASSUME NEW r, CoordRow(r)
    PROVE  LET q == [r EXCEPT !.stale = r.lifecycle # "absent"]
           IN  RowStep(r, q) /\ q.page = r.page
<1> DEFINE q == [r EXCEPT !.stale = TRUE]
<1>1. r \in RunRecord /\ r.lifecycle # "absent"
  BY DEF CoordRow, RowInv
<1>2. q \in RunRecord /\ SameTodos(q, r) /\ SameAuthority(q, r) /\ q.tries = r.tries /\ q.stale
  BY <1>1 DEF RunRecord, SameTodos, SameAuthority
<1> HIDE DEF q
<1>3. RowStep(r, q) /\ q.page = r.page
  BY <1>2 DEF CoordRow, RowStep, RowInv, SameTodos, SameAuthority, TodosInv, AuthorityInv
<1>4. [r EXCEPT !.stale = r.lifecycle # "absent"] = q
  BY <1>1, Zenon DEF q
<1> QED  BY <1>3, <1>4

-----------------------------------------------------------------------------
(***************************************************************************)
(* The outbox of the coordinator: it grows at its end, each identifier is in *)
(* it once, and an item that is there changes its status only.             *)
(***************************************************************************)

\* What an item of the outbox is about, a lease or none, and the items.
Key  == ItemId \cup {NoLease}
Item == [id : ItemId, lease : Key, status : ItemStatus, done : BOOLEAN]
Open  == {"pending", "retryable_failed", "dispatching"}

\* The outbox p continues q: items stay in their places, what is settled stays
\* so, and no item has the identifier of another.
Continues(q, p) ==
    /\ p \in Seq(Item) /\ DOMAIN q \subseteq DOMAIN p
    /\ \A j \in DOMAIN q : /\ p[j].id = q[j].id /\ p[j].lease = q[j].lease
                           /\ p[j].status \in Open => q[j].status \in Open
    /\ \A j \in DOMAIN p \ DOMAIN q : \A k \in DOMAIN p : p[k].id = p[j].id => k = j

LEMMA ContinuesOn ==
    ASSUME NEW q \in Seq(Item), NEW p, NEW o, Continues(q, p), Continues(p, o)
    PROVE  Continues(q, o)
<1>1. ASSUME NEW j \in DOMAIN o \ DOMAIN q, NEW k \in DOMAIN o, o[k].id = o[j].id PROVE k = j
  BY <1>1 DEF Continues
<1> QED  BY <1>1 DEF Continues

LEMMA ContinuesSame == ASSUME NEW q \in Seq(Item) PROVE Continues(q, q)
  BY DEF Continues

LEMMA Enqueued ==
    ASSUME NEW q \in Seq(Item), NEW id \in ItemId, NEW key \in Key
    PROVE  LET p == Enqueue(q, id, key)
           IN  /\ Continues(q, p)
               /\ \A j \in DOMAIN q : p[j] = q[j]
               /\ \A j \in DOMAIN p \ DOMAIN q :
                     p[j].id = id /\ p[j].lease = key /\ p[j].status = "pending"
               /\ \E j \in DOMAIN p : p[j].id = id
<1> DEFINE new == [id |-> id, lease |-> key, status |-> "pending", done |-> FALSE]
<1>1. new \in Item /\ new.id = id /\ new.lease = key /\ new.status = "pending"
  BY DEF Item, ItemStatus
<1>2. CASE \E i \in DOMAIN q : q[i].id = id
  BY <1>2, ContinuesSame DEF Enqueue
<1>3. CASE ~ \E i \in DOMAIN q : q[i].id = id
  <2>1. Enqueue(q, id, key) = Append(q, new)
    BY <1>3 DEF Enqueue
  <2> HIDE DEF new
  <2>0. Append(q, new) \in Seq(Item)
    BY <1>1
  <2>2. PICK p \in Seq(Item) : p = Append(q, new)
    BY <2>0
  <2>3. /\ \A j \in DOMAIN q : j \in DOMAIN p /\ p[j] = q[j]
        /\ \A j \in DOMAIN p \ DOMAIN q : j = Len(q) + 1 /\ p[j] = new
        /\ Len(q) + 1 \in DOMAIN p /\ p[Len(q) + 1] = new
    BY <1>1, <2>2
  <2>4. Continues(q, p)
    BY <1>1, <1>3, <2>3 DEF Continues
  <2> QED  BY <1>1, <2>1, <2>2, <2>3, <2>4
<1> QED  BY <1>2, <1>3

LEMMA SettledOne ==
    ASSUME NEW q \in Seq(Item), NEW i \in DOMAIN q, NEW s \in ItemStatus,
           s \in Open => q[i].status \in Open
    PROVE  LET p == Settled(q, i, s)
           IN  /\ Continues(q, p) /\ DOMAIN p = DOMAIN q /\ p[i].status = s
               /\ \A j \in DOMAIN q \ {i} : p[j] = q[j]
<1>1. q[i] \in Item /\ DOMAIN q = 1 .. Len(q) /\ Len(q) \in Nat
  OBVIOUS
<1> DEFINE x == [q[i] EXCEPT !.status = s]
<1>2. x \in Item /\ x.id = q[i].id /\ x.lease = q[i].lease /\ x.status = s
  BY <1>1 DEF Item
<1>3. Settled(q, i, s) = [q EXCEPT ![i] = x]
  BY DEF Settled
<1> HIDE DEF x
<1> DEFINE p == [q EXCEPT ![i] = x]
<1>4. DOMAIN p = DOMAIN q /\ p[i] = x /\ \A j \in DOMAIN q \ {i} : p[j] = q[j]
  OBVIOUS
<1>5. p \in Seq(Item)
  BY <1>1, <1>2
<1>6. Continues(q, p)
  <2> HIDE DEF p
  <2> QED  BY <1>2, <1>4, <1>5 DEF Continues
<1> QED  BY <1>2, <1>3, <1>4, <1>6

\* The statuses of several items written at once.
LEMMA SettledMany ==
    ASSUME NEW q \in Seq(Item), NEW S, NEW s \in ItemStatus,
           s \in Open => \A j \in DOMAIN q : j \in S => q[j].status \in Open
    PROVE  LET p == [j \in DOMAIN q |-> IF j \in S THEN [q[j] EXCEPT !.status = s] ELSE q[j]]
           IN  /\ Continues(q, p) /\ DOMAIN p = DOMAIN q
               /\ \A j \in DOMAIN q : IF j \in S THEN p[j].status = s ELSE p[j] = q[j]
<1> DEFINE p == [j \in DOMAIN q |-> IF j \in S THEN [q[j] EXCEPT !.status = s] ELSE q[j]]
<1>1. DOMAIN q = 1 .. Len(q) /\ Len(q) \in Nat /\ \A j \in DOMAIN q : q[j] \in Item
  OBVIOUS
<1>2. \A j \in DOMAIN q : /\ p[j] \in Item /\ p[j].id = q[j].id /\ p[j].lease = q[j].lease
                          /\ IF j \in S THEN p[j].status = s ELSE p[j] = q[j]
  BY <1>1 DEF Item
<1>3. DOMAIN p = DOMAIN q
  OBVIOUS
<1>4. p \in Seq(Item)
  <2>1. p \in [1 .. Len(q) -> Item]
    BY <1>1, <1>2
  <2> HIDE DEF p
  <2> QED  BY <1>1, <2>1
<1> HIDE DEF p
<1>5. Continues(q, p)
  BY <1>2, <1>3, <1>4 DEF Continues
<1> QED  BY <1>2, <1>3, <1>5 DEF p

LEMMA RecoveredAll ==
    ASSUME NEW q \in Seq(Item)
    PROVE  LET p == Recovered(q)
           IN  /\ Continues(q, p) /\ DOMAIN p = DOMAIN q
               /\ \A j \in DOMAIN q :
                     IF q[j].status = "dispatching" THEN p[j].status = "pending" ELSE p[j] = q[j]
<1> DEFINE S == {j \in DOMAIN q : q[j].status = "dispatching"}
<1>1. Recovered(q) =
        [j \in DOMAIN q |-> IF j \in S THEN [q[j] EXCEPT !.status = "pending"] ELSE q[j]]
  BY DEF Recovered
<1>2. "pending" \in ItemStatus /\ \A j \in DOMAIN q : j \in S => q[j].status \in Open
  BY DEF ItemStatus, Open
<1>3. \A j \in DOMAIN q : j \in S <=> q[j].status = "dispatching"
  OBVIOUS
<1> HIDE DEF S
<1> DEFINE p == [j \in DOMAIN q |-> IF j \in S THEN [q[j] EXCEPT !.status = "pending"] ELSE q[j]]
<1>4. /\ Continues(q, p) /\ DOMAIN p = DOMAIN q
      /\ \A j \in DOMAIN q : IF j \in S THEN p[j].status = "pending" ELSE p[j] = q[j]
  BY <1>2, SettledMany
<1> HIDE DEF p
<1>5. Recovered(q) = p
  BY <1>1 DEF p
<1> QED  BY <1>3, <1>4, <1>5

-----------------------------------------------------------------------------
(***************************************************************************)
(* The inductive invariant, first part: what an item of the outbox, the lease *)
(* of a run and the link to an agent say of each other.  LinkStep is what a *)
(* step may do to them; LinksStep shows that it keeps Links.               *)
(***************************************************************************)

\* ... and only the item at i changes its status otherwise than by recovery;
\* what is new is pending and one of N.
Box(q, p, i, N) ==
    /\ Continues(q, p)
    /\ \A j \in DOMAIN q \ {i} : /\ q[j].status = "pending" => p[j].status = "pending"
                                 /\ p[j].status = "dispatching" => q[j].status = "dispatching"
    /\ \A j \in DOMAIN p \ DOMAIN q : p[j].status = "pending" /\ <<p[j].id, p[j].lease>> \in N

Quiet(q) == \A j \in DOMAIN q : q[j].status # "dispatching"

LEMMA BoxSame == ASSUME NEW q \in Seq(Item), NEW i, NEW N PROVE Box(q, q, i, N)
  BY ContinuesSame DEF Box

LEMMA BoxThen ==
    ASSUME NEW q \in Seq(Item), NEW p, NEW o, NEW i \in DOMAIN q \cup {0}, NEW N,
           Box(q, p, i, N), Box(p, o, i, N)
    PROVE  Box(q, o, i, N)
<1>1. Continues(q, o)
  BY ContinuesOn DEF Box
<1>2. DOMAIN q \subseteq DOMAIN p /\ p \in Seq(Item)
  BY DEF Box, Continues
<1>3. \A j \in DOMAIN p \ DOMAIN q : j # i
  BY <1>2
<1>4. \A j \in DOMAIN p : j \in DOMAIN o /\ o[j].id = p[j].id /\ o[j].lease = p[j].lease
  BY DEF Box, Continues
<1> QED  BY <1>1, <1>2, <1>3, <1>4 DEF Box

LEMMA BoxEnqueued ==
    ASSUME NEW q \in Seq(Item), NEW id \in ItemId, NEW key \in Key, NEW i, NEW N, <<id, key>> \in N
    PROVE  LET p == Enqueue(q, id, key)
           IN  /\ Box(q, p, i, N) /\ p \in Seq(Item) /\ (Quiet(q) => Quiet(p))
               /\ \A j \in DOMAIN q : j \in DOMAIN p /\ p[j] = q[j]
               /\ \E j \in DOMAIN p : p[j].id = id
<1>1. PICK p : p = Enqueue(q, id, key)
  OBVIOUS
<1>2. /\ Continues(q, p)
      /\ \A j \in DOMAIN q : p[j] = q[j]
      /\ \A j \in DOMAIN p \ DOMAIN q : p[j].id = id /\ p[j].lease = key /\ p[j].status = "pending"
      /\ \E j \in DOMAIN p : p[j].id = id
  BY <1>1, Enqueued
<1>3. p \in Seq(Item) /\ DOMAIN q \subseteq DOMAIN p
  BY <1>2 DEF Continues
<1> QED  BY <1>1, <1>2, <1>3 DEF Box, Quiet

LEMMA BoxSettled ==
    ASSUME NEW q \in Seq(Item), NEW i \in DOMAIN q, NEW s \in ItemStatus, NEW N,
           s \in Open => q[i].status \in Open
    PROVE  LET p == Settled(q, i, s)
           IN  /\ Box(q, p, i, N) /\ p \in Seq(Item) /\ DOMAIN p = DOMAIN q
               /\ p[i].status = s /\ \A j \in DOMAIN q \ {i} : p[j] = q[j]
<1>1. PICK p : p = Settled(q, i, s)
  OBVIOUS
<1>2. Continues(q, p) /\ DOMAIN p = DOMAIN q /\ p[i].status = s
      /\ \A j \in DOMAIN q \ {i} : p[j] = q[j]
  BY <1>1, SettledOne
<1>3. p \in Seq(Item)
  BY <1>2 DEF Continues
<1> QED  BY <1>1, <1>2, <1>3 DEF Box

LEMMA BoxRecovered ==
    ASSUME NEW q \in Seq(Item), NEW i, NEW N
    PROVE  LET p == Recovered(q)
           IN  /\ Box(q, p, i, N) /\ p \in Seq(Item) /\ Quiet(p) /\ DOMAIN p = DOMAIN q
               /\ \A j \in DOMAIN q : p[j].status \in {q[j].status, "pending"}
<1>1. PICK p : p = Recovered(q)
  OBVIOUS
<1>2. /\ Continues(q, p) /\ DOMAIN p = DOMAIN q
      /\ \A j \in DOMAIN q :
            IF q[j].status = "dispatching" THEN p[j].status = "pending" ELSE p[j] = q[j]
  BY <1>1, RecoveredAll
<1>3. p \in Seq(Item)
  BY <1>2 DEF Continues
<1> QED  BY <1>1, <1>2, <1>3 DEF Box, Quiet

-----------------------------------------------------------------------------
AtRest  == {"idle", "reconciling", "capturing", "claiming"}
Working == {"calling", "answered", "cleanup", "discarding", "revoking"}
Tick    == [at : AtRest \cup Working, item : Nat, lifecycle : Lifecycle \cup {"none"},
            seen : AgentStatus \cup {"fresh", "replay"}]

Types ==
    /\ run \in [TestRuns -> RunRecord] /\ \A r \in TestRuns : CoordRow(run[r])
    /\ job \in [TestRuns -> JobState] /\ outbox \in Seq(Item)
    /\ lk \in [TestRuns -> Key] /\ agentLink \in [TestRuns -> BOOLEAN]
    /\ session \in [TestRuns -> {"none", "active", "closed"}] /\ lease \in Key
    /\ agent \in [PageTasks -> [status : AgentStatus, version : Nat]] /\ tick \in Tick

\* No item has the identifier of another.
Unique == \A i, j \in DOMAIN outbox : outbox[i].id = outbox[j].id => i = j

CreatesFor(i, r) == outbox[i].id.kind = "agent_create" /\ IsPageOf(outbox[i].id, r)

\* The lease that is linked to a page task is the run's own, its token is known,
\* and its item is settled, or it comes before the order of the agent.
LeaseLinked ==
    \A r \in TestRuns : run[r].page # NoTodo /\ lk[r] # NoLease =>
        /\ lk[r].run = r /\ lk[r].kind = "lease_create" /\ lk[r] \in secrets
        /\ \E j \in DOMAIN outbox :
              /\ outbox[j].id = lk[r]
              /\ outbox[j].status \in Open =>
                    /\ outbox[j].status = "pending" /\ ~agentLink[r]
                    /\ \A i \in DOMAIN outbox : CreatesFor(i, r) => j < i /\ outbox[i].status = "pending"

\* An order of an agent that may still be carried out is for the active page
\* task and its lease, or the agent exists, or the run takes no agents.
OrderInv(i) ==
    LET id == outbox[i].id  q == run[id.run]
    IN  /\ id.todo \in Todos /\ 0 < id.n /\ id.n <= q.tries[id.todo] /\ id.g = 0
        /\ outbox[i].status \in Open =>
              \/ IsPageOf(id, id.run) /\ outbox[i].lease = lk[id.run] /\ lk[id.run] # NoLease
              \/ agent[<<id.run, id.todo, id.n>>].status # "none"
              \/ q.lifecycle \in Sealed \/ q.stale
OrdersOK == \A i \in DOMAIN outbox : outbox[i].id.kind = "agent_create" => OrderInv(i)

\* A page task whose agent is linked has an agent.
AgentLinked ==
    \A r \in TestRuns : agentLink[r] /\ run[r].page # NoTodo => agent[Page(r)].status # "none"

\* What is revoked belongs to no active page task, and its item is settled.
RevokeInv(key) ==
    /\ key.kind = "lease_create" /\ (run[key.run].page # NoTodo => lk[key.run] # key)
    /\ \E j \in DOMAIN outbox : outbox[j].id = key
    /\ \A j \in DOMAIN outbox : outbox[j].id = key => outbox[j].status \notin Open
GivenBack(id, key) == key.run = id.run /\ run[id.run].lifecycle \in Sealed
RevokeOK(id, key) ==
    /\ id.kind = "revoke" => RevokeInv(key)
    /\ id.kind = "policy_revoke" => GivenBack(id, key)
    /\ id.kind \in Closing /\ key # NoLease => GivenBack(id, key)
RevokesOK == \A i \in DOMAIN outbox : RevokeOK(outbox[i].id, outbox[i].lease)

\* A lease is asked for to work on a TODO.
LeasesNamed == \A i \in DOMAIN outbox : outbox[i].id.kind = "lease_create" => outbox[i].id.todo \in Todos

\* An agent that is told to go on exists.
AgentKnown(id) ==
    /\ <<id.run, id.todo, id.n>> \in PageTasks
    /\ agent[<<id.run, id.todo, id.n>>].status # "none"
ResumesKnown == \A i \in DOMAIN outbox : outbox[i].id.kind = "agent_resume" => AgentKnown(outbox[i].id)

Links ==
    /\ Unique /\ LeaseLinked /\ OrdersOK /\ AgentLinked /\ RevokesOK
    /\ LeasesNamed /\ ResumesKnown

-----------------------------------------------------------------------------
\* What a step does that starts no page task.
StepRows == run' \in [TestRuns -> RunRecord] /\ \A r \in TestRuns : RowStep(run[r], run'[r])

\* What may be appended
NewOK(id, key) ==
    /\ id.kind # "agent_create" /\ (id.kind = "session_create" => job'[id.run] # "queued")
    /\ id.kind = "lease_create" => id.todo \in Todos
    /\ id.kind = "agent_resume" => AgentKnown(id)
    /\ id.kind = "revoke" =>
          /\ key.kind = "lease_create" /\ key.run \in TestRuns /\ run'[key.run].page = NoTodo
          /\ \E j \in DOMAIN outbox : outbox[j].id = key
          /\ \A j \in DOMAIN outbox : outbox[j].id = key => outbox[j].status \notin Open
    /\ id.kind = "policy_revoke" \/ (id.kind \in Closing /\ key # NoLease)
          => key.run = id.run /\ run'[id.run].lifecycle \in Sealed
NewItems == \A j \in DOMAIN outbox' \ DOMAIN outbox : NewOK(outbox'[j].id, outbox'[j].lease)

\* What is pending stays so, or it is the first that is.
InTurn ==
    \A j \in DOMAIN outbox :
        outbox[j].id.kind \in {"lease_create", "agent_create"} /\ outbox[j].status = "pending" =>
            \/ outbox'[j].status = "pending"
            \/ /\ \A k \in DOMAIN outbox : k < j => outbox[k].status # "pending"
               /\ \/ outbox[j].id.kind = "agent_create" \/ outbox'[j].status \notin Open
                  \/ run[outbox[j].id.run].page = NoTodo

\* The order of an agent for a page task that ends is settled, carried out or void.
PageEnds(r) ==
    \A i \in DOMAIN outbox : CreatesFor(i, r) /\ outbox'[i].status \in Open =>
        agent[Page(r)].status # "none" \/ run'[r].lifecycle \in Sealed \/ run'[r].stale

LinkStep ==
    /\ StepRows /\ Continues(outbox, outbox') /\ InTurn /\ NewItems /\ lk' = lk
    /\ \A r \in TestRuns : run[r].page # NoTodo /\ run'[r].page = NoTodo => PageEnds(r)
    /\ \A r \in TestRuns : run'[r].page # NoTodo /\ lk[r] # NoLease /\ lk[r] \in secrets
                              => lk[r] \in secrets'
    /\ \A p \in PageTasks : agent[p].status # "none" => agent'[p].status # "none"
    /\ \A r \in TestRuns : agentLink'[r] /\ ~agentLink[r] /\ run[r].page # NoTodo =>
          /\ agent[Page(r)].status # "none"
          /\ \E i \in DOMAIN outbox : CreatesFor(i, r) /\ outbox[i].status # "pending"

LEMMA PageType ==
    ASSUME Types, NEW r \in TestRuns, run[r].page # NoTodo
    PROVE  Page(r) \in PageTasks /\ run[r].page \in Todos
<1>1. run[r] \in RunRecord /\ CoordRow(run[r])
  BY DEF Types
<1> QED  BY <1>1, GraphAssumption DEF CoordRow, RunRecord, Page, PageTasks

LEMMA SamePage ==
    ASSUME StepRows, NEW r \in TestRuns, run'[r].page # NoTodo
    PROVE  /\ run[r].page # NoTodo /\ Page(r)' = Page(r)
           /\ \A id : IsPageOf(id, r)' <=> IsPageOf(id, r)
  BY DEF StepRows, RowStep, Page, IsPageOf

LEMMA LinksStep ==
    ASSUME Types, Types', Links, LinkStep
    PROVE  Links'
<1>c. Continues(outbox, outbox') /\ StepRows
  BY DEF LinkStep
<1>d. /\ outbox \in Seq(Item) /\ outbox' \in Seq(Item) /\ DOMAIN outbox \subseteq DOMAIN outbox'
      /\ \A j \in DOMAIN outbox : /\ outbox'[j].id = outbox[j].id /\ outbox'[j].lease = outbox[j].lease
                                  /\ outbox'[j].status \in Open => outbox[j].status \in Open
      /\ \A j \in DOMAIN outbox' \ DOMAIN outbox :
            \A k \in DOMAIN outbox' : outbox'[k].id = outbox'[j].id => k = j
      /\ \A j \in DOMAIN outbox' \ DOMAIN outbox : NewOK(outbox'[j].id, outbox'[j].lease)
  BY DEF Types, LinkStep, Continues, NewItems
<1>e. (\A j \in DOMAIN outbox : outbox[j] \in Item) /\ \A j \in DOMAIN outbox' : outbox'[j] \in Item
  BY <1>d
<1>1. Unique'
  <2> SUFFICES ASSUME NEW i \in DOMAIN outbox', NEW j \in DOMAIN outbox', outbox'[i].id = outbox'[j].id
               PROVE  i = j
    BY DEF Unique
  <2> QED  BY <1>d DEF Links, Unique
<1>2. LeaseLinked'
  <2> SUFFICES ASSUME NEW r \in TestRuns, run'[r].page # NoTodo, lk'[r] # NoLease
               PROVE  /\ lk'[r].run = r /\ lk'[r].kind = "lease_create" /\ lk'[r] \in secrets'
                      /\ \E j \in DOMAIN outbox' :
                            /\ outbox'[j].id = lk'[r]
                            /\ outbox'[j].status \in Open =>
                                  /\ outbox'[j].status = "pending" /\ ~agentLink'[r]
                                  /\ \A i \in DOMAIN outbox' : CreatesFor(i, r)'
                                        => j < i /\ outbox'[i].status = "pending"
    BY DEF LeaseLinked
  <2>1. /\ run[r].page # NoTodo /\ Page(r)' = Page(r) /\ lk'[r] = lk[r]
        /\ \A id : IsPageOf(id, r)' <=> IsPageOf(id, r)
    BY <1>c, SamePage DEF LinkStep
  <2>2. PICK j \in DOMAIN outbox :
              /\ outbox[j].id = lk[r]
              /\ outbox[j].status \in Open =>
                    /\ outbox[j].status = "pending" /\ ~agentLink[r]
                    /\ \A i \in DOMAIN outbox : CreatesFor(i, r) => j < i /\ outbox[i].status = "pending"
    BY <2>1 DEF Links, LeaseLinked
  <2>3. lk[r].run = r /\ lk[r].kind = "lease_create" /\ lk[r] \in secrets
    BY <2>1 DEF Links, LeaseLinked
  <2>4. lk[r] \in secrets'
    BY <2>1, <2>3 DEF LinkStep
  <2>5. ASSUME outbox'[j].status \in Open
        PROVE  /\ outbox'[j].status = "pending" /\ ~agentLink'[r]
               /\ \A i \in DOMAIN outbox' : CreatesFor(i, r)' => j < i /\ outbox'[i].status = "pending"
    <3>1. /\ outbox[j].status = "pending" /\ ~agentLink[r]
          /\ \A i \in DOMAIN outbox : CreatesFor(i, r) => j < i /\ outbox[i].status = "pending"
      BY <1>d, <2>2, <2>5
    <3>2. outbox'[j].status = "pending"
      BY <2>1, <2>2, <2>3, <2>5, <3>1 DEF LinkStep, InTurn
    <3>3. ~agentLink'[r]
      BY <2>1, <3>1 DEF LinkStep
    <3>4. ASSUME NEW i \in DOMAIN outbox', CreatesFor(i, r)'
          PROVE  j < i /\ outbox'[i].status = "pending"
      <4>1. outbox'[i].id.kind = "agent_create" /\ IsPageOf(outbox'[i].id, r)
        BY <2>1, <3>4 DEF CreatesFor
      <4>2. i \in DOMAIN outbox
        BY <1>d, <4>1 DEF NewOK
      <4>3. CreatesFor(i, r)
        BY <1>d, <4>1, <4>2 DEF CreatesFor
      <4> QED  BY <1>d, <3>1, <4>1, <4>2, <4>3 DEF LinkStep, InTurn
    <3> QED  BY <3>2, <3>3, <3>4
  <2> QED  BY <1>d, <2>1, <2>2, <2>3, <2>4, <2>5
<1>3. OrdersOK'
  <2> SUFFICES ASSUME NEW i \in DOMAIN outbox', outbox'[i].id.kind = "agent_create"
               PROVE  OrderInv(i)'
    BY DEF OrdersOK
  <2>1. /\ i \in DOMAIN outbox /\ outbox'[i].id = outbox[i].id /\ outbox'[i].lease = outbox[i].lease
        /\ outbox'[i].status \in Open => outbox[i].status \in Open
    BY <1>d DEF NewOK
  <2>2. OrderInv(i)
    BY <2>1 DEF Links, OrdersOK
  <2> DEFINE id == outbox[i].id  r == id.run
  <2>3. r \in TestRuns /\ id.n \in Nat /\ run[r] \in RunRecord
    BY <1>e, <2>1 DEF Types, Item, ItemId
  <2>4. RowStep(run[r], run'[r])
    BY <1>c, <2>3 DEF StepRows
  <2>5. <<r, id.todo, id.n>> \in PageTasks
    BY <2>2, <2>3, GraphAssumption DEF OrderInv, PageTasks, RunRecord
  <2>6. CASE ~ IsPageOf(id, r)
    BY <2>1, <2>2, <2>4, <2>5, <2>6 DEF OrderInv, RowStep, LinkStep
  <2>7. CASE IsPageOf(id, r) /\ run'[r].page # NoTodo
    <3>1. IsPageOf(id, r)' /\ lk' = lk
      BY <1>c, <2>1, <2>3, <2>7, SamePage DEF IsPageOf, Page, LinkStep
    <3> QED  BY <2>1, <2>2, <2>4, <2>5, <2>7, <3>1 DEF OrderInv, RowStep, LinkStep
  <2>8. CASE IsPageOf(id, r) /\ run'[r].page = NoTodo
    <3>1. PageEnds(r) /\ CreatesFor(i, r) /\ Page(r) = <<r, id.todo, id.n>>
      BY <2>1, <2>3, <2>8 DEF LinkStep, CreatesFor, IsPageOf
    <3> QED  BY <2>1, <2>2, <2>4, <2>5, <3>1 DEF OrderInv, PageEnds, RowStep, LinkStep
  <2> QED  BY <2>6, <2>7, <2>8
<1>4. AgentLinked'
  <2> SUFFICES ASSUME NEW r \in TestRuns, agentLink'[r], run'[r].page # NoTodo
               PROVE  agent'[Page(r)'].status # "none"
    BY DEF AgentLinked
  <2>1. run[r].page # NoTodo /\ Page(r)' = Page(r) /\ Page(r) \in PageTasks
    BY <1>c, SamePage, PageType
  <2> QED  BY <2>1 DEF LinkStep, Links, AgentLinked
<1>5. RevokesOK'
  <2> SUFFICES ASSUME NEW i \in DOMAIN outbox', NEW id \in ItemId, NEW key \in Key,
                      id = outbox'[i].id, key = outbox'[i].lease
               PROVE  RevokeOK(id, key)'
    BY <1>e DEF RevokesOK, Item
  <2>1. id.run \in TestRuns
    BY DEF ItemId
  <2>2. \A r \in TestRuns : RowStep(run[r], run'[r])
    BY <1>c DEF StepRows
  <2>3. CASE i \in DOMAIN outbox
    <3>1. id = outbox[i].id /\ key = outbox[i].lease
      BY <1>d, <2>3
    <3>2. RevokeOK(id, key)
      BY <2>3, <3>1 DEF Links, RevokesOK
    <3>3. ASSUME RevokeInv(key) PROVE RevokeInv(key)'
      <4>1. key.run \in TestRuns
        BY <2>1, <3>3 DEF RevokeInv, Key, ItemId, NoLease, Id
      <4>2. run'[key.run].page # NoTodo => lk'[key.run] # key
        BY <2>2, <3>3, <4>1 DEF RevokeInv, RowStep, LinkStep
      <4>3. \A j \in DOMAIN outbox' : outbox'[j].id = key => outbox'[j].status \notin Open
        BY <1>d, <3>3 DEF RevokeInv
      <4> QED  BY <1>d, <3>3, <4>2, <4>3 DEF RevokeInv
    <3>4. ASSUME GivenBack(id, key) PROVE GivenBack(id, key)'
      BY <2>1, <2>2, <3>4 DEF GivenBack, RowStep
    <3> QED  BY <3>2, <3>3, <3>4 DEF RevokeOK
  <2>4. CASE i \notin DOMAIN outbox
    <3>1. NewOK(id, key)
      BY <1>d, <2>4
    <3>2. ASSUME id.kind = "revoke" PROVE RevokeInv(key)'
      <4>1. \A j \in DOMAIN outbox' : outbox'[j].id = key => outbox'[j].status \notin Open
        BY <1>d, <3>1, <3>2 DEF NewOK
      <4> QED  BY <1>d, <3>1, <3>2, <4>1 DEF NewOK, RevokeInv
    <3> QED  BY <3>1, <3>2 DEF NewOK, GivenBack, RevokeOK
  <2> QED  BY <2>3, <2>4
<1>6. LeasesNamed'
  <2> SUFFICES ASSUME NEW i \in DOMAIN outbox', outbox'[i].id.kind = "lease_create"
               PROVE  outbox'[i].id.todo \in Todos
    BY DEF LeasesNamed
  <2>1. i \notin DOMAIN outbox => NewOK(outbox'[i].id, outbox'[i].lease)
    BY <1>d
  <2> QED  BY <1>d, <2>1 DEF NewOK, Links, LeasesNamed
<1>7. ResumesKnown'
  <2> SUFFICES ASSUME NEW i \in DOMAIN outbox', NEW id, id = outbox'[i].id, id.kind = "agent_resume"
               PROVE  AgentKnown(id)'
    BY DEF ResumesKnown
  <2>1. AgentKnown(id)
    <3>1. CASE i \in DOMAIN outbox
      BY <1>d, <3>1 DEF Links, ResumesKnown
    <3>2. CASE i \notin DOMAIN outbox
      BY <1>d, <3>2 DEF NewOK
    <3> QED  BY <3>1, <3>2
  <2> QED  BY <2>1 DEF AgentKnown, LinkStep
<1> QED  BY <1>1, <1>2, <1>3, <1>4, <1>5, <1>6, <1>7 DEF Links

-----------------------------------------------------------------------------
(***************************************************************************)
(* The inductive invariant, second part: the tick, the holder of a browser and *)
(* the phase of a page task.                                               *)
(***************************************************************************)

\* The item a tick works on
Item0 == outbox[tick.item]
WorksOn(kinds) == tick.at \in Working /\ Item0.id.kind \in kinds

\* A tick at rest dispatches nothing; one that works dispatches its item, and
\* the revocation of the lease it has just been given.
TickInv ==
    /\ tick.at \in AtRest => Quiet(outbox)
    /\ tick.at \in Working =>
          /\ tick.item \in DOMAIN outbox /\ Item0.status = "dispatching"
          /\ \A i \in DOMAIN outbox : outbox[i].status = "dispatching" =>
                \/ i = tick.item
                \/ /\ tick.at = "revoking" /\ outbox[i].id.kind = "policy_revoke"
                   /\ outbox[i].lease = Item0.id
    /\ tick.at \in {"discarding", "revoking"} => Item0.id.kind = "lease_create"
    /\ tick.at = "cleanup" => Item0.id.kind \in Closing

\* One run has the browser, from its turn in the queue until its session is closed.
HolderInv ==
    /\ \A i \in DOMAIN outbox : outbox[i].id.kind = "session_create" => job[outbox[i].id.run] # "queued"
    /\ \A r \in TestRuns : job[r] \in {"releasing", "completed"} => session[r] = "closed"
    /\ \A r \in TestRuns : job[r] = "queued" => session[r] # "active"
    /\ \A r, s \in TestRuns : HasBrowser(r) /\ HasBrowser(s) => r = s
    /\ tick.at = "answered" /\ Item0.id.kind \in Closing => session[Item0.id.run] = "closed"
    /\ BrowserHasHolder

\* What was true when a call was made, and is when its answer is applied.
PhaseInv ==
    /\ WorksOn({"lease_create"}) => run[Item0.id.run].page = NoTodo
    /\ tick.at = "answered" /\ WorksOn({"lease_create"}) =>
          ExecutionAllowed(run[Item0.id.run]) \/ run[Item0.id.run].lifecycle \in Sealed
    /\ tick.at = "answered" /\ WorksOn({"agent_create"}) =>
          agent[<<Item0.id.run, Item0.id.todo, Item0.id.n>>].status # "none"
    /\ tick.at = "calling" /\ WorksOn({"agent_create"}) =>
          /\ ~run[Item0.id.run].stale
          /\ run[Item0.id.run].lifecycle \in Sealed =>
                agent[<<Item0.id.run, Item0.id.todo, Item0.id.n>>].status # "none"
    /\ tick.at \in {"reconciling", "capturing"} =>
          \A r \in TestRuns : HasBrowser(r) /\ run[r].page # NoTodo => agentLink[r]

CoordInv == Types /\ TickInv /\ HolderInv /\ PhaseInv /\ Links

-----------------------------------------------------------------------------
LEMMA ItemTypes ==
    ASSUME Types, NEW i \in DOMAIN outbox
    PROVE  /\ outbox[i] \in Item /\ outbox[i].id \in ItemId /\ outbox[i].lease \in Key
           /\ outbox[i].id.run \in TestRuns /\ outbox[i].id.kind \in Kind
           /\ outbox[i].id.todo \in Todos \cup {NoTodo} /\ outbox[i].id.n \in Nat
           /\ outbox[i].id.g \in Nat /\ outbox[i].status \in ItemStatus
<1>1. outbox[i] \in Item
  BY DEF Types
<1>2. outbox[i].id \in ItemId /\ outbox[i].lease \in Key /\ outbox[i].status \in ItemStatus
  BY <1>1 DEF Item
<1> QED  BY <1>1, <1>2 DEF ItemId

LEMMA RowTypes ==
    ASSUME Types, NEW r \in TestRuns
    PROVE  run[r] \in RunRecord /\ CoordRow(run[r]) /\ RowInv(run[r]) /\ RowStep(run[r], run[r])
           /\ QuietStep(run[r], run[r])
  BY DEF Types, CoordRow, RowStep, QuietStep

LEMMA OneRow ==
    ASSUME Types, NEW r \in TestRuns, NEW q, RowStep(run[r], q), run' = [run EXCEPT ![r] = q]
    PROVE  /\ StepRows /\ run'[r] = q /\ \A s \in TestRuns \ {r} : run'[s] = run[s]
<1>1. q \in RunRecord
  BY DEF RowStep, CoordRow, RowInv
<1>2. run' \in [TestRuns -> RunRecord] /\ run'[r] = q /\ \A s \in TestRuns \ {r} : run'[s] = run[s]
  BY <1>1 DEF Types
<1> QED  BY <1>2, RowTypes DEF StepRows

LEMMA NoRow ==
    ASSUME Types, run' = run
    PROVE  StepRows
  BY RowTypes DEF StepRows, Types

\* What the outbox goes through is a step of the links.
LEMMA BoxLink ==
    ASSUME CoordInv, StepRows, NEW i \in DOMAIN outbox \cup {0}, NEW N, Box(outbox, outbox', i, N),
           \A x \in N : NewOK(x[1], x[2]),
           i \in DOMAIN outbox /\ outbox[i].status = "pending"
             /\ outbox[i].id.kind \in {"lease_create", "agent_create"}
             /\ outbox'[i].status # "pending" =>
                /\ \A k \in DOMAIN outbox : k < i => outbox[k].status # "pending"
                /\ \/ outbox[i].id.kind = "agent_create" \/ outbox'[i].status \notin Open
                   \/ run[outbox[i].id.run].page = NoTodo,
           lk' = lk, agentLink' = agentLink,
           \A r \in TestRuns : run[r].page # NoTodo /\ run'[r].page = NoTodo => PageEnds(r),
           \A r \in TestRuns : run'[r].page # NoTodo /\ lk[r] # NoLease /\ lk[r] \in secrets
                              => lk[r] \in secrets',
           \A p \in PageTasks : agent[p].status # "none" => agent'[p].status # "none"
    PROVE  LinkStep
<1>1. Continues(outbox, outbox')
  BY DEF Box
<1>2. NewItems
  <2> SUFFICES ASSUME NEW j \in DOMAIN outbox' \ DOMAIN outbox
               PROVE  NewOK(outbox'[j].id, outbox'[j].lease)
    BY DEF NewItems
  <2>1. PICK x \in N : x = <<outbox'[j].id, outbox'[j].lease>>
    BY DEF Box
  <2>2. x[1] = outbox'[j].id /\ x[2] = outbox'[j].lease
    BY <2>1
  <2>3. NewOK(x[1], x[2])
    OBVIOUS
  <2> QED  BY <2>2, <2>3
<1>3. InTurn
  BY DEF InTurn, Box
<1> QED  BY <1>1, <1>2, <1>3 DEF LinkStep

\* The next job, and what may become of one that is opening its browser.
JobStep == /\ job' \in [TestRuns -> JobState]
           /\ \A r \in TestRuns : job'[r] = job[r]
                 \/ (job[r] = "acquiring" /\ job'[r] \in {"active", "failed"})

\* A step after which the tick is over, or looks for an item, and that neither
\* opens nor closes a browser.
LEMMA RestStep ==
    ASSUME CoordInv, LinkStep, Quiet(outbox'), tick' \in Tick, tick'.at \in {"idle", "claiming"},
           JobStep, session' = session, lease' \in {lease, NoLease},
           agentLink' \in [TestRuns -> BOOLEAN], agent' = agent
    PROVE  CoordInv'
<1>1. Types'
  BY DEF CoordInv, Types, LinkStep, StepRows, RowStep, Continues, JobStep, Key
<1>2. TickInv'
  BY DEF TickInv, AtRest, Working
<1>3. PhaseInv'
  BY DEF PhaseInv, WorksOn, Working
<1>4. HolderInv'
  <2>1. HolderInv /\ Types
    BY DEF CoordInv
  <2>2. ASSUME NEW i \in DOMAIN outbox', outbox'[i].id.kind = "session_create"
        PROVE  job'[outbox'[i].id.run] # "queued"
    <3>1. CASE i \in DOMAIN outbox
      <4>1. outbox'[i].id = outbox[i].id /\ outbox[i].id.run \in TestRuns
        BY <2>1, <3>1, ItemTypes DEF LinkStep, Continues
      <4> QED  BY <2>1, <2>2, <3>1, <4>1 DEF HolderInv, JobStep
    <3>2. CASE i \notin DOMAIN outbox
      BY <2>2, <3>2 DEF LinkStep, NewItems, NewOK
    <3> QED  BY <3>1, <3>2
  <2>3. \A r \in TestRuns : HasBrowser(r)' => HasBrowser(r)
    BY DEF JobStep, HasBrowser
  <2>4. BrowserHasHolder'
    BY <2>1 DEF HolderInv, BrowserHasHolder, HasBrowser, JobStep
  <2> QED  BY <2>1, <2>2, <2>3, <2>4 DEF HolderInv, JobStep
<1>5. Links'
  BY <1>1, LinksStep DEF CoordInv
<1> QED  BY <1>1, <1>2, <1>3, <1>4, <1>5 DEF CoordInv

-----------------------------------------------------------------------------
(***************************************************************************)
(* Steps of a tick: one lemma per action.  First what several of them share. *)
(***************************************************************************)

LEMMA IdleTick ==
    /\ Idle \in Tick /\ Idle.at = "idle" /\ Idle.item = 0
    /\ [Idle EXCEPT !.at = "claiming"] \in Tick /\ [Idle EXCEPT !.at = "claiming"].at = "claiming"
  BY DEF Idle, Tick, AtRest, AgentStatus

LEMMA DueFacts ==
    ASSUME CoordInv, NEW i, Due(i)
    PROVE  /\ i \in DOMAIN outbox /\ Quiet(outbox) /\ tick.at \in {"idle", "claiming"}
           /\ outbox[i].status \in {"pending", "retryable_failed"}
           /\ \A k \in DOMAIN outbox : k < i => outbox[k].status # "pending"
<1>1. Types /\ TickInv
  BY DEF CoordInv
<1>2. tick.at \in {"idle", "claiming"}
  BY DEF Due, Claims, Idle
<1>3. DOMAIN outbox = 1 .. Len(outbox) /\ Len(outbox) \in Nat
  BY <1>1 DEF Types
<1> QED  BY <1>1, <1>2, <1>3 DEF Due, TickInv, AtRest

LEMMA RestingFacts ==
    ASSUME CoordInv, NothingDue
    PROVE  Quiet(outbox) /\ tick.at \in {"idle", "claiming"}
  BY DEF NothingDue, Claims, Idle, CoordInv, TickInv, AtRest

LEMMA WorkFacts ==
    ASSUME CoordInv, tick.at \in Working
    PROVE  /\ tick.item \in DOMAIN outbox /\ Item0.status = "dispatching"
           /\ tick.at # "revoking" =>
                 \A j \in DOMAIN outbox \ {tick.item} : outbox[j].status # "dispatching"
  BY DEF CoordInv, TickInv

SecretsKept ==
    \A r \in TestRuns : run'[r].page # NoTodo /\ lk[r] # NoLease /\ lk[r] \in secrets
                              => lk[r] \in secrets'

\* The end of a tick: what it wrote is there, all of it or what came first.
LEMMA EndsBox ==
    ASSUME Types, NEW p \in Seq(Item), NEW i, NEW N, i \in DOMAIN outbox \cup {0},
           Box(outbox, p, i, N), NEW complete \in BOOLEAN, complete => Quiet(p), Ends(complete, p)
    PROVE  /\ tick' = Idle /\ Box(outbox, outbox', i, N) /\ Quiet(outbox')
           /\ i \in DOMAIN outbox => outbox'[i].status \in {p[i].status, "pending"}
<1>1. CASE complete
  BY <1>1 DEF Ends
<1>2. CASE ~complete
  <2>1. outbox' = Recovered(p) /\ tick' = Idle
    BY <1>2 DEF Ends
  <2>2. Box(p, Recovered(p), i, N) /\ Quiet(Recovered(p))
        /\ \A j \in DOMAIN p : Recovered(p)[j].status \in {p[j].status, "pending"}
    BY BoxRecovered
  <2>3. outbox \in Seq(Item) /\ DOMAIN outbox \subseteq DOMAIN p
    BY DEF Types, Box, Continues
  <2>4. Box(outbox, Recovered(p), i, N)
    BY <2>2, <2>3, BoxThen
  <2> QED  BY <2>1, <2>2, <2>3, <2>4
<1> QED  BY <1>1, <1>2

\* The page task of a run ends, but not before its agent was ordered and
\* created, or nothing was ordered, or no agent may be created any more.
LEMMA PageEnded ==
    ASSUME CoordInv, NEW r \in TestRuns, RowStep(run[r], run'[r]), Continues(outbox, outbox'),
           \/ agent[Page(r)].status # "none"
           \/ lk[r] = NoLease
           \/ run'[r].lifecycle \in Sealed \/ run'[r].stale
           \/ \A i \in DOMAIN outbox : CreatesFor(i, r) => outbox'[i].status \notin Open
    PROVE  PageEnds(r)
<1> SUFFICES ASSUME NEW i \in DOMAIN outbox, CreatesFor(i, r), outbox'[i].status \in Open
             PROVE  agent[Page(r)].status # "none" \/ run'[r].lifecycle \in Sealed \/ run'[r].stale
  BY DEF PageEnds
<1>1. outbox[i].status \in Open
  BY DEF Continues
<1>2. OrderInv(i)
  BY DEF CoordInv, Links, OrdersOK, CreatesFor
<1>3. outbox[i].id.run = r /\ Page(r) = <<r, outbox[i].id.todo, outbox[i].id.n>>
  BY DEF CreatesFor, IsPageOf, Page
<1> QED  BY <1>1, <1>2, <1>3 DEF OrderInv, RowStep

\* A call that fails, at once or for good.
LEMMA FailStep ==
    ASSUME CoordInv, NEW i \in DOMAIN outbox, outbox[i].status \in Open,
           \A j \in DOMAIN outbox \ {i} : outbox[j].status # "dispatching",
           outbox[i].status = "pending" => outbox[i].id.kind \notin {"lease_create", "agent_create"},
           FailRetryable(i) \/ FailTerminal(i), SecretsKept,
           UNCHANGED <<lk, agentLink, session, agent>>, lease' \in {lease, NoLease}
    PROVE  CoordInv'
<1>0. Types
  BY DEF CoordInv
<1>1. PICK s \in {"retryable_failed", "terminal_failed"} : outbox' = Settled(outbox, i, s)
  BY DEF FailRetryable, FailTerminal
<1>2. outbox \in Seq(Item) /\ s \in ItemStatus
  BY <1>0 DEF Types, ItemStatus
<1>3. Box(outbox, outbox', i, {}) /\ outbox'[i].status = s /\ DOMAIN outbox' = DOMAIN outbox
      /\ \A j \in DOMAIN outbox \ {i} : outbox'[j] = outbox[j]
  BY <1>1, <1>2, BoxSettled
<1>4. Quiet(outbox') /\ tick' = Idle
  BY <1>3 DEF Quiet, FailRetryable, FailTerminal
<1>5. StepRows /\ \A r \in TestRuns : run'[r].page = run[r].page
  <2>1. CASE FailRetryable(i)
    BY <1>0, <2>1, NoRow DEF FailRetryable
  <2>2. CASE FailTerminal(i)
    <3>1. PICK r \in TestRuns : run' = [run EXCEPT ![r] = Paused(run[r])]
      BY <1>0, <2>2, ItemTypes DEF FailTerminal, Types
    <3>2. QuietStep(run[r], Paused(run[r]))
      BY <1>0, PausedStep, RowTypes
    <3> QED  BY <1>0, <3>1, <3>2, OneRow DEF QuietStep
  <2> QED  BY <2>1, <2>2
<1>6. JobStep
  <2>1. job \in [TestRuns -> JobState] /\ outbox[i].id.run \in TestRuns
    BY <1>0, ItemTypes DEF Types
  <2> QED  BY <2>1 DEF FailRetryable, FailTerminal, JobStep, JobState
<1>7. LinkStep
  BY <1>0, <1>3, <1>5, BoxLink DEF SecretsKept
<1> QED  BY <1>0, <1>4, <1>6, <1>7, IdleTick, RestStep DEF Types

-----------------------------------------------------------------------------
(***************************************************************************)
(* An orphaned page task, and the revocation of the lease of a run.        *)
(***************************************************************************)

RevokeId(r) == [lk[r] EXCEPT !.kind = "revoke"]
Revocation(r) == {x \in {<<RevokeId(r), lk[r]>>} : lk[r] # NoLease}

\* The item of a lease is settled once the agent of its page task is linked, or
\* its order is the first that is due.
LEMMA LeaseSettled ==
    ASSUME CoordInv, NEW r \in TestRuns, run[r].page # NoTodo, lk[r] # NoLease,
           \/ agentLink[r]
           \/ \E i \in DOMAIN outbox : CreatesFor(i, r) /\
                 (\A k \in DOMAIN outbox : k < i => outbox[k].status # "pending")
    PROVE  /\ lk[r].kind = "lease_create" /\ \E j \in DOMAIN outbox : outbox[j].id = lk[r]
           /\ \A j \in DOMAIN outbox : outbox[j].id = lk[r] => outbox[j].status \notin Open
<1>1. PICK j \in DOMAIN outbox :
         /\ outbox[j].id = lk[r]
         /\ outbox[j].status \in Open =>
               /\ outbox[j].status = "pending" /\ ~agentLink[r]
               /\ \A i \in DOMAIN outbox : CreatesFor(i, r) => j < i /\ outbox[i].status = "pending"
  BY DEF CoordInv, Links, LeaseLinked
<1>2. outbox[j].status \notin Open
  BY <1>1
<1> QED  BY <1>1, <1>2 DEF CoordInv, Links, LeaseLinked, Unique

LEMMA Revoked ==
    ASSUME CoordInv, NEW r \in TestRuns, run[r].page # NoTodo, run'[r].page = NoTodo,
           lk[r] # NoLease => /\ \E j \in DOMAIN outbox : outbox[j].id = lk[r]
                              /\ \A j \in DOMAIN outbox : outbox[j].id = lk[r] => outbox[j].status \notin Open
    PROVE  \A x \in Revocation(r) : NewOK(x[1], x[2])
<1> SUFFICES ASSUME lk[r] # NoLease PROVE NewOK(RevokeId(r), lk[r])
  BY DEF Revocation
<1>1. lk[r] \in ItemId /\ lk[r].kind = "lease_create" /\ lk[r].run = r
  BY DEF CoordInv, Types, Key, Links, LeaseLinked
<1>2. RevokeId(r).kind = "revoke"
  BY <1>1 DEF RevokeId, ItemId
<1> QED  BY <1>1, <1>2 DEF NewOK, Closing

LEMMA RevokeBox ==
    ASSUME Types, NEW r \in TestRuns, NEW p \in Seq(Item), NEW i \in DOMAIN outbox \cup {0},
           Box(outbox, p, i, Revocation(r))
    PROVE  LET q == EnqueueRevoke(p, r)
           IN  /\ q \in Seq(Item) /\ Box(outbox, q, i, Revocation(r)) /\ (Quiet(p) => Quiet(q))
               /\ i \in DOMAIN outbox => q[i] = p[i]
<1>1. outbox \in Seq(Item) /\ DOMAIN outbox \subseteq DOMAIN p
  BY DEF Types, Box, Continues
<1>2. CASE lk[r] = NoLease
  BY <1>2 DEF EnqueueRevoke
<1>3. CASE lk[r] # NoLease
  <2>1. lk[r] \in ItemId /\ lk[r] \in Key
    BY <1>3 DEF Types, Key
  <2>2. RevokeId(r) \in ItemId /\ <<RevokeId(r), lk[r]>> \in Revocation(r)
    BY <1>3, <2>1 DEF RevokeId, ItemId, Kind, Revocation
  <2>3. EnqueueRevoke(p, r) = Enqueue(p, RevokeId(r), lk[r])
    BY <1>3 DEF EnqueueRevoke, RevokeId
  <2>4. PICK q : q = Enqueue(p, RevokeId(r), lk[r])
    OBVIOUS
  <2>5. /\ Box(p, q, i, Revocation(r)) /\ q \in Seq(Item) /\ (Quiet(p) => Quiet(q))
        /\ \A j \in DOMAIN p : q[j] = p[j]
    BY <2>1, <2>2, <2>4, BoxEnqueued
  <2>6. Box(outbox, q, i, Revocation(r))
    BY <1>1, <2>5, BoxThen
  <2> QED  BY <1>1, <2>3, <2>4, <2>5, <2>6
<1> QED  BY <1>2, <1>3

LEMMA AppendLink ==
    ASSUME CoordInv, StepRows, NEW N, Box(outbox, outbox', 0, N), \A x \in N : NewOK(x[1], x[2]),
           lk' = lk, agentLink' = agentLink, SecretsKept,
           \A r \in TestRuns : run[r].page # NoTodo /\ run'[r].page = NoTodo => PageEnds(r),
           \A p \in PageTasks : agent[p].status # "none" => agent'[p].status # "none"
    PROVE  LinkStep
<1>1. 0 \notin DOMAIN outbox
  <2>1. outbox \in Seq(Item)
    BY DEF CoordInv, Types
  <2> QED  BY <2>1
<1> QED  BY <1>1, BoxLink DEF SecretsKept

\* The steps that end a page task.
LEMMA OrphanedStep ==
    ASSUME CoordInv, NEW r \in TestRuns, NEW complete \in BOOLEAN, InterruptOrphanedPageTask(r, complete)
    PROVE  CoordInv'
<1>0. Types /\ outbox \in Seq(Item) /\ run \in [TestRuns -> RunRecord] /\ run[r].page # NoTodo /\ tick = Idle
  BY DEF CoordInv, Types, InterruptOrphanedPageTask
<1>1. lk[r] = NoLease
  BY <1>0 DEF CoordInv, Links, LeaseLinked, InterruptOrphanedPageTask, Orphaned
<1>2. Quiet(outbox)
  BY <1>0, IdleTick DEF CoordInv, TickInv, AtRest
<1>3. Ends(complete, outbox)
  BY <1>1 DEF InterruptOrphanedPageTask, EnqueueRevoke
<1>4. Box(outbox, outbox, 0, {})
  BY <1>0, BoxSame
<1>5. tick' = Idle /\ Box(outbox, outbox', 0, {}) /\ Quiet(outbox')
  BY <1>0, <1>2, <1>3, <1>4, EndsBox
<1>6. "recoverable_interruption" \in AttemptResult
  BY DEF AttemptResult
<1>7. PICK q : q = CompleteAttempt(run[r], "recoverable_interruption")
  OBVIOUS
<1>8. RowStep(run[r], q) /\ q.page = NoTodo /\ run' = [run EXCEPT ![r] = q]
  BY <1>0, <1>6, <1>7, CompleteStep, RowTypes DEF InterruptOrphanedPageTask
<1>9. StepRows /\ run'[r] = q /\ \A s \in TestRuns \ {r} : run'[s] = run[s]
  BY <1>0, <1>8, OneRow
<1>10. PageEnds(r)
  BY <1>1, <1>5, <1>8, <1>9, PageEnded DEF Box
<1>11. LinkStep
  BY <1>5, <1>9, <1>10, AppendLink DEF InterruptOrphanedPageTask, SecretsKept, world
<1> QED  BY <1>0, <1>5, <1>11, IdleTick, RestStep DEF InterruptOrphanedPageTask, JobStep, Types, world

-----------------------------------------------------------------------------
(***************************************************************************)
(* The end of an attempt, and an order that is refused.                    *)
(***************************************************************************)

LEMMA PageOrder ==
    ASSUME Types, NEW r \in TestRuns, run[r].page # NoTodo, NEW kind \in Kind, NEW g \in Nat
    PROVE  PageId(kind, r, g) \in ItemId /\ PageId(kind, r, g).kind = kind
           /\ PageId(kind, r, g).run = r
<1>1. run[r].page \in Todos /\ run[r].tries[run[r].page] \in Nat
  BY RowTypes, GraphAssumption DEF RunRecord
<1> QED  BY <1>1 DEF PageId, Id, ItemId

LEMMA CompletionStep ==
    ASSUME CoordInv, NEW r \in TestRuns, NEW result \in AttemptResult, NEW complete \in BOOLEAN,
           ApplyCompletion(r, result, complete)
    PROVE  CoordInv'
<1>0. /\ Types /\ outbox \in Seq(Item) /\ run \in [TestRuns -> RunRecord]
      /\ run[r].page # NoTodo /\ tick.at = "capturing"
  BY DEF CoordInv, Types, ApplyCompletion
<1>1. agentLink[r] /\ agent[Page(r)].status # "none" /\ Quiet(outbox)
  BY <1>0 DEF CoordInv, PhaseInv, TickInv, AtRest, Links, AgentLinked, ApplyCompletion
<1>2. PICK q : q = CompleteAttempt(run[r], result)
  OBVIOUS
<1>3. RowStep(run[r], q) /\ q.page = NoTodo /\ run' = [run EXCEPT ![r] = q]
  BY <1>0, <1>2, CompleteStep, RowTypes DEF ApplyCompletion
<1>4. StepRows /\ run'[r] = q /\ \A s \in TestRuns \ {r} : run'[s] = run[s]
  BY <1>0, <1>3, OneRow
<1>5. PICK p, N : /\ p \in Seq(Item) /\ Ends(complete, p) /\ Box(outbox, p, 0, N) /\ Quiet(p)
                  /\ \A x \in N : NewOK(x[1], x[2])
  <2>1. CASE ~complete
    <3>1. Ends(complete, outbox)
      BY <2>1 DEF ApplyCompletion
    <3>2. Box(outbox, outbox, 0, {})
      BY <1>0, BoxSame
    <3> QED  BY <1>0, <1>1, <3>1, <3>2
  <2>2. CASE complete /\ run'[r].lifecycle \in Sealed
    <3> DEFINE id == PageId("close_lease", r, 0)
    <3>1. id \in ItemId /\ id.kind = "close_lease" /\ id.run = r /\ lk[r] \in Key
      BY <1>0, PageOrder DEF Kind, Types
    <3>2. lk[r] # NoLease => lk[r].run = r
      BY <1>0 DEF CoordInv, Links, LeaseLinked
    <3>3. Ends(complete, Enqueue(outbox, id, lk[r]))
      BY <2>2 DEF ApplyCompletion
    <3> HIDE DEF id
    <3>4. PICK p : p = Enqueue(outbox, id, lk[r])
      OBVIOUS
    <3>5. Box(outbox, p, 0, {<<id, lk[r]>>}) /\ p \in Seq(Item) /\ Quiet(p)
      BY <1>0, <1>1, <3>1, <3>4, BoxEnqueued
    <3>6. NewOK(id, lk[r])
      BY <2>2, <3>1, <3>2 DEF NewOK, Closing
    <3> QED  BY <3>3, <3>4, <3>5, <3>6
  <2>3. CASE complete /\ run'[r].lifecycle \notin Sealed
    <3>1. PICK p : p = EnqueueRevoke(outbox, r)
      OBVIOUS
    <3>2. Box(outbox, outbox, 0, Revocation(r))
      BY <1>0, BoxSame
    <3>3. p \in Seq(Item) /\ Box(outbox, p, 0, Revocation(r)) /\ Quiet(p)
      BY <1>0, <1>1, <3>1, <3>2, RevokeBox
    <3>4. \A x \in Revocation(r) : NewOK(x[1], x[2])
      BY <1>0, <1>1, <1>3, <1>4, LeaseSettled, Revoked
    <3>5. Ends(complete, p)
      BY <2>3, <3>1 DEF ApplyCompletion
    <3> QED  BY <3>3, <3>4, <3>5
  <2> QED  BY <2>1, <2>2, <2>3
<1>6. tick' = Idle /\ Box(outbox, outbox', 0, N) /\ Quiet(outbox')
  BY <1>0, <1>5, EndsBox
<1>7. PageEnds(r)
  BY <1>1, <1>3, <1>4, <1>6, PageEnded DEF Box
<1>8. LinkStep
  BY <1>4, <1>5, <1>6, <1>7, AppendLink DEF ApplyCompletion, SecretsKept, world
<1> QED  BY <1>0, <1>6, <1>8, IdleTick, RestStep DEF ApplyCompletion, JobStep, Types, world

\* No other item orders the agent of the page task.
LEMMA OneOrder ==
    ASSUME CoordInv, NEW r \in TestRuns, NEW i \in DOMAIN outbox, CreatesFor(i, r),
           NEW j \in DOMAIN outbox, CreatesFor(j, r)
    PROVE  i = j
<1>1. Types /\ Unique /\ outbox[i].id.g = 0 /\ outbox[j].id.g = 0
  BY DEF CoordInv, Links, OrdersOK, OrderInv, CreatesFor
<1>2. /\ outbox[i].id \in ItemId /\ outbox[j].id \in ItemId
      /\ outbox[i].id.kind = outbox[j].id.kind /\ outbox[i].id.run = outbox[j].id.run
      /\ outbox[i].id.todo = outbox[j].id.todo /\ outbox[i].id.n = outbox[j].id.n
  BY <1>1, ItemTypes DEF CreatesFor, IsPageOf, Page
<1>3. outbox[i].id = outbox[j].id
  BY <1>1, <1>2 DEF ItemId
<1> QED  BY <1>1, <1>3 DEF Unique

LEMMA RowThen ==
    ASSUME NEW a, NEW b, NEW c, RowStep(a, b), RowStep(b, c) PROVE RowStep(a, c)
  BY DEF RowStep

\* The item that is settled was the first that was due, or dispatching.
LEMMA SettleFirst ==
    ASSUME CoordInv, NEW i \in DOMAIN outbox, outbox[i].status \in Open,
           \A j \in DOMAIN outbox \ {i} : outbox[j].status # "dispatching",
           NEW s \in {"cancelled", "terminal_failed", "confirmed", "retryable_failed"}, NEW N
    PROVE  LET p == Settled(outbox, i, s)
           IN  p \in Seq(Item) /\ Box(outbox, p, i, N) /\ Quiet(p) /\ p[i].status = s
<1>1. outbox \in Seq(Item) /\ s \in ItemStatus
  BY DEF CoordInv, Types, ItemStatus
<1>2. PICK p : p = Settled(outbox, i, s)
  OBVIOUS
<1>3. /\ p \in Seq(Item) /\ Box(outbox, p, i, N) /\ DOMAIN p = DOMAIN outbox /\ p[i].status = s
      /\ \A j \in DOMAIN outbox \ {i} : p[j] = outbox[j]
  BY <1>1, <1>2, BoxSettled
<1> QED  BY <1>2, <1>3 DEF Quiet

LEMMA RefuseStep ==
    ASSUME CoordInv, NEW i \in DOMAIN outbox, outbox[i].status \in Open, NEW complete \in BOOLEAN,
           \A j \in DOMAIN outbox \ {i} : outbox[j].status # "dispatching",
           outbox[i].status = "pending" \/ outbox[i].id.kind = "agent_create" =>
               \A k \in DOMAIN outbox : k < i => outbox[k].status # "pending",
           ~Authorised(outbox[i].id), Refuse(i, complete),
           UNCHANGED <<job, lk, agentLink, secrets, session, lease, agent>>
    PROVE  CoordInv'
<1> DEFINE id == outbox[i].id
           r  == id.run
           own == IsPageOf(id, r) /\ HasBrowser(r)
           ends == id.kind = "agent_create" /\ own
<1>0. Types /\ outbox \in Seq(Item) /\ run \in [TestRuns -> RunRecord] /\ r \in TestRuns
      /\ id.kind \in Kind
  BY ItemTypes DEF CoordInv, Types
<1>1. PICK c : c = AssertRunPolicyCurrent(run[r])
  OBVIOUS
<1>2. /\ RowStep(run[r], c) /\ c.page = run[r].page /\ c.stale = run[r].stale
      /\ run[r].page # NoTodo /\ ~run[r].stale => c.lifecycle = "cancelling"
  <2>1. ~ExecutionAllowed(run[r])
    BY DEF Authorised
  <2> QED  BY <1>0, <1>1, <2>1, AssertStep, RowTypes
<1>3. PICK q : /\ RowStep(run[r], q) /\ run' = [run EXCEPT ![r] = q]
               /\ ends => q.page = NoTodo /\ (q.lifecycle \in Sealed \/ q.stale)
               /\ ~ends => q.page = run[r].page
  <2>1. CASE ends
    <3>1. PICK q : q = CompleteAttempt(c, "recoverable_interruption")
      OBVIOUS
    <3>2. c.page # NoTodo /\ CoordRow(c) /\ "recoverable_interruption" \in AttemptResult
      BY <1>2, <2>1 DEF IsPageOf, RowStep, AttemptResult
    <3>3. /\ RowStep(c, q) /\ q.page = NoTodo /\ q.stale = c.stale
          /\ c.lifecycle = "cancelling" => q.lifecycle \in Sealed
      BY <3>1, <3>2, CompleteStep
    <3>4. run' = [run EXCEPT ![r] = q]
      BY <1>1, <2>1, <3>1 DEF Refuse
    <3>5. RowStep(run[r], q)
      BY <1>2, <3>3, RowThen
    <3>6. q.lifecycle \in Sealed \/ q.stale
      BY <1>2, <3>2, <3>3, RowTypes, <1>0 DEF CoordRow, RowInv, RunRecord
    <3> QED  BY <2>1, <3>3, <3>4, <3>5, <3>6
  <2>2. CASE ~ends /\ id.kind = "agent_resume"
    <3>1. PICK q : q = Paused(c)
      OBVIOUS
    <3>2. RowStep(c, q) /\ q.page = c.page
      BY <1>2, <3>1, PausedStep DEF RowStep, QuietStep
    <3>3. run' = [run EXCEPT ![r] = q]
      BY <1>1, <2>2, <3>1 DEF Refuse
    <3> QED  BY <1>2, <2>2, <3>2, <3>3, RowThen
  <2>3. CASE ~ends /\ id.kind # "agent_resume"
    <3>1. run' = [run EXCEPT ![r] = c]
      BY <1>1, <2>3 DEF Refuse
    <3> QED  BY <1>2, <2>3, <3>1
  <2> QED  BY <2>1, <2>2, <2>3
<1>4. StepRows /\ run'[r] = q /\ \A s \in TestRuns \ {r} : run'[s] = run[s]
  BY <1>0, <1>3, OneRow
<1>5. PICK p, N :
         /\ p \in Seq(Item)
         /\ Ends(complete, p) /\ Box(outbox, p, i, N) /\ (complete => Quiet(p))
         /\ \A x \in N : NewOK(x[1], x[2])
         /\ p[i].status = IF complete THEN "cancelled" ELSE outbox[i].status
  <2>1. CASE ~complete
    <3>1. Ends(complete, outbox)
      BY <2>1 DEF Refuse
    <3>2. Box(outbox, outbox, i, {})
      BY <1>0, BoxSame
    <3> QED  BY <1>0, <2>1, <3>1, <3>2
  <2>2. CASE complete /\ ~ends
    <3>1. PICK p : p = Settled(outbox, i, "cancelled")
      OBVIOUS
    <3>2. p \in Seq(Item) /\ Box(outbox, p, i, {}) /\ Quiet(p) /\ p[i].status = "cancelled"
      BY <3>1, SettleFirst
    <3>3. Ends(complete, p)
      BY <2>2, <3>1 DEF Refuse
    <3>4. \A x \in {} : NewOK(x[1], x[2])
      OBVIOUS
    <3>5. p[i].status = IF complete THEN "cancelled" ELSE outbox[i].status
      BY <2>2, <3>2
    <3> HIDE DEF ends, own, r, id
    <3> QED  BY <3>2, <3>3, <3>4, <3>5
  <2>3. CASE complete /\ ends
    <3>1. PICK p : p = Settled(outbox, i, "cancelled")
      OBVIOUS
    <3>2. p \in Seq(Item) /\ Box(outbox, p, i, Revocation(r)) /\ Quiet(p) /\ p[i].status = "cancelled"
      BY <3>1, SettleFirst
    <3>3. PICK o : o = EnqueueRevoke(p, r)
      OBVIOUS
    <3>4. o \in Seq(Item) /\ Box(outbox, o, i, Revocation(r)) /\ Quiet(o) /\ o[i] = p[i]
      BY <1>0, <3>2, <3>3, RevokeBox
    <3>5. Ends(complete, o)
      BY <2>3, <3>1, <3>3 DEF Refuse
    <3>6. run[r].page # NoTodo /\ run'[r].page = NoTodo /\ CreatesFor(i, r)
      BY <1>3, <1>4, <2>3 DEF IsPageOf, CreatesFor
    <3>7. \A x \in Revocation(r) : NewOK(x[1], x[2])
      BY <1>0, <2>3, <3>6, LeaseSettled, Revoked
    <3> QED  BY <2>3, <3>2, <3>4, <3>5, <3>7
  <2> QED  BY <2>1, <2>2, <2>3
<1>6. tick' = Idle /\ Box(outbox, outbox', i, N) /\ Quiet(outbox')
      /\ outbox'[i].status \in {p[i].status, "pending"}
  BY <1>0, <1>5, EndsBox
<1>7. outbox[i].status = "pending" => outbox'[i].status = "pending" \/ outbox'[i].status \notin Open
  BY <1>5, <1>6 DEF Open
<1>8. \A s \in TestRuns : run[s].page # NoTodo /\ run'[s].page = NoTodo => PageEnds(s)
  <2>1. ends => PageEnds(r)
    BY <1>0, <1>3, <1>4, <1>6, PageEnded DEF Box
  <2> QED  BY <1>3, <1>4, <2>1
<1> HIDE DEF ends, own, r, id
<1>9. LinkStep
  BY <1>0, <1>4, <1>5, <1>6, <1>7, <1>8, BoxLink
<1> QED  BY <1>0, <1>6, <1>9, IdleTick, RestStep DEF JobStep, Types

-----------------------------------------------------------------------------
(***************************************************************************)
(* Items that are settled without a call, and calls that fail.             *)
(***************************************************************************)

\* An item that is settled, and nothing else.
LEMMA SettleStepOnly ==
    ASSUME CoordInv, NEW i \in DOMAIN outbox, outbox[i].status \in Open,
           \A j \in DOMAIN outbox \ {i} : outbox[j].status # "dispatching",
           outbox[i].status = "pending" =>
               \A k \in DOMAIN outbox : k < i => outbox[k].status # "pending",
           NEW s \in {"cancelled", "confirmed"}, outbox' = Settled(outbox, i, s), tick' = Idle,
           SecretsKept, UNCHANGED <<run, job, lk, agentLink, session, agent>>,
           lease' \in {lease, NoLease}
    PROVE  CoordInv'
<1>0. Types
  BY DEF CoordInv
<1>1. Box(outbox, outbox', i, {}) /\ Quiet(outbox') /\ outbox'[i].status = s
  BY SettleFirst
<1>2. StepRows
  BY <1>0, NoRow
<1>3. LinkStep
  BY <1>0, <1>1, <1>2, BoxLink DEF SecretsKept, Open
<1> QED  BY <1>0, <1>1, <1>3, IdleTick, RestStep DEF JobStep, Types

LEMMA DispatchRefusedStep ==
    ASSUME CoordInv, NEW i, NEW complete \in BOOLEAN, DispatchRefused(i, complete) PROVE CoordInv'
  BY DueFacts, RefuseStep DEF DispatchRefused, Quiet, Open, world

LEMMA StaleTodoStep == ASSUME CoordInv, NEW i, DispatchStaleTodo(i) PROVE CoordInv'
  BY DueFacts, SettleStepOnly DEF DispatchStaleTodo, Quiet, Open, SecretsKept, world

LEMMA NoSessionStep == ASSUME CoordInv, NEW i, DispatchNoSession(i) PROVE CoordInv'
  BY DueFacts, FailStep DEF DispatchNoSession, Quiet, Open, SecretsKept, world

LEMMA TokenLostStep == ASSUME CoordInv, NEW i, DispatchTokenLost(i) PROVE CoordInv'
<1> DEFINE id == outbox[i].id
           r  == id.run
           own == IsPageOf(id, r) /\ HasBrowser(r)
<1>d. /\ i \in DOMAIN outbox /\ Quiet(outbox) /\ outbox[i].status \in Open
      /\ \A k \in DOMAIN outbox : k < i => outbox[k].status # "pending"
  BY DueFacts DEF DispatchTokenLost, Open
<1>0. Types /\ outbox \in Seq(Item) /\ run \in [TestRuns -> RunRecord] /\ r \in TestRuns
  BY <1>d, ItemTypes DEF CoordInv, Types
<1>1. PICK p : p = Settled(outbox, i, "terminal_failed")
  OBVIOUS
<1>2. /\ p \in Seq(Item) /\ Box(outbox, p, i, {}) /\ Box(outbox, p, i, Revocation(r)) /\ Quiet(p)
      /\ p[i].status = "terminal_failed"
  BY <1>d, <1>1, SettleFirst DEF Quiet
<1>3. CASE ~own
  <2>1. run' = run /\ outbox' = p /\ tick' = Idle
    BY <1>1, <1>3 DEF DispatchTokenLost
  <2>2. StepRows
    BY <1>0, <2>1, NoRow
  <2>3. LinkStep
    <3> HIDE DEF own, r, id
    <3> QED  BY <1>d, <1>2, <2>1, <2>2, BoxLink DEF DispatchTokenLost, Open, SecretsKept, world
  <2> QED  BY <1>0, <1>2, <2>1, <2>3, IdleTick, RestStep DEF DispatchTokenLost, JobStep, Types, world
<1>4. CASE own
  <2>1. PICK q : q = CompleteAttempt(run[r], "recoverable_interruption")
    OBVIOUS
  <2>2. run[r].page # NoTodo /\ CreatesFor(i, r) /\ "recoverable_interruption" \in AttemptResult
    BY <1>4 DEF IsPageOf, CreatesFor, DispatchTokenLost, AttemptResult
  <2>3. RowStep(run[r], q) /\ q.page = NoTodo /\ run' = [run EXCEPT ![r] = q]
    BY <1>0, <1>4, <2>1, <2>2, CompleteStep, RowTypes DEF DispatchTokenLost
  <2>4. StepRows /\ run'[r] = q /\ \A s \in TestRuns \ {r} : run'[s] = run[s]
    BY <1>0, <2>3, OneRow
  <2>5. outbox' = EnqueueRevoke(p, r) /\ tick' = Idle
    BY <1>1, <1>4 DEF DispatchTokenLost
  <2>6. Box(outbox, outbox', i, Revocation(r)) /\ Quiet(outbox') /\ outbox'[i] = p[i]
    BY <1>d, <1>0, <1>2, <2>5, RevokeBox
  <2>7. \A x \in Revocation(r) : NewOK(x[1], x[2])
    BY <1>d, <1>0, <2>2, <2>3, <2>4, LeaseSettled, Revoked
  <2>8. PageEnds(r)
    <3>1. \A j \in DOMAIN outbox : CreatesFor(j, r) => j = i
      BY <1>d, <1>0, <2>2, OneOrder
    <3>2. \A j \in DOMAIN outbox : CreatesFor(j, r) => outbox'[j].status \notin Open
      BY <1>2, <2>6, <3>1 DEF Open
    <3> QED  BY <1>0, <2>3, <2>4, <2>6, <3>2, PageEnded DEF Box
  <2>9. LinkStep
    <3> HIDE DEF own, r, id
    <3> QED  BY <1>d, <1>2, <2>4, <2>6, <2>7, <2>8, BoxLink DEF DispatchTokenLost, Open, SecretsKept, world
  <2> QED  BY <1>0, <2>5, <2>6, <2>9, IdleTick, RestStep DEF DispatchTokenLost, JobStep, Types, world
<1> QED  BY <1>3, <1>4

\* The item a tick calls about, or whose answer has come.
LEMMA CallFacts ==
    ASSUME CoordInv, tick.at \in {"calling", "answered", "cleanup", "discarding"}
    PROVE  /\ tick.item \in DOMAIN outbox /\ Item0.status = "dispatching" /\ Item0.status \in Open
           /\ \A j \in DOMAIN outbox \ {tick.item} : outbox[j].status # "dispatching"
  BY WorkFacts DEF Working, Open

LEMMA LeaseRefusedStep == ASSUME CoordInv, LeaseRefused PROVE CoordInv'
<1>1. tick.at = "calling" /\ Item0.id.kind = "lease_create" /\ TRUE \in BOOLEAN
  BY DEF LeaseRefused, Calling, Item0
<1> QED  BY <1>1, CallFacts, RefuseStep DEF LeaseRefused, Item0, world

LEMMA CallFailsStep == ASSUME CoordInv, CallFails PROVE CoordInv'
<1>1. tick.at \in {"calling", "answered", "cleanup", "discarding"}
  BY DEF CallFails
<1> QED  BY <1>1, CallFacts, FailStep DEF CallFails, SecretsKept, Item0, world

LEMMA MustWaitStep == ASSUME CoordInv, MustWait PROVE CoordInv'
<1>1. tick.at = "calling"
  BY DEF MustWait, Calling
<1> QED  BY <1>1, CallFacts, FailStep DEF MustWait, SecretsKept, Item0, world

LEMMA CommandAnsweredStep == ASSUME CoordInv, CommandAnswered PROVE CoordInv'
<1>1. tick.at = "answered"
  BY DEF CommandAnswered, Answered
<1> QED  BY <1>1, CallFacts, SettleStepOnly DEF CommandAnswered, SecretsKept, Item0, world

\* A token that is forgotten is that of no lease that is linked to a page task.
LEMMA ForgetRevoked ==
    ASSUME CoordInv, NEW i \in DOMAIN outbox, outbox[i].id.kind \in {"revoke", "policy_revoke"},
           run' = run, secrets' = secrets \ {outbox[i].lease}
    PROVE  SecretsKept
<1> SUFFICES ASSUME NEW r \in TestRuns, run[r].page # NoTodo, lk[r] # NoLease, lk[r] = outbox[i].lease
             PROVE  FALSE
  BY DEF SecretsKept
<1>1. lk[r].run = r
  BY DEF CoordInv, Links, LeaseLinked
<1>2. RevokeOK(outbox[i].id, outbox[i].lease)
  BY DEF CoordInv, Links, RevokesOK
<1>3. CoordRow(run[r])
  BY DEF CoordInv, Types
<1> QED  BY <1>1, <1>2, <1>3 DEF RevokeOK, RevokeInv, GivenBack, CoordRow

LEMMA RevokeAnsweredStep == ASSUME CoordInv, RevokeAnswered PROVE CoordInv'
<1>1. tick.at = "answered" /\ Item0.id.kind \in {"revoke", "policy_revoke"}
  BY DEF RevokeAnswered, Answered, Item0
<1>2. SecretsKept
  BY <1>1, CallFacts, ForgetRevoked DEF RevokeAnswered, Item0
<1> QED  BY <1>1, <1>2, CallFacts, SettleStepOnly DEF RevokeAnswered, Item0, world

LEMMA LeaseDiscardedStep == ASSUME CoordInv, LeaseDiscarded PROVE CoordInv'
<1>1. tick.at = "discarding" /\ Item0.id.kind = "lease_create" /\ WorksOn({"lease_create"})
  BY DEF LeaseDiscarded, CoordInv, TickInv, WorksOn, Working
<1>2. run[Item0.id.run].page = NoTodo /\ Item0.id.run \in TestRuns
  BY <1>1, CallFacts, ItemTypes DEF CoordInv, PhaseInv, Item0
<1>3. SecretsKept
  <2> SUFFICES ASSUME NEW r \in TestRuns, run'[r].page # NoTodo, lk[r] # NoLease, lk[r] = Item0.id
               PROVE  FALSE
    BY DEF SecretsKept, LeaseDiscarded, Item0
  <2>1. run'[Item0.id.run].page = NoTodo /\ \A s \in TestRuns : run[s].page = NoTodo => run'[s].page = NoTodo
    BY <1>2, PausedStep, RowTypes DEF LeaseDiscarded, FailTerminal, CoordInv, Types, QuietStep, Item0
  <2>2. lk[r].run = r
    BY <2>1 DEF CoordInv, Links, LeaseLinked
  <2> QED  BY <2>1, <2>2
<1> QED  BY <1>1, <1>3, CallFacts, FailStep DEF LeaseDiscarded, Item0, world

-----------------------------------------------------------------------------
(***************************************************************************)
(* Steps of the user, of the browser and of the agent.                     *)
(***************************************************************************)

QuietRows == run' \in [TestRuns -> RunRecord] /\ \A r \in TestRuns : QuietStep(run[r], run'[r])

LEMMA QuietOneRow ==
    ASSUME Types, NEW r \in TestRuns, NEW q, QuietStep(run[r], q), run' = [run EXCEPT ![r] = q]
    PROVE  QuietRows
<1>1. q \in RunRecord /\ RowStep(run[r], q)
  BY DEF QuietStep, RowStep, CoordRow, RowInv
<1>2. run' \in [TestRuns -> RunRecord] /\ run'[r] = q /\ \A s \in TestRuns \ {r} : run'[s] = run[s]
  BY <1>1, OneRow DEF StepRows
<1> QED  BY <1>2, RowTypes DEF QuietRows

\* The others act while a tick works or waits: users, agents that end, leases
\* that expire.
LEMMA OthersAct ==
    ASSUME CoordInv, QuietRows, tick' = tick, UNCHANGED <<job, lk, agentLink, session>>, secrets' = secrets,
           outbox' \in Seq(Item), Continues(outbox, outbox'), NewItems,
           \A j \in DOMAIN outbox : outbox'[j] = outbox[j],
           \A j \in DOMAIN outbox' \ DOMAIN outbox :
               outbox'[j].status = "pending" /\ outbox'[j].id.kind # "session_create",
           lease' \in {lease, NoLease}, agent' \in [PageTasks -> [status : AgentStatus, version : Nat]],
           \A p \in PageTasks : agent[p].status # "none" => agent'[p].status # "none"
    PROVE  CoordInv'
<1>0. Types /\ TickInv /\ HolderInv /\ PhaseInv /\ Links /\ StepRows
  BY DEF CoordInv, QuietRows, StepRows, QuietStep
<1>1. Types'
  BY <1>0 DEF Types, StepRows, RowStep, Key
<1>w. ASSUME tick.at \in Working
      PROVE  /\ tick.item \in DOMAIN outbox /\ tick.item \in DOMAIN outbox' /\ Item0' = Item0
             /\ Item0.status = "dispatching" /\ Item0.id.run \in TestRuns
  BY <1>0, <1>w, WorkFacts, ItemTypes DEF Item0, Continues
<1>2. TickInv'
  <2>1. Quiet(outbox) => Quiet(outbox')
    BY DEF Quiet
  <2>2. ASSUME tick.at \in Working
        PROVE  \A i \in DOMAIN outbox' : outbox'[i].status = "dispatching" =>
                  \/ i = tick.item
                  \/ /\ tick.at = "revoking" /\ outbox'[i].id.kind = "policy_revoke"
                     /\ outbox'[i].lease = Item0.id
    BY <1>0, <2>2 DEF TickInv
  <2> QED  BY <1>0, <1>w, <2>1, <2>2 DEF TickInv, Working
<1>3. HolderInv'
  <2>1. \A i \in DOMAIN outbox' : outbox'[i].id.kind = "session_create" => job'[outbox'[i].id.run] # "queued"
    BY <1>0 DEF HolderInv
  <2>2. tick'.at = "answered" /\ Item0'.id.kind \in Closing => session'[Item0'.id.run] = "closed"
    BY <1>0, <1>w DEF HolderInv, Working
  <2>3. BrowserHasHolder'
    BY <1>0 DEF HolderInv, BrowserHasHolder, HasBrowser
  <2> QED  BY <1>0, <2>1, <2>2, <2>3 DEF HolderInv, HasBrowser
<1>4. PhaseInv'
  <2>1. \A r \in TestRuns : QuietStep(run[r], run'[r]) /\ run'[r].page = run[r].page
    BY DEF QuietRows, QuietStep
  <2>2. ASSUME tick.at \in Working, Item0.id.kind = "agent_create"
        PROVE  /\ <<Item0.id.run, Item0.id.todo, Item0.id.n>> \in PageTasks /\ OrderInv(tick.item)
               /\ Item0.status \in Open
    <3>1. OrderInv(tick.item)
      BY <1>0, <1>w, <2>2 DEF Links, OrdersOK, Item0
    <3>2. Item0.id.n \in Nat /\ run[Item0.id.run] \in RunRecord
      BY <1>0, <1>w, <2>2, ItemTypes, RowTypes DEF Item0
    <3>3. /\ Item0.id.todo \in Todos /\ 0 < Item0.id.n
          /\ Item0.id.n <= run[Item0.id.run].tries[Item0.id.todo]
      BY <3>1 DEF OrderInv, Item0
    <3>4. run[Item0.id.run].tries[Item0.id.todo] \in 0 .. MaxTries
      BY <3>2, <3>3 DEF RunRecord
    <3>5. Item0.id.n \in 1 .. MaxTries
      BY <3>2, <3>3, <3>4, GraphAssumption
    <3>6. <<Item0.id.run, Item0.id.todo, Item0.id.n>> \in PageTasks
      BY <1>w, <2>2, <3>3, <3>5 DEF PageTasks
    <3> QED  BY <1>w, <2>2, <3>1, <3>6 DEF Open
  <2>3. ASSUME tick.at = "calling", Item0.id.kind = "agent_create",
               run'[Item0.id.run].lifecycle \in Sealed
        PROVE  agent'[<<Item0.id.run, Item0.id.todo, Item0.id.n>>].status # "none"
    <3>1. tick.at \in Working
      BY <2>3 DEF Working
    <3>2. ~run[Item0.id.run].stale /\ (run[Item0.id.run].lifecycle \in Sealed =>
             agent[<<Item0.id.run, Item0.id.todo, Item0.id.n>>].status # "none")
      BY <1>0, <2>3, <3>1 DEF PhaseInv, WorksOn
    <3>3. CoordRow(run'[Item0.id.run]) /\ run'[Item0.id.run].page = run[Item0.id.run].page
      BY <1>w, <2>1, <3>1 DEF QuietStep, RowStep
    <3>4. ~ IsPageOf(Item0.id, Item0.id.run)
      BY <2>3, <3>3 DEF CoordRow, IsPageOf
    <3> QED  BY <2>2, <2>3, <3>1, <3>2, <3>4 DEF OrderInv, Item0
  <2>4. WorksOn({"agent_create"}) => WorksOn({"agent_create"})' /\ Item0' = Item0
    BY <1>w DEF WorksOn
  <2>5. \A S : WorksOn(S)' => WorksOn(S) /\ Item0' = Item0 /\ Item0.id.run \in TestRuns
    BY <1>w DEF WorksOn
  <2>6. WorksOn({"lease_create"})' => run'[Item0'.id.run].page = NoTodo
    BY <1>0, <2>1, <2>5 DEF PhaseInv
  <2>7. tick'.at = "answered" /\ WorksOn({"lease_create"})' =>
          ExecutionAllowed(run'[Item0'.id.run]) \/ run'[Item0'.id.run].lifecycle \in Sealed
    BY <1>0, <2>1, <2>5 DEF PhaseInv, QuietStep
  <2>8. tick'.at = "answered" /\ WorksOn({"agent_create"})' =>
          agent'[<<Item0'.id.run, Item0'.id.todo, Item0'.id.n>>].status # "none"
    BY <1>0, <2>2, <2>5 DEF PhaseInv, WorksOn
  <2>9. tick'.at = "calling" /\ WorksOn({"agent_create"})' =>
          /\ ~run'[Item0'.id.run].stale
          /\ run'[Item0'.id.run].lifecycle \in Sealed =>
                agent'[<<Item0'.id.run, Item0'.id.todo, Item0'.id.n>>].status # "none"
    BY <1>0, <2>1, <2>3, <2>5 DEF PhaseInv, QuietStep, WorksOn
  <2>10. tick'.at \in {"reconciling", "capturing"} =>
            \A r \in TestRuns : HasBrowser(r)' /\ run'[r].page # NoTodo => agentLink'[r]
    BY <1>0, <2>1 DEF PhaseInv, HasBrowser
  <2> QED  BY <2>6, <2>7, <2>8, <2>9, <2>10 DEF PhaseInv, ExecutionAllowed, HasOpenDecision, PolicyCurrent
<1>5. LinkStep
  <2>1. \A r \in TestRuns : run'[r].page = run[r].page
    BY DEF QuietRows, QuietStep
  <2> QED  BY <1>0, <2>1 DEF LinkStep, InTurn
<1>6. Links'
  BY <1>0, <1>1, <1>5, LinksStep
<1> QED  BY <1>1, <1>2, <1>3, <1>4, <1>6 DEF CoordInv

LEMMA SameBox ==
    ASSUME CoordInv, outbox' = outbox
    PROVE  /\ outbox' \in Seq(Item) /\ Continues(outbox, outbox') /\ NewItems
           /\ DOMAIN outbox' \ DOMAIN outbox = {}
  BY ContinuesSame DEF CoordInv, Types, NewItems

LEMMA UserRowsStep ==
    ASSUME CoordInv, QuietRows, tick' = tick, UNCHANGED <<db, world>> PROVE CoordInv'
<1>1. UNCHANGED <<job, outbox, lk, agentLink, secrets, session, lease, agent>>
  BY DEF db, world
<1>2. agent' \in [PageTasks -> [status : AgentStatus, version : Nat]]
  BY <1>1 DEF CoordInv, Types
<1> QED  BY <1>1, <1>2, SameBox, OthersAct

LEMMA UserActsStep == ASSUME CoordInv, NEW r \in TestRuns, UserActs(r) PROVE CoordInv'
<1>0. Types /\ run \in [TestRuns -> RunRecord] /\ CoordRow(run[r]) /\ tick' = tick
      /\ UNCHANGED <<db, world>>
  BY RowTypes DEF CoordInv, Types, UserActs
<1>1. CASE Start(r) \/ Resume(r)
  <2>1. run[r].lifecycle \in {"ready", "paused"} /\ ExecutionAllowed(run[r])
        /\ run' = [run EXCEPT ![r] = [run[r] EXCEPT !.lifecycle = "running"]]
    BY <1>0, <1>1 DEF Start, Resume, CommandTarget
  <2>2. QuietStep(run[r], [run[r] EXCEPT !.lifecycle = "running"])
    BY <1>0, <2>1, MovedStep DEF Sealed
  <2> QED  BY <1>0, <2>1, <2>2, QuietOneRow, UserRowsStep
<1>2. CASE CancelFormalRun(r)
  <2>1. run[r].lifecycle \notin Sealed /\ run' = [run EXCEPT ![r] = CancelRun(run[r])]
    BY <1>0, <1>2 DEF CancelFormalRun, CommandTarget
  <2>2. QuietStep(run[r], CancelRun(run[r]))
    BY <1>0, <2>1, CancelStep
  <2> QED  BY <1>0, <2>1, <2>2, QuietOneRow, UserRowsStep
<1>3. ASSUME NEW t \in Todos, ResumeInterruptedTodo(r, t) PROVE CoordInv'
  <2>1. run' = [run EXCEPT ![r] = [run[r] EXCEPT !.todo = [run[r].todo EXCEPT ![t] = "ready"]]]
    BY <1>0, <1>3 DEF ResumeInterruptedTodo
  <2>2. QuietStep(run[r], [run[r] EXCEPT !.todo = [run[r].todo EXCEPT ![t] = "ready"]])
    BY <1>0, <1>3, ResumeStep DEF ResumeInterruptedTodo
  <2> QED  BY <1>0, <2>1, <2>2, QuietOneRow, UserRowsStep
<1>4. ASSUME NEW t \in Todos, NEW s \in {"ready", "failed"}, run[r].lifecycle \notin Sealed,
             AnswerAboutTodo(r, t, s)
      PROVE  CoordInv'
  <2>1. run[r].decision[t] = "open" /\ run' = [run EXCEPT ![r] = AnswerTodo(run[r], t, s)]
    BY <1>0, <1>4 DEF AnswerAboutTodo
  <2>2. QuietStep(run[r], AnswerTodo(run[r], t, s))
    BY <1>0, <1>4, <2>1, AnswerStep
  <2> QED  BY <1>0, <2>1, <2>2, QuietOneRow, UserRowsStep
<1> QED  BY <1>1, <1>2, <1>3, <1>4 DEF UserActs

LEMMA UserPausesStep == ASSUME CoordInv, NEW r \in TestRuns, UserPauses(r) PROVE CoordInv'
<1>0. Types /\ run \in [TestRuns -> RunRecord] /\ CoordRow(run[r]) /\ tick' = tick
      /\ UNCHANGED <<db, world>>
  BY RowTypes DEF CoordInv, Types, UserPauses
<1>1. run[r].lifecycle \in {"ready", "running"}
      /\ run' = [run EXCEPT ![r] = [run[r] EXCEPT !.lifecycle = "paused"]]
  BY <1>0 DEF UserPauses, Pause, CommandTarget
<1>2. QuietStep(run[r], [run[r] EXCEPT !.lifecycle = "paused"])
  BY <1>0, <1>1, MovedStep DEF Sealed
<1> QED  BY <1>0, <1>1, <1>2, QuietOneRow, UserRowsStep

LEMMA QuietNoRow == ASSUME Types, run' = run PROVE QuietRows
  BY RowTypes DEF QuietRows, Types

LEMMA RunOrder ==
    ASSUME NEW r \in TestRuns, NEW kind \in Kind
    PROVE  LET id == Id(kind, r, NoTodo, 0, 0)
           IN  id \in ItemId /\ id.kind = kind /\ id.run = r
  BY DEF Id, ItemId

LEMMA CloseBrowserStep == ASSUME CoordInv, NEW r \in TestRuns, CloseBrowser(r) PROVE CoordInv'
<1>0. Types /\ outbox \in Seq(Item) /\ NoLease \in Key
  BY DEF CoordInv, Types, Key
<1>1. PICK id \in ItemId : id.kind = "user_close" /\ outbox' = Enqueue(outbox, id, NoLease)
  BY RunOrder DEF CloseBrowser, Kind
<1>2. /\ Continues(outbox, outbox')
      /\ \A j \in DOMAIN outbox : outbox'[j] = outbox[j]
      /\ \A j \in DOMAIN outbox' \ DOMAIN outbox :
            outbox'[j].id = id /\ outbox'[j].lease = NoLease /\ outbox'[j].status = "pending"
  BY <1>0, <1>1, Enqueued
<1>3. NewItems /\ outbox' \in Seq(Item)
  BY <1>1, <1>2 DEF NewItems, NewOK, Continues
<1>4. QuietRows
  BY <1>0, QuietNoRow DEF CloseBrowser
<1> QED  BY <1>0, <1>1, <1>2, <1>3, <1>4, OthersAct DEF CloseBrowser, world, Types

LEMMA AgentEndedStep ==
    ASSUME CoordInv, NEW p \in PageTasks, NEW status \in AgentEnds, AgentEnded(p, status) PROVE CoordInv'
<1>0. Types /\ run' = run /\ UNCHANGED <<job, outbox, lk, agentLink, secrets, tick, session, lease>>
  BY DEF CoordInv, AgentEnded, db
<1>1. status \in AgentStatus /\ status # "none"
  BY AgentAssumption DEF AgentStatus, TERMINAL_AGENT_STATES
<1>2. agent[p].version + 1 \in Nat
  BY <1>0 DEF Types
<1>3. [status |-> status, version |-> agent[p].version + 1] \in [status : AgentStatus, version : Nat]
  BY <1>1, <1>2
<1>4. agent' = [agent EXCEPT ![p] = [status |-> status, version |-> agent[p].version + 1]]
  BY <1>0 DEF AgentEnded, Types
<1>5. /\ agent' \in [PageTasks -> [status : AgentStatus, version : Nat]]
      /\ \A x \in PageTasks : agent[x].status # "none" => agent'[x].status # "none"
  BY <1>0, <1>1, <1>3, <1>4 DEF Types
<1> QED  BY <1>0, <1>5, SameBox, QuietNoRow, OthersAct

LEMMA LeaseExpiresStep == ASSUME CoordInv, LeaseExpires PROVE CoordInv'
<1>0. Types /\ run' = run /\ UNCHANGED <<job, outbox, lk, agentLink, secrets, tick, session, agent>>
      /\ lease' = NoLease
  BY DEF CoordInv, LeaseExpires, db
<1> QED  BY <1>0, SameBox, QuietNoRow, OthersAct DEF Types

-----------------------------------------------------------------------------
(***************************************************************************)
(* Orders that a tick enqueues.                                            *)
(***************************************************************************)

LEMMA StillLink ==
    ASSUME CoordInv, UNCHANGED <<run, outbox, lk, agentLink>>, secrets \subseteq secrets',
           \A p \in PageTasks : agent[p].status # "none" => agent'[p].status # "none"
    PROVE  LinkStep
<1>1. Types /\ outbox \in Seq(Item)
  BY DEF CoordInv, Types
<1>2. StepRows /\ Box(outbox, outbox', 0, {})
  BY <1>1, NoRow, BoxSame
<1>3. SecretsKept
  BY DEF SecretsKept
<1> QED  BY <1>2, <1>3, AppendLink

\* A tick that asks ai-chat about a page task, or has its answer.
LEMMA AskStep ==
    ASSUME CoordInv, UNCHANGED <<run, db, world>>, Quiet(outbox), tick' \in Tick,
           tick'.at \in {"reconciling", "capturing"},
           \A r \in TestRuns : HasBrowser(r) /\ run[r].page # NoTodo => agentLink[r]
    PROVE  CoordInv'
<1>0. Types /\ UNCHANGED <<job, outbox, lk, agentLink, secrets, session, lease, agent>>
  BY DEF CoordInv, db, world
<1>1. Types'
  BY <1>0 DEF Types
<1>2. TickInv'
  BY <1>0 DEF TickInv, AtRest, Working, Quiet
<1>3. PhaseInv'
  BY <1>0 DEF PhaseInv, WorksOn, Working, HasBrowser
<1>4. HolderInv'
  BY <1>0 DEF CoordInv, HolderInv, BrowserHasHolder, HasBrowser
<1>5. Links'
  BY <1>0, <1>1, StillLink, LinksStep DEF CoordInv
<1> QED  BY <1>1, <1>2, <1>3, <1>4, <1>5 DEF CoordInv

LEMMA ReconcilePageTaskStep ==
    ASSUME CoordInv, NEW r \in TestRuns, ReconcilePageTask(r) PROVE CoordInv'
<1>1. Types /\ TickInv /\ HolderInv
  BY DEF CoordInv
<1>2. run[r].lifecycle \in Lifecycle
  BY <1>1, RowTypes DEF RunRecord
<1>3. tick' \in Tick /\ tick'.at = "reconciling"
  BY <1>2 DEF ReconcilePageTask, Idle, Tick, AtRest, AgentStatus
<1>4. Quiet(outbox)
  BY <1>1, IdleTick DEF TickInv, AtRest, ReconcilePageTask
<1>5. \A s \in TestRuns : HasBrowser(s) => s = r
  BY <1>1 DEF HolderInv, ReconcilePageTask
<1> QED  BY <1>3, <1>4, <1>5, AskStep DEF ReconcilePageTask

\* One more intent, or none, and the tick is over, or goes on.
LEMMA EnqueueStep ==
    ASSUME CoordInv, Quiet(outbox), NEW id \in ItemId, NewOK(id, NoLease),
           outbox' \in {outbox, Enqueue(outbox, id, NoLease)},
           tick' \in Tick, tick'.at \in {"idle", "claiming"},
           UNCHANGED <<run, job, lk, agentLink, secrets, session, lease, agent>>
    PROVE  CoordInv'
<1>0. Types /\ outbox \in Seq(Item) /\ NoLease \in Key
  BY DEF CoordInv, Types, Key
<1>1. Box(outbox, outbox', 0, {<<id, NoLease>>}) /\ Quiet(outbox')
  <2>1. CASE outbox' = outbox
    BY <1>0, <2>1, BoxSame
  <2>2. CASE outbox' = Enqueue(outbox, id, NoLease)
    BY <1>0, <2>2, BoxEnqueued
  <2> QED  BY <2>1, <2>2
<1>2. StepRows /\ SecretsKept
  BY <1>0, NoRow DEF SecretsKept
<1>3. LinkStep
  BY <1>1, <1>2, AppendLink
<1> QED  BY <1>0, <1>1, <1>3, RestStep DEF JobStep, Types

LEMMA ReconcileAgentTaskStep ==
    ASSUME CoordInv, NEW r \in TestRuns, ReconcileAgentTask(r) PROVE CoordInv'
<1>0. /\ Types /\ run[r].page # NoTodo /\ tick.at = "reconciling" /\ Quiet(outbox)
      /\ UNCHANGED <<run, job, lk, agentLink, secrets, session, lease, agent>>
  BY DEF CoordInv, TickInv, AtRest, ReconcileAgentTask, world
<1>1. PICK a \in [status : AgentStatus, version : Nat] : a = agent[Page(r)]
  BY <1>0, PageType DEF Types
<1>2. CASE a.status \in TERMINAL_AGENT_STATES
  <2>1. tick' = [tick EXCEPT !.at = "capturing", !.seen = a.status] /\ outbox' = outbox
    BY <1>1, <1>2 DEF ReconcileAgentTask
  <2>2. tick' \in Tick /\ tick'.at = "capturing"
    BY <1>0, <1>1, <2>1 DEF Types, Tick, AtRest
  <2> QED  BY <1>0, <2>1, <2>2, AskStep DEF CoordInv, PhaseInv, db, world, ReconcileAgentTask
<1>3. CASE a.status \notin TERMINAL_AGENT_STATES
  <2>1. PICK command : command = DesiredAgentCommand(tick.lifecycle, a.status)
    OBVIOUS
  <2>2. command \in Commanding \cup {"none"}
    BY <2>1 DEF DesiredAgentCommand, Commanding
  <2>3. /\ outbox' = IF command = "none" THEN outbox
                     ELSE Enqueue(outbox, PageId(command, r, a.version), NoLease)
        /\ tick' \in {Idle, [Idle EXCEPT !.at = "claiming"]}
    BY <1>1, <1>3, <2>1 DEF ReconcileAgentTask
  <2>4. CASE command = "none"
    <3>1. outbox' = outbox
      BY <2>3, <2>4
    <3>2. PICK id \in ItemId : id.kind = "close" /\ id.run = r
      BY RunOrder DEF Kind
    <3>3. NewOK(id, NoLease)
      BY <3>2 DEF NewOK
    <3> QED  BY <1>0, <2>3, <3>1, <3>3, EnqueueStep, IdleTick
  <2>5. CASE command # "none"
    <3>1. command \in Commanding /\ command \in Kind /\ a.version \in Nat
      BY <1>1, <2>2, <2>5 DEF Commanding, Kind
    <3>2. PICK id \in ItemId : id = PageId(command, r, a.version) /\ id.kind = command
      BY <1>0, <3>1, PageOrder
    <3>3. command = "agent_resume" => AgentKnown(id)
      <4>1. command = "agent_resume" => a.status = "paused"
        BY <2>1 DEF DesiredAgentCommand
      <4>2. Page(r) \in PageTasks /\ Page(r) = <<id.run, id.todo, id.n>>
        BY <1>0, <3>2, PageType DEF PageId, Id, Page
      <4> QED  BY <1>1, <4>1, <4>2 DEF AgentKnown
    <3>4. NewOK(id, NoLease)
      BY <3>1, <3>2, <3>3 DEF NewOK, Commanding
    <3> QED  BY <1>0, <2>3, <2>5, <3>2, <3>4, EnqueueStep, IdleTick
  <2> QED  BY <2>4, <2>5
<1> QED  BY <1>2, <1>3

\* A tick that ends and leaves everything as it was.
LEMMA NothingStep ==
    ASSUME CoordInv, tick.at \in AtRest, tick' = Idle, UNCHANGED <<run, db, world>> PROVE CoordInv'
<1>0. /\ Types /\ Quiet(outbox)
      /\ UNCHANGED <<run, job, outbox, lk, agentLink, secrets, session, lease, agent>>
  BY DEF CoordInv, TickInv, db, world
<1>1. LinkStep
  BY <1>0, StillLink
<1> QED  BY <1>0, <1>1, IdleTick, RestStep DEF JobStep, Types, Quiet

LEMMA ReconcileFailsStep == ASSUME CoordInv, ReconcileFails PROVE CoordInv'
  BY NothingStep DEF ReconcileFails, AtRest

LEMMA TickEndsStep == ASSUME CoordInv, TickEnds PROVE CoordInv'
  BY NothingStep DEF TickEnds, AtRest

LEMMA SessionCreateStep ==
    ASSUME CoordInv, NEW r \in TestRuns, EnqueueSessionCreate(r) PROVE CoordInv'
<1>1. PICK id \in ItemId : id = Id("session_create", r, NoTodo, 0, 0) /\ id.kind = "session_create" /\ id.run = r
  BY RunOrder DEF Kind
<1>2. NewOK(id, NoLease)
  BY <1>1 DEF NewOK, EnqueueSessionCreate, Closing
<1> QED  BY <1>1, <1>2, RestingFacts, EnqueueStep, IdleTick DEF EnqueueSessionCreate, world

LEMMA SessionCloseStep ==
    ASSUME CoordInv, NEW r \in TestRuns, EnqueueSessionClose(r) PROVE CoordInv'
<1>1. PICK id \in ItemId : id = Id("close", r, NoTodo, 0, 0) /\ id.kind = "close" /\ id.run = r
  BY RunOrder DEF Kind
<1>2. NewOK(id, NoLease)
  BY <1>1 DEF NewOK
<1> QED  BY <1>1, <1>2, RestingFacts, EnqueueStep, IdleTick DEF EnqueueSessionClose, world

LEMMA IdOrder ==
    ASSUME NEW kind \in Kind, NEW r \in TestRuns, NEW t \in Todos \cup {NoTodo}, NEW n \in Nat,
           NEW g \in Nat
    PROVE  LET id == Id(kind, r, t, n, g)
           IN  /\ id \in ItemId /\ id.kind = kind /\ id.run = r /\ id.todo = t /\ id.n = n
               /\ id.g = g
  BY DEF Id, ItemId

LEMMA LeaseCreateStep ==
    ASSUME CoordInv, NEW r \in TestRuns, EnqueueLeaseCreate(r) PROVE CoordInv'
<1>0. PICK t \in Todos : t = ReadyTodo(r)
  BY DEF EnqueueLeaseCreate
<1>1. PICK n \in Nat : n = run[r].tries[t]
  BY RowTypes, GraphAssumption DEF CoordInv, RunRecord
<1>2. PICK id \in ItemId : id = Id("lease_create", r, t, n, 0) /\ id.kind = "lease_create" /\ id.todo = t
  BY IdOrder DEF Kind
<1>3. NewOK(id, NoLease)
  BY <1>2 DEF NewOK, Closing
<1> QED  BY <1>0, <1>1, <1>2, <1>3, RestingFacts, EnqueueStep, IdleTick DEF EnqueueLeaseCreate, world

LEMMA LeaseCreateRefusedStep ==
    ASSUME CoordInv, NEW r \in TestRuns, RefuseLeaseCreate(r) PROVE CoordInv'
<1>0. /\ Types /\ outbox \in Seq(Item) /\ run \in [TestRuns -> RunRecord] /\ Quiet(outbox)
      /\ UNCHANGED <<job, outbox, lk, agentLink, secrets, session, lease, agent>> /\ tick' = Idle
  BY RestingFacts DEF CoordInv, Types, RefuseLeaseCreate, db, world
<1>1. PICK c : c = AssertRunPolicyCurrent(run[r])
  OBVIOUS
<1>2. RowStep(run[r], c) /\ c.page = run[r].page /\ run' = [run EXCEPT ![r] = c]
  BY <1>0, <1>1, AssertStep, RowTypes DEF RefuseLeaseCreate
<1>3. StepRows /\ \A s \in TestRuns : run'[s].page = run[s].page
  BY <1>0, <1>2, OneRow
<1>4. Box(outbox, outbox', 0, {}) /\ SecretsKept
  BY <1>0, BoxSame DEF SecretsKept
<1>5. LinkStep
  BY <1>0, <1>3, <1>4, AppendLink
<1> QED  BY <1>0, <1>5, IdleTick, RestStep DEF JobStep, Types

LEMMA ClaimStep ==
    ASSUME CoordInv, NEW r \in TestRuns, NEW complete \in BOOLEAN, ClaimBrowserJob(r, complete)
    PROVE  CoordInv'
<1>0. /\ Types /\ HolderInv /\ outbox \in Seq(Item) /\ job \in [TestRuns -> JobState] /\ Quiet(outbox)
      /\ NoLease \in Key
      /\ UNCHANGED <<run, lk, agentLink, secrets, session, lease, agent>>
  BY RestingFacts DEF CoordInv, Types, Key, ClaimBrowserJob, world
<1>1. /\ job[r] = "queued" /\ job' = [job EXCEPT ![r] = "acquiring"] /\ \A s \in TestRuns : ~HasBrowser(s)
      /\ Ends(complete, IF complete THEN Enqueue(outbox, Id("session_create", r, NoTodo, 0, 0), NoLease)
                        ELSE outbox)
  BY DEF ClaimBrowserJob
<1>2. job' \in [TestRuns -> JobState] /\ job'[r] = "acquiring" /\ \A s \in TestRuns \ {r} : job'[s] = job[s]
  BY <1>0, <1>1 DEF JobState
<1>3. PICK id \in ItemId : id = Id("session_create", r, NoTodo, 0, 0) /\ id.kind = "session_create" /\ id.run = r
  BY RunOrder DEF Kind
<1>4. NewOK(id, NoLease)
  BY <1>2, <1>3 DEF NewOK, Closing
<1>5. PICK p \in Seq(Item) : Box(outbox, p, 0, {<<id, NoLease>>}) /\ Quiet(p) /\ Ends(complete, p)
  <2>1. CASE complete
    <3>1. PICK p : p = Enqueue(outbox, id, NoLease)
      OBVIOUS
    <3>2. Box(outbox, p, 0, {<<id, NoLease>>}) /\ Quiet(p) /\ p \in Seq(Item)
      BY <1>0, <3>1, BoxEnqueued
    <3>3. Ends(complete, p)
      BY <1>1, <1>3, <2>1, <3>1
    <3> QED  BY <3>2, <3>3
  <2>2. CASE ~complete
    <3>1. Ends(complete, outbox)
      BY <1>1, <2>2
    <3>2. Box(outbox, outbox, 0, {<<id, NoLease>>})
      BY <1>0, BoxSame
    <3> QED  BY <1>0, <3>1, <3>2
  <2> QED  BY <2>1, <2>2
<1>6. tick' = Idle /\ Box(outbox, outbox', 0, {<<id, NoLease>>}) /\ Quiet(outbox')
  BY <1>0, <1>5, EndsBox
<1>7. StepRows /\ SecretsKept
  BY <1>0, NoRow DEF SecretsKept
<1>8. LinkStep
  BY <1>0, <1>4, <1>6, <1>7, AppendLink
<1>9. Types'
  BY <1>0, <1>2, <1>6, <1>8, IdleTick DEF Types, LinkStep, Continues
<1>10. TickInv'
  BY <1>6, IdleTick DEF TickInv, AtRest, Working
<1>11. PhaseInv'
  BY <1>6, IdleTick DEF PhaseInv, WorksOn, Working
<1>12. HolderInv'
  <2>1. ASSUME NEW i \in DOMAIN outbox', outbox'[i].id.kind = "session_create"
        PROVE  job'[outbox'[i].id.run] # "queued"
    <3>1. CASE i \in DOMAIN outbox
      <4>1. outbox'[i].id = outbox[i].id /\ outbox[i].id.run \in TestRuns
        BY <1>0, <1>8, <3>1, ItemTypes DEF LinkStep, Continues
      <4> QED  BY <1>0, <1>2, <2>1, <3>1, <4>1 DEF HolderInv
    <3>2. CASE i \notin DOMAIN outbox
      BY <1>8, <2>1, <3>2 DEF LinkStep, NewItems, NewOK
    <3> QED  BY <3>1, <3>2
  <2>2. \A s \in TestRuns : HasBrowser(s)' => s = r
    BY <1>1, <1>2 DEF HasBrowser
  <2>3. BrowserHasHolder'
    BY <1>0, <1>2 DEF HolderInv, BrowserHasHolder, HasBrowser
  <2>4. tick'.at # "answered"
    BY <1>6, IdleTick
  <2> QED  BY <1>0, <1>2, <2>1, <2>2, <2>3, <2>4 DEF HolderInv
<1>13. Links'
  BY <1>0, <1>8, <1>9, LinksStep DEF CoordInv
<1> QED  BY <1>9, <1>10, <1>11, <1>12, <1>13 DEF CoordInv

-----------------------------------------------------------------------------
(***************************************************************************)
(* The dispatch of an item.                                                *)
(***************************************************************************)

\* A TODO is ready only while no page task is active.
LEMMA ReadyFacts ==
    ASSUME NEW r \in TestRuns, ReadyTodo(r) \in Todos PROVE run[r].page = NoTodo
  BY GraphAssumption DEF ReadyTodo

\* The order of an agent names a page task.
LEMMA OrderPage ==
    ASSUME CoordInv, NEW i \in DOMAIN outbox, outbox[i].id.kind = "agent_create"
    PROVE  /\ <<outbox[i].id.run, outbox[i].id.todo, outbox[i].id.n>> \in PageTasks
           /\ OrderInv(i)
<1>1. Types /\ OrderInv(i)
  BY DEF CoordInv, Links, OrdersOK
<1>2. outbox[i].id.run \in TestRuns /\ outbox[i].id.n \in Nat /\ run[outbox[i].id.run] \in RunRecord
  BY <1>1, ItemTypes, RowTypes
<1>3. /\ outbox[i].id.todo \in Todos /\ 0 < outbox[i].id.n
      /\ outbox[i].id.n <= run[outbox[i].id.run].tries[outbox[i].id.todo]
  BY <1>1 DEF OrderInv
<1>4. run[outbox[i].id.run].tries[outbox[i].id.todo] \in 0 .. MaxTries
  BY <1>2, <1>3 DEF RunRecord
<1>5. outbox[i].id.n \in 1 .. MaxTries
  BY <1>2, <1>3, <1>4, GraphAssumption
<1> QED  BY <1>1, <1>2, <1>3, <1>5 DEF PageTasks

LEMMA DispatchStep == ASSUME CoordInv, NEW i, Dispatch(i) PROVE CoordInv'
<1>d. /\ i \in DOMAIN outbox /\ Quiet(outbox) /\ outbox[i].status \in Open
      /\ \A k \in DOMAIN outbox : k < i => outbox[k].status # "pending"
  BY DueFacts DEF Dispatch, Open
<1>0. /\ Types /\ HolderInv /\ Links /\ outbox \in Seq(Item) /\ outbox[i].id.run \in TestRuns /\ i \in Nat
      /\ UNCHANGED <<run, job, lk, agentLink, secrets, session, lease, agent>>
  BY <1>d, ItemTypes DEF CoordInv, Types, Dispatch, world
<1>1. tick' = [Idle EXCEPT !.at = "calling", !.item = i] /\ outbox' = Settled(outbox, i, "dispatching")
      /\ Authorised(outbox[i].id)
  BY DEF Dispatch
<1>2. tick' \in Tick /\ tick'.at = "calling" /\ tick'.item = i
  BY <1>0, <1>1 DEF Tick, Idle, Working, AgentStatus
<1>3. "dispatching" \in ItemStatus
  BY DEF ItemStatus
<1>4. /\ Box(outbox, outbox', i, {}) /\ outbox' \in Seq(Item) /\ DOMAIN outbox' = DOMAIN outbox
      /\ outbox'[i].status = "dispatching" /\ \A j \in DOMAIN outbox \ {i} : outbox'[j] = outbox[j]
  BY <1>0, <1>d, <1>1, <1>3, BoxSettled
<1>5. outbox'[i].id = outbox[i].id
  BY <1>d, <1>4 DEF Box, Continues
<1>6. outbox[i].id.kind = "lease_create" => run[outbox[i].id.run].page = NoTodo
  BY <1>0, <1>d, ReadyFacts DEF Dispatch, Links, LeasesNamed
<1>7. StepRows /\ SecretsKept
  BY <1>0, NoRow DEF SecretsKept
<1>8. LinkStep
  <2>1. /\ \A k \in DOMAIN outbox : k < i => outbox[k].status # "pending"
        /\ outbox[i].id.kind \in {"lease_create", "agent_create"} =>
             outbox[i].id.kind = "agent_create" \/ run[outbox[i].id.run].page = NoTodo
    BY <1>d, <1>6
  <2> QED  BY <1>0, <1>d, <1>4, <1>7, <2>1, BoxLink DEF SecretsKept
<1>9. Types'
  BY <1>0, <1>2, <1>4 DEF Types
<1>10. TickInv'
  BY <1>d, <1>2, <1>4 DEF TickInv, AtRest, Working, Quiet, Item0
<1>11. HolderInv'
  <2>1. \A j \in DOMAIN outbox' : j \in DOMAIN outbox /\ outbox'[j].id = outbox[j].id
    BY <1>d, <1>4, <1>5
  <2>2. BrowserHasHolder'
    BY <1>0 DEF HolderInv, BrowserHasHolder, HasBrowser
  <2> QED  BY <1>0, <1>2, <2>1, <2>2 DEF HolderInv, HasBrowser
<1>12. PhaseInv'
  <2>1. Item0'.id = outbox[i].id
    BY <1>2, <1>5 DEF Item0
  <2>2. outbox[i].id.kind = "agent_create" =>
           ~run[outbox[i].id.run].stale /\ run[outbox[i].id.run].lifecycle \notin Sealed
    BY <1>1 DEF Authorised, ExecutionAllowed, PolicyCurrent
  <2> QED  BY <1>0, <1>2, <1>6, <2>1, <2>2 DEF PhaseInv, WorksOn
<1>13. Links'
  BY <1>0, <1>8, <1>9, LinksStep
<1> QED  BY <1>9, <1>10, <1>11, <1>12, <1>13 DEF CoordInv

\* The items as they were, but for what ai-chat has carried out.
SameItems ==
    /\ outbox' \in Seq(Item) /\ DOMAIN outbox' = DOMAIN outbox
    /\ \A j \in DOMAIN outbox : /\ outbox'[j].id = outbox[j].id /\ outbox'[j].lease = outbox[j].lease
                                /\ outbox'[j].status = outbox[j].status

\* A tick goes on with its item: a call has its effect, or a phase begins.
LEMMA GoOnStep ==
    ASSUME CoordInv, tick.at \in {"calling", "answered", "cleanup", "discarding"},
           tick' \in Tick, tick'.item = tick.item,
           tick'.at \in {"calling", "answered", "cleanup", "discarding"},
           UNCHANGED <<run, job, lk, agentLink>>, secrets \subseteq secrets', SameItems,
           session' \in [TestRuns -> {"none", "active", "closed"}],
           \A r \in TestRuns : job[r] \in {"releasing", "completed"} => session'[r] = "closed",
           \A r \in TestRuns : job[r] = "queued" => session'[r] # "active",
           lease' \in Key, BrowserHasHolder',
           agent' \in [PageTasks -> [status : AgentStatus, version : Nat]],
           \A p \in PageTasks : agent[p].status # "none" => agent'[p].status # "none",
           tick'.at = "discarding" => Item0.id.kind = "lease_create",
           tick'.at \in {"calling", "cleanup"} => Item0.id.kind \in Closing,
           tick'.at = "answered" /\ Item0.id.kind \in Closing => session'[Item0.id.run] = "closed",
           tick'.at = "answered" /\ Item0.id.kind = "lease_create" =>
              ExecutionAllowed(run[Item0.id.run]) \/ run[Item0.id.run].lifecycle \in Sealed,
           tick'.at = "answered" /\ Item0.id.kind = "agent_create" =>
              agent'[<<Item0.id.run, Item0.id.todo, Item0.id.n>>].status # "none"
    PROVE  CoordInv'
<1>0. Types /\ HolderInv /\ PhaseInv /\ Links
  BY DEF CoordInv
<1>w. /\ tick.item \in DOMAIN outbox /\ Item0.status = "dispatching" /\ Item0.id.run \in TestRuns
      /\ \A j \in DOMAIN outbox \ {tick.item} : outbox[j].status # "dispatching"
  BY <1>0, CallFacts, ItemTypes DEF Item0
<1>1. Item0'.id = Item0.id /\ Item0'.status = "dispatching"
  BY <1>w DEF Item0, SameItems
<1>2. Types'
  BY <1>0 DEF Types, SameItems
<1>3. TickInv'
  BY <1>w, <1>1 DEF TickInv, AtRest, SameItems
<1>4. HolderInv'
  <2>1. \A j \in DOMAIN outbox' : j \in DOMAIN outbox /\ outbox'[j].id = outbox[j].id
    BY DEF SameItems
  <2> QED  BY <1>0, <1>1, <2>1 DEF HolderInv, HasBrowser
<1>5. PhaseInv'
  <2>1. Item0.id.kind = "lease_create" => run[Item0.id.run].page = NoTodo
    BY <1>0 DEF PhaseInv, WorksOn, Working
  <2>2. tick'.at = "calling" => Item0.id.kind # "agent_create"
    BY DEF Closing
  <2> QED  BY <1>1, <2>1, <2>2 DEF PhaseInv, WorksOn, ExecutionAllowed, HasOpenDecision, PolicyCurrent
<1>6. LinkStep
  <2>1. StepRows
    BY <1>0, NoRow
  <2>2. Continues(outbox, outbox') /\ InTurn /\ NewItems
    BY DEF SameItems, Continues, InTurn, NewItems
  <2> QED  BY <1>0, <2>1, <2>2 DEF LinkStep
<1>7. Links'
  BY <1>0, <1>2, <1>6, LinksStep
<1> QED  BY <1>2, <1>3, <1>4, <1>5, <1>7 DEF CoordInv

LEMMA SameItemsSame == ASSUME CoordInv, outbox' = outbox PROVE SameItems
  BY DEF CoordInv, Types, SameItems

LEMMA AnswersTick ==
    ASSUME CoordInv, NEW s \in {"fresh", "replay"}, Answers(s)
    PROVE  tick' \in Tick /\ tick'.at = "answered" /\ tick'.item = tick.item /\ tick'.seen = s
  BY DEF CoordInv, Types, Tick, Answers, Working

-----------------------------------------------------------------------------
(***************************************************************************)
(* Calls to the browser service and to the agents, and the cleanup of a lease. *)
(***************************************************************************)

LEMMA SessionOpensStep == ASSUME CoordInv, SessionOpens PROVE CoordInv'
<1>0. Types /\ HolderInv /\ UNCHANGED <<run, job, outbox, lk, agentLink, secrets, lease, agent>>
  BY DEF CoordInv, SessionOpens, db
<1>1. tick.at = "calling" /\ Item0.id.kind = "session_create" /\ tick.item \in DOMAIN outbox
      /\ Item0.id.run \in TestRuns
  BY <1>0, CallFacts, ItemTypes DEF SessionOpens, Calling, Item0
<1>2. tick' \in Tick /\ tick'.at = "answered" /\ tick'.item = tick.item
  BY AnswersTick DEF SessionOpens
<1>3. PICK r \in TestRuns : r = Item0.id.run
  BY <1>1
<1>4. job[r] # "queued"
  BY <1>0, <1>1, <1>3 DEF HolderInv, Item0
<1>5. session' = [session EXCEPT ![r] = IF session[r] = "none" THEN "active" ELSE session[r]]
  BY <1>3 DEF SessionOpens, Item0
<1>6. /\ session' \in [TestRuns -> {"none", "active", "closed"}]
      /\ session'[r] = IF session[r] = "none" THEN "active" ELSE session[r]
      /\ \A s \in TestRuns \ {r} : session'[s] = session[s]
  BY <1>0, <1>5 DEF Types
<1>7. /\ \A s \in TestRuns : job[s] \in {"releasing", "completed"} => session'[s] = "closed"
      /\ \A s \in TestRuns : job[s] = "queued" => session'[s] # "active"
  BY <1>0, <1>4, <1>6 DEF HolderInv
<1>8. BrowserHasHolder'
  <2>1. \A s \in TestRuns : job[s] \in JobState
    BY <1>0 DEF Types
  <2>2. \A s \in TestRuns : session'[s] = "active" => HasBrowser(s) \/ job[s] = "failed"
    BY <1>7, <2>1 DEF HasBrowser, JobState
  <2>3. lease # NoLease => session'[lease.run] = "active"
    <3>1. lease # NoLease => lease.run \in TestRuns
      BY <1>0 DEF Types, Key, ItemId
    <3> QED  BY <1>0, <1>6, <3>1 DEF HolderInv, BrowserHasHolder
  <2> QED  BY <1>0, <2>2, <2>3 DEF BrowserHasHolder, HasBrowser
<1> QED  BY <1>0, <1>1, <1>2, <1>6, <1>7, <1>8, SameItemsSame, GoOnStep DEF Types, Closing

LEMMA LeaseIssuedStep == ASSUME CoordInv, LeaseIssued PROVE CoordInv'
<1>0. Types /\ HolderInv /\ UNCHANGED <<run, job, outbox, lk, agentLink, secrets, session, agent>>
  BY DEF CoordInv, LeaseIssued, db
<1>1. tick.at = "calling" /\ Item0.id.kind = "lease_create" /\ tick.item \in DOMAIN outbox
      /\ Item0.id \in ItemId
  BY <1>0, CallFacts, ItemTypes DEF LeaseIssued, Calling, Item0
<1>2. tick' \in Tick /\ tick'.at = "answered" /\ tick'.item = tick.item
  BY AnswersTick DEF LeaseIssued
<1>3. lease' \in Key /\ (lease' = lease \/ (lease' = Item0.id /\ session[Item0.id.run] = "active"))
  BY <1>0, <1>1 DEF LeaseIssued, Types, Key, Item0
<1>4. BrowserHasHolder'
  BY <1>0, <1>3 DEF HolderInv, BrowserHasHolder, HasBrowser
<1>5. ExecutionAllowed(run[Item0.id.run])
  BY <1>1 DEF LeaseIssued, Authorised, Item0
<1> QED  BY <1>0, <1>1, <1>2, <1>3, <1>4, <1>5, SameItemsSame, GoOnStep DEF Types, HolderInv, Closing

LEMMA AgentCreatedStep == ASSUME CoordInv, AgentCreated PROVE CoordInv'
<1>0. Types /\ HolderInv /\ UNCHANGED <<run, job, outbox, lk, agentLink, secrets, session, lease>>
  BY DEF CoordInv, AgentCreated, db
<1>1. tick.at = "calling" /\ Item0.id.kind = "agent_create" /\ tick.item \in DOMAIN outbox
  BY CallFacts DEF AgentCreated, Calling, Item0
<1>2. tick' \in Tick /\ tick'.at = "answered" /\ tick'.item = tick.item
  BY AnswersTick DEF AgentCreated
<1>3. PICK p \in PageTasks : p = <<Item0.id.run, Item0.id.todo, Item0.id.n>>
  BY <1>1, OrderPage DEF Item0
<1>4. PICK a \in [status : AgentStatus, version : Nat] :
         a.status # "none" /\ agent' = [agent EXCEPT ![p] = a]
  <2>1. agent[p] \in [status : AgentStatus, version : Nat]
    BY <1>0 DEF Types
  <2>2. [status |-> "running", version |-> 1] \in [status : AgentStatus, version : Nat]
    BY DEF AgentStatus
  <2>3. agent' = [agent EXCEPT ![p] = IF agent[p].status # "none" THEN agent[p]
                                      ELSE [status |-> "running", version |-> 1]]
    BY <1>3 DEF AgentCreated, Item0
  <2>4. CASE agent[p].status # "none"
    BY <2>1, <2>3, <2>4
  <2>5. CASE agent[p].status = "none"
    BY <2>2, <2>3, <2>5
  <2> QED  BY <2>4, <2>5
<1>5. /\ agent' \in [PageTasks -> [status : AgentStatus, version : Nat]] /\ agent'[p].status # "none"
      /\ \A x \in PageTasks : agent[x].status # "none" => agent'[x].status # "none"
  BY <1>0, <1>4 DEF Types
<1>6. BrowserHasHolder'
  BY <1>0 DEF HolderInv, BrowserHasHolder, HasBrowser
<1> QED  BY <1>0, <1>1, <1>2, <1>3, <1>5, <1>6, SameItemsSame, GoOnStep DEF Types, HolderInv, Closing

LEMMA AgentCommandedStep == ASSUME CoordInv, AgentCommanded PROVE CoordInv'
<1>0. Types /\ HolderInv /\ UNCHANGED <<lk, agentLink, secrets, session, lease>>
  BY DEF CoordInv, AgentCommanded
<1>1. /\ tick.at = "calling" /\ Item0.id.kind \in Commanding /\ tick.item \in DOMAIN outbox
      /\ Item0 \in Item
  BY <1>0, CallFacts, ItemTypes DEF AgentCommanded, Calling, Item0
<1> DEFINE p == <<Item0.id.run, Item0.id.todo, Item0.id.n>>
           to == CASE Item0.id.kind = "agent_pause" -> "paused" [] Item0.id.kind = "agent_resume" -> "running"
                   [] Item0.id.kind = "agent_cancel" -> "cancelled"
           done == Item0.done \/ agent[p].version = Item0.id.g
<1>2. CASE ~done
  <2>1. FailTerminal(tick.item) /\ agent' = agent
    BY <1>2 DEF AgentCommanded, Item0
  <2> QED  BY <1>0, <1>1, <2>1, CallFacts, FailStep DEF SecretsKept, Item0
<1>3. CASE done
  <2>1. /\ Answers("fresh") /\ UNCHANGED <<run, job>>
        /\ outbox' = [outbox EXCEPT ![tick.item].done = TRUE]
        /\ agent' = IF Item0.done THEN agent
                    ELSE [agent EXCEPT ![p] = [status |-> to, version |-> agent[p].version + 1]]
    BY <1>3 DEF AgentCommanded, Item0
  <2>2. tick' \in Tick /\ tick'.at = "answered" /\ tick'.item = tick.item
    BY <2>1, AnswersTick
  <2>3. SameItems
    <3> DEFINE x == [Item0 EXCEPT !.done = TRUE]
    <3>1. x \in Item /\ x.id = Item0.id /\ x.lease = Item0.lease /\ x.status = Item0.status
      BY <1>1 DEF Item
    <3>2. outbox' = [outbox EXCEPT ![tick.item] = x]
      BY <2>1 DEF Item0
    <3> HIDE DEF x
    <3>3. outbox \in Seq(Item)
      BY <1>0 DEF Types
    <3>4. outbox' \in Seq(Item) /\ DOMAIN outbox' = DOMAIN outbox
      BY <1>1, <3>1, <3>2, <3>3
    <3>5. outbox'[tick.item] = x /\ \A j \in DOMAIN outbox \ {tick.item} : outbox'[j] = outbox[j]
      BY <1>1, <3>2, <3>3
    <3> QED  BY <3>1, <3>4, <3>5 DEF SameItems, Item0
  <2>4. to \in AgentStatus /\ to # "none"
    BY <1>1 DEF AgentStatus, TERMINAL_AGENT_STATES, Commanding
  <2>5. /\ agent' \in [PageTasks -> [status : AgentStatus, version : Nat]]
        /\ \A x \in PageTasks : agent[x].status # "none" => agent'[x].status # "none"
    <3> HIDE DEF p, to
    <3>1. CASE p \in PageTasks /\ ~Item0.done
      <4>1. agent[p].version + 1 \in Nat
        BY <1>0, <3>1 DEF Types
      <4>2. [status |-> to, version |-> agent[p].version + 1] \in [status : AgentStatus, version : Nat]
        BY <2>4, <4>1
      <4> QED  BY <1>0, <2>1, <2>4, <3>1, <4>2 DEF Types
    <3>2. CASE p \notin PageTasks \/ Item0.done
      <4>1. agent' = agent
        BY <1>0, <2>1, <3>2 DEF Types
      <4> QED  BY <1>0, <4>1 DEF Types
    <3> QED  BY <3>1, <3>2
  <2>6. BrowserHasHolder'
    BY <1>0, <2>1 DEF HolderInv, BrowserHasHolder, HasBrowser
  <2> HIDE DEF p, to, done
  <2> QED  BY <1>0, <1>1, <2>1, <2>2, <2>3, <2>5, <2>6, GoOnStep DEF Types, HolderInv, Closing, Commanding
<1> QED  BY <1>2, <1>3

LEMMA LeaseRevokedStep == ASSUME CoordInv, LeaseRevoked PROVE CoordInv'
<1>0. Types /\ HolderInv /\ UNCHANGED <<lk, agentLink, secrets, session, agent>>
  BY DEF CoordInv, LeaseRevoked
<1>1. tick.at = "calling" /\ Item0.id.kind \in {"revoke", "policy_revoke"} /\ tick.item \in DOMAIN outbox
  BY CallFacts DEF LeaseRevoked, Calling, Item0
<1>2. CASE FailRetryable(tick.item) /\ lease' = lease
  BY <1>0, <1>1, <1>2, CallFacts, FailStep DEF SecretsKept, Item0
<1>3. CASE lease' \in {lease, NoLease} /\ Answers("fresh") /\ UNCHANGED <<run, job, outbox>>
  <2>1. tick' \in Tick /\ tick'.at = "answered" /\ tick'.item = tick.item
    BY <1>3, AnswersTick
  <2>2. BrowserHasHolder'
    BY <1>0, <1>3 DEF HolderInv, BrowserHasHolder, HasBrowser
  <2>3. lease' \in Key
    BY <1>0, <1>3 DEF Types, Key
  <2> QED  BY <1>0, <1>1, <1>3, <2>1, <2>2, <2>3, SameItemsSame, GoOnStep DEF Types, HolderInv, Closing
<1> QED  BY <1>2, <1>3 DEF LeaseRevoked

LEMMA SessionClosesStep == ASSUME CoordInv, SessionCloses PROVE CoordInv'
<1>0. Types /\ HolderInv /\ UNCHANGED <<run, job, outbox, lk, agentLink, secrets, agent>>
  BY DEF CoordInv, SessionCloses, db
<1>1. tick.at = "calling" /\ Item0.id.kind \in Closing /\ tick.item \in DOMAIN outbox
      /\ Item0.id.run \in TestRuns
  BY <1>0, CallFacts, ItemTypes DEF SessionCloses, Calling, Item0
<1>2. tick' \in Tick /\ tick'.at = "answered" /\ tick'.item = tick.item
  BY AnswersTick DEF SessionCloses
<1>3. PICK r \in TestRuns : r = Item0.id.run
  BY <1>1
<1>4. session' = [session EXCEPT ![r] = "closed"]
      /\ lease' = IF session[r] = "active" THEN NoLease ELSE lease
  BY <1>3 DEF SessionCloses, Item0
<1>5. /\ session' \in [TestRuns -> {"none", "active", "closed"}] /\ session'[r] = "closed"
      /\ \A s \in TestRuns \ {r} : session'[s] = session[s]
  BY <1>0, <1>4 DEF Types
<1>6. lease' \in Key /\ BrowserHasHolder'
  <2>1. lease # NoLease => lease.run \in TestRuns
    BY <1>0 DEF Types, Key, ItemId
  <2> QED  BY <1>0, <1>4, <1>5, <2>1 DEF Types, Key, HolderInv, BrowserHasHolder, HasBrowser
<1> QED  BY <1>0, <1>1, <1>2, <1>3, <1>5, <1>6, SameItemsSame, GoOnStep DEF Types, HolderInv, Closing

LEMMA CleanupAnsweredStep == ASSUME CoordInv, CleanupAnswered PROVE CoordInv'
<1>0. /\ Types /\ HolderInv /\ secrets \subseteq secrets'
      /\ UNCHANGED <<run, job, outbox, lk, agentLink, session, lease, agent>>
  BY DEF CoordInv, CleanupAnswered, world
<1>1. tick.at = "cleanup" /\ Item0.id.kind \in Closing
  BY DEF CleanupAnswered, CoordInv, TickInv
<1>2. tick' \in Tick /\ tick'.at = "calling" /\ tick'.item = tick.item
  BY <1>0 DEF CleanupAnswered, Types, Tick, Working
<1>3. BrowserHasHolder'
  BY <1>0 DEF HolderInv, BrowserHasHolder, HasBrowser
<1> QED  BY <1>0, <1>1, <1>2, <1>3, SameItemsSame, GoOnStep DEF Types, HolderInv, Closing

LEMMA LeaseUnusedStep == ASSUME CoordInv, LeaseUnused PROVE CoordInv'
<1>0. /\ Types /\ HolderInv /\ secrets \subseteq secrets'
      /\ UNCHANGED <<run, job, outbox, lk, agentLink, session, lease, agent>>
  BY DEF CoordInv, LeaseUnused, world
<1>1. tick.at = "answered" /\ Item0.id.kind = "lease_create"
  BY DEF LeaseUnused, LeaseToken, Answered, Item0
<1>2. tick' \in Tick /\ tick'.at = "discarding" /\ tick'.item = tick.item
  BY <1>0 DEF LeaseUnused, Types, Tick, Working
<1>3. BrowserHasHolder'
  BY <1>0 DEF HolderInv, BrowserHasHolder, HasBrowser
<1> QED  BY <1>0, <1>1, <1>2, <1>3, SameItemsSame, GoOnStep DEF Types, HolderInv

\* An intent that is repeated under another key.
LEMMA ReplaceStep ==
    ASSUME CoordInv, NEW i \in DOMAIN outbox, outbox[i].status = "dispatching",
           \A j \in DOMAIN outbox \ {i} : outbox[j].status # "dispatching",
           NEW id \in ItemId, NEW key \in Key, NewOK(id, key), tick' = Idle,
           outbox' = Settled(Enqueue(outbox, id, key), i, "confirmed"),
           UNCHANGED <<run, job, lk, agentLink, secrets, session, lease, agent>>
    PROVE  CoordInv'
<1>0. Types /\ outbox \in Seq(Item) /\ "confirmed" \in ItemStatus
  BY DEF CoordInv, Types, ItemStatus
<1> DEFINE N == {<<id, key>>}
<1>1. PICK q : q = Enqueue(outbox, id, key)
  OBVIOUS
<1>n. <<id, key>> \in N /\ \A x \in N : NewOK(x[1], x[2])
  OBVIOUS
<1> HIDE DEF N
<1>2. /\ Box(outbox, q, i, N) /\ q \in Seq(Item) /\ DOMAIN outbox \subseteq DOMAIN q
      /\ \A j \in DOMAIN outbox : q[j] = outbox[j]
  <2>1. /\ Box(outbox, q, i, N) /\ q \in Seq(Item)
        /\ \A j \in DOMAIN outbox : j \in DOMAIN q /\ q[j] = outbox[j]
    BY <1>0, <1>1, <1>n, BoxEnqueued
  <2> QED  BY <2>1
<1>3. /\ Box(q, outbox', i, N) /\ DOMAIN outbox' = DOMAIN q /\ outbox'[i].status = "confirmed"
      /\ \A j \in DOMAIN q \ {i} : outbox'[j] = q[j]
  BY <1>0, <1>1, <1>2, BoxSettled DEF Open
<1>4. Box(outbox, outbox', i, N)
  BY <1>0, <1>2, <1>3, BoxThen
<1>5. Quiet(outbox')
  BY <1>2, <1>3 DEF Quiet, Box
<1>6. StepRows /\ SecretsKept
  BY <1>0, NoRow DEF SecretsKept
<1>7. LinkStep
  BY <1>0, <1>n, <1>4, <1>6, BoxLink DEF SecretsKept
<1> QED  BY <1>0, <1>5, <1>7, IdleTick, RestStep DEF JobStep, Types

LEMMA CleanupLeaseStep == ASSUME CoordInv, CleanupLease PROVE CoordInv'
<1>0. /\ Types /\ HolderInv /\ Links
      /\ UNCHANGED <<run, job, lk, agentLink, secrets, session, agent>>
  BY DEF CoordInv, CleanupLease
<1>1. /\ tick.at = "calling" /\ Item0.id.kind \in Closing /\ tick.item \in DOMAIN outbox
      /\ Item0.id \in ItemId /\ Item0.lease \in Key
  BY <1>0, CallFacts, ItemTypes DEF CleanupLease, Calling, Item0
<1>2. CASE Item0.id \in issued
  <2>1. PICK id : id = [Item0.id EXCEPT !.g = @ + 1]
    OBVIOUS
  <2>2. id \in ItemId /\ id.kind = Item0.id.kind /\ id.run = Item0.id.run
    BY <1>1, <2>1 DEF ItemId
  <2>3. NewOK(id, Item0.lease)
    <3>1. RevokeOK(Item0.id, Item0.lease)
      BY <1>0, <1>1 DEF Links, RevokesOK, Item0
    <3> QED  BY <1>0, <1>1, <2>2, <3>1 DEF RevokeOK, GivenBack, NewOK, Closing
  <2>4. /\ outbox' = Settled(Enqueue(outbox, id, Item0.lease), tick.item, "confirmed")
        /\ tick' = Idle /\ lease' = lease
    BY <1>2, <2>1 DEF CleanupLease, Item0
  <2> QED  BY <1>0, <1>1, <2>2, <2>3, <2>4, CallFacts, ReplaceStep DEF Item0
<1>3. CASE Item0.id \notin issued
  <2>1. lease' = Item0.id /\ tick' = [tick EXCEPT !.at = "cleanup"] /\ outbox' = outbox
        /\ session[Item0.id.run] = "active"
    BY <1>3 DEF CleanupLease, Item0
  <2>2. tick' \in Tick /\ tick'.at = "cleanup" /\ tick'.item = tick.item
    BY <1>0, <2>1 DEF Types, Tick, Working
  <2>3. BrowserHasHolder' /\ lease' \in Key
    BY <1>0, <1>1, <2>1 DEF HolderInv, BrowserHasHolder, HasBrowser, Key
  <2> QED  BY <1>0, <1>1, <2>1, <2>2, <2>3, SameItemsSame, GoOnStep DEF Types, HolderInv, Closing
<1> QED  BY <1>2, <1>3

LEMMA LeaseTokenLostStep == ASSUME CoordInv, LeaseTokenLost PROVE CoordInv'
<1>0. Types /\ Links /\ UNCHANGED <<lk, agentLink, secrets, session, lease, agent>>
  BY DEF CoordInv, LeaseTokenLost, world
<1>1. /\ tick.at = "answered" /\ Item0.id.kind = "lease_create" /\ tick.item \in DOMAIN outbox
      /\ Item0.id \in ItemId /\ Item0.id.todo \in Todos
  BY <1>0, CallFacts, ItemTypes DEF LeaseTokenLost, Answered, Item0, Links, LeasesNamed
<1>2. CASE lease = Item0.id
  <2>1. FailRetryable(tick.item)
    BY <1>2 DEF LeaseTokenLost, Item0
  <2> QED  BY <1>0, <1>1, <2>1, CallFacts, FailStep DEF SecretsKept, Item0
<1>3. CASE lease # Item0.id
  <2>1. PICK id : id = [Item0.id EXCEPT !.g = @ + 1]
    OBVIOUS
  <2>2. id \in ItemId /\ id.kind = "lease_create" /\ id.todo \in Todos /\ NoLease \in Key
    BY <1>1, <2>1 DEF ItemId, Key
  <2>3. NewOK(id, NoLease)
    BY <2>2 DEF NewOK, Closing
  <2>4. /\ outbox' = Settled(Enqueue(outbox, id, NoLease), tick.item, "confirmed")
        /\ tick' = Idle /\ UNCHANGED <<run, job>>
    BY <1>3, <2>1 DEF LeaseTokenLost, Item0
  <2> QED  BY <1>0, <1>1, <2>2, <2>3, <2>4, CallFacts, ReplaceStep DEF Item0
<1> QED  BY <1>2, <1>3

-----------------------------------------------------------------------------
(***************************************************************************)
(* Answers that are written, and crashes.                                  *)
(***************************************************************************)

\* The first items of an answer are written, all of them or some.
LEMMA ConfirmBox ==
    ASSUME CoordInv, NEW i \in DOMAIN outbox, outbox[i].status = "dispatching",
           \A j \in DOMAIN outbox \ {i} : outbox[j].status # "dispatching",
           NEW complete \in BOOLEAN,
           Ends(complete, IF complete THEN Settled(outbox, i, "confirmed") ELSE outbox)
    PROVE  tick' = Idle /\ Box(outbox, outbox', i, {}) /\ Quiet(outbox')
<1>0. Types /\ outbox \in Seq(Item) /\ outbox[i].status \in Open
  BY DEF CoordInv, Types, Open
<1>1. PICK p \in Seq(Item) : Box(outbox, p, i, {}) /\ (complete => Quiet(p)) /\ Ends(complete, p)
  <2>1. CASE complete
    <3>1. PICK p : p = Settled(outbox, i, "confirmed")
      OBVIOUS
    <3>2. p \in Seq(Item) /\ Box(outbox, p, i, {}) /\ Quiet(p)
      BY <1>0, <3>1, SettleFirst
    <3> QED  BY <2>1, <3>1, <3>2
  <2>2. CASE ~complete
    <3>1. Box(outbox, outbox, i, {})
      BY <1>0, BoxSame
    <3> QED  BY <1>0, <2>2, <3>1
  <2> QED  BY <2>1, <2>2
<1> QED  BY <1>0, <1>1, EndsBox

LEMMA SessionAnsweredStep ==
    ASSUME CoordInv, NEW steps \in 1 .. 3, SessionAnswered(steps) PROVE CoordInv'
<1>0. Types /\ UNCHANGED <<lk, agentLink, secrets, session, lease, agent>>
  BY DEF CoordInv, SessionAnswered, world
<1>1. /\ tick.at = "answered" /\ Item0.id.kind = "session_create" /\ tick.item \in DOMAIN outbox
      /\ Item0.id.run \in TestRuns
  BY <1>0, CallFacts, ItemTypes DEF SessionAnswered, Answered, Item0
<1>2. CASE job[Item0.id.run] # "acquiring"
  <2>1. FailTerminal(tick.item)
    BY <1>2 DEF SessionAnswered, Item0
  <2> QED  BY <1>0, <1>1, <2>1, CallFacts, FailStep DEF SecretsKept, Item0
<1>3. CASE job[Item0.id.run] = "acquiring"
  <2>1. PICK complete \in BOOLEAN : complete = (steps = 3)
    OBVIOUS
  <2>2. /\ job' = [job EXCEPT ![Item0.id.run] = "active"] /\ run' = run
        /\ Ends(complete, IF complete THEN Settled(outbox, tick.item, "confirmed") ELSE outbox)
    BY <1>3, <2>1 DEF SessionAnswered, Item0
  <2>3. tick' = Idle /\ Box(outbox, outbox', tick.item, {}) /\ Quiet(outbox')
    BY <1>1, <2>2, CallFacts, ConfirmBox DEF Item0
  <2>4. StepRows /\ SecretsKept
    BY <1>0, <2>2, NoRow DEF SecretsKept
  <2>5. LinkStep
    BY <1>0, <1>1, <2>2, <2>3, <2>4, CallFacts, BoxLink DEF SecretsKept, Item0
  <2>6. JobStep
    BY <1>0, <1>1, <1>3, <2>2 DEF JobStep, Types, JobState
  <2> QED  BY <1>0, <2>3, <2>5, <2>6, IdleTick, RestStep DEF Types
<1> QED  BY <1>2, <1>3

LEMMA AgentAnsweredStep ==
    ASSUME CoordInv, NEW complete \in BOOLEAN, AgentAnswered(complete) PROVE CoordInv'
<1>0. Types /\ PhaseInv /\ UNCHANGED <<run, job, lk, secrets, session, lease, agent>>
  BY DEF CoordInv, AgentAnswered, world
<1>1. /\ tick.at = "answered" /\ Item0.id.kind = "agent_create" /\ tick.item \in DOMAIN outbox
      /\ Item0.id.run \in TestRuns
  BY <1>0, CallFacts, ItemTypes DEF AgentAnswered, Answered, Item0
<1>2. Ends(complete, IF complete THEN Settled(outbox, tick.item, "confirmed") ELSE outbox)
  BY DEF AgentAnswered
<1>3. tick' = Idle /\ Box(outbox, outbox', tick.item, {}) /\ Quiet(outbox')
  BY <1>1, <1>2, CallFacts, ConfirmBox DEF Item0
<1>4. /\ agentLink' \in [TestRuns -> BOOLEAN]
      /\ \A r \in TestRuns : agentLink'[r] /\ ~agentLink[r] => IsPageOf(Item0.id, r)
  <2>1. PICK r \in TestRuns, b \in BOOLEAN :
           /\ agentLink' = [agentLink EXCEPT ![r] = b]
           /\ b /\ ~agentLink[r] => IsPageOf(Item0.id, r)
    <3>1. PICK r \in TestRuns : r = Item0.id.run
      BY <1>1
    <3>2. agentLink' = [agentLink EXCEPT ![r] = agentLink[r] \/ IsPageOf(Item0.id, r)]
      BY <3>1 DEF AgentAnswered, Item0
    <3>3. (agentLink[r] \/ IsPageOf(Item0.id, r)) \in BOOLEAN
      OBVIOUS
    <3> QED  BY <3>2, <3>3
  <2>2. agentLink \in [TestRuns -> BOOLEAN]
    BY <1>0 DEF Types
  <2> QED  BY <2>1, <2>2
<1>5. agent[<<Item0.id.run, Item0.id.todo, Item0.id.n>>].status # "none"
  BY <1>0, <1>1 DEF PhaseInv, WorksOn, Working
<1>6. LinkStep
  <2>1. StepRows
    BY <1>0, NoRow
  <2>2. Continues(outbox, outbox')
    BY <1>3 DEF Box
  <2>3. NewItems
    BY <1>3 DEF Box, NewItems
  <2>4. InTurn
    BY <1>1, <1>3, CallFacts DEF Box, InTurn, Item0
  <2>5. ASSUME NEW r \in TestRuns, agentLink'[r], ~agentLink[r], run[r].page # NoTodo
        PROVE  /\ agent[Page(r)].status # "none"
               /\ \E i \in DOMAIN outbox : CreatesFor(i, r) /\ outbox[i].status # "pending"
    <3>1. IsPageOf(Item0.id, r)
      BY <1>4, <2>5
    <3>2. CreatesFor(tick.item, r) /\ outbox[tick.item].status = "dispatching"
      BY <1>1, <3>1, CallFacts DEF CreatesFor, Item0
    <3> QED  BY <1>1, <1>5, <3>1, <3>2 DEF IsPageOf
  <2> QED  BY <1>0, <2>1, <2>2, <2>3, <2>4, <2>5 DEF LinkStep
<1> QED  BY <1>0, <1>3, <1>4, <1>6, IdleTick, RestStep DEF JobStep, Types

LEMMA CloseAnsweredStep ==
    ASSUME CoordInv, NEW steps \in 1 .. 3, CloseAnswered(steps) PROVE CoordInv'
<1>0. /\ Types /\ HolderInv /\ UNCHANGED <<run, lk, agentLink, session, lease, agent>>
      /\ secrets' = secrets \ {Item0.lease, Item0.id}
  BY DEF CoordInv, CloseAnswered, Item0, world
<1>1. /\ tick.at = "answered" /\ Item0.id.kind \in Closing /\ tick.item \in DOMAIN outbox
      /\ Item0.id.run \in TestRuns
  BY <1>0, CallFacts, ItemTypes DEF CloseAnswered, Answered, Item0
<1>2. PICK r \in TestRuns : r = Item0.id.run
  BY <1>1
<1>3. PICK complete \in BOOLEAN : complete = (steps = 3)
  OBVIOUS
<1>4. Ends(complete, IF complete THEN Settled(outbox, tick.item, "confirmed") ELSE outbox)
  BY <1>3 DEF CloseAnswered
<1>5. tick' = Idle /\ Box(outbox, outbox', tick.item, {}) /\ Quiet(outbox')
  BY <1>1, <1>4, CallFacts, ConfirmBox DEF Item0
<1>6. /\ job' \in [TestRuns -> JobState] /\ \A s \in TestRuns \ {r} : job'[s] = job[s]
      /\ job'[r] \in {"releasing", "completed"} \/ job'[r] = job[r]
      /\ HasBrowser(r)' => HasBrowser(r)
  <2>1. job' = [job EXCEPT ![r] = IF ~HasBrowser(r) THEN job[r]
                                  ELSE IF steps = 1 THEN "releasing" ELSE "completed"]
    BY <1>2 DEF CloseAnswered, Item0
  <2> QED  BY <1>0, <2>1 DEF Types, JobState, HasBrowser
<1>7. SecretsKept
  <2> SUFFICES ASSUME NEW s \in TestRuns, run[s].page # NoTodo, lk[s] # NoLease, lk[s] \in {Item0.lease, Item0.id}
               PROVE  FALSE
    BY <1>0 DEF SecretsKept
  <2>1. lk[s].kind = "lease_create" /\ lk[s].run = s
    BY DEF CoordInv, Links, LeaseLinked
  <2>2. RevokeOK(Item0.id, Item0.lease)
    BY <1>1 DEF CoordInv, Links, RevokesOK, Item0
  <2>3. CoordRow(run[s])
    BY <1>0, RowTypes
  <2>4. lk[s] # Item0.id
    BY <1>1, <2>1 DEF Closing
  <2> QED  BY <1>1, <2>1, <2>2, <2>3, <2>4 DEF RevokeOK, GivenBack, CoordRow
<1>8. StepRows
  BY <1>0, NoRow
<1>9. LinkStep
  BY <1>0, <1>1, <1>5, <1>7, <1>8, CallFacts, BoxLink DEF SecretsKept, Item0
<1>10. Types'
  BY <1>0, <1>5, <1>6, <1>9, IdleTick DEF Types, LinkStep, Continues
<1>11. TickInv'
  BY <1>5, IdleTick DEF TickInv, AtRest, Working
<1>12. PhaseInv'
  BY <1>5, IdleTick DEF PhaseInv, WorksOn, Working
<1>13. HolderInv'
  <2>1. session[r] = "closed"
    BY <1>0, <1>1, <1>2 DEF HolderInv
  <2>2. \A i \in DOMAIN outbox' : i \in DOMAIN outbox /\ outbox'[i].id = outbox[i].id
                                  /\ outbox[i].id.run \in TestRuns
    BY <1>0, <1>5, ItemTypes DEF Box, Continues
  <2>3. \A i \in DOMAIN outbox' : outbox'[i].id.kind = "session_create" => job'[outbox'[i].id.run] # "queued"
    BY <1>0, <1>6, <2>2 DEF HolderInv
  <2>4. \A s \in TestRuns : HasBrowser(s)' => HasBrowser(s)
    BY <1>6 DEF HasBrowser
  <2>5. BrowserHasHolder'
    BY <1>0, <1>6, <2>1 DEF HolderInv, BrowserHasHolder, HasBrowser
  <2>6. tick'.at # "answered"
    BY <1>5, IdleTick
  <2> QED  BY <1>0, <1>6, <2>1, <2>3, <2>4, <2>5, <2>6 DEF HolderInv
<1>14. Links'
  BY <1>0, <1>9, <1>10, LinksStep DEF CoordInv
<1> QED  BY <1>10, <1>11, <1>12, <1>13, <1>14 DEF CoordInv

LEMMA CrashStep == ASSUME CoordInv, NEW upgrade, Crash(upgrade) PROVE CoordInv'
<1>0. /\ Types /\ outbox \in Seq(Item) /\ run \in [TestRuns -> RunRecord] /\ tick' = Idle
      /\ UNCHANGED <<job, lk, agentLink, secrets, session, lease, agent>>
  BY DEF CoordInv, Types, Crash, world
<1>1. Box(outbox, outbox', 0, {}) /\ Quiet(outbox')
  BY <1>0, BoxRecovered DEF Crash
<1>2. StepRows /\ \A r \in TestRuns : run'[r].page = run[r].page
  <2>1. CASE run' = run
    BY <1>0, <2>1, NoRow
  <2>2. CASE run' = [r \in TestRuns |-> [run[r] EXCEPT !.stale = run[r].lifecycle # "absent"]]
    <3>1. ASSUME NEW r \in TestRuns
          PROVE  RowStep(run[r], run'[r]) /\ run'[r].page = run[r].page /\ run'[r] \in RunRecord
      <4>1. PICK q : q = [run[r] EXCEPT !.stale = run[r].lifecycle # "absent"]
        OBVIOUS
      <4>2. RowStep(run[r], q) /\ q.page = run[r].page
        BY <1>0, <4>1, RowTypes, UpgradeStep
      <4>3. q \in RunRecord
        BY <4>2 DEF RowStep, CoordRow, RowInv
      <4>4. run'[r] = q
        BY <2>2, <4>1
      <4> QED  BY <4>2, <4>3, <4>4
    <3>2. run' \in [TestRuns -> RunRecord]
      BY <2>2, <3>1
    <3> QED  BY <3>1, <3>2 DEF StepRows
  <2> QED  BY <2>1, <2>2 DEF Crash, PolicyUpgrade
<1>3. SecretsKept
  BY <1>0 DEF SecretsKept
<1>4. LinkStep
  BY <1>0, <1>1, <1>2, <1>3, AppendLink
<1> QED  BY <1>0, <1>1, <1>4, IdleTick, RestStep DEF JobStep, Types

-----------------------------------------------------------------------------
(***************************************************************************)
(* A lease that has to be validated again.                                 *)
(***************************************************************************)

\* The revocation of the lease a tick works on
Revoking(j) == outbox[j].lease = Item0.id /\ outbox[j].id.kind = "policy_revoke"

LEMMA RevalidationFailsStep == ASSUME CoordInv, LeaseRevalidationFails PROVE CoordInv'
<1>0. /\ Types /\ HolderInv /\ PhaseInv /\ outbox \in Seq(Item) /\ run \in [TestRuns -> RunRecord]
      /\ secrets \subseteq secrets'
      /\ UNCHANGED <<job, lk, agentLink, session, lease, agent>>
  BY DEF CoordInv, Types, LeaseRevalidationFails, world
<1>1. /\ tick.at = "answered" /\ Item0.id.kind = "lease_create" /\ tick.item \in DOMAIN outbox
      /\ Item0.id \in ItemId /\ Item0.id \in Key /\ Item0.id.run \in TestRuns
      /\ Item0.status = "dispatching"
      /\ \A j \in DOMAIN outbox \ {tick.item} : outbox[j].status # "dispatching"
  BY <1>0, CallFacts, ItemTypes DEF LeaseRevalidationFails, LeaseToken, Answered, Item0, Key
<1>2. PICK r \in TestRuns : r = Item0.id.run
  BY <1>1
<1>3. ~ExecutionAllowed(run[r]) /\ run[r].lifecycle \in Sealed
  <2>1. ~ExecutionAllowed(run[r])
    BY <1>1, <1>2 DEF LeaseRevalidationFails, Authorised, Item0
  <2> QED  BY <1>0, <1>1, <1>2, <2>1 DEF PhaseInv, WorksOn, Working
<1>4. PICK c : c = AssertRunPolicyCurrent(run[r])
  OBVIOUS
<1>5. RowStep(run[r], c) /\ c.page = run[r].page /\ run' = [run EXCEPT ![r] = c]
  BY <1>0, <1>2, <1>4, AssertStep, RowTypes DEF LeaseRevalidationFails, Item0
<1>6. StepRows /\ run'[r] = c /\ \A s \in TestRuns : run'[s].page = run[s].page
  BY <1>0, <1>5, OneRow
<1>7. run'[r].lifecycle \in Sealed
  BY <1>3, <1>5, <1>6 DEF RowStep
<1>8. PICK pid \in ItemId : /\ pid = Id("policy_revoke", r, Item0.id.todo, Item0.id.n, Item0.id.g)
                            /\ pid.kind = "policy_revoke" /\ pid.run = r
  <2>1. Item0.id.todo \in Todos \cup {NoTodo} /\ Item0.id.n \in Nat /\ Item0.id.g \in Nat
    BY <1>1 DEF ItemId
  <2>2. "policy_revoke" \in Kind
    BY DEF Kind
  <2>3. Id("policy_revoke", r, Item0.id.todo, Item0.id.n, Item0.id.g) \in ItemId
    BY <2>1, <2>2 DEF Id, ItemId
  <2> QED  BY <2>3 DEF Id
<1>9. PICK q : q = Enqueue(outbox, pid, Item0.id)
  OBVIOUS
<1>10. /\ Continues(outbox, q) /\ \A j \in DOMAIN outbox : q[j] = outbox[j]
       /\ \A j \in DOMAIN q \ DOMAIN outbox :
             q[j].id = pid /\ q[j].lease = Item0.id /\ q[j].status = "pending"
  BY <1>0, <1>1, <1>9, Enqueued
<1>11. q \in Seq(Item) /\ DOMAIN outbox \subseteq DOMAIN q
  BY <1>10 DEF Continues
<1>12. PICK S : /\ S = {j \in DOMAIN q : q[j].id.kind = "policy_revoke" /\ q[j].lease = Item0.id
                                         /\ q[j].status \in {"pending", "retryable_failed"}}
  OBVIOUS
<1>13. outbox' = [j \in DOMAIN q |-> IF j \in S THEN [q[j] EXCEPT !.status = "dispatching"] ELSE q[j]]
  BY <1>2, <1>8, <1>9, <1>12 DEF LeaseRevalidationFails, Item0
<1>14. "dispatching" \in ItemStatus /\ \A j \in DOMAIN q : j \in S => q[j].status \in Open
  BY <1>12 DEF ItemStatus, Open
<1>15. /\ Continues(q, outbox') /\ DOMAIN outbox' = DOMAIN q
       /\ \A j \in DOMAIN q : IF j \in S THEN outbox'[j].status = "dispatching" ELSE outbox'[j] = q[j]
  <2> DEFINE o == [j \in DOMAIN q |-> IF j \in S THEN [q[j] EXCEPT !.status = "dispatching"] ELSE q[j]]
  <2>1. /\ Continues(q, o) /\ DOMAIN o = DOMAIN q
        /\ \A j \in DOMAIN q : IF j \in S THEN o[j].status = "dispatching" ELSE o[j] = q[j]
    BY <1>11, <1>14, SettledMany
  <2>2. outbox' = o
    BY <1>13
  <2> HIDE DEF o
  <2> QED  BY <2>1, <2>2
<1>16. Continues(outbox, outbox')
  BY <1>0, <1>10, <1>15, ContinuesOn
<1>17. tick' = [tick EXCEPT !.at = "revoking"]
  BY DEF LeaseRevalidationFails
<1>18. tick' \in Tick /\ tick'.at = "revoking" /\ tick'.item = tick.item
  BY <1>0, <1>17 DEF Types, Tick, Working
<1>19. Item0' = Item0
  BY <1>1, <1>10, <1>11, <1>12, <1>15, <1>18 DEF Item0
<1>20. \A j \in DOMAIN outbox' : outbox'[j].id = q[j].id /\ outbox'[j].lease = q[j].lease
  BY <1>15 DEF Continues
<1>21. LinkStep
  <2>1. NewItems
    <3> SUFFICES ASSUME NEW j \in DOMAIN outbox' \ DOMAIN outbox
                 PROVE  NewOK(outbox'[j].id, outbox'[j].lease)
      BY DEF NewItems
    <3>1. outbox'[j].id = pid /\ outbox'[j].lease = Item0.id
      BY <1>10, <1>15, <1>20
    <3>2. NewOK(pid, Item0.id)
      BY <1>2, <1>7, <1>8 DEF NewOK, Closing
    <3> QED  BY <3>1, <3>2
  <2>2. InTurn
    <3> SUFFICES ASSUME NEW j \in DOMAIN outbox, outbox[j].id.kind \in {"lease_create", "agent_create"},
                        outbox[j].status = "pending"
                 PROVE  outbox'[j].status = "pending"
      BY DEF InTurn
    <3>1. j \notin S
      BY <1>10, <1>12
    <3> QED  BY <1>10, <1>11, <1>15, <3>1
  <2> QED  BY <1>0, <1>6, <1>16, <2>1, <2>2 DEF LinkStep
<1>22. Types'
  BY <1>0, <1>18, <1>21 DEF Types, LinkStep, StepRows, RowStep, Continues
<1>23. TickInv'
  <2>1. ASSUME NEW j \in DOMAIN outbox', outbox'[j].status = "dispatching", j # tick.item
        PROVE  outbox'[j].id.kind = "policy_revoke" /\ outbox'[j].lease = Item0.id
    <3>1. j \in S
      BY <1>1, <1>10, <1>15, <2>1
    <3> QED  BY <1>12, <1>20, <2>1, <3>1
  <2> QED  BY <1>1, <1>11, <1>15, <1>18, <1>19, <2>1 DEF TickInv, AtRest
<1>24. PhaseInv'
  <2>1. run[r].page = NoTodo
    BY <1>0, <1>1, <1>2 DEF PhaseInv, WorksOn, Working
  <2> QED  BY <1>1, <1>2, <1>6, <1>18, <1>19, <2>1 DEF PhaseInv, WorksOn
<1>25. HolderInv'
  <2>1. ASSUME NEW i \in DOMAIN outbox', outbox'[i].id.kind = "session_create"
        PROVE  job'[outbox'[i].id.run] # "queued"
    <3>1. CASE i \in DOMAIN outbox
      BY <1>0, <1>10, <1>20, <2>1, <3>1 DEF HolderInv
    <3>2. CASE i \notin DOMAIN outbox
      BY <1>21, <2>1, <3>2 DEF LinkStep, NewItems, NewOK
    <3> QED  BY <3>1, <3>2
  <2>2. BrowserHasHolder'
    BY <1>0 DEF HolderInv, BrowserHasHolder, HasBrowser
  <2> QED  BY <1>0, <1>18, <2>1, <2>2 DEF HolderInv, HasBrowser
<1>26. Links'
  BY <1>0, <1>21, <1>22, LinksStep DEF CoordInv
<1> QED  BY <1>22, <1>23, <1>24, <1>25, <1>26 DEF CoordInv

LEMMA RevalidationRevokesStep ==
    ASSUME CoordInv, NEW ok \in BOOLEAN, RevalidationRevokes(ok) PROVE CoordInv'
<1>0. /\ Types /\ TickInv /\ outbox \in Seq(Item) /\ UNCHANGED <<run, job, lk, agentLink, session, agent>>
      /\ lease' \in {lease, NoLease} /\ tick' = Idle
  BY DEF CoordInv, Types, RevalidationRevokes
<1>1. tick.at = "revoking" /\ tick.at \in Working
  BY DEF RevalidationRevokes, Working
<1>2. /\ tick.item \in DOMAIN outbox /\ Item0.status = "dispatching" /\ Item0.id.kind = "lease_create"
      /\ Item0.id.run \in TestRuns
  BY <1>0, <1>1, WorkFacts, ItemTypes DEF TickInv, Item0
<1>3. PICK s \in {"confirmed", "retryable_failed"} : s = IF ok THEN "confirmed" ELSE "retryable_failed"
  OBVIOUS
<1>4. PICK S : S = {j \in DOMAIN outbox : Revoking(j) /\ outbox[j].status = "dispatching"}
  OBVIOUS
<1> DEFINE q == [j \in DOMAIN outbox |-> IF j \in S THEN [outbox[j] EXCEPT !.status = s] ELSE outbox[j]]
<1>6. outbox' = Settled(q, tick.item, "cancelled")
  BY <1>3, <1>4 DEF RevalidationRevokes, Revoking, Item0
<1>7. s \in ItemStatus /\ "cancelled" \in ItemStatus /\ \A j \in DOMAIN outbox : j \in S => outbox[j].status \in Open
  BY <1>3, <1>4 DEF ItemStatus, Open
<1>8. /\ Continues(outbox, q) /\ DOMAIN q = DOMAIN outbox
      /\ \A j \in DOMAIN outbox : IF j \in S THEN q[j].status = s ELSE q[j] = outbox[j]
  BY <1>0, <1>7, SettledMany
<1> HIDE DEF q
<1>9. q \in Seq(Item)
  BY <1>8 DEF Continues
<1>10. /\ Continues(q, outbox') /\ DOMAIN outbox' = DOMAIN q /\ outbox'[tick.item].status = "cancelled"
       /\ \A j \in DOMAIN q \ {tick.item} : outbox'[j] = q[j]
  BY <1>2, <1>6, <1>7, <1>8, <1>9, SettledOne DEF Open
<1>11. Continues(outbox, outbox')
  BY <1>0, <1>8, <1>10, ContinuesOn
<1>12. Quiet(outbox')
  <2> SUFFICES ASSUME NEW j \in DOMAIN outbox', j # tick.item PROVE outbox'[j].status # "dispatching"
    BY <1>10 DEF Quiet
  <2>1. CASE j \in S
    BY <1>3, <1>8, <1>10, <2>1
  <2>2. CASE j \notin S
    <3>1. outbox[j].status # "dispatching"
      BY <1>0, <1>1, <1>4, <1>8, <1>10, <2>2 DEF TickInv, Revoking
    <3> QED  BY <1>8, <1>10, <2>2, <3>1
  <2> QED  BY <2>1, <2>2
<1>13. SecretsKept
  <2> SUFFICES ASSUME NEW r \in TestRuns, run[r].page # NoTodo, lk[r] # NoLease, lk[r] = Item0.id
               PROVE  FALSE
    BY <1>0 DEF SecretsKept, RevalidationRevokes, Item0
  <2>1. lk[r].run = r
    BY DEF CoordInv, Links, LeaseLinked
  <2>2. run[Item0.id.run].page = NoTodo
    BY <1>1, <1>2 DEF CoordInv, PhaseInv, WorksOn
  <2> QED  BY <2>1, <2>2
<1>14. LinkStep
  <2>1. StepRows
    BY <1>0, NoRow
  <2>2. NewItems
    BY <1>8, <1>10 DEF NewItems
  <2>3. InTurn
    <3> SUFFICES ASSUME NEW j \in DOMAIN outbox, outbox[j].status = "pending"
                 PROVE  outbox'[j].status = "pending"
      BY DEF InTurn
    <3>1. j \notin S /\ j # tick.item
      BY <1>2, <1>4 DEF Item0
    <3> QED  BY <1>8, <1>10, <3>1
  <2> QED  BY <1>0, <1>11, <1>13, <2>1, <2>2, <2>3 DEF LinkStep, SecretsKept
<1> QED  BY <1>0, <1>12, <1>14, IdleTick, RestStep DEF JobStep, Types

-----------------------------------------------------------------------------
(***************************************************************************)
(* The answer to the creation of a lease starts the page task.             *)
(***************************************************************************)

\* What the answer to the creation of a lease writes: the page task t of the run r
\* starts, its lease is linked or not, and the order of its agent is new or not there.
PageStarts(r, t, complete) ==
    /\ run' \in [TestRuns -> RunRecord] /\ \A s \in TestRuns \ {r} : run'[s] = run[s]
    /\ CoordRow(run'[r]) /\ run'[r].page = t /\ run'[r].stale = run[r].stale
    /\ run[r].page = NoTodo /\ run[r].lifecycle \notin Sealed /\ run'[r].lifecycle \notin Sealed
    /\ run'[r].tries[t] = run[r].tries[t] + 1
    /\ \A u \in Todos \ {t} : run'[r].tries[u] = run[r].tries[u]
    /\ secrets' = secrets \cup {Item0.id}
    /\ lk' \in [TestRuns -> Key] /\ lk'[r] \in {NoLease, Item0.id}
    /\ \A s \in TestRuns \ {r} : lk'[s] = lk[s]
    /\ agentLink' \in [TestRuns -> BOOLEAN] /\ agentLink'[r] = FALSE
    /\ \A s \in TestRuns \ {r} : agentLink'[s] = agentLink[s]
    /\ Continues(outbox, outbox') /\ Quiet(outbox')
    /\ \A j \in DOMAIN outbox \ {tick.item} : outbox'[j] = outbox[j]
    /\ outbox'[tick.item].status \in {"confirmed", "pending"}
    /\ \A j \in DOMAIN outbox' \ DOMAIN outbox :
          /\ outbox'[j].id.kind = "agent_create" /\ outbox'[j].id.run = r /\ outbox'[j].id.todo = t
          /\ outbox'[j].id.n = run[r].tries[t] + 1 /\ outbox'[j].id.g = 0
          /\ outbox'[j].lease = Item0.id /\ lk'[r] = Item0.id /\ outbox'[j].status = "pending"
    /\ complete => outbox'[tick.item].status = "confirmed"

LEMMA PageStartsLinks ==
    ASSUME CoordInv, tick.at = "answered", Item0.id.kind = "lease_create",
           NEW r \in TestRuns, r = Item0.id.run, NEW t \in Todos, NEW complete, PageStarts(r, t, complete),
           agent' = agent
    PROVE  Links'
<1>0. Types /\ Links /\ outbox \in Seq(Item) /\ outbox' \in Seq(Item) /\ DOMAIN outbox \subseteq DOMAIN outbox'
  BY DEF CoordInv, Types, PageStarts, Continues
<1>1. /\ tick.item \in DOMAIN outbox /\ Item0.id \in ItemId /\ Item0.id # NoLease /\ Item0.status = "dispatching"
      /\ Item0.id.todo \in Todos
  BY <1>0, CallFacts, ItemTypes DEF Item0, ItemId, NoLease, Id, Kind, Links, LeasesNamed
<1>2. /\ \A j \in DOMAIN outbox : /\ outbox'[j].id = outbox[j].id /\ outbox'[j].lease = outbox[j].lease
                                  /\ outbox'[j].status \in Open => outbox[j].status \in Open
                                  /\ j # tick.item => outbox'[j] = outbox[j]
      /\ \A j \in DOMAIN outbox' \ DOMAIN outbox :
            \A k \in DOMAIN outbox' : outbox'[k].id = outbox'[j].id => k = j
  BY DEF PageStarts, Continues
<1>3. /\ \A j \in DOMAIN outbox : outbox[j] \in Item
      /\ \A j \in DOMAIN outbox' : outbox'[j] \in Item
      /\ \A j \in DOMAIN outbox' \ DOMAIN outbox : \A k \in DOMAIN outbox : k < j
  BY <1>0
<1>4. /\ run \in [TestRuns -> RunRecord] /\ \A s \in TestRuns \ {r} : run'[s] = run[s]
      /\ run'[r].page = t /\ run[r].page = NoTodo /\ t # NoTodo /\ run[r].lifecycle \notin Sealed
      /\ run'[r].tries[t] = run[r].tries[t] + 1 /\ run[r].tries[t] \in Nat
  BY <1>0, RowTypes, GraphAssumption DEF Types, PageStarts, RunRecord
<1>u. Unique'
  <2> SUFFICES ASSUME NEW i \in DOMAIN outbox', NEW j \in DOMAIN outbox', outbox'[i].id = outbox'[j].id
               PROVE  i = j
    BY DEF Unique
  <2> QED  BY <1>0, <1>2 DEF Links, Unique
<1>l. LeaseLinked'
  <2> SUFFICES ASSUME NEW s \in TestRuns, run'[s].page # NoTodo, lk'[s] # NoLease
               PROVE  /\ lk'[s].run = s /\ lk'[s].kind = "lease_create" /\ lk'[s] \in secrets'
                      /\ \E j \in DOMAIN outbox' :
                            /\ outbox'[j].id = lk'[s]
                            /\ outbox'[j].status \in Open =>
                                  /\ outbox'[j].status = "pending" /\ ~agentLink'[s]
                                  /\ \A i \in DOMAIN outbox' : CreatesFor(i, s)'
                                        => j < i /\ outbox'[i].status = "pending"
    BY DEF LeaseLinked
  <2>1. CASE s = r
    <3>1. lk'[s] = Item0.id /\ ~agentLink'[s] /\ lk'[s] \in secrets'
      BY <2>1 DEF PageStarts
    <3>2. outbox'[tick.item].id = lk'[s] /\ tick.item \in DOMAIN outbox'
      BY <1>0, <1>1, <1>2, <3>1 DEF Item0
    <3>3. ASSUME NEW i \in DOMAIN outbox', CreatesFor(i, s)'
          PROVE  tick.item < i /\ outbox'[i].status = "pending"
      <4>1. /\ outbox'[i].id.kind = "agent_create" /\ outbox'[i].id.todo = t
            /\ outbox'[i].id.run = r /\ outbox'[i].id.n = run[r].tries[t] + 1
        BY <1>4, <2>1, <3>3 DEF CreatesFor, IsPageOf, Page
      <4>2. i \notin DOMAIN outbox
        <5> SUFFICES ASSUME i \in DOMAIN outbox PROVE FALSE
          OBVIOUS
        <5>1. outbox[i].id = outbox'[i].id
          BY <1>2
        <5>2. OrderInv(i)
          BY <1>0, <4>1, <5>1 DEF Links, OrdersOK
        <5>3. outbox[i].id.n <= run[r].tries[t]
          BY <4>1, <5>1, <5>2 DEF OrderInv
        <5> QED  BY <1>4, <4>1, <5>1, <5>3
      <4> QED  BY <1>1, <1>3, <4>2 DEF PageStarts
    <3>4. outbox'[tick.item].status \in Open => outbox'[tick.item].status = "pending"
      BY DEF PageStarts, Open
    <3> QED  BY <1>1, <2>1, <3>1, <3>2, <3>3, <3>4
  <2>2. CASE s # r
    <3>1. run'[s] = run[s] /\ lk'[s] = lk[s] /\ agentLink'[s] = agentLink[s]
      BY <2>2 DEF PageStarts
    <3>2. lk[s].run = s /\ lk[s].kind = "lease_create" /\ lk[s] \in secrets
      BY <1>0, <3>1 DEF Links, LeaseLinked
    <3>3. PICK j \in DOMAIN outbox :
             /\ outbox[j].id = lk[s]
             /\ outbox[j].status \in Open =>
                   /\ outbox[j].status = "pending" /\ ~agentLink[s]
                   /\ \A i \in DOMAIN outbox : CreatesFor(i, s) => j < i /\ outbox[i].status = "pending"
      BY <1>0, <3>1 DEF Links, LeaseLinked
    <3>4. j # tick.item /\ outbox'[j] = outbox[j] /\ j \in DOMAIN outbox'
      BY <1>0, <1>2, <2>2, <3>2, <3>3 DEF Item0
    <3>5. ASSUME outbox'[j].status \in Open, NEW i \in DOMAIN outbox', CreatesFor(i, s)'
          PROVE  j < i /\ outbox'[i].status = "pending"
      <4>1. /\ outbox'[i].id.kind = "agent_create" /\ outbox'[i].id.run = s
            /\ IsPageOf(outbox'[i].id, s)
        BY <3>1, <3>5 DEF CreatesFor, IsPageOf, Page
      <4>2. i \in DOMAIN outbox
        BY <2>2, <4>1 DEF PageStarts
      <4>3. CreatesFor(i, s) /\ i # tick.item
        BY <1>2, <4>1, <4>2 DEF CreatesFor, Item0
      <4> QED  BY <1>2, <3>3, <3>4, <3>5, <4>2, <4>3
    <3> QED  BY <3>1, <3>2, <3>3, <3>4, <3>5 DEF PageStarts
  <2> QED  BY <2>1, <2>2
<1>o. OrdersOK'
  <2> SUFFICES ASSUME NEW i \in DOMAIN outbox', outbox'[i].id.kind = "agent_create"
               PROVE  OrderInv(i)'
    BY DEF OrdersOK
  <2>1. CASE i \notin DOMAIN outbox
    <3>0. PICK id : id = outbox'[i].id
      OBVIOUS
    <3>1. /\ id.run = r /\ id.todo = t /\ id.n = run[r].tries[t] + 1
          /\ id.g = 0 /\ outbox'[i].lease = Item0.id /\ lk'[r] = Item0.id
      BY <2>1, <3>0 DEF PageStarts
    <3>2. IsPageOf(id, r)'
      BY <1>4, <3>1 DEF IsPageOf, Page
    <3> QED  BY <1>1, <1>4, <3>0, <3>1, <3>2 DEF OrderInv
  <2>2. CASE i \in DOMAIN outbox
    <3>1. /\ outbox'[i].id = outbox[i].id /\ outbox'[i].lease = outbox[i].lease
          /\ outbox'[i].status \in Open => outbox[i].status \in Open
      BY <1>2, <2>2
    <3>2. OrderInv(i)
      BY <1>0, <2>2, <3>1 DEF Links, OrdersOK
    <3> DEFINE id == outbox[i].id
    <3>3. id.run \in TestRuns /\ id.n \in Nat /\ id.todo \in Todos
      BY <1>3, <2>2, <3>2 DEF Item, ItemId, OrderInv
    <3>4. CASE id.run # r
      <4>1. run'[id.run] = run[id.run] /\ lk'[id.run] = lk[id.run]
        BY <3>3, <3>4 DEF PageStarts
      <4>2. IsPageOf(id, id.run)' <=> IsPageOf(id, id.run)
        BY <3>1, <4>1 DEF IsPageOf, Page
      <4> QED  BY <3>1, <3>2, <4>1, <4>2 DEF OrderInv
    <3>5. CASE id.run = r
      <4>1. ~ IsPageOf(id, r)
        BY <1>4 DEF IsPageOf
      <4>2. id.n <= run'[r].tries[id.todo]
        <5>1. id.n <= run[r].tries[id.todo]
          BY <3>2, <3>5 DEF OrderInv
        <5>2. CASE id.todo = t
          BY <1>4, <3>3, <5>1, <5>2
        <5>3. CASE id.todo # t
          BY <3>3, <5>1, <5>3 DEF PageStarts
        <5> QED  BY <5>2, <5>3
      <4>3. outbox[i].status \in Open =>
              agent[<<r, id.todo, id.n>>].status # "none" \/ run[r].stale
        BY <1>4, <3>2, <3>5, <4>1 DEF OrderInv
      <4>4. run'[r].stale = run[r].stale
        BY DEF PageStarts
      <4> QED  BY <3>1, <3>2, <3>3, <3>5, <4>2, <4>3, <4>4 DEF OrderInv
    <3> QED  BY <3>4, <3>5
  <2> QED  BY <2>1, <2>2
<1>a. AgentLinked'
  <2> SUFFICES ASSUME NEW s \in TestRuns, agentLink'[s], run'[s].page # NoTodo
               PROVE  agent[Page(s)'].status # "none"
    BY DEF AgentLinked
  <2>1. s # r /\ run'[s] = run[s] /\ agentLink'[s] = agentLink[s]
    BY DEF PageStarts
  <2>2. Page(s)' = Page(s)
    BY <2>1 DEF Page
  <2> QED  BY <1>0, <2>1, <2>2 DEF Links, AgentLinked
<1>r. RevokesOK'
  <2> SUFFICES ASSUME NEW i \in DOMAIN outbox', NEW id \in ItemId, NEW key \in Key,
                      id = outbox'[i].id, key = outbox'[i].lease
               PROVE  RevokeOK(id, key)'
    BY <1>3 DEF RevokesOK, Item
  <2>0. id.run \in TestRuns
    BY DEF ItemId
  <2>1. CASE i \notin DOMAIN outbox
    <3>1. id.kind = "agent_create"
      BY <2>1 DEF PageStarts
    <3> QED  BY <3>1 DEF RevokeOK, Closing
  <2>2. CASE i \in DOMAIN outbox
    <3>1. RevokeOK(id, key)
      BY <1>0, <1>2, <2>2 DEF Links, RevokesOK
    <3>2. ASSUME GivenBack(id, key) PROVE GivenBack(id, key)'
      BY <1>4, <2>0, <3>2 DEF GivenBack, PageStarts
    <3>3. ASSUME RevokeInv(key) PROVE RevokeInv(key)'
      <4>1. key.kind = "lease_create" /\ key # Item0.id /\ key # NoLease /\ key.run \in TestRuns
        BY <1>1, <3>3 DEF RevokeInv, Item0, Open, NoLease, Id, Key, ItemId
      <4>2. run'[key.run].page # NoTodo => lk'[key.run] # key
        BY <3>3, <4>1 DEF RevokeInv, PageStarts
      <4>3. \E j \in DOMAIN outbox' : outbox'[j].id = key
        BY <1>0, <1>2, <3>3 DEF RevokeInv
      <4>4. \A j \in DOMAIN outbox' : outbox'[j].id = key => outbox'[j].status \notin Open
        <5> SUFFICES ASSUME NEW j \in DOMAIN outbox', outbox'[j].id = key
                     PROVE  outbox'[j].status \notin Open
          OBVIOUS
        <5>1. j \in DOMAIN outbox
          BY <4>1 DEF PageStarts
        <5> QED  BY <1>2, <3>3, <5>1 DEF RevokeInv
      <4> QED  BY <4>1, <4>2, <4>3, <4>4 DEF RevokeInv
    <3> QED  BY <3>1, <3>2, <3>3 DEF RevokeOK
  <2> QED  BY <2>1, <2>2
<1>n. LeasesNamed'
  <2> SUFFICES ASSUME NEW i \in DOMAIN outbox', outbox'[i].id.kind = "lease_create"
               PROVE  outbox'[i].id.todo \in Todos
    BY DEF LeasesNamed
  <2>1. i \in DOMAIN outbox
    BY DEF PageStarts
  <2> QED  BY <1>0, <1>2, <2>1 DEF Links, LeasesNamed
<1>k. ResumesKnown'
  <2> SUFFICES ASSUME NEW i \in DOMAIN outbox', NEW id, id = outbox'[i].id, id.kind = "agent_resume"
               PROVE  AgentKnown(id)'
    BY DEF ResumesKnown
  <2>1. i \in DOMAIN outbox /\ id = outbox[i].id
    BY <1>2 DEF PageStarts
  <2> QED  BY <1>0, <2>1 DEF Links, ResumesKnown, AgentKnown
<1> QED  BY <1>u, <1>l, <1>o, <1>a, <1>r, <1>n, <1>k DEF Links

\* What the items become
LEMMA AnswerBox ==
    ASSUME CoordInv, NEW i \in DOMAIN outbox, outbox[i].status = "dispatching",
           \A j \in DOMAIN outbox \ {i} : outbox[j].status # "dispatching",
           NEW id \in ItemId, NEW key \in Key, NEW b \in BOOLEAN, NEW complete \in BOOLEAN, NEW q,
           q = IF b THEN Enqueue(outbox, id, key) ELSE outbox,
           Ends(complete, IF complete THEN Settled(q, i, "confirmed") ELSE q)
    PROVE  /\ tick' = Idle /\ Continues(outbox, outbox') /\ Quiet(outbox')
           /\ \A j \in DOMAIN outbox \ {i} : outbox'[j] = outbox[j]
           /\ outbox'[i].status \in {"confirmed", "pending"}
           /\ complete => outbox'[i].status = "confirmed"
           /\ \A j \in DOMAIN outbox' \ DOMAIN outbox :
                 b /\ outbox'[j].id = id /\ outbox'[j].lease = key /\ outbox'[j].status = "pending"
<1>0. outbox \in Seq(Item) /\ "confirmed" \in ItemStatus
  BY DEF CoordInv, Types, ItemStatus
<1>1. /\ Continues(outbox, q) /\ \A j \in DOMAIN outbox : q[j] = outbox[j]
      /\ \A j \in DOMAIN q \ DOMAIN outbox :
            b /\ q[j].id = id /\ q[j].lease = key /\ q[j].status = "pending"
  <2>1. CASE b
    BY <1>0, <2>1, Enqueued
  <2>2. CASE ~b
    BY <1>0, <2>2, ContinuesSame
  <2> QED  BY <2>1, <2>2
<1>2. q \in Seq(Item) /\ DOMAIN outbox \subseteq DOMAIN q
  BY <1>1 DEF Continues
<1>3. CASE complete
  <2>1. outbox' = Settled(q, i, "confirmed") /\ tick' = Idle
    BY <1>3 DEF Ends
  <2>2. /\ Continues(q, outbox') /\ DOMAIN outbox' = DOMAIN q /\ outbox'[i].status = "confirmed"
        /\ \A j \in DOMAIN q \ {i} : outbox'[j] = q[j]
    BY <1>0, <1>1, <1>2, <2>1, SettledOne DEF Open
  <2>3. Continues(outbox, outbox')
    BY <1>0, <1>1, <2>2, ContinuesOn
  <2>4. Quiet(outbox')
    BY <1>1, <2>2 DEF Quiet
  <2> QED  BY <1>1, <1>2, <2>1, <2>2, <2>3, <2>4
<1>4. CASE ~complete
  <2>1. outbox' = Recovered(q) /\ tick' = Idle
    BY <1>4 DEF Ends
  <2>2. /\ Continues(q, outbox') /\ DOMAIN outbox' = DOMAIN q
        /\ \A j \in DOMAIN q :
              IF q[j].status = "dispatching" THEN outbox'[j].status = "pending" ELSE outbox'[j] = q[j]
    BY <1>2, <2>1, RecoveredAll
  <2>3. Continues(outbox, outbox')
    BY <1>0, <1>1, <2>2, ContinuesOn
  <2>4. \A j \in DOMAIN q : j # i => q[j].status # "dispatching"
    BY <1>1
  <2>5. Quiet(outbox')
    BY <2>2 DEF Quiet
  <2> QED  BY <1>1, <1>2, <1>4, <2>1, <2>2, <2>3, <2>4, <2>5
<1> QED  BY <1>3, <1>4

LEMMA LeaseAnsweredStep ==
    ASSUME CoordInv, NEW steps \in 1 .. 4, LeaseAnswered(steps) PROVE CoordInv'
<1>0. /\ Types /\ HolderInv /\ outbox \in Seq(Item) /\ run \in [TestRuns -> RunRecord]
      /\ lk \in [TestRuns -> Key] /\ agentLink \in [TestRuns -> BOOLEAN] /\ NoLease \in Key
      /\ UNCHANGED <<job, session, lease, agent>>
  BY DEF CoordInv, Types, Key, LeaseAnswered, world
<1>1. /\ tick.at = "answered" /\ Item0.id.kind = "lease_create" /\ tick.item \in DOMAIN outbox
      /\ Item0.id \in ItemId /\ Item0.id \in Key /\ Item0.status = "dispatching"
      /\ Item0.id.run \in TestRuns /\ Item0.id.todo \in Todos
      /\ \A j \in DOMAIN outbox \ {tick.item} : outbox[j].status # "dispatching"
  BY <1>0, CallFacts, ItemTypes
  DEF LeaseAnswered, LeaseToken, Answered, Item0, Key, CoordInv, Links, LeasesNamed
<1>2. PICK r \in TestRuns, t \in Todos : r = Item0.id.run /\ t = Item0.id.todo
  BY <1>1
<1>3. PICK n \in Nat : n = run[r].tries[t]
  BY <1>0, RowTypes, GraphAssumption DEF RunRecord
<1>4. PICK id \in ItemId : /\ id = Id("agent_create", r, t, n + 1, 0) /\ id.kind = "agent_create" /\ id.run = r
                          /\ id.todo = t /\ id.n = n + 1 /\ id.g = 0
  <2>1. n + 1 \in Nat
    OBVIOUS
  <2> QED  BY <2>1, IdOrder DEF Kind
<1>b. PICK b \in BOOLEAN : b <=> steps \in {3, 4}
  OBVIOUS
<1>c. PICK complete \in BOOLEAN : complete = (steps = 4)
  OBVIOUS
<1>5. (b <=> steps >= 3) /\ complete = (steps = 4)
  BY <1>b, <1>c
<1>6. PICK q : q = IF b THEN Enqueue(outbox, id, Item0.id) ELSE outbox
  OBVIOUS
<1>7. Ends(complete, IF complete THEN Settled(q, tick.item, "confirmed") ELSE q)
  BY <1>2, <1>3, <1>4, <1>5, <1>6 DEF LeaseAnswered, Item0
<1>8. /\ tick' = Idle /\ Continues(outbox, outbox') /\ Quiet(outbox')
      /\ \A j \in DOMAIN outbox \ {tick.item} : outbox'[j] = outbox[j]
      /\ outbox'[tick.item].status \in {"confirmed", "pending"}
      /\ complete => outbox'[tick.item].status = "confirmed"
      /\ \A j \in DOMAIN outbox' \ DOMAIN outbox :
            b /\ outbox'[j].id = id /\ outbox'[j].lease = Item0.id /\ outbox'[j].status = "pending"
  BY <1>1, <1>6, <1>7, AnswerBox DEF Item0
<1>s. StartTodo(r, t) /\ run[r] \in RunRecord /\ CoordRow(run[r])
  BY <1>0, <1>2, RowTypes DEF LeaseAnswered, Item0
<1> DEFINE x == [run[r] EXCEPT !.todo = [run[r].todo EXCEPT ![t] = "running"], !.page = t,
                               !.tries = [run[r].tries EXCEPT ![t] = @ + 1]]
<1>9. /\ run[r].lifecycle = "running" /\ ExecutionAllowed(run[r]) /\ run[r].todo[t] = "ready"
      /\ run[r].page = NoTodo /\ run[r].tries[t] < MaxTries
  BY <1>s DEF StartTodo
<1>10. run' = [run EXCEPT ![r] = x]
  BY <1>0, <1>s DEF StartTodo, RunRecord
<1>11. /\ CoordRow(x) /\ x.page = t /\ x.stale = run[r].stale /\ x.lifecycle = run[r].lifecycle
       /\ x.tries[t] = run[r].tries[t] + 1 /\ \A u \in Todos \ {t} : x.tries[u] = run[r].tries[u]
  BY <1>s, <1>9, StartStep
<1> HIDE DEF x
<1>12. x \in RunRecord
  BY <1>11 DEF CoordRow, RowInv
<1>13. run' \in [TestRuns -> RunRecord] /\ run'[r] = x /\ \A s \in TestRuns \ {r} : run'[s] = run[s]
  BY <1>0, <1>10, <1>12
<1>14. /\ lk' = [lk EXCEPT ![r] = IF steps >= 2 THEN Item0.id ELSE NoLease]
       /\ agentLink' = [agentLink EXCEPT ![r] = FALSE] /\ secrets' = secrets \cup {Item0.id}
  BY <1>2 DEF LeaseAnswered, Item0
<1>15. /\ lk' \in [TestRuns -> Key] /\ lk'[r] = (IF steps >= 2 THEN Item0.id ELSE NoLease)
       /\ \A s \in TestRuns \ {r} : lk'[s] = lk[s]
       /\ agentLink' \in [TestRuns -> BOOLEAN] /\ agentLink'[r] = FALSE
       /\ \A s \in TestRuns \ {r} : agentLink'[s] = agentLink[s]
  BY <1>0, <1>1, <1>14
<1>16. lk'[r] \in {NoLease, Item0.id} /\ (b => lk'[r] = Item0.id)
  BY <1>5, <1>15
<1>17. PageStarts(r, t, complete)
  BY <1>3, <1>4, <1>8, <1>9, <1>11, <1>13, <1>14, <1>15, <1>16 DEF PageStarts, Sealed
<1>18. Links'
  BY <1>0, <1>1, <1>2, <1>17, PageStartsLinks
<1>19. Types'
  <2>1. \A s \in TestRuns : CoordRow(run'[s])
    BY <1>0, <1>11, <1>13, RowTypes
  <2> QED  BY <1>0, <1>8, <1>13, <1>15, <2>1, IdleTick DEF Types, Continues
<1>20. TickInv'
  BY <1>8, IdleTick DEF TickInv, AtRest, Working
<1>21. PhaseInv'
  BY <1>8, IdleTick DEF PhaseInv, WorksOn, Working
<1>22. HolderInv'
  <2>1. \A i \in DOMAIN outbox' : outbox'[i].id.kind = "session_create" =>
            i \in DOMAIN outbox /\ outbox'[i].id = outbox[i].id
    BY <1>4, <1>8 DEF Continues
  <2>2. BrowserHasHolder'
    BY <1>0 DEF HolderInv, BrowserHasHolder, HasBrowser
  <2>3. tick'.at # "answered"
    BY <1>8, IdleTick
  <2> QED  BY <1>0, <2>1, <2>2, <2>3 DEF HolderInv, HasBrowser
<1> QED  BY <1>18, <1>19, <1>20, <1>21, <1>22 DEF CoordInv

-----------------------------------------------------------------------------
(***************************************************************************)
(* The invariant holds of the coordinator, and what follows from it.       *)
(***************************************************************************)

LEMMA CoordInit == CInit => CoordInv
<1> SUFFICES ASSUME CInit PROVE CoordInv
  OBVIOUS
<1>1. PICK q : q = Admitted("auto_allowed")
  OBVIOUS
<1>2. RowInv(q) /\ q \in RunRecord
  BY <1>1, NewRunInv DEF PolicyResult, RowInv
<1>3. /\ q.evaluation = "auto_allowed" /\ q.lifecycle = "ready" /\ q.page = NoTodo /\ q.approval = "none"
  BY <1>1, NewRunInv DEF Admitted, NewRun
<1>4. CoordRow(q)
  BY <1>2, <1>3 DEF CoordRow, Sealed
<1>5. run = [r \in TestRuns |-> q] /\ \A r \in TestRuns : run[r] = q
  BY <1>1 DEF CInit
<1>6. /\ job = [r \in TestRuns |-> "queued"] /\ outbox = <<>> /\ lk = [r \in TestRuns |-> NoLease]
      /\ agentLink = [r \in TestRuns |-> FALSE] /\ tick = Idle /\ lease = NoLease
      /\ session = [r \in TestRuns |-> "none"]
      /\ agent = [p \in PageTasks |-> [status |-> "none", version |-> 0]]
  BY DEF CInit
<1>7. outbox \in Seq(Item) /\ DOMAIN outbox = {}
  BY <1>6
<1>8. Types
  <2>1. [status |-> "none", version |-> 0] \in [status : AgentStatus, version : Nat]
    BY DEF AgentStatus
  <2> QED  BY <1>2, <1>4, <1>5, <1>6, <1>7, <2>1, IdleTick DEF Types, JobState, Key
<1>9. TickInv
  BY <1>6, <1>7, IdleTick DEF TickInv, Quiet, AtRest, Working
<1>10. HolderInv
  BY <1>6, <1>7, IdleTick DEF HolderInv, BrowserHasHolder, HasBrowser
<1>11. PhaseInv
  BY <1>6, IdleTick DEF PhaseInv, WorksOn, Working
<1>12. Links
  BY <1>5, <1>3, <1>6, <1>7
  DEF Links, Unique, LeaseLinked, OrdersOK, AgentLinked, RevokesOK, LeasesNamed, ResumesKnown
<1> QED  BY <1>8, <1>9, <1>10, <1>11, <1>12 DEF CoordInv

LEMMA CoordSame == ASSUME CoordInv, UNCHANGED coord PROVE CoordInv'
<1>0. Types /\ tick' = tick /\ UNCHANGED <<run, db, world>>
  BY DEF CoordInv, coord
<1>1. QuietRows
  BY <1>0, QuietNoRow
<1> QED  BY <1>0, <1>1, UserRowsStep

LEMMA CoordStep == CoordInv /\ [CNext]_coord => CoordInv'
<1> SUFFICES ASSUME CoordInv, [CNext]_coord PROVE CoordInv'
  OBVIOUS
<1>1. ASSUME NEW complete \in BOOLEAN, Decide(complete) PROVE CoordInv'
  BY <1>1, OrphanedStep, CompletionStep, DispatchRefusedStep, ClaimStep DEF Decide
<1>2. CASE Prepare
  BY <1>2, ReconcilePageTaskStep, StaleTodoStep, NoSessionStep, TokenLostStep, DispatchStep,
     SessionCreateStep, SessionCloseStep, LeaseCreateStep, LeaseCreateRefusedStep, TickEndsStep,
     LeaseRefusedStep, MustWaitStep
  DEF Prepare, Take
<1>3. CASE Call
  BY <1>3, SessionOpensStep, LeaseIssuedStep, AgentCreatedStep, AgentCommandedStep, LeaseRevokedStep,
     SessionClosesStep, CleanupLeaseStep
  DEF Call
<1>4. CASE Answer
  <2>1. 3 \in 1 .. 3 /\ 4 \in 1 .. 4 /\ TRUE \in BOOLEAN
    OBVIOUS
  <2> QED  BY <1>4, <2>1, SessionAnsweredStep, LeaseAnsweredStep, AgentAnsweredStep, CloseAnsweredStep,
              LeaseTokenLostStep, RevalidationFailsStep, LeaseUnusedStep, LeaseDiscardedStep,
              RevalidationRevokesStep, CommandAnsweredStep, RevokeAnsweredStep, CleanupAnsweredStep
           DEF Answer
<1>5. CASE TornAnswer
  <2>1. {1, 2} \subseteq 1 .. 3 /\ {1, 2, 3} \subseteq 1 .. 4 /\ FALSE \in BOOLEAN
    OBVIOUS
  <2> QED  BY <1>5, <2>1, SessionAnsweredStep, LeaseAnsweredStep, AgentAnsweredStep, CloseAnsweredStep
           DEF TornAnswer
<1>6. CASE Reconcile
  BY <1>6, ReconcileAgentTaskStep DEF Reconcile
<1>7. CASE UserStep
  BY <1>7, UserActsStep, UserPausesStep, CloseBrowserStep DEF UserStep
<1>8. CASE CrashOrLoss
  BY <1>8, CrashStep, CallFailsStep, ReconcileFailsStep DEF CrashOrLoss
<1>9. CASE AgentEnding
  BY <1>9, AgentEndedStep DEF AgentEnding
<1>10. CASE LeaseExpires
  BY <1>10, LeaseExpiresStep
<1>11. CASE UNCHANGED coord
  BY <1>11, CoordSame
<1> QED  BY <1>1, <1>2, <1>3, <1>4, <1>5, <1>6, <1>7, <1>8, <1>9, <1>10, <1>11 DEF CNext

LEMMA CoordInvariant == CSpec => []CoordInv
<1> QED  BY CoordInit, CoordStep, PTL DEF CSpec

\* A crash leaves the item it was working on in the outbox as dispatching, and the
\* next tick makes it pending before it takes another; a tick takes one item, and
\* settles it or the answer to it before it ends.  So no two items are ever being
\* dispatched, but a lease and the revocation of that lease (takePending,
\* recoverDispatching and the handlers of the semantic coordinator).
THEOREM OneDispatchAtATime == CSpec => []OneDispatch
<1>1. CoordInv => OneDispatch
  BY DEF CoordInv, Types, Tick, TickInv, AtRest, Working, Quiet, Item0, OneDispatch
<1> QED  BY <1>1, CoordInvariant, PTL

\* A browser that is open is the browser of a job that is still claimed, or of one
\* the coordinator failed while it was opening, and only an open browser has a
\* lease: over lost calls, answers that are not written whole, and crashes.
THEOREM OpenBrowserHasHolder == CSpec => []BrowserHasHolder
<1>1. CoordInv => BrowserHasHolder
  BY DEF CoordInv, HolderInv
<1> QED  BY <1>1, CoordInvariant, PTL

\* What RunsAreSound says of the runs alone is true of the runs as the coordinator
\* drives them: each of its writes to a run is a step of SemanticRuns or a
\* sequence of them, and keeps the states of the TODOs in the order of the graph,
\* the question that is waited for, and the approval of what runs.
THEOREM CoordinatedRunsAreSound ==
    CSpec => [](RunsTypeOK /\ DependenciesRespected /\ NeedsAnswerHasDecision /\ RunningIsAuthorised)
<1>1. CoordInv => RunsInv
  BY DEF CoordInv, Types, RunsInv, CoordRow
<1>2. RunsInv => RunsTypeOK /\ DependenciesRespected /\ NeedsAnswerHasDecision /\ RunningIsAuthorised
  BY DEF RunsInv, RowInv, TodosInv, AuthorityInv, Ordered, Lost, Sealed, RunsTypeOK,
         DependenciesRespected, NeedsAnswerHasDecision, RunningIsAuthorised
<1> QED  BY <1>1, <1>2, CoordInvariant, PTL

\* Who makes an agent run
LEMMA AgentsMove ==
    ASSUME CNext, agent' # agent
    PROVE  AgentCreated \/ AgentCommanded \/ AgentEnding
<1>1. ASSUME NEW complete, Decide(complete) PROVE agent' = agent
  BY <1>1 DEF Decide, InterruptOrphanedPageTask, ApplyCompletion, DispatchRefused, ClaimBrowserJob, world
<1>2. ASSUME Prepare PROVE agent' = agent
  BY <1>2 DEF Prepare, Take, ReconcilePageTask, DispatchStaleTodo, DispatchNoSession, DispatchTokenLost,
     Dispatch, EnqueueSessionCreate, EnqueueSessionClose, EnqueueLeaseCreate, RefuseLeaseCreate, TickEnds,
     LeaseRefused, MustWait, world
<1>3. ASSUME Call PROVE agent' = agent \/ AgentCreated \/ AgentCommanded
  BY <1>3 DEF Call, SessionOpens, LeaseIssued, LeaseRevoked, SessionCloses, CleanupLease
<1>4. ASSUME Answer PROVE agent' = agent
  BY <1>4 DEF Answer, SessionAnswered, LeaseAnswered, AgentAnswered, CloseAnswered, LeaseTokenLost,
     LeaseRevalidationFails, LeaseUnused, LeaseDiscarded, RevalidationRevokes, CommandAnswered,
     RevokeAnswered, CleanupAnswered, world
<1>5. ASSUME TornAnswer PROVE agent' = agent
  BY <1>5 DEF TornAnswer, SessionAnswered, LeaseAnswered, AgentAnswered, CloseAnswered, world
<1>6. ASSUME Reconcile \/ UserStep \/ CrashOrLoss \/ LeaseExpires PROVE agent' = agent
  BY <1>6 DEF Reconcile, ReconcileAgentTask, UserStep, UserActs, UserPauses, CloseBrowser, CrashOrLoss,
     Crash, CallFails, ReconcileFails, LeaseExpires, world
<1> QED  BY <1>1, <1>2, <1>3, <1>4, <1>5, <1>6 DEF CNext

Starts(p) ==
    /\ p = Page(p[1]) /\ run[p[1]].page # NoTodo /\ lk[p[1]] \in secrets
    /\ ~run[p[1]].stale /\ run[p[1]].lifecycle \notin Sealed

LEMMA AgentStarts ==
    ASSUME CoordInv, CNext, NEW p \in PageTasks, agent[p].status = "none", agent'[p].status = "running"
    PROVE  Starts(p)
<1>0. Types /\ PhaseInv /\ Links /\ agent' # agent
  BY DEF CoordInv
<1>1. CASE AgentCreated
  <2>1. tick.at = "calling" /\ Item0.id.kind = "agent_create" /\ tick.item \in DOMAIN outbox
        /\ Item0.status \in Open
    BY <1>1, CallFacts DEF AgentCreated, Calling, Item0
  <2>2. /\ <<Item0.id.run, Item0.id.todo, Item0.id.n>> \in PageTasks /\ OrderInv(tick.item)
        /\ Item0.id.run \in TestRuns
    BY <1>0, <2>1, OrderPage, ItemTypes DEF Item0
  <2>3. p = <<Item0.id.run, Item0.id.todo, Item0.id.n>>
    <3>1. PICK o \in PageTasks : o = <<Item0.id.run, Item0.id.todo, Item0.id.n>>
      BY <2>2
    <3>2. \A x \in PageTasks \ {o} : agent'[x] = agent[x]
      BY <1>0, <1>1, <3>1 DEF AgentCreated, Item0, Types
    <3> QED  BY <3>1, <3>2
  <2>4. ~run[Item0.id.run].stale /\ run[Item0.id.run].lifecycle \notin Sealed
    BY <1>0, <2>1, <2>3 DEF PhaseInv, WorksOn, Working
  <2>5. IsPageOf(Item0.id, Item0.id.run) /\ lk[Item0.id.run] # NoLease
    BY <2>1, <2>2, <2>3, <2>4 DEF OrderInv, Item0
  <2>6. lk[Item0.id.run] \in secrets
    BY <1>0, <2>2, <2>5 DEF Links, LeaseLinked, IsPageOf
  <2> QED  BY <2>3, <2>4, <2>5, <2>6 DEF Starts, IsPageOf
<1>2. CASE AgentCommanded
  <2>1. tick.at = "calling" /\ Item0.id.kind \in Commanding /\ tick.item \in DOMAIN outbox
    BY <1>2, CallFacts DEF AgentCommanded, Calling, Item0
  <2>2. p = <<Item0.id.run, Item0.id.todo, Item0.id.n>> /\ Item0.id.kind = "agent_resume"
    <3>1. PICK o, to, v :
             /\ o = <<Item0.id.run, Item0.id.todo, Item0.id.n>>
             /\ agent' = [agent EXCEPT ![o] = [status |-> to, version |-> v]]
             /\ to = "running" => Item0.id.kind = "agent_resume"
      <4> DEFINE q == <<Item0.id.run, Item0.id.todo, Item0.id.n>>
                 st == CASE Item0.id.kind = "agent_pause" -> "paused"
                         [] Item0.id.kind = "agent_resume" -> "running"
                         [] Item0.id.kind = "agent_cancel" -> "cancelled"
      <4>1. agent' = [agent EXCEPT ![q] = [status |-> st, version |-> agent[q].version + 1]]
        BY <1>0, <1>2 DEF AgentCommanded, Item0
      <4>2. st = "running" => Item0.id.kind = "agent_resume"
        BY <2>1 DEF Commanding
      <4> HIDE DEF q, st
      <4> QED  BY <4>1, <4>2 DEF q
    <3>2. agent \in [PageTasks -> [status : AgentStatus, version : Nat]]
      BY <1>0 DEF Types
    <3>3. p = o
      BY <3>1, <3>2
    <3>4. agent'[p].status = to
      BY <3>1, <3>2, <3>3
    <3> QED  BY <3>1, <3>3, <3>4
  <2> QED  BY <1>0, <2>1, <2>2 DEF Links, ResumesKnown, AgentKnown, Item0
<1>3. CASE AgentEnding
  BY <1>0, <1>3, AgentAssumption DEF AgentEnding, AgentEnded, Types
<1> QED  BY <1>0, <1>1, <1>2, <1>3, AgentsMove

\* The step that creates an agent is one of a tick that is at work on an item for
\* the page task that is active, of a run that is neither sealed nor stale, with
\* a lease whose token the process still has: between the request of that lease
\* and the creation, users, failures, crashes and upgrades take their turns.
THEOREM AgentsStartAuthorised == CSpec => AgentsAreAuthorised
<1>1. CoordInv /\ [CNext]_coord
        => [\A p \in PageTasks : agent[p].status = "none" /\ agent'[p].status = "running"
              => /\ p = Page(p[1]) /\ run[p[1]].page # NoTodo /\ lk[p[1]] \in secrets
                 /\ ~run[p[1]].stale /\ run[p[1]].lifecycle \notin Sealed]_coord
  BY AgentStarts DEF Starts
<1> QED  BY <1>1, CoordInvariant, PTL DEF CSpec, AgentsAreAuthorised

-----------------------------------------------------------------------------
\* The tokens and the leases issued are of items of the outbox, and a tick that
\* rests has none.
StoresOK ==
    /\ attached \in [TestRuns -> BOOLEAN] /\ secrets \subseteq ItemId /\ issued \subseteq ItemId
    /\ tick.at \in AtRest => tick.item = 0

LEMMA StoresStep == ASSUME CoordInv, StoresOK, CNext PROVE StoresOK'
<1>0. Types /\ TickInv
  BY DEF CoordInv
<1>w. tick.at \in {"calling", "answered", "cleanup", "discarding"} => outbox[tick.item].id \in ItemId
  BY CallFacts, ItemTypes DEF CoordInv
<1>1. attached' \in [TestRuns -> BOOLEAN]
  <2>1. CASE attached' = attached
    BY <2>1 DEF StoresOK
  <2>2. CASE \E steps \in {1, 2, 3} : SessionAnswered(steps)
    <3>1. PICK steps \in {1, 2, 3} : SessionAnswered(steps)
      BY <2>2
    <3> DEFINE b == steps >= 2
    <3>2. b \in BOOLEAN
      OBVIOUS
    <3>3. attached' = attached \/ attached' = [attached EXCEPT ![outbox[tick.item].id.run] = b]
      BY <3>1 DEF SessionAnswered
    <3> QED  BY <3>2, <3>3 DEF StoresOK
  <2> QED  BY <2>1, <2>2
    DEF CNext, Decide, Prepare, Take, Call, Answer, TornAnswer, Reconcile, UserStep, CrashOrLoss, AgentEnding,
        InterruptOrphanedPageTask, ApplyCompletion, DispatchRefused, ClaimBrowserJob, ReconcilePageTask,
        DispatchStaleTodo, DispatchNoSession, DispatchTokenLost, Dispatch, EnqueueSessionCreate,
        EnqueueSessionClose, EnqueueLeaseCreate, RefuseLeaseCreate, TickEnds, LeaseRefused, MustWait,
        SessionOpens, LeaseIssued, AgentCreated, AgentCommanded, LeaseRevoked, SessionCloses, CleanupLease,
        LeaseAnswered, AgentAnswered, CloseAnswered, LeaseTokenLost, LeaseRevalidationFails, LeaseUnused,
        LeaseDiscarded, RevalidationRevokes, CommandAnswered, RevokeAnswered, CleanupAnswered,
        ReconcileAgentTask, UserActs, UserPauses, CloseBrowser, Crash, CallFails, ReconcileFails,
        AgentEnded, LeaseExpires, db
<1>2. secrets' \subseteq ItemId
  <2>1. CASE secrets' \subseteq secrets
    BY <2>1 DEF StoresOK
  <2>2. CASE /\ tick.at \in {"calling", "answered", "cleanup", "discarding"}
             /\ secrets' = secrets \cup {outbox[tick.item].id}
    BY <1>w, <2>2 DEF StoresOK
  <2> QED  BY <2>1, <2>2
    DEF CNext, Decide, Prepare, Take, Call, Answer, TornAnswer, Reconcile, UserStep, CrashOrLoss, AgentEnding,
        InterruptOrphanedPageTask, ApplyCompletion, DispatchRefused, ClaimBrowserJob, ReconcilePageTask,
        DispatchStaleTodo, DispatchNoSession, DispatchTokenLost, Dispatch, EnqueueSessionCreate,
        EnqueueSessionClose, EnqueueLeaseCreate, RefuseLeaseCreate, TickEnds, LeaseRefused, MustWait,
        SessionOpens, LeaseIssued, AgentCreated, AgentCommanded, LeaseRevoked, SessionCloses, CleanupLease,
        SessionAnswered, LeaseAnswered, AgentAnswered, CloseAnswered, LeaseTokenLost, LeaseRevalidationFails,
        LeaseUnused, LeaseDiscarded, RevalidationRevokes, CommandAnswered, RevokeAnswered, CleanupAnswered,
        ReconcileAgentTask, UserActs, UserPauses, CloseBrowser, Crash, CallFails, ReconcileFails,
        AgentEnded, LeaseExpires, db, LeaseToken, Answered
<1>3. issued' \subseteq ItemId
  <2>1. CASE issued' = issued
    BY <2>1 DEF StoresOK
  <2>2. CASE LeaseIssued \/ CleanupLease
    BY <1>w, <2>2 DEF LeaseIssued, CleanupLease, Calling, StoresOK
  <2> QED  BY <2>1, <2>2
    DEF CNext, Decide, Prepare, Take, Call, Answer, TornAnswer, Reconcile, UserStep, CrashOrLoss, AgentEnding,
        InterruptOrphanedPageTask, ApplyCompletion, DispatchRefused, ClaimBrowserJob, ReconcilePageTask,
        DispatchStaleTodo, DispatchNoSession, DispatchTokenLost, Dispatch, EnqueueSessionCreate,
        EnqueueSessionClose, EnqueueLeaseCreate, RefuseLeaseCreate, TickEnds, LeaseRefused, MustWait,
        SessionOpens, AgentCreated, AgentCommanded, LeaseRevoked, SessionCloses,
        SessionAnswered, LeaseAnswered, AgentAnswered, CloseAnswered, LeaseTokenLost, LeaseRevalidationFails,
        LeaseUnused, LeaseDiscarded, RevalidationRevokes, CommandAnswered, RevokeAnswered, CleanupAnswered,
        ReconcileAgentTask, UserActs, UserPauses, CloseBrowser, Crash, CallFails, ReconcileFails,
        AgentEnded, LeaseExpires, world
<1>4. tick'.at \in AtRest => tick'.item = 0
  <2>0. tick \in Tick
    BY <1>0 DEF Types
  <2>1. CASE tick' = Idle \/ tick' = tick
    BY <2>1, IdleTick DEF StoresOK
  <2>2. CASE \E r \in TestRuns : ReconcilePageTask(r)
    BY <2>2 DEF ReconcilePageTask, Idle
  <2>3. CASE \E r \in TestRuns : ReconcileAgentTask(r)
    <3>1. tick.at = "reconciling" /\ tick.item = 0
      BY <2>3 DEF ReconcileAgentTask, StoresOK, AtRest
    <3>2. PICK seen : \/ tick' = [tick EXCEPT !.at = "capturing", !.seen = seen]
                      \/ tick' = [Idle EXCEPT !.at = "claiming"]
                      \/ tick' = Idle
      BY <2>3 DEF ReconcileAgentTask
    <3>3. [tick EXCEPT !.at = "capturing", !.seen = seen].item = tick.item
      BY <2>0 DEF Tick
    <3>4. [Idle EXCEPT !.at = "claiming"].item = 0 /\ Idle.item = 0
      BY DEF Idle
    <3> QED  BY <3>1, <3>2, <3>3, <3>4
  <2>4. CASE tick'.at \in Working
    BY <2>4 DEF Working, AtRest
  <2> QED  BY <2>0, <2>1, <2>2, <2>3, <2>4
    DEF CNext, Decide, Prepare, Take, Call, Answer, TornAnswer, Reconcile, UserStep, CrashOrLoss, AgentEnding,
        InterruptOrphanedPageTask, ApplyCompletion, DispatchRefused, ClaimBrowserJob, Refuse, Ends,
        DispatchStaleTodo, DispatchNoSession, DispatchTokenLost, Dispatch, EnqueueSessionCreate,
        EnqueueSessionClose, EnqueueLeaseCreate, RefuseLeaseCreate, TickEnds, LeaseRefused, MustWait,
        SessionOpens, LeaseIssued, AgentCreated, AgentCommanded, LeaseRevoked, SessionCloses, CleanupLease,
        SessionAnswered, LeaseAnswered, AgentAnswered, CloseAnswered, LeaseTokenLost, LeaseRevalidationFails,
        LeaseUnused, LeaseDiscarded, RevalidationRevokes, CommandAnswered, RevokeAnswered, CleanupAnswered,
        UserActs, UserPauses, CloseBrowser, Crash, CallFails, ReconcileFails, AgentEnded, LeaseExpires,
        FailRetryable, FailTerminal, Answers, Working, Tick, Idle
<1> QED  BY <1>1, <1>2, <1>3, <1>4 DEF StoresOK

\* The rows of the coordinator, its tick and what the other services have for it
\* keep to their types, whatever is lost, torn or repeated: in particular each token
\* and each lease is one that an item of the outbox asked for, and a tick is at work
\* on an item exactly when it has one.
THEOREM CoordTypesCorrect == CSpec => []CoordTypeOK
<1>1. CInit => StoresOK
  BY DEF CInit, StoresOK, Idle
<1>2. CoordInv /\ StoresOK /\ [CNext]_coord => StoresOK'
  <2>1. ASSUME StoresOK, UNCHANGED coord PROVE StoresOK'
    BY <2>1 DEF coord, db, world, StoresOK
  <2> QED  BY <2>1, StoresStep
<1>3. CoordInv /\ StoresOK => CoordTypeOK
  <2> SUFFICES ASSUME CoordInv, StoresOK PROVE CoordTypeOK
    OBVIOUS
  <2>1. Types /\ TickInv
    BY DEF CoordInv
  <2>2. \A i \in DOMAIN outbox : outbox[i].id \in ItemId /\ outbox[i].status \in ItemStatus
    BY <2>1, ItemTypes DEF CoordInv, Item
  <2>3. \A p \in PageTasks : agent[p].status \in AgentStatus /\ agent[p].version \in Nat
    BY <2>1 DEF Types
  <2>4. tick.item = 0 <=> tick.at \in {"idle", "reconciling", "capturing", "claiming"}
    <3>1. tick.at \in AtRest \cup Working
      BY <2>1 DEF Types, Tick
    <3>2. tick.at \in Working => tick.item # 0
      BY <2>1 DEF TickInv, Types
    <3> QED  BY <3>1, <3>2 DEF StoresOK, AtRest
  <2> QED  BY <2>1, <2>2, <2>3, <2>4 DEF CoordTypeOK, StoresOK, Types, RunsTypeOK, Key
<1> QED  BY <1>1, <1>2, <1>3, CoordInvariant, PTL DEF CSpec

=============================================================================
