----------------------------- MODULE AuthoringJobs -----------------------------
(***************************************************************************)
(* Authoring jobs (services/ai-e2e) from their creation to their end:       *)
(* SemanticAuthoringService, the authoring part of                          *)
(* SemanticWorkflowRepository, and what SemanticCoordinatorService does for *)
(* them.  A job gets the browser, an agent works on its first task and may  *)
(* propose an amendment; the user decides on it, and a second task verifies *)
(* it in the browser, for which the job queues again.                       *)
(*                                                                         *)
(* The text of a tick between two awaits is one action; users send          *)
(* commands at the awaits, calls may fail, and the process may die at an    *)
(* await or between two transactions.  Amendments gives the life of an      *)
(* amendment in full, SemanticCoordinator what becomes of a lease whose     *)
(* token is lost: here an amendment has a state, and a repeated call the    *)
(* answer of the first.                                                     *)
(***************************************************************************)
EXTENDS Naturals, Sequences, FiniteSets, FiniteSetsExt

CONSTANTS Jobs, NoJob,
          Amendments,   \* numbers, in the order of creation
          JobOf,        \* the job of an amendment
          VersionOf,    \* the business version of a job
          Results,      \* what the output of a completed agent task may be
          AgentEnds,    \* the final states an agent reaches by itself
          MaxEvents,    \* bound: pauses, cancellations, resumptions, rejections,
                        \* withdrawals, deaths, and calls that fail, together
          MaxSeq        \* bound: browser jobs that are queued

ASSUME NumberAssumption == Amendments \subseteq Nat \ {0}
ASSUME JobAssumption ==
    /\ JobOf \in [Amendments -> Jobs] /\ Jobs \cap Amendments = {} /\ NoJob \notin Jobs \cup Amendments
    /\ Results \subseteq {"candidate_ready", "no_change", "blocked"}
    /\ MaxEvents \in Nat /\ MaxSeq \in Nat

VARIABLES job,        \* lifecycle of each job
          task,       \* state of its authoring task and of each verification
          am,         \* state of each amendment
          withdrawn,  \* amendments whose authorization is gone
          browser,    \* browser job: its state, queue_seq and session
          outbox,     \* integration_outbox in the order of creation
          leaseLink,  \* tasks with a linked browser lease
          agentLink,  \* tasks with a linked agent task
          tick,       \* where the current tick waits
          count,      \* the events, what broke off in the middle, and the last queue_seq
          session,    \* proxy: the sessions, by the queue_seq they were made for
          lease,      \* proxy: the active control lease
          agent       \* ai-chat: the agent of each task

rows  == <<job, task, am, withdrawn>>
links == <<leaseLink, agentLink>>
world == <<session, lease, agent>>
vars  == <<rows, browser, outbox, links, tick, count, world>>

Tasks     == Jobs \cup Amendments
Lifecycle == {"none", "created", "running", "paused", "waiting_decision", "completed",
              "cancelling", "cancelled", "failed"}
Ended     == {"completed", "cancelled", "failed"}
TaskState == {"none", "ready", "running", "succeeded", "failed", "cancelled", "blocked"}
AmState   == {"none", "waiting_decision", "candidate_ready", "verifying", "activated", "closed"}
Holding   == {"acquiring", "active", "releasing"}
GivenBack == {"completed", "cancelled", "failed"}
Kind      == {"session_create", "lease_create", "agent_create", "agent_pause", "agent_resume",
              "agent_cancel", "close", "close_lease", "policy_revoke"}
Commanding == {"agent_pause", "agent_resume", "agent_cancel"}
Closing    == {"close", "close_lease"}
AtOnce     == {"pending", "recovered"}
Unsettled  == AtOnce \cup {"dispatching", "retryable_failed"}
TERMINAL_AGENT_STATES == {"completed", "failed", "interrupted", "cancelled", "blocked"}

ASSUME AgentAssumption == AgentEnds \subseteq TERMINAL_AGENT_STATES

Of(t) == IF t \in Jobs THEN t ELSE JobOf[t]
AmendmentsOf(j) == {a \in Amendments : JobOf[a] = j}
TasksOf(j) == {j} \cup AmendmentsOf(j)

\* Fault: only the verifications are looked at.
VerificationRuns(j) == \E t \in AmendmentsOf(j) : task[t] = "running"

HasRunningTask(j) == \E t \in TasksOf(j) : task[t] = "running"
Verifying(j) == {a \in AmendmentsOf(j) : am[a] = "verifying"}

Id(kind, t, n) == [kind |-> kind, of |-> t, n |-> n]
NoLease == [of |-> NoJob, in |-> 0]
Idle    == [at |-> "idle", item |-> 0, of |-> NoJob, lifecycle |-> "none", seen |-> "none"]

Init ==
    /\ job = [j \in Jobs |-> "none"] /\ task = [t \in Tasks |-> "none"]
    /\ am = [a \in Amendments |-> "none"] /\ withdrawn = {}
    /\ browser = [j \in Jobs |-> [state |-> "none", seq |-> 0, at |-> 0]]
    /\ outbox = <<>> /\ leaseLink = {} /\ agentLink = {} /\ tick = Idle
    /\ count = [events |-> 0, breaks |-> 0, seq |-> 0]
    /\ session = [n \in 1 .. MaxSeq |-> "none"] /\ lease = NoLease
    /\ agent = [t \in Tasks |-> [status |-> "none", version |-> 0]]

-----------------------------------------------------------------------------
\* The operators the actions are built from.

\* enqueueOutbox: an item that exists is left as it is, whatever its status.
Enqueue(q, id) ==
    IF \E i \in DOMAIN q : q[i].id = id THEN q
    ELSE Append(q, [id |-> id, status |-> "pending", done |-> FALSE])

Settled(q, i, status) == [q EXCEPT ![i].status = status]

\* recoverDispatchingOutbox: retryable_failed, and due at once
Recovered(q) == [i \in DOMAIN q |->
    IF q[i].status = "dispatching" THEN [q[i] EXCEPT !.status = "recovered"] ELSE q[i]]

\* A place in the queue of the browser.
QueuedAt(j, n) == [state |-> "queued", seq |-> n, at |-> 0]

\* One of the events that are bounded.
Event == count.events < MaxEvents /\ count' = [count EXCEPT !.events = @ + 1]
Break ==
    count.events < MaxEvents /\ count' = [count EXCEPT !.events = @ + 1, !.breaks = @ + 1]

\* The tick ends after all of its transactions, or the process dies after some.
EndsOr(complete, q, cut) ==
    /\ tick' = Idle
    /\ outbox' = IF complete THEN q ELSE Recovered(cut)
    /\ IF complete THEN UNCHANGED count ELSE Break
Ends(complete, q) == EndsOr(complete, q, outbox)

\* getAuthoringTask: the task of that state that was created first, when the
\* job is active and has its session.
Found(j, state) ==
    LET found == {t \in TasksOf(j) : task[t] = state}
    IN  IF browser[j].state # "active" \/ browser[j].at = 0 \/ found = {} THEN {}
        ELSE IF j \in found THEN {j} ELSE {Min(found)}

\* Fault: a job that is being cancelled keeps its authorization.
AlwaysAuthorised(a) == a \notin withdrawn

\* requireAuthoringAuthorization
AmendmentAuthorised(a) == a \notin withdrawn /\ job[JobOf[a]] \notin Ended \cup {"cancelling"}

\* assertAuthoringExecutionAllowed: `bound` has the amendment that is named,
\* otherwise it is the last one that is being verified.
ExecutionAllowed(j, bound, allowPaused) ==
    LET last == IF Verifying(j) = {} THEN {} ELSE {Max(Verifying(j))}
    IN  /\ job[j] \notin Ended \cup {"cancelling", "waiting_decision", "none"}
        /\ allowPaused \/ job[j] # "paused"
        /\ \A a \in (IF bound = {} THEN last ELSE bound) :
              am[a] = "verifying" /\ AmendmentAuthorised(a)

\* Fault: the authorization is asked for when an intent is recorded.
AuthorisedBefore(id) == TRUE

\* assertOutboxAuthorization
Authorised(id) ==
    LET j == Of(id.of)
        agents == id.kind \in {"agent_create", "agent_resume"}
        found == Found(j, IF agents THEN "running" ELSE "ready")
        bound == IF agents /\ id.of \in Amendments THEN {id.of} ELSE found \cap Amendments
    IN  id.kind \in {"session_create", "lease_create", "agent_create", "agent_resume"}
        => ExecutionAllowed(j, bound, FALSE) /\ (agents => found = {id.of})

\* desiredAgentCommand
DesiredAgentCommand(lifecycle, status) ==
    CASE lifecycle = "cancelling" /\ status \notin TERMINAL_AGENT_STATES -> "agent_cancel"
      [] lifecycle = "paused" /\ status = "running" -> "agent_pause"
      [] lifecycle = "running" /\ status = "paused" -> "agent_resume"
      [] OTHER -> "none"

\* enqueueAuthoringSessionClose
CloseWithLease(q, t) ==
    IF t \in leaseLink THEN Enqueue(q, Id("close_lease", t, browser[Of(t)].at)) ELSE q

\* hasPendingPolicyLeaseRevocation
RevocationPending(q, j) ==
    \E i \in DOMAIN q : /\ q[i].id.kind = "policy_revoke" /\ Of(q[i].id.of) = j
                        /\ q[i].status \in Unsettled

\* failUnstartedAuthoringAuthorization; `asked` has the amendment whose
\* verification was to be scheduled.
FailUnstarted(j, asked, q) ==
    LET ready == {a \in AmendmentsOf(j) : task[a] = "ready"}
        first == IF ready = {} THEN {} ELSE {Min(ready)}
        fails == job[j] \notin Ended \cup {"cancelling"}
        over  == IF ~fails THEN {} ELSE IF first # {} THEN first ELSE asked
        b     == browser[j]
        close == ~RevocationPending(q, j) /\ b.at # 0
    IN  /\ job' = [job EXCEPT ![j] = IF fails THEN "failed" ELSE @]
        /\ am' = [a \in Amendments |-> IF a \in over /\ am[a] # "activated" THEN "closed" ELSE am[a]]
        /\ task' = [t \in Tasks |-> IF fails /\ t \in first THEN "blocked" ELSE task[t]]
        /\ outbox' = IF close THEN Enqueue(q, Id("close", j, b.at)) ELSE q
        /\ browser' = [browser EXCEPT ![j].state =
               IF close \/ RevocationPending(q, j) THEN @
               ELSE IF @ = "queued" THEN "cancelled" ELSE IF @ = "acquiring" THEN "failed" ELSE @]

\* getVerificationAmendmentToSchedule
ToSchedule ==
    {a \in Amendments :
        LET j == JobOf[a] IN
        /\ am[a] = "verifying" /\ job[j] \notin Ended /\ ~HasRunningTask(j)
        /\ \/ task[a] = "none" \/ job[j] \in {"paused", "waiting_decision"}
           \/ browser[j].state \in GivenBack}
IsFirst(a) == a \in ToSchedule /\ \A b \in ToSchedule : a <= b

-----------------------------------------------------------------------------
\* Users.

\* createJob: the job, its browser job and its first task; one job that is not
\* over per version (uq_authoring_job_single_writer).
CreateJob(j) ==
    /\ job[j] = "none" /\ count.seq < MaxSeq
    /\ \A k \in Jobs : VersionOf[k] = VersionOf[j] => job[k] \in Ended \cup {"none"}
    /\ job' = [job EXCEPT ![j] = "created"]
    /\ task' = [task EXCEPT ![j] = "ready"]
    /\ count' = [count EXCEPT !.seq = @ + 1]
    /\ browser' = [browser EXCEPT ![j] = QueuedAt(j, count.seq + 1)]
    /\ UNCHANGED <<am, withdrawn, outbox, links, tick, world>>

\* commandJob: accepted and applied under one state version.
Command(j, from, to) ==
    /\ job[j] \in from
    /\ job' = [job EXCEPT ![j] = to]
    /\ UNCHANGED <<task, am, withdrawn, browser, outbox, links, tick, world>>

Pause(j) ==
    Event /\ Command(j, {"created", "running", "waiting_decision"}, "paused")
Resume(j) ==
    Event /\ ExecutionAllowed(j, {}, TRUE) /\ Command(j, {"paused"}, "running")
Cancel(j) ==
    Event /\ Command(j, {"created", "running", "paused", "waiting_decision"}, "cancelling")

\* The user decides on an amendment.
SetAmendment(a, from, to) ==
    /\ am[a] \in from
    /\ am' = [am EXCEPT ![a] = to]
    /\ UNCHANGED <<job, task, withdrawn, browser, outbox, links, tick, world>>

Approve(a) == SetAmendment(a, {"waiting_decision"}, "candidate_ready") /\ UNCHANGED count
Apply(a) ==
    /\ AmendmentAuthorised(a) /\ SetAmendment(a, {"candidate_ready"}, "verifying")
    /\ UNCHANGED count
Reject(a) ==
    Event /\ SetAmendment(a, {"waiting_decision", "candidate_ready", "verifying"}, "closed")

\* The grant of an amendment is revoked, or what it was given for changes.
Withdraw(a) ==
    /\ Event /\ am[a] \notin {"none", "activated", "closed"} /\ a \notin withdrawn
    /\ withdrawn' = withdrawn \cup {a}
    /\ UNCHANGED <<job, task, am, browser, outbox, links, tick, world>>

-----------------------------------------------------------------------------
\* A tick schedules a verification before it does anything else.

\* ensureAuthoringVerification: the task, then the job and its place in the
\* queue.
ScheduleVerification(a, complete) ==
    LET j == JobOf[a]
        again == complete /\ browser[j].state \in GivenBack
    IN  /\ tick = Idle /\ IsFirst(a) /\ AmendmentAuthorised(a)
        /\ again => count.seq < MaxSeq
        /\ task' = [task EXCEPT ![a] = IF @ = "none" THEN "ready" ELSE @]
        /\ job' = [job EXCEPT ![j] = IF complete THEN "running" ELSE @]
        /\ browser' = IF again
                      THEN [browser EXCEPT ![j] = QueuedAt(j, count.seq + 1)]
                      ELSE browser
        /\ IF complete THEN count' = [count EXCEPT !.seq = IF again THEN @ + 1 ELSE @] ELSE Break
        /\ tick' = Idle /\ outbox' = IF complete THEN outbox ELSE Recovered(outbox)
        /\ UNCHANGED <<am, withdrawn, links, world>>

ScheduleRefused(a) ==
    /\ tick = Idle /\ IsFirst(a) /\ ~AmendmentAuthorised(a)
    /\ FailUnstarted(JobOf[a], {a}, outbox)
    /\ UNCHANGED <<withdrawn, links, tick, count, world>>

\* Nothing to schedule: the tick looks at the services (preflight,
\* reconcileBrowserSessionEvents).
Begin ==
    /\ tick = Idle /\ ToSchedule = {}
    /\ tick' = [Idle EXCEPT !.at = "begun"]
    /\ UNCHANGED <<rows, browser, outbox, links, count, world>>

-----------------------------------------------------------------------------
\* reconcileAuthoringTask of the task that runs.

Running(t) == tick.at = "begun" /\ Found(Of(t), "running") = {t}

\* Neither an agent nor a lease: its dispatch was interrupted.
InterruptTask(t, complete) ==
    /\ Running(t) /\ t \notin agentLink \cup leaseLink
    /\ task' = [task EXCEPT ![t] = "blocked"]
    /\ job' = [job EXCEPT ![Of(t)] = IF complete THEN "failed" ELSE @]
    /\ Ends(complete, outbox)
    /\ UNCHANGED <<am, withdrawn, browser, links, world>>

\* The agent is asked; the lifecycle of the job was read before.
AskAgent(t) ==
    /\ Running(t) /\ t \in agentLink
    /\ tick' = [tick EXCEPT !.at = "reconciling", !.of = t, !.lifecycle = job[Of(t)]]
    /\ UNCHANGED <<rows, browser, outbox, links, count, world>>

Reconciling(seen) == tick.at = "reconciling" /\ agent[tick.of].status \in seen

\* It works on: a command may follow from what was read.
AgentWorks ==
    LET a == agent[tick.of]
        command == DesiredAgentCommand(tick.lifecycle, a.status)
    IN  /\ Reconciling({"running", "paused"})
        /\ outbox' = IF command = "none" THEN outbox ELSE Enqueue(outbox, Id(command, tick.of, a.version))
        /\ tick' = IF outbox' = outbox THEN [Idle EXCEPT !.at = "claiming"] ELSE Idle
        /\ UNCHANGED <<rows, browser, links, count, world>>

\* It ended in a job that was being cancelled, or was cancelled:
\* completeAuthoringAttempt, settleAuthoringCancellation, which refuses any
\* job that is not being cancelled, and the closing of the browser.
EndsInCancellation == tick.lifecycle = "cancelling" \/ agent[tick.of].status = "cancelled"

TaskCancelled(steps) ==
    LET t == tick.of  j == Of(t)  refused == job[j] # "cancelling"
    IN  /\ Reconciling(TERMINAL_AGENT_STATES) /\ EndsInCancellation
        /\ task' = [task EXCEPT ![t] = "cancelled"]
        /\ job' = [job EXCEPT ![j] = IF steps >= 2 /\ ~refused THEN "cancelled" ELSE @]
        /\ Ends(steps = 3, IF refused THEN outbox ELSE CloseWithLease(outbox, t))
        /\ UNCHANGED <<am, withdrawn, browser, links, world>>

\* Otherwise its evidence is captured, call by call.
CaptureEvidence ==
    /\ Reconciling(TERMINAL_AGENT_STATES) /\ ~EndsInCancellation
    /\ tick' = [tick EXCEPT !.at = "capturing", !.seen = agent[tick.of].status]
    /\ UNCHANGED <<rows, browser, outbox, links, count, world>>

\* completeAuthoringAttempt, settleAuthoringJob, which asks for no transition
\* table, and the closing of the browser.
Apply3(t, state, lifecycle, steps) ==
    /\ task' = [task EXCEPT ![t] = state]
    /\ job' = [job EXCEPT ![Of(t)] = IF steps >= 2 THEN lifecycle ELSE @]
    /\ Ends(steps = 3, CloseWithLease(outbox, t))
    /\ UNCHANGED <<withdrawn, browser, links, world>>

\* applyAgentOutput of the first task: an amendment, which may need decisions,
\* no change, a task that is blocked, or an output that is refused.
Propose(a, state, steps) ==
    /\ tick.at = "capturing" /\ tick.of = JobOf[a] /\ tick.seen = "completed"
    /\ "candidate_ready" \in Results
    /\ am[a] = "none" /\ \A b \in AmendmentsOf(JobOf[a]) : b < a => am[b] # "none"
    /\ am' = [am EXCEPT ![a] = state]
    /\ Apply3(tick.of, "succeeded",
              IF state = "waiting_decision" THEN "waiting_decision" ELSE "paused", steps)
TaskApplied(result, steps) ==
    /\ tick.at = "capturing" /\ tick.of \in Jobs
    /\ result \in IF tick.seen = "completed" THEN Results \ {"candidate_ready"} ELSE {"invalid"}
    /\ CASE result = "no_change" -> Apply3(tick.of, "succeeded", "completed", steps)
         [] result = "blocked"   -> Apply3(tick.of, "blocked", "failed", steps)
         [] result = "invalid"   -> Apply3(tick.of, "failed", "failed", steps)
    /\ UNCHANGED am

\* applyVerificationOutput: the amendment is activated, or it fails, or what
\* it needs is gone and it stays as it is.
VerificationApplied(ok, steps) ==
    LET a == tick.of
        good == am[a] = "verifying" /\ AmendmentAuthorised(a)
    IN  /\ tick.at = "capturing" /\ a \in Amendments
        /\ ok => tick.seen = "completed" /\ good
        /\ am' = [am EXCEPT ![a] = IF ok THEN "activated"
                                   ELSE IF good \/ tick.seen # "completed" THEN "closed" ELSE @]
        /\ IF ok THEN Apply3(a, "succeeded", "completed", steps)
                 ELSE Apply3(a, "failed", "failed", steps)

-----------------------------------------------------------------------------
\* The outbox.

\* No task to reconcile, or nothing came of it.
Claims ==
    \/ tick.at = "claiming"
    \/ tick.at = "begun" /\ \A t \in Tasks : Running(t) => t \in leaseLink \ agentLink

\* claimNextOutbox
Due(i) ==
    /\ Claims /\ i \in DOMAIN outbox
    /\ outbox[i].status \in AtOnce \cup {"retryable_failed"}
    /\ \A k \in 1 .. i - 1 : outbox[k].status \notin AtOnce
NothingDue == Claims /\ \A i \in DOMAIN outbox : outbox[i].status \notin AtOnce

\* settlePolicyDispatchFailure, then the item is cancelled.
Refuse(i, complete) ==
    LET id == outbox[i].id  j == Of(id.of)  q == Settled(outbox, i, "cancelled")
    IN  CASE id.kind \in {"session_create", "lease_create"} /\ browser[j].state \in Holding ->
               FailUnstarted(j, {}, q) /\ complete /\ tick' = Idle /\ UNCHANGED count
          [] id.kind = "agent_create" /\ Found(j, "running") = {id.of} ->
               /\ task' = [task EXCEPT ![id.of] = "blocked"]
               /\ am' = [a \in Amendments |-> IF complete /\ a = id.of /\ am[a] # "activated"
                                              THEN "closed" ELSE am[a]]
               /\ job' = [job EXCEPT ![j] = IF complete THEN "failed" ELSE @]
               /\ Ends(complete, CloseWithLease(q, id.of)) /\ UNCHANGED browser
          [] id.kind = "agent_resume" /\ Found(j, "running") # {} ->
               /\ job' = [job EXCEPT ![j] = IF @ = "running" THEN "paused" ELSE @]
               /\ Ends(complete, q) /\ UNCHANGED <<task, am, browser>>
          [] OTHER -> complete /\ Ends(TRUE, q) /\ UNCHANGED <<job, task, am, browser>>

DispatchRefused(i, complete) ==
    /\ Due(i) /\ ~Authorised(outbox[i].id)
    /\ Refuse(i, complete)
    /\ UNCHANGED <<withdrawn, links, world>>

\* createAuthoringBrowserLease: the task is not the one to execute any more.
DispatchStale(i) ==
    LET id == outbox[i].id IN
    /\ Due(i) /\ Authorised(id)
    /\ id.kind = "lease_create" /\ Found(Of(id.of), "ready") # {id.of}
    /\ outbox' = Settled(outbox, i, "cancelled") /\ tick' = Idle
    /\ UNCHANGED <<rows, browser, links, count, world>>

Dispatch(i) ==
    LET id == outbox[i].id IN
    /\ Due(i) /\ Authorised(id)
    /\ id.kind = "lease_create" => Found(Of(id.of), "ready") = {id.of}
    /\ outbox' = Settled(outbox, i, "dispatching")
    /\ tick' = [Idle EXCEPT !.at = "calling", !.item = i]
    /\ UNCHANGED <<rows, browser, links, count, world>>

\* handleDispatchFailure
FailRetryable(i) ==
    /\ outbox' = Settled(outbox, i, "retryable_failed") /\ tick' = Idle
    /\ UNCHANGED <<job, task, am, browser>>
FailTerminal(i) ==
    LET id == outbox[i].id  j == Of(id.of)  q == Settled(outbox, i, "terminal_failed")
    IN  /\ tick' = Idle
        /\ IF id.kind = "lease_create" /\ browser[j].state \in Holding
           THEN FailUnstarted(j, {}, q)
           ELSE /\ outbox' = q
                /\ browser' = [browser EXCEPT ![j].state =
                       IF id.kind = "session_create" /\ @ = "acquiring" THEN "failed" ELSE @]
                /\ UNCHANGED <<job, task, am>>

-----------------------------------------------------------------------------
\* The call of the other service: its effect, then its answer.

Item == outbox[tick.item]
Calling(kinds)  == tick.at = "calling" /\ Item.id.kind \in kinds
Answered(kinds) == tick.at = "answered" /\ Item.id.kind \in kinds
Answers == tick' = [tick EXCEPT !.at = "answered"]

\* createSession: one session at a time
SessionOpens ==
    LET n == Item.id.n IN
    /\ Calling({"session_create"})
    /\ session[n] = "none" => \A k \in DOMAIN session : session[k] # "active"
    /\ session' = [session EXCEPT ![n] = IF @ = "none" THEN "active" ELSE @]
    /\ Answers /\ UNCHANGED <<rows, browser, outbox, links, count, lease, agent>>

\* createLease: one control lease at a time
LeaseFor(t) == [of |-> t, in |-> browser[Of(t)].at]
LeaseIssued ==
    LET t == Item.id.of IN
    /\ Calling({"lease_create"}) /\ Authorised(Item.id)
    /\ lease \in {NoLease, LeaseFor(t)} /\ session[browser[Of(t)].at] = "active"
    /\ lease' = LeaseFor(t)
    /\ Answers /\ UNCHANGED <<rows, browser, outbox, links, count, session, agent>>

\* The second assertOutboxAuthorization of createAuthoringBrowserLease.
LeaseRefused(complete) ==
    /\ Calling({"lease_create"}) /\ ~Authorised(Item.id)
    /\ Refuse(tick.item, complete)
    /\ UNCHANGED <<withdrawn, links, world>>

AgentCreated ==
    LET t == Item.id.of IN
    /\ Calling({"agent_create"})
    /\ agent' = [agent EXCEPT ![t] = IF @.status # "none" THEN @
                                     ELSE [status |-> "running", version |-> 1]]
    /\ Answers /\ UNCHANGED <<rows, browser, outbox, links, count, session, lease>>

\* commandTask: carried out once per command; a stale version is a conflict.
AgentCommanded ==
    LET id == Item.id
        to == CASE id.kind = "agent_pause" -> "paused" [] id.kind = "agent_resume" -> "running"
                [] id.kind = "agent_cancel" -> "cancelled"
    IN  /\ Calling(Commanding)
        /\ IF Item.done \/ agent[id.of].version = id.n
           THEN /\ Answers /\ UNCHANGED <<job, task, am, browser>>
                /\ outbox' = [outbox EXCEPT ![tick.item].done = TRUE]
                /\ agent' = IF Item.done THEN agent
                            ELSE [agent EXCEPT ![id.of] = [status |-> to, version |-> @.version + 1]]
           ELSE FailTerminal(tick.item) /\ UNCHANGED agent
        /\ UNCHANGED <<withdrawn, links, count, session, lease>>

\* closeBrowserSession: the lease that is held must be the one of the item; a
\* lease for the closing alone is taken when there is none.
OwnLease == lease = NoLease \/ (Item.id.kind = "close_lease" /\ lease.of = Item.id.of)
SessionCloses ==
    LET n == Item.id.n IN
    /\ Calling(Closing)
    /\ session[n] = "active" => OwnLease
    /\ session' = [session EXCEPT ![n] = "closed"]
    /\ lease' = IF session[n] = "active" THEN NoLease ELSE lease
    /\ Answers /\ UNCHANGED <<rows, browser, outbox, links, count, agent>>

LeaseRevoked ==
    /\ Calling({"policy_revoke"})
    /\ lease' = IF lease.of = Item.id.of THEN NoLease ELSE lease
    /\ Answers /\ UNCHANGED <<rows, browser, outbox, links, count, session, agent>>

\* What cannot be had for the moment is asked for again later.
MustWait ==
    LET id == Item.id IN
    /\ \/ Calling({"session_create"}) /\ session[id.n] = "none"
          /\ \E k \in DOMAIN session : session[k] = "active"
       \/ Calling({"lease_create"}) /\ Authorised(id)
          /\ \/ lease \notin {NoLease, LeaseFor(id.of)}
             \/ session[browser[Of(id.of)].at] # "active"
       \/ Calling(Closing) /\ session[id.n] = "active" /\ ~OwnLease
    /\ FailRetryable(tick.item)
    /\ UNCHANGED <<withdrawn, links, count, world>>

\* The other service cannot be reached, or its answer is lost; after the
\* eighth time the coordinator gives up.
CallFails ==
    /\ tick.at \in {"calling", "answered", "reconciling"}
    /\ Break
    /\ IF tick.at = "reconciling"
       THEN tick' = Idle /\ UNCHANGED <<job, task, am, browser, outbox>>
       ELSE FailRetryable(tick.item) \/ FailTerminal(tick.item)
    /\ UNCHANGED <<withdrawn, links, world>>

-----------------------------------------------------------------------------
\* What the coordinator makes of the answers.

\* createBrowserSession
SessionAnswered(complete) ==
    LET j == Item.id.of IN
    /\ Answered({"session_create"})
    /\ IF browser[j].state = "acquiring" /\ browser[j].seq = Item.id.n
       THEN /\ browser' = [browser EXCEPT ![j].state = "active", ![j].at = Item.id.n]
            /\ Ends(complete, Settled(outbox, tick.item, "confirmed"))
            /\ UNCHANGED <<job, task, am>>
       ELSE complete /\ FailTerminal(tick.item) /\ UNCHANGED count
    /\ UNCHANGED <<withdrawn, links, world>>

\* createAuthoringBrowserLease: the task starts, which makes its job running;
\* the lease is linked, the agent ordered, the item confirmed.
LeaseAnswered(steps) ==
    LET t == Item.id.of
        q == IF steps >= 3 THEN Enqueue(outbox, Id("agent_create", t, 0)) ELSE outbox
    IN  /\ Answered({"lease_create"}) /\ Authorised(Item.id) /\ task[t] = "ready"
        /\ task' = [task EXCEPT ![t] = "running"]
        /\ job' = [job EXCEPT ![Of(t)] = "running"]
        /\ leaseLink' = IF steps >= 2 THEN leaseLink \cup {t} ELSE leaseLink
        /\ EndsOr(steps = 4, Settled(q, tick.item, "confirmed"), q)
        /\ UNCHANGED <<am, withdrawn, browser, agentLink, world>>

\* revalidateIssuedLease: what was authorised is not any more.
LeaseRevalidationFails ==
    /\ Answered({"lease_create"}) /\ ~Authorised(Item.id)
    /\ outbox' = LET id == Id("policy_revoke", Item.id.of, 0)
                     q  == Enqueue(outbox, id)
                 IN  [k \in DOMAIN q |-> IF q[k].id = id /\ q[k].status \in Unsettled
                                         THEN [q[k] EXCEPT !.status = "dispatching"] ELSE q[k]]
    /\ tick' = [tick EXCEPT !.at = "revoking"]
    /\ UNCHANGED <<rows, browser, links, count, world>>

RevalidationRevokes(ok) ==
    LET id == Id("policy_revoke", Item.id.of, 0)
        q  == [k \in DOMAIN outbox |-> IF outbox[k].id = id /\ outbox[k].status = "dispatching"
                  THEN [outbox[k] EXCEPT !.status = IF ok THEN "confirmed" ELSE "retryable_failed"]
                  ELSE outbox[k]]
    IN  /\ tick.at = "revoking" /\ IF ok THEN UNCHANGED count ELSE Break
        /\ lease' = IF ok /\ lease.of = Item.id.of THEN NoLease ELSE lease
        /\ IF browser[Of(Item.id.of)].state \in Holding
           THEN FailUnstarted(Of(Item.id.of), {}, Settled(q, tick.item, "cancelled"))
           ELSE outbox' = Settled(q, tick.item, "cancelled") /\ UNCHANGED <<job, task, am, browser>>
        /\ tick' = Idle
        /\ UNCHANGED <<withdrawn, links, session, agent>>

\* createAuthoringAgentTask
AgentAnswered(complete) ==
    /\ Answered({"agent_create"})
    /\ agentLink' = agentLink \cup {Item.id.of}
    /\ Ends(complete, Settled(outbox, tick.item, "confirmed"))
    /\ UNCHANGED <<rows, browser, leaseLink, world>>

CallAnswered ==
    /\ Answered(Commanding \cup {"policy_revoke"})
    /\ outbox' = Settled(outbox, tick.item, "confirmed") /\ tick' = Idle
    /\ UNCHANGED <<rows, browser, links, count, world>>

\* closeBrowserSession: whichever browser job of that context is active is
\* released and completed.
CloseAnswered(steps) ==
    LET j == Of(Item.id.of) IN
    /\ Answered(Closing)
    /\ IF browser[j].state = "acquiring"
       THEN steps = 3 /\ FailTerminal(tick.item) /\ UNCHANGED count
       ELSE /\ browser' = [browser EXCEPT ![j].state =
                   IF @ \notin Holding THEN @ ELSE IF steps = 1 THEN "releasing" ELSE "completed"]
            /\ Ends(steps = 3, Settled(outbox, tick.item, "confirmed"))
            /\ UNCHANGED <<job, task, am>>
    /\ UNCHANGED <<withdrawn, links, world>>

-----------------------------------------------------------------------------
\* Nothing is due: the tick hands the browser on.

NobodyHolds == \A j \in Jobs : browser[j].state \notin Holding
Rest == UNCHANGED <<withdrawn, links, world>>
EndOfTick == tick' = Idle /\ UNCHANGED count /\ Rest

\* claimNextBrowserJob, enqueueSessionCreate
Claimable(j) == browser[j].state = "queued" /\ job[j] \in {"created", "running"}
ClaimBrowserJob(j, complete) ==
    /\ NothingDue /\ NobodyHolds /\ Claimable(j)
    /\ \A k \in Jobs : Claimable(k) => browser[j].seq <= browser[k].seq
    /\ browser' = [browser EXCEPT ![j].state = "acquiring"]
    /\ Ends(complete, Enqueue(outbox, Id("session_create", j, browser[j].seq)))
    /\ UNCHANGED <<job, task, am>> /\ Rest

EnqueueSessionCreate(j) ==
    /\ NothingDue /\ browser[j].state = "acquiring"
    /\ outbox' = Enqueue(outbox, Id("session_create", j, browser[j].seq))
    /\ UNCHANGED <<job, task, am, browser>> /\ EndOfTick

\* A job that is being cancelled is cancelled when no task of it runs, then
\* its browser is closed.
SettleCancellation(j, complete) ==
    /\ NothingDue /\ browser[j].state = "active" /\ job[j] = "cancelling"
    /\ ~HasRunningTask(j)
    /\ job' = [job EXCEPT ![j] = "cancelled"]
    /\ Ends(complete, Enqueue(outbox, Id("close", j, browser[j].at)))
    /\ UNCHANGED <<task, am, browser>> /\ Rest

\* A job that waits for a decision, or is over, gives the browser back.
EnqueueSessionClose(j) ==
    /\ NothingDue /\ browser[j].state = "active" /\ job[j] \in Ended \cup {"waiting_decision"}
    /\ ~RevocationPending(outbox, j)
    /\ outbox' = Enqueue(outbox, Id("close", j, browser[j].at))
    /\ UNCHANGED <<job, task, am, browser>> /\ EndOfTick

EnqueueLeaseCreate(j) ==
    /\ NothingDue /\ browser[j].state = "active" /\ job[j] \in {"created", "running"}
    /\ \E t \in Found(j, "ready") :
          IF ExecutionAllowed(j, {t} \cap Amendments, FALSE)
          THEN /\ outbox' = Enqueue(outbox, Id("lease_create", t, 0))
               /\ UNCHANGED <<job, task, am, browser>>
          ELSE FailUnstarted(j, {}, outbox)
    /\ EndOfTick

\* In any other case the tick has nothing to do.
NothingToDo ==
    /\ NothingDue
    /\ \A j \in Jobs :
          CASE browser[j].state = "active" ->
                 \/ job[j] = "paused"
                 \/ job[j] = "cancelling" /\ HasRunningTask(j)
                 \/ job[j] \in Ended \cup {"waiting_decision"} /\ RevocationPending(outbox, j)
                 \/ job[j] \in {"created", "running"} /\ Found(j, "ready") = {}
            [] browser[j].state = "acquiring" -> FALSE
            [] OTHER -> NobodyHolds => ~Claimable(j)
    /\ UNCHANGED <<job, task, am, browser, outbox>> /\ EndOfTick

-----------------------------------------------------------------------------
Crash ==
    /\ Event
    /\ tick' = Idle /\ outbox' = Recovered(outbox)
    /\ UNCHANGED <<rows, browser, links, world>>

\* A control lease is for five minutes, and nothing renews it.
LeaseExpires ==
    /\ lease # NoLease /\ tick.at # "answered" /\ lease' = NoLease
    /\ UNCHANGED <<rows, browser, outbox, links, tick, count, session, agent>>

\* An agent ends by itself.
AgentEnded(t) ==
    /\ agent[t].status = "running"
    /\ \E s \in AgentEnds : agent' = [agent EXCEPT ![t] = [status |-> s, version |-> @.version + 1]]
    /\ UNCHANGED <<rows, browser, outbox, links, tick, count, session, lease>>

Reconcile ==
    \/ \E t \in Tasks : AskAgent(t) \/ \E c \in BOOLEAN : InterruptTask(t, c)
    \/ AgentWorks \/ CaptureEvidence
    \/ \E steps \in 1 .. 3 :
         \/ TaskCancelled(steps)
         \/ \E a \in Amendments, s \in {"waiting_decision", "candidate_ready"} : Propose(a, s, steps)
         \/ \E r \in Results \cup {"invalid"} : TaskApplied(r, steps)
         \/ \E ok \in BOOLEAN : VerificationApplied(ok, steps)
Prepare ==
    \/ \E a \in Amendments : ScheduleRefused(a) \/ \E c \in BOOLEAN : ScheduleVerification(a, c)
    \/ Begin \/ Reconcile
    \/ \E i \in DOMAIN outbox :
         DispatchStale(i) \/ Dispatch(i) \/ \E c \in BOOLEAN : DispatchRefused(i, c)
Serve ==
    \/ SessionOpens \/ LeaseIssued \/ AgentCreated \/ AgentCommanded \/ SessionCloses
    \/ LeaseRevoked \/ MustWait \/ \E c \in BOOLEAN : LeaseRefused(c)
Conclude ==
    \/ LeaseRevalidationFails \/ CallAnswered
    \/ \E c \in BOOLEAN : SessionAnswered(c) \/ AgentAnswered(c) \/ RevalidationRevokes(c)
    \/ \E steps \in 1 .. 4 : LeaseAnswered(steps)
    \/ \E steps \in 1 .. 3 : CloseAnswered(steps)
HandOn ==
    \/ NothingToDo
    \/ \E j \in Jobs : EnqueueSessionCreate(j) \/ EnqueueSessionClose(j) \/ EnqueueLeaseCreate(j)
    \/ \E j \in Jobs, c \in BOOLEAN : ClaimBrowserJob(j, c) \/ SettleCancellation(j, c)
Coordinate == Prepare \/ Serve \/ Conclude \/ HandOn
Users ==
    \/ \E j \in Jobs : CreateJob(j) \/ Pause(j) \/ Resume(j) \/ Cancel(j)
    \/ \E a \in Amendments : Approve(a) \/ Apply(a) \/ Reject(a) \/ Withdraw(a)

Next == Users \/ Coordinate \/ CallFails \/ Crash \/ LeaseExpires \/ \E t \in Tasks : AgentEnded(t)

Spec == Init /\ [][Next]_vars

-----------------------------------------------------------------------------
\* The rows, the tick and the other services' states are of their types.
TypeOK ==
    /\ job \in [Jobs -> Lifecycle] /\ task \in [Tasks -> TaskState] /\ am \in [Amendments -> AmState]
    /\ withdrawn \subseteq Amendments /\ leaseLink \cup agentLink \subseteq Tasks
    /\ \A j \in Jobs : browser[j].at \in {0, browser[j].seq}
    /\ \A i \in DOMAIN outbox : outbox[i].id.kind \in Kind /\ outbox[i].id.of \in Tasks
    /\ tick.item \in 0 .. Len(outbox)
    /\ \A t \in Tasks : agent[t].version \in Nat

\* No more than one task of a job runs; and as long as no call failed and no
\* death fell between the transactions of a tick, a task that runs has the browser of its
\* job: whichever way the job was paused, resumed, put back into the queue and
\* taken from it again.
RunningTaskHasBrowser ==
    \A j \in Jobs :
        /\ \A t, u \in TasksOf(j) : task[t] = "running" /\ task[u] = "running" => t = u
        /\ (\E t \in TasksOf(j) : task[t] = "running") /\ count.breaks = 0 => browser[j].state = "active"

\* What is over stays over: no agent that ends late, no verification that was
\* scheduled, no command changes a job that is completed, cancelled or failed.
\* A second failure of the coordinator in the life of the job can break it: a
\* row that was carried out but not confirmed fails the job that goes on.
EndedStays   == \A j \in Jobs : job[j] \in Ended => job'[j] = job[j]
EndedIsFinal == [][count.breaks < 2 => EndedStays]_vars

\* An amendment is activated by the verification that runs, for a job that
\* nobody cancelled, however late the cancellation was.
CancelActivatesNothing ==
    [][\A a \in Amendments : am[a] # "activated" /\ am'[a] = "activated"
         => task[a] = "running" /\ job[JobOf[a]] \notin Ended \cup {"cancelling"}]_vars

=============================================================================
