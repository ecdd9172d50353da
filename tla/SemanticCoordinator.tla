------------------------- MODULE SemanticCoordinator -------------------------
(***************************************************************************)
(* SemanticCoordinatorService (services/ai-e2e): one loop, never two ticks  *)
(* at once, that gives the one browser to the running runs in the order of  *)
(* their queue_seq, lets an agent work on each TODO under a control lease,  *)
(* and takes the result over.  Whatever it asks of the proxy and of         *)
(* ai-chat goes through a durable outbox.                                   *)
(*                                                                         *)
(* The text of a tick between two awaits is one action; users send          *)
(* commands at the awaits, a call may be carried out without being          *)
(* answered, and the process may die at an await or between two of its      *)
(* transactions.  The two services are modelled by what their interfaces    *)
(* promise: a call that is repeated under its key has one effect.           *)
(* Authoring jobs share the queue; what is theirs is in AuthoringJobs.      *)
(***************************************************************************)
EXTENDS SemanticRuns, Sequences

CONSTANTS QueueSeq,      \* browser_jobs.queue_seq of the job of a run
          RowId,         \* run_todos.rowid: the order of the TODOs
          AgentEnds,     \* the final states an agent task reaches by itself
          AgentResults,  \* what the output of a completed agent task says
          MayGiveUp,     \* whether a call may fail for the eighth time
          MayTear,       \* whether a death may fall between two transactions
          MayCancel,     \* whether users cancel runs
          MayUpgrade,    \* whether a restart may bring another policy
          MaxPauses,     \* bound: pauses by users
          MaxCloses,     \* bound: close-browser commands
          MaxCrashes,    \* bound: deaths of the process
          MaxLosses,     \* bound: calls that fail or whose answer is lost
          MaxEvents,     \* bound: pauses, closes, deaths and losses together
          MaxRecovery    \* bound: leases whose token was lost

ASSUME OrderAssumption ==
    /\ \A r, s \in TestRuns : QueueSeq[r] = QueueSeq[s] => r = s
    /\ \A t, u \in Todos : RowId[t] = RowId[u] => t = u

ASSUME AgentAssumption ==
    AgentEnds \subseteq {"completed", "failed", "interrupted", "cancelled", "blocked"}

VARIABLES job,        \* state of the run's browser job
          attached,   \* test_runs.browser_session_id is set
          outbox,     \* integration_outbox in the order of creation
          lk,         \* browser lease linked to the run's active page task
          agentLink,  \* the agent task of the active page task is linked
          secrets,    \* leases whose token is in the secret store
          tick,       \* where the current tick waits
          count,      \* deaths, losses, pauses and close commands so far
          session,    \* proxy: the session of the run's browser job
          lease,      \* proxy: the active control lease
          issued,     \* proxy: leases issued so far, by idempotency key
          agent       \* ai-chat: state of each agent task

db    == <<job, attached, outbox, lk, agentLink, secrets>>
world == <<session, lease, issued, agent>>
coord == <<run, db, tick, count, world>>

JobState    == {"queued", "acquiring", "active", "releasing", "completed", "failed"}
ItemStatus  == {"pending", "dispatching", "retryable_failed", "confirmed",
                "terminal_failed", "cancelled"}
Kind        == {"session_create", "lease_create", "agent_create", "agent_pause",
                "agent_resume", "agent_cancel", "close", "close_lease", "user_close",
                "revoke", "policy_revoke"}
Closing     == {"close", "close_lease", "user_close"}
Commanding  == {"agent_pause", "agent_resume", "agent_cancel"}
TERMINAL_AGENT_STATES == {"completed", "failed", "interrupted", "cancelled", "blocked"}
AgentStatus == {"none", "running", "paused"} \cup TERMINAL_AGENT_STATES

\* The identifier of an outbox item; that of a lease is that of the item
\* whose dispatch issued it.
Id(kind, r, t, n, g) == [kind |-> kind, run |-> r, todo |-> t, n |-> n, g |-> g]
ItemId   == [kind : Kind, run : TestRuns, todo : Todos \cup {NoTodo}, n : Nat, g : Nat]
NoLease  == Id("none", NoTodo, NoTodo, 0, 0)
Idle     == [at |-> "idle", item |-> 0, lifecycle |-> "none", seen |-> "none"]
PageTasks == TestRuns \X Todos \X (1 .. MaxTries)

\* One more of the events that are bounded.
Counts(event) ==
    LET limit == [pauses |-> MaxPauses, closes |-> MaxCloses, crashes |-> MaxCrashes,
                  losses |-> MaxLosses]
    IN  /\ count[event] < limit[event]
        /\ count.pauses + count.closes + count.crashes + count.losses < MaxEvents
        /\ count' = [count EXCEPT ![event] = @ + 1]

-----------------------------------------------------------------------------

\* enqueueOutbox: an item that exists is left as it is, whatever its status.
Enqueue(q, id, key) ==
    IF \E i \in DOMAIN q : q[i].id = id THEN q
    ELSE Append(q, [id |-> id, lease |-> key, status |-> "pending", done |-> FALSE])

\* settleOutbox
Settled(q, i, status) == [q EXCEPT ![i].status = status]

\* Fault: a restart leaves what was under way.
RecoveredNothing(q) == q

\* recoverDispatchingOutbox: to be retried, and at once, like what is pending
Recovered(q) == [i \in DOMAIN q |->
    IF q[i].status = "dispatching" THEN [q[i] EXCEPT !.status = "pending"] ELSE q[i]]

\* The tick ends after all of its transactions, or the process dies after the
\* first of them.
Ends(complete, q) ==
    /\ tick' = Idle
    /\ outbox' = IF complete THEN q ELSE Recovered(q)
    /\ IF complete THEN count' = count ELSE MayTear /\ Counts("crashes")

HasBrowser(r) == job[r] \in {"acquiring", "active", "releasing"}
Page(r)       == <<r, run[r].page, run[r].tries[run[r].page]>>
IsPageOf(id, r) == run[r].page # NoTodo /\ Page(r) = <<id.run, id.todo, id.n>>
PageId(kind, r, g) == Id(kind, r, run[r].page, run[r].tries[run[r].page], g)

\* getReadyTodo
ReadyTodo(r) ==
    LET ready == Some(run[r], {"ready"})
    IN  IF run[r].lifecycle # "running" \/ ~attached[r] \/ run[r].page # NoTodo \/ ready = {}
        THEN NoTodo
        ELSE CHOOSE t \in ready : \A u \in ready : RowId[t] <= RowId[u]

\* pauseRunForCoordinator
Paused(r) == [r EXCEPT !.lifecycle = IF @ \in {"ready", "running"} THEN "paused" ELSE @]

\* Fault: only the creation of the session is authorised.
AuthorisedOnce(id) == id.kind = "session_create" => ExecutionAllowed(run[id.run])

\* assertOutboxAuthorization
Authorised(id) ==
    id.kind \in {"session_create", "lease_create", "agent_create", "agent_resume"}
        => ExecutionAllowed(run[id.run])

\* desiredAgentCommand
DesiredAgentCommand(lifecycle, status) ==
    CASE lifecycle = "cancelling" /\ status \notin TERMINAL_AGENT_STATES -> "agent_cancel"
      [] lifecycle = "paused" /\ status = "running" -> "agent_pause"
      [] lifecycle = "running" /\ status = "paused" -> "agent_resume"
      [] OTHER -> "none"

\* completionFromTask
CompletionFromTask(status) ==
    CASE status = "interrupted" -> {"recoverable_interruption"}
      [] status = "cancelled" -> {"cancelled"}
      [] status = "blocked" -> {"precondition_blocked"}
      [] status = "failed" -> {"outcome_unknown", "execution_failed"}
      [] status = "completed" -> AgentResults

\* enqueueLeaseRevoke of the active page task, once for a lease
EnqueueRevoke(q, r) ==
    IF lk[r] = NoLease THEN q ELSE Enqueue(q, [lk[r] EXCEPT !.kind = "revoke"], lk[r])

-----------------------------------------------------------------------------
\* The coordinator starts with the runs created and admitted, their browser
\* jobs queued.
CInit ==
    /\ run = [r \in TestRuns |-> Admitted("auto_allowed")]
    /\ job = [r \in TestRuns |-> "queued"] /\ attached = [r \in TestRuns |-> FALSE]
    /\ outbox = <<>> /\ lk = [r \in TestRuns |-> NoLease]
    /\ agentLink = [r \in TestRuns |-> FALSE] /\ secrets = {} /\ tick = Idle
    /\ count = [crashes |-> 0, losses |-> 0, pauses |-> 0, closes |-> 0]
    /\ session = [r \in TestRuns |-> "none"] /\ lease = NoLease /\ issued = {}
    /\ agent = [p \in PageTasks |-> [status |-> "none", version |-> 0]]

-----------------------------------------------------------------------------
\* Users: the commands of a run and the answers to its decisions.
UserActs(r) ==
    /\ \/ Start(r) \/ Resume(r) \/ (MayCancel /\ CancelFormalRun(r))
       \/ \E t \in Todos : ResumeInterruptedTodo(r, t)
       \/ \E t \in Todos, s \in {"ready", "failed"} :
            run[r].lifecycle \notin Sealed /\ AnswerAboutTodo(r, t, s)
    /\ UNCHANGED <<db, tick, count, world>>

UserPauses(r) ==
    /\ Pause(r) /\ Counts("pauses")
    /\ UNCHANGED <<db, tick, world>>

\* enqueueCloseBrowser
CloseBrowser(r) ==
    /\ Counts("closes")
    /\ outbox' = Enqueue(outbox, Id("user_close", r, NoTodo, 0, 0), NoLease)
    /\ UNCHANGED <<run, job, attached, lk, agentLink, secrets, tick, world>>

-----------------------------------------------------------------------------
\* A tick looks at the active page task of the run that has the browser.

\* reconcilePageTask without an agent task: the page task is lost when its
\* lease was not linked or the token is gone.
Orphaned(r) == ~agentLink[r] /\ (lk[r] = NoLease \/ lk[r] \notin secrets)

InterruptOrphanedPageTask(r, complete) ==
    /\ tick = Idle /\ HasBrowser(r) /\ run[r].page # NoTodo /\ Orphaned(r)
    /\ run' = [run EXCEPT ![r] = CompleteAttempt(@, "recoverable_interruption")]
    /\ Ends(complete, IF complete THEN EnqueueRevoke(outbox, r) ELSE outbox)
    /\ UNCHANGED <<job, attached, lk, agentLink, secrets, world>>

\* reconcilePageTask asks ai-chat; the lifecycle of the run was read before.
ReconcilePageTask(r) ==
    /\ tick = Idle /\ HasBrowser(r) /\ run[r].page # NoTodo /\ agentLink[r]
    /\ tick' = [Idle EXCEPT !.at = "reconciling", !.lifecycle = run[r].lifecycle]
    /\ UNCHANGED <<run, db, count, world>>

\* reconcileAgentTask: what ai-chat answers, and the command that follows.
ReconcileAgentTask(r) ==
    LET a == agent[Page(r)]
        command == DesiredAgentCommand(tick.lifecycle, a.status)
        q == Enqueue(outbox, PageId(command, r, a.version), NoLease)
    IN  /\ tick.at = "reconciling" /\ HasBrowser(r) /\ run[r].page # NoTodo
        /\ IF a.status \in TERMINAL_AGENT_STATES
           THEN /\ tick' = [tick EXCEPT !.at = "capturing", !.seen = a.status]
                /\ outbox' = outbox
           ELSE /\ outbox' = IF command = "none" THEN outbox ELSE q
                /\ tick' = IF outbox' = outbox THEN [Idle EXCEPT !.at = "claiming"] ELSE Idle
        /\ UNCHANGED <<run, job, attached, lk, agentLink, secrets, count, world>>

\* After the evidence: completeTodoAttempt, then the lease or the browser is
\* given back.
ApplyCompletion(r, result, complete) ==
    /\ tick.at = "capturing" /\ HasBrowser(r) /\ run[r].page # NoTodo
    /\ result \in CompletionFromTask(tick.seen)
    /\ run' = [run EXCEPT ![r] = CompleteAttempt(@, result)]
    /\ Ends(complete, IF ~complete THEN outbox
                      ELSE IF run'[r].lifecycle \in Sealed
                      THEN Enqueue(outbox, PageId("close_lease", r, 0), lk[r])
                      ELSE EnqueueRevoke(outbox, r))
    /\ UNCHANGED <<job, attached, lk, agentLink, secrets, world>>

\* Nothing to reconcile, or nothing came of it.
Claims ==
    \/ tick.at = "claiming"
    \/ tick = Idle /\ \A r \in TestRuns : HasBrowser(r) /\ run[r].page # NoTodo
                                            => ~agentLink[r] /\ ~Orphaned(r)

\* claimNextOutbox takes the oldest item that is due; a retry is due some time.
Due(i) ==
    /\ Claims /\ i \in DOMAIN outbox
    /\ outbox[i].status \in {"pending", "retryable_failed"}
    /\ \A j \in 1 .. i - 1 : outbox[j].status # "pending"
NothingDue == Claims /\ \A i \in DOMAIN outbox : outbox[i].status # "pending"

\* dispatchOutbox ends an item whose authorisation is gone, and what depends
\* on it (settlePolicyDispatchFailure).
Refuse(i, complete) ==
    LET id == outbox[i].id  r == id.run
        checked == AssertRunPolicyCurrent(run[r])
        own == IsPageOf(id, r) /\ HasBrowser(r)
        q == Settled(outbox, i, "cancelled")
    IN  /\ run' = [run EXCEPT ![r] =
               IF id.kind = "agent_create" /\ own
               THEN CompleteAttempt(checked, "recoverable_interruption")
               ELSE IF id.kind = "agent_resume" THEN Paused(checked) ELSE checked]
        /\ Ends(complete, IF ~complete THEN outbox
                          ELSE IF id.kind = "agent_create" /\ own THEN EnqueueRevoke(q, r) ELSE q)

\* handleDispatchFailure
FailRetryable(i) ==
    /\ outbox' = Settled(outbox, i, "retryable_failed") /\ tick' = Idle
    /\ UNCHANGED <<run, job>>
FailTerminal(i) ==
    LET r == outbox[i].id.run IN
    /\ outbox' = Settled(outbox, i, "terminal_failed") /\ tick' = Idle
    /\ run' = [run EXCEPT ![r] = Paused(@)]
    /\ job' = [job EXCEPT ![r] = IF outbox[i].id.kind = "session_create" /\ @ = "acquiring"
                                 THEN "failed" ELSE @]

DispatchRefused(i, complete) ==
    /\ Due(i) /\ ~Authorised(outbox[i].id)
    /\ Refuse(i, complete)
    /\ UNCHANGED <<job, attached, lk, agentLink, secrets, world>>

\* createBrowserLease: the TODO is not the one to execute any more.
DispatchStaleTodo(i) ==
    /\ Due(i) /\ Authorised(outbox[i].id) /\ outbox[i].id.kind = "lease_create"
    /\ ReadyTodo(outbox[i].id.run) # outbox[i].id.todo
    /\ outbox' = Settled(outbox, i, "cancelled") /\ tick' = Idle
    /\ UNCHANGED <<run, job, attached, lk, agentLink, secrets, count, world>>

\* closeBrowserSession of a run that has no session
DispatchNoSession(i) ==
    /\ Due(i) /\ outbox[i].id.kind = "user_close" /\ ~attached[outbox[i].id.run]
    /\ FailTerminal(i)
    /\ UNCHANGED <<attached, lk, agentLink, secrets, count, world>>

\* createAgentTask without the token of its lease
DispatchTokenLost(i) ==
    LET id == outbox[i].id  r == id.run  own == IsPageOf(id, r) /\ HasBrowser(r)
        q == Settled(outbox, i, "terminal_failed")
    IN  /\ Due(i) /\ Authorised(id) /\ id.kind = "agent_create" /\ outbox[i].lease \notin secrets
        /\ run' = IF own THEN [run EXCEPT ![r] = CompleteAttempt(@, "recoverable_interruption")]
                  ELSE run
        /\ outbox' = (IF own THEN EnqueueRevoke(q, r) ELSE q) /\ tick' = Idle
        /\ UNCHANGED <<job, attached, lk, agentLink, secrets, count, world>>

Dispatch(i) ==
    LET id == outbox[i].id IN
    /\ Due(i) /\ Authorised(id)
    /\ id.kind = "lease_create" => ReadyTodo(id.run) = id.todo
    /\ id.kind = "user_close" => attached[id.run]
    /\ id.kind = "agent_create" => outbox[i].lease \in secrets
    /\ outbox' = Settled(outbox, i, "dispatching")
    /\ tick' = [Idle EXCEPT !.at = "calling", !.item = i]
    /\ UNCHANGED <<run, job, attached, lk, agentLink, secrets, count, world>>

-----------------------------------------------------------------------------
\* The call of the other service: its effect, then its answer.
Calling(kinds) == tick.at = "calling" /\ outbox[tick.item].id.kind \in kinds
Answered(kinds) == tick.at = "answered" /\ outbox[tick.item].id.kind \in kinds
Answers(seen) == tick' = [tick EXCEPT !.at = "answered", !.seen = seen]

SessionOpens ==
    LET r == outbox[tick.item].id.run IN
    /\ Calling({"session_create"})
    /\ session[r] = "none" => \A s \in TestRuns : session[s] # "active"
    /\ session' = [session EXCEPT ![r] = IF @ = "none" THEN "active" ELSE @]
    /\ Answers("fresh")
    /\ UNCHANGED <<run, db, count, lease, issued, agent>>

\* createLease: one control lease at a time; only the first answer has the token
LeaseIssued ==
    LET id == outbox[tick.item].id IN
    /\ Calling({"lease_create"}) /\ Authorised(id)
    /\ id \in issued \/ session[id.run] = "active"
    /\ IF id \in issued THEN Answers("replay") /\ UNCHANGED <<lease, issued>>
       ELSE /\ lease = NoLease /\ lease' = id /\ issued' = issued \cup {id}
            /\ Answers("fresh")
    /\ UNCHANGED <<run, db, count, session, agent>>

\* The second assertOutboxAuthorization of createBrowserLease.
LeaseRefused ==
    /\ Calling({"lease_create"}) /\ ~Authorised(outbox[tick.item].id)
    /\ Refuse(tick.item, TRUE)
    /\ UNCHANGED <<job, attached, lk, agentLink, secrets, world>>

AgentCreated ==
    LET id == outbox[tick.item].id  p == <<id.run, id.todo, id.n>> IN
    /\ Calling({"agent_create"})
    /\ agent' = [agent EXCEPT ![p] = IF @.status # "none" THEN @
                                     ELSE [status |-> "running", version |-> 1]]
    /\ Answers("fresh") /\ UNCHANGED <<run, db, count, session, lease, issued>>

\* commandTask: carried out once per command; a stale version is a conflict.
AgentCommanded ==
    LET id == outbox[tick.item].id  p == <<id.run, id.todo, id.n>>
        to == CASE id.kind = "agent_pause" -> "paused" [] id.kind = "agent_resume" -> "running"
                [] id.kind = "agent_cancel" -> "cancelled"
    IN  /\ Calling(Commanding)
        /\ IF outbox[tick.item].done \/ agent[p].version = id.g
           THEN /\ Answers("fresh") /\ UNCHANGED <<run, job>>
                /\ outbox' = [outbox EXCEPT ![tick.item].done = TRUE]
                /\ agent' = IF outbox[tick.item].done THEN agent
                            ELSE [agent EXCEPT ![p] = [status |-> to, version |-> @.version + 1]]
           ELSE FailTerminal(tick.item) /\ UNCHANGED agent
        /\ UNCHANGED <<attached, lk, agentLink, secrets, count, session, lease, issued>>

\* revokeBrowserLease: without its token a lease can only expire.
LeaseRevoked ==
    LET key == outbox[tick.item].lease IN
    /\ Calling({"revoke", "policy_revoke"})
    /\ IF key \in secrets \/ lease # key
       THEN /\ lease' = (IF lease = key THEN NoLease ELSE lease)
            /\ Answers("fresh") /\ UNCHANGED <<run, job, outbox>>
       ELSE FailRetryable(tick.item) /\ UNCHANGED lease
    /\ UNCHANGED <<attached, lk, agentLink, secrets, count, session, issued, agent>>

\* closeBrowserSession: the control lease must be one of its own.
OwnLease == lease \in secrets /\ lease \in {outbox[tick.item].lease, outbox[tick.item].id}

SessionCloses ==
    LET r == outbox[tick.item].id.run IN
    /\ Calling(Closing)
    /\ session[r] = "active" => OwnLease
    /\ session' = [session EXCEPT ![r] = "closed"]
    /\ lease' = IF session[r] = "active" THEN NoLease ELSE lease
    /\ Answers("fresh") /\ UNCHANGED <<run, db, count, issued, agent>>

\* What cannot be had while another session is open or another lease is held
\* is asked for again later.
MustWait ==
    LET id == outbox[tick.item].id IN
    /\ \/ Calling({"session_create"}) /\ session[id.run] = "none"
          /\ \E s \in TestRuns : session[s] = "active"
       \/ Calling({"lease_create"}) /\ Authorised(id) /\ id \notin issued
          /\ (lease # NoLease \/ session[id.run] # "active")
       \/ Calling(Closing) /\ session[id.run] = "active" /\ lease # NoLease /\ ~OwnLease
    /\ FailRetryable(tick.item)
    /\ UNCHANGED <<attached, lk, agentLink, secrets, count, world>>

\* A lease for the closing alone; when it was issued before, it has expired,
\* and the intent is repeated under another key.
CleanupLease ==
    LET id == outbox[tick.item].id IN
    /\ Calling(Closing) /\ session[id.run] = "active" /\ lease = NoLease
    /\ IF id \in issued
       THEN /\ id.g < MaxRecovery /\ tick' = Idle
            /\ outbox' = Settled(Enqueue(outbox, [id EXCEPT !.g = @ + 1],
                                         outbox[tick.item].lease), tick.item, "confirmed")
            /\ UNCHANGED <<lease, issued>>
       ELSE /\ lease' = id /\ issued' = issued \cup {id}
            /\ tick' = [tick EXCEPT !.at = "cleanup"] /\ outbox' = outbox
    /\ UNCHANGED <<run, job, attached, lk, agentLink, secrets, count, session, agent>>

CleanupAnswered ==
    /\ tick.at = "cleanup"
    /\ secrets' = secrets \cup {outbox[tick.item].id}
    /\ tick' = [tick EXCEPT !.at = "calling"]
    /\ UNCHANGED <<run, job, attached, outbox, lk, agentLink, count, world>>

\* The other service cannot be reached, refuses for the moment, or its answer
\* is lost; after the eighth time the coordinator gives up.
CallFails ==
    /\ tick.at \in {"calling", "answered", "cleanup", "discarding"}
    /\ Counts("losses")
    /\ FailRetryable(tick.item) \/ (MayGiveUp /\ FailTerminal(tick.item))
    /\ UNCHANGED <<attached, lk, agentLink, secrets, world>>

ReconcileFails ==
    /\ tick.at = "reconciling" /\ tick' = Idle
    /\ Counts("losses")
    /\ UNCHANGED <<run, db, world>>

-----------------------------------------------------------------------------
\* createBrowserSession: the job becomes active, the run is attached to the
\* session, the item is confirmed.
SessionAnswered(steps) ==
    LET i == tick.item  r == outbox[i].id.run IN
    /\ Answered({"session_create"})
    /\ IF job[r] = "acquiring"
       THEN /\ job' = [job EXCEPT ![r] = "active"]
            /\ attached' = [attached EXCEPT ![r] = steps >= 2]
            /\ Ends(steps = 3, IF steps = 3 THEN Settled(outbox, i, "confirmed") ELSE outbox)
            /\ UNCHANGED run
       ELSE steps = 3 /\ FailTerminal(i) /\ UNCHANGED <<attached, count>>
    /\ UNCHANGED <<lk, agentLink, secrets, world>>

\* Fault: the lease whose token is lost is asked for again, under its key.
SameLeaseAgain ==
    /\ Answered({"lease_create"}) /\ tick.seen = "replay" /\ outbox[tick.item].id \notin secrets
    /\ FailRetryable(tick.item)
    /\ UNCHANGED <<attached, lk, agentLink, secrets, count, world>>

\* createBrowserLease when the one-time token is lost: wait until the lease
\* has expired, then ask for another one.
LeaseTokenLost ==
    LET i == tick.item  id == outbox[i].id IN
    /\ Answered({"lease_create"}) /\ tick.seen = "replay" /\ id \notin secrets
    /\ IF lease = id THEN FailRetryable(i)
       ELSE /\ id.g < MaxRecovery /\ tick' = Idle /\ UNCHANGED <<run, job>>
            /\ outbox' = Settled(Enqueue(outbox, [id EXCEPT !.g = @ + 1], NoLease),
                                 i, "confirmed")
    /\ UNCHANGED <<attached, lk, agentLink, secrets, count, world>>

LeaseToken == Answered({"lease_create"}) /\ (tick.seen = "fresh" \/ outbox[tick.item].id \in secrets)

\* revalidateIssuedLease: what was authorised is not any more; the intent to
\* revoke is recorded before the call.
LeaseRevalidationFails ==
    LET id == outbox[tick.item].id
        q == Enqueue(outbox, Id("policy_revoke", id.run, id.todo, id.n, id.g), id)
    IN  /\ LeaseToken /\ ~Authorised(id)
        /\ secrets' = secrets \cup {id}
        /\ run' = [run EXCEPT ![id.run] = AssertRunPolicyCurrent(@)]
        /\ outbox' = [j \in DOMAIN q |->
               IF q[j].id.kind = "policy_revoke" /\ q[j].lease = id
                  /\ q[j].status \in {"pending", "retryable_failed"}
               THEN [q[j] EXCEPT !.status = "dispatching"] ELSE q[j]]
        /\ tick' = [tick EXCEPT !.at = "revoking"]
        /\ UNCHANGED <<job, attached, lk, agentLink, count, world>>

\* ... the call, whether it succeeds or is left to the outbox.
RevalidationRevokes(ok) ==
    LET id == outbox[tick.item].id
        status == IF ok THEN "confirmed" ELSE "retryable_failed"
        q == [j \in DOMAIN outbox |->
                 IF outbox[j].lease = id /\ outbox[j].id.kind = "policy_revoke"
                    /\ outbox[j].status = "dispatching"
                 THEN [outbox[j] EXCEPT !.status = status] ELSE outbox[j]]
    IN  /\ tick.at = "revoking"
        /\ outbox' = Settled(q, tick.item, "cancelled") /\ tick' = Idle
        /\ lease' = IF ok /\ lease = id THEN NoLease ELSE lease
        /\ secrets' = IF ok THEN secrets \ {id} ELSE secrets
        /\ UNCHANGED <<run, job, attached, lk, agentLink, count, session, issued, agent>>

\* The TODO is not the one to execute any more: the lease is revoked.
LeaseUnused ==
    LET id == outbox[tick.item].id IN
    /\ LeaseToken /\ Authorised(id) /\ ReadyTodo(id.run) # id.todo
    /\ secrets' = secrets \cup {id}
    /\ tick' = [tick EXCEPT !.at = "discarding"]
    /\ UNCHANGED <<run, job, attached, outbox, lk, agentLink, count, world>>

LeaseDiscarded ==
    LET id == outbox[tick.item].id IN
    /\ tick.at = "discarding"
    /\ lease' = IF lease = id THEN NoLease ELSE lease
    /\ secrets' = secrets \ {id} /\ FailTerminal(tick.item)
    /\ UNCHANGED <<attached, lk, agentLink, count, session, issued, agent>>

\* The page task starts, its lease is linked, its agent is ordered, the item
\* is confirmed.
LeaseAnswered(steps) ==
    LET i == tick.item  id == outbox[i].id  r == id.run
        create == Id("agent_create", r, id.todo, run[r].tries[id.todo] + 1, 0)
    IN  /\ LeaseToken /\ Authorised(id) /\ ReadyTodo(r) = id.todo
        /\ StartTodo(r, id.todo)
        /\ secrets' = secrets \cup {id}
        /\ lk' = [lk EXCEPT ![r] = IF steps >= 2 THEN id ELSE NoLease]
        /\ agentLink' = [agentLink EXCEPT ![r] = FALSE]
        /\ LET q == IF steps >= 3 THEN Enqueue(outbox, create, id) ELSE outbox
           IN  Ends(steps = 4, IF steps = 4 THEN Settled(q, i, "confirmed") ELSE q)
        /\ UNCHANGED <<job, attached, world>>

\* createAgentTask: the agent is linked to its page task
AgentAnswered(complete) ==
    LET i == tick.item  id == outbox[i].id  r == id.run IN
    /\ Answered({"agent_create"})
    /\ agentLink' = [agentLink EXCEPT ![r] = @ \/ IsPageOf(id, r)]
    /\ Ends(complete, IF complete THEN Settled(outbox, i, "confirmed") ELSE outbox)
    /\ UNCHANGED <<run, job, attached, lk, secrets, world>>

CommandAnswered ==
    /\ Answered(Commanding)
    /\ outbox' = Settled(outbox, tick.item, "confirmed") /\ tick' = Idle
    /\ UNCHANGED <<run, job, attached, lk, agentLink, secrets, count, world>>

RevokeAnswered ==
    /\ Answered({"revoke", "policy_revoke"})
    /\ secrets' = secrets \ {outbox[tick.item].lease}
    /\ outbox' = Settled(outbox, tick.item, "confirmed") /\ tick' = Idle
    /\ UNCHANGED <<run, job, attached, lk, agentLink, count, world>>

\* Fault: the browser counts as given back when it is asked to close.
CloseCountsEarly(steps) ==
    LET i == tick.item  r == outbox[i].id.run IN
    /\ Calling(Closing)
    /\ secrets' = secrets
    /\ job' = [job EXCEPT ![r] = IF @ = "active" THEN "completed" ELSE @]
    /\ Ends(steps = 3, Settled(outbox, i, "confirmed"))
    /\ UNCHANGED <<run, attached, lk, agentLink, world>>

\* closeBrowserSession: the tokens are deleted, the job is released and
\* completed, the item is confirmed.
CloseAnswered(steps) ==
    LET i == tick.item  r == outbox[i].id.run IN
    /\ Answered(Closing)
    /\ secrets' = secrets \ {outbox[i].lease, outbox[i].id}
    /\ job' = [job EXCEPT ![r] = IF ~HasBrowser(r) THEN @
                                 ELSE IF steps = 1 THEN "releasing" ELSE "completed"]
    /\ Ends(steps = 3, IF steps = 3 THEN Settled(outbox, i, "confirmed") ELSE outbox)
    /\ UNCHANGED <<run, attached, lk, agentLink, world>>

-----------------------------------------------------------------------------
\* Nothing is due: the tick hands the browser on.
ClaimBrowserJob(r, complete) ==
    /\ NothingDue /\ \A s \in TestRuns : ~HasBrowser(s)
    /\ job[r] = "queued" /\ run[r].lifecycle = "running"
    /\ \A s \in TestRuns : job[s] = "queued" /\ run[s].lifecycle = "running"
                              => QueueSeq[r] <= QueueSeq[s]
    /\ job' = [job EXCEPT ![r] = "acquiring"]
    /\ Ends(complete, IF complete
                      THEN Enqueue(outbox, Id("session_create", r, NoTodo, 0, 0), NoLease)
                      ELSE outbox)
    /\ UNCHANGED <<run, attached, lk, agentLink, secrets, world>>

EnqueueSessionCreate(r) ==
    /\ NothingDue /\ job[r] = "acquiring"
    /\ outbox' = Enqueue(outbox, Id("session_create", r, NoTodo, 0, 0), NoLease)
    /\ outbox' # outbox /\ tick' = Idle
    /\ UNCHANGED <<run, job, attached, lk, agentLink, secrets, count, world>>

EnqueueSessionClose(r) ==
    /\ NothingDue /\ job[r] = "active" /\ run[r].lifecycle \in Sealed
    /\ outbox' = Enqueue(outbox, Id("close", r, NoTodo, 0, 0), NoLease)
    /\ outbox' # outbox /\ tick' = Idle
    /\ UNCHANGED <<run, job, attached, lk, agentLink, secrets, count, world>>

\* enqueueLeaseCreate; when execution is not allowed the tick fails.
EnqueueLeaseCreate(r) ==
    LET t == ReadyTodo(r) IN
    /\ NothingDue /\ job[r] = "active" /\ t \in Todos /\ ExecutionAllowed(run[r])
    /\ run[r].tries[t] < MaxTries
    /\ outbox' = Enqueue(outbox, Id("lease_create", r, t, run[r].tries[t], 0), NoLease)
    /\ outbox' # outbox /\ tick' = Idle
    /\ UNCHANGED <<run, job, attached, lk, agentLink, secrets, count, world>>

RefuseLeaseCreate(r) ==
    /\ NothingDue /\ job[r] = "active" /\ ReadyTodo(r) # NoTodo /\ ~ExecutionAllowed(run[r])
    /\ run' = [run EXCEPT ![r] = AssertRunPolicyCurrent(@)] /\ run' # run /\ tick' = Idle
    /\ UNCHANGED <<db, count, world>>

\* A tick that finds nothing to do after a reconciliation.
TickEnds ==
    /\ tick.at = "claiming" /\ NothingDue /\ tick' = Idle
    /\ UNCHANGED <<run, db, count, world>>

-----------------------------------------------------------------------------
\* The process dies at an await; a release may come with another policy.
Crash(upgrade) ==
    /\ Counts("crashes")
    /\ outbox' = Recovered(outbox) /\ tick' = Idle
    /\ IF upgrade THEN MayUpgrade /\ PolicyUpgrade ELSE tick # Idle /\ UNCHANGED run
    /\ UNCHANGED <<job, attached, lk, agentLink, secrets, world>>

\* The other services by themselves: an agent task ends, a lease expires, but
\* not that which was issued, for 30 seconds, to the closing that is under way.
AgentEnded(p, status) ==
    /\ agent[p].status = "running" \/ (agent[p].status = "paused" /\ status = "interrupted")
    /\ agent' = [agent EXCEPT ![p] = [status |-> status, version |-> @.version + 1]]
    /\ UNCHANGED <<run, db, tick, count, session, lease, issued>>

LeaseExpires ==
    /\ lease # NoLease /\ lease' = NoLease
    /\ lease.kind \in Closing
       => ~(tick.at \in {"cleanup", "calling"} /\ lease = outbox[tick.item].id)
    /\ UNCHANGED <<run, db, tick, count, session, issued, agent>>

CrashOrLoss ==
    \/ \E upgrade \in BOOLEAN : Crash(upgrade)
    \/ CallFails \/ ReconcileFails

\* The steps of a tick before it calls, ...
Take(i) == DispatchStaleTodo(i) \/ DispatchNoSession(i) \/ DispatchTokenLost(i) \/ Dispatch(i)
Decide(complete) ==
    \/ \E r \in TestRuns : InterruptOrphanedPageTask(r, complete)
    \/ \E r \in TestRuns, result \in AttemptResult : ApplyCompletion(r, result, complete)
    \/ \E i \in DOMAIN outbox : DispatchRefused(i, complete)
    \/ \E r \in TestRuns : ClaimBrowserJob(r, complete)
Prepare ==
    \/ \E r \in TestRuns : ReconcilePageTask(r)
    \/ \E i \in DOMAIN outbox : Take(i)
    \/ \E r \in TestRuns : EnqueueSessionCreate(r) \/ EnqueueSessionClose(r)
    \/ \E r \in TestRuns : EnqueueLeaseCreate(r) \/ RefuseLeaseCreate(r)
    \/ TickEnds \/ LeaseRefused \/ MustWait

\* ... the calls that are carried out, and the answers that arrive.
Call == SessionOpens \/ LeaseIssued \/ AgentCreated \/ AgentCommanded \/ LeaseRevoked
        \/ SessionCloses \/ CleanupLease
Answer ==
    \/ SessionAnswered(3) \/ LeaseAnswered(4) \/ AgentAnswered(TRUE) \/ CloseAnswered(3)
    \/ LeaseTokenLost \/ LeaseRevalidationFails \/ LeaseUnused \/ LeaseDiscarded
    \/ \E ok \in BOOLEAN : RevalidationRevokes(ok)
    \/ CommandAnswered \/ RevokeAnswered \/ CleanupAnswered
TornAnswer ==
    \/ \E steps \in {1, 2} : SessionAnswered(steps)
    \/ \E steps \in {1, 2, 3} : LeaseAnswered(steps)
    \/ AgentAnswered(FALSE)
    \/ \E steps \in {1, 2} : CloseAnswered(steps)
Reconcile == \E r \in TestRuns : ReconcileAgentTask(r)
AgentEnding == \E p \in PageTasks, status \in AgentEnds : AgentEnded(p, status)
UserStep ==
    \/ \E r \in TestRuns : UserActs(r)
    \/ \E r \in TestRuns : UserPauses(r)
    \/ \E r \in TestRuns : CloseBrowser(r)

CNext ==
    \/ \E complete \in BOOLEAN : Decide(complete)
    \/ Prepare \/ Call \/ Answer \/ TornAnswer \/ Reconcile
    \/ UserStep \/ CrashOrLoss \/ AgentEnding \/ LeaseExpires

CSpec == CInit /\ [][CNext]_coord

\* The loop ticks every half second; a service that is asked again and again
\* answers some time, and what failed is due again; a lease has a time to live.
\* Users start their runs.  An agent task has a budget, so it ends by itself.
Fairness ==
    /\ WF_coord(Decide(TRUE)) /\ WF_coord(Prepare) /\ SF_coord(Call) /\ SF_coord(Answer)
    /\ SF_coord(Reconcile) /\ SF_coord(LeaseExpires)
    /\ SF_coord(\E i \in DOMAIN outbox : Take(i) \/ DispatchRefused(i, TRUE))
    /\ \A r \in TestRuns : WF_coord(Start(r) /\ UNCHANGED <<db, tick, count, world>>)
AgentsEnd == \A p \in PageTasks : WF_coord(\E status \in AgentEnds : AgentEnded(p, status))
ControlSpec == CSpec /\ Fairness
LiveSpec == ControlSpec /\ AgentsEnd

-----------------------------------------------------------------------------
\* The rows, the tick and the other services' states are of their types.
CoordTypeOK ==
    /\ RunsTypeOK
    /\ job \in [TestRuns -> JobState] /\ attached \in [TestRuns -> BOOLEAN]
    /\ \A i \in DOMAIN outbox : outbox[i].id \in ItemId /\ outbox[i].status \in ItemStatus
    /\ lk \in [TestRuns -> ItemId \cup {NoLease}] /\ agentLink \in [TestRuns -> BOOLEAN]
    /\ secrets \subseteq ItemId /\ issued \subseteq ItemId /\ lease \in ItemId \cup {NoLease}
    /\ session \in [TestRuns -> {"none", "active", "closed"}]
    /\ \A p \in PageTasks : agent[p].status \in AgentStatus /\ agent[p].version \in Nat
    /\ tick.item = 0 <=> tick.at \in {"idle", "reconciling", "capturing", "claiming"}

\* The item a tick works on is the one that is dispatching, with at most the
\* revocation of the lease it has just been given.
OneDispatch ==
    \A i \in DOMAIN outbox : outbox[i].status = "dispatching" =>
        i = tick.item \/ (tick.at = "revoking" /\ outbox[i].lease = outbox[tick.item].id)

\* A browser that is open belongs to a job that still has to give it back, or
\* that failed because the coordinator gave up opening it, and nothing is
\* controlled in any other: a job is not completed, nor the next one begun,
\* before its browser is closed.
BrowserHasHolder ==
    /\ \A r \in TestRuns : session[r] = "active" => HasBrowser(r) \/ job[r] = "failed"
    /\ lease # NoLease => session[lease.run] = "active"

\* An agent is created for the page task that is active, with a lease whose
\* token is known, and under the policy the run was approved for: whatever was
\* cancelled, lost or made stale since its lease was asked for, by a user, a
\* failure or a release that brings another policy, stops the creation.
AgentsAreAuthorised ==
    [][\A p \in PageTasks : agent[p].status = "none" /\ agent'[p].status = "running"
         => /\ p = Page(p[1]) /\ run[p[1]].page # NoTodo /\ lk[p[1]] \in secrets
            /\ ~run[p[1]].stale /\ run[p[1]].lifecycle \notin Sealed]_coord

\* A run that is started ends, and gives the browser back, through lost calls,
\* lost answers and restarts.
StartedRunEnds ==
    \A r \in TestRuns : run[r].lifecycle = "running"
        ~> run[r].lifecycle \in Sealed /\ session[r] # "active" /\ ~HasBrowser(r)

=============================================================================
