----------------------------- MODULE AgentTasks -----------------------------
(***************************************************************************)
(* AgentTaskService, AgentTaskRepository and the executor and browser      *)
(* wrapper they drive (services/ai-chat-service/src/agent-tasks).  A task  *)
(* runs at most once at a time under a permit of the RunScheduler, is      *)
(* paused, resumed, interrupted and cancelled by commands, performs        *)
(* browser operations whose record it writes before it sends them, and     *)
(* completes with a result that is durable in the harness session.         *)
(*                                                                         *)
(* A run of a task is a chain of callbacks; each action below is one       *)
(* uninterrupted stretch of it.  Node resumes what waits for a run in the  *)
(* microtasks that follow its end, before any other event, so EndRun wakes *)
(* the commands that wait.  The rows of agent_task_events and the counters *)
(* state_version and token reservations are left out.                      *)
(***************************************************************************)
EXTENDS RunScheduler

CONSTANTS Tasks,       \* agent tasks; the other Runs are chat runs
          Calls,       \* bound: browser tool calls of one task
          Commands,    \* bound: commands, numbered as they arrive
          None

ASSUME TasksAssumption ==
    /\ Tasks \subseteq Runs /\ Commands \subseteq Nat
    /\ None \notin Tasks /\ None \notin Commands

VARIABLES
    \* rows that survive a restart
    status,        \* agent_tasks.status, "none" without a row
    pendingCall,   \* agent_task_harness_projection: the run (its queue_seq)
                   \*   that recorded a pending result, 0 when none did
    operation,     \* agent_task_operations.status
    cmd,           \* agent_task_commands
    \* other processes
    durable,       \* the harness session holds the pending result durably
    ledger,        \* what became of the operation in the proxy
    \* this process
    up,            \* "up", "closing", "down", "starting"
    run,           \* taskRuns and how far run() is
    context,       \* activeRequests has the task
    aborted,       \* the controller of the run is aborted
    toolStarted,   \* toolCallsStarted > 0
    control,       \* controlActions
    awaits         \* what the handler of a command waits for

rowVars     == <<status, pendingCall, operation, cmd>>
outsideVars == <<durable, ledger>>
processVars == <<up, run, context, aborted, toolStarted, control, awaits>>
taskVars    == <<rowVars, outsideVars, processVars, schedulerVars>>

Unfinished == {"created", "running", "paused"}
Terminal   == {"completed", "failed", "blocked", "interrupted", "cancelled"}
OpStatus   == {"none", "reserved", "dispatched", "succeeded", "failed",
               "outcome_unknown", "interrupted"}
LedgerStatus == {"none", "sent", "running", "refused", "succeeded", "failed",
                 "cancelled", "outcome_unknown"}
RunPhase   == {"none", "scheduled", "waiting", "executing", "flushing", "settling"}
CommandType == {"pause", "resume", "interrupt", "cancel"}
NoCommand  == [task |-> None, type |-> "pause", status |-> "none"]

\* run() has created its controller.
Started(t) == run[t] \in {"waiting", "executing", "flushing", "settling"}
InFlight(t) == {c \in Calls : operation[t][c] = "dispatched"}
Waiting(t, types) == {c \in Commands :
    awaits[c] = "run" /\ cmd[c].task = t /\ cmd[c].type \in types}

TaskInit ==
    /\ SchedulerInit
    /\ status = [t \in Tasks |-> "none"]
    /\ pendingCall = [t \in Tasks |-> 0]
    /\ operation = [t \in Tasks |-> [c \in Calls |-> "none"]]
    /\ cmd = [c \in Commands |-> NoCommand]
    /\ durable = [t \in Tasks |-> FALSE]
    /\ ledger = [t \in Tasks |-> [c \in Calls |-> "none"]]
    /\ up = "up"
    /\ run = [t \in Tasks |-> "none"]
    /\ context = [t \in Tasks |-> FALSE]
    /\ aborted = [t \in Tasks |-> FALSE]
    /\ toolStarted = [t \in Tasks |-> FALSE]
    /\ control = [t \in Tasks |-> "none"]
    /\ awaits = [c \in Commands |-> "nothing"]

-----------------------------------------------------------------------------
\* create: the permit is asked for first; a full queue refuses the request
\* before any row of the task exists.
CreateTask(t) ==
    /\ up = "up" /\ status[t] = "none"
    /\ Enqueue(t)
    /\ status' = [status EXCEPT ![t] = "created"]
    /\ context' = [context EXCEPT ![t] = TRUE]
    /\ run' = [run EXCEPT ![t] = "scheduled"]
    /\ UNCHANGED <<pendingCall, operation, cmd, outsideVars, up, aborted, toolStarted,
                   control, awaits>>

\* The setImmediate of schedule: run() gets a controller and waits.
RunBegins(t) ==
    /\ run[t] = "scheduled" /\ up \in {"up", "closing"}
    /\ run' = [run EXCEPT ![t] = "waiting"]
    /\ aborted' = [aborted EXCEPT ![t] = FALSE]
    /\ UNCHANGED <<rowVars, outsideVars, up, context, toolStarted, control, awaits,
                   schedulerVars>>

\* The finally block of run, when the task is left in status s, and what it
\* wakes: one waiting pause pauses a task that still runs, the others find it
\* paused; every pause of a task that settled is rejected; a termination ends.
EndRun(t, s) ==
    LET pauses == Waiting(t, {"pause"})
        ends   == Waiting(t, {"interrupt", "cancel"})
        kept   == control[t] = "pause"
    IN
    /\ Finish(t, "completed")
    /\ \E p \in IF s = "running" /\ pauses # {} THEN pauses ELSE {None} :
         /\ status' = [status EXCEPT ![t] = IF p = None THEN s ELSE "paused"]
         /\ cmd' = [c \in Commands |->
                IF c = p \/ c \in ends THEN [cmd[c] EXCEPT !.status = "completed"]
                ELSE IF c \in pauses THEN [cmd[c] EXCEPT !.status = "rejected"]
                ELSE cmd[c]]
    /\ awaits' = [c \in Commands |-> IF c \in pauses \cup ends THEN "nothing" ELSE awaits[c]]
    /\ run' = [run EXCEPT ![t] = "none"]
    /\ context' = [context EXCEPT ![t] = kept /\ ends = {}]
    /\ toolStarted' = [toolStarted EXCEPT ![t] = kept /\ ends = {} /\ @]
    /\ control' = [control EXCEPT ![t] = "none"]
    /\ aborted' = [aborted EXCEPT ![t] = FALSE]

\* The permit is there: markRunning.  A task that was terminated meanwhile
\* leaves at once.
RunAdmitted(t) ==
    /\ run[t] = "waiting" /\ runStatus[t] = "active"
    /\ UNCHANGED <<pendingCall, operation, outsideVars, up>>
    /\ \/ /\ status[t] \in {"created", "running"}
          /\ status' = [status EXCEPT ![t] = "running"]
          /\ run' = [run EXCEPT ![t] = "executing"]
          /\ UNCHANGED <<cmd, context, aborted, toolStarted, control, awaits, schedulerVars>>
       \/ /\ status[t] \notin {"created", "running"}
          /\ EndRun(t, status[t])

\* The wait throws: the run was cancelled in the scheduler, or the duration
\* budget ended in the queue.
RunRefused(t) ==
    /\ run[t] = "waiting"
    /\ \/ /\ runStatus[t] = "queued" /\ aborted[t]
          /\ Finish(t, "cancelled")
       \/ /\ runStatus[t] \in {"completed", "cancelled"}
          /\ UNCHANGED schedulerVars
    /\ run' = [run EXCEPT ![t] = "settling"]
    /\ UNCHANGED <<rowVars, outsideVars, up, context, aborted, toolStarted, control, awaits>>

\* The duration budget.
TimesOut(t) ==
    /\ Started(t) /\ ~aborted[t]
    /\ aborted' = [aborted EXCEPT ![t] = TRUE]
    /\ UNCHANGED <<rowVars, outsideVars, up, run, context, toolStarted, control, awaits,
                   schedulerVars>>

-----------------------------------------------------------------------------
\* beforeToolCall: no operation starts in an aborted run or for a task that
\* does not run.
MayCall(t, c) ==
    /\ run[t] = "executing" /\ ~aborted[t] /\ status[t] = "running"
    /\ operation[t][c] = "none"

\* execute of the wrapper up to the call of the proxy: the operation is
\* recorded as reserved, then as dispatched, then sent.
SendOperation(t, c) ==
    /\ MayCall(t, c)
    /\ toolStarted' = [toolStarted EXCEPT ![t] = TRUE]
    /\ operation' = [operation EXCEPT ![t][c] = "dispatched"]
    /\ ledger' = [ledger EXCEPT ![t][c] = "sent"]
    /\ UNCHANGED <<status, pendingCall, cmd, durable, up, run, context, aborted, control,
                   awaits, schedulerVars>>

\* What the record says of an operation whose result the wrapper has read; a
\* refusal of the proxy is a failure.
OutcomeOf(l) == CASE l = "succeeded" -> "succeeded"
                  [] l \in {"failed", "cancelled", "refused"} -> "failed"
                  [] l = "outcome_unknown" -> "outcome_unknown"

Settle(t, c, outcome) ==
    /\ run[t] = "executing" /\ operation[t][c] = "dispatched"
    /\ operation' = [operation EXCEPT ![t][c] = outcome]
    /\ UNCHANGED <<status, pendingCall, cmd, outsideVars, processVars, schedulerVars>>

\* The call of the proxy, or the look into its ledger after a failed call,
\* returns a final record.
OperationAnswered(t, c) ==
    /\ ledger[t][c] \in {"refused", "succeeded", "failed", "cancelled", "outcome_unknown"}
    /\ Settle(t, c, OutcomeOf(ledger[t][c]))

\* Fault: a call that got no answer counts as failed.
UnansweredFails(t, c) ==
    /\ ledger[t][c] \in LedgerStatus
    /\ Settle(t, c, "failed")

\* The call fails, and the ledger cannot be read or has no final record yet.
OperationUnanswered(t, c) ==
    /\ ledger[t][c] \in LedgerStatus
    /\ Settle(t, c, "outcome_unknown")

\* The proxy, as far as the wrapper depends on it: it refuses an operation,
\* starts it, ends it.
ProxyMoves(t, c) ==
    /\ \/ /\ ledger[t][c] = "sent"
          /\ \E l \in {"refused", "running"} : ledger' = [ledger EXCEPT ![t][c] = l]
       \/ /\ ledger[t][c] = "running"
          /\ \E l \in {"succeeded", "failed", "outcome_unknown"} :
                ledger' = [ledger EXCEPT ![t][c] = l]
    /\ UNCHANGED <<rowVars, durable, processVars, schedulerVars>>

\* submit_result and recordPendingHarnessResult: the first result is recorded;
\* a later call, which has another id, is refused.
Submit(t) ==
    /\ run[t] = "executing" /\ status[t] = "running" /\ pendingCall[t] = 0
    /\ pendingCall' = [pendingCall EXCEPT ![t] = queueSeq[t]]
    /\ UNCHANGED <<status, operation, cmd, outsideVars, processVars, schedulerVars>>

\* This execution has its result (pending.value).
Submitted(t) == pendingCall[t] # 0 /\ pendingCall[t] = queueSeq[t]

\* The agent is idle: it submitted, was told to pause, was aborted or gave up.
LoopEnds(t) ==
    /\ run[t] = "executing" /\ InFlight(t) = {}
    /\ run' = [run EXCEPT ![t] = "flushing"]
    /\ UNCHANGED <<rowVars, outsideVars, up, context, aborted, toolStarted, control, awaits,
                   schedulerVars>>

\* flush makes what this execution submitted durable; it may fail.
Flush(t) ==
    /\ run[t] = "flushing"
    /\ run' = [run EXCEPT ![t] = "settling"]
    /\ durable' \in {durable, [durable EXCEPT ![t] = @ \/ Submitted(t)]}
    /\ UNCHANGED <<rowVars, ledger, up, context, aborted, toolStarted, control, awaits,
                   schedulerVars>>

\* execute returns and completeHarness commits, unless a command took over.
RunCompletes(t) ==
    /\ run[t] = "settling" /\ Submitted(t) /\ durable[t]
    /\ EndRun(t, IF control[t] = "none" /\ status[t] = "running" THEN "completed" ELSE status[t])
    /\ UNCHANGED <<pendingCall, operation, outsideVars, up>>

\* Fault: an error ends the task even when a command took over.
FailAnyway(t) ==
    /\ run[t] = "settling"
    /\ \E s \in {"failed", "blocked", "interrupted"} : EndRun(t, s)
    /\ UNCHANGED <<pendingCall, operation, outsideVars, up>>

\* execute or the wait throws: the task fails, is blocked by a dependency or
\* interrupted, unless a command took over.
RunFails(t) ==
    /\ run[t] = "settling"
    /\ IF control[t] = "none" /\ status[t] \in Unfinished
       THEN \E s \in IF up = "closing" THEN {"interrupted"}
                     ELSE {"failed", "blocked", "interrupted"} : EndRun(t, s)
       ELSE EndRun(t, status[t])
    /\ UNCHANGED <<pendingCall, operation, outsideVars, up>>

-----------------------------------------------------------------------------
\* createCommand, with a current expectedStateVersion: the row.
Command(c, t, type, result) ==
    cmd' = [cmd EXCEPT ![c] = [task |-> t, type |-> type, status |-> result]]

\* The next command may be sent.
Commandable(c, t) ==
    /\ up = "up" /\ status[t] # "none"
    /\ {d \in Commands : cmd[d] # NoCommand} = {d \in Commands : d < c}

\* Fault: pause does not wait for the run.
PauseAtOnce(c, t) ==
    /\ Commandable(c, t) /\ status[t] = "running"
    /\ Command(c, t, "pause", "completed")
    /\ status' = [status EXCEPT ![t] = "paused"]
    /\ control' = [control EXCEPT ![t] = "pause"]
    /\ aborted' = [aborted EXCEPT ![t] = Started(t)]
    /\ UNCHANGED <<pendingCall, operation, outsideVars, up, run, context, toolStarted, awaits,
                   schedulerVars>>

\* pauseTask: before the first tool call the run is aborted, later it is left
\* to reach a step boundary; the command waits for its end.
Pause(c, t) ==
    /\ Commandable(c, t) /\ status[t] = "running"
    /\ UNCHANGED <<pendingCall, operation, outsideVars, up, run, context, toolStarted,
                   schedulerVars>>
    /\ \/ /\ run[t] # "none"
          /\ Command(c, t, "pause", "accepted")
          /\ control' = [control EXCEPT ![t] = "pause"]
          /\ aborted' = [aborted EXCEPT ![t] = @ \/ (Started(t) /\ ~toolStarted[t])]
          /\ awaits' = [awaits EXCEPT ![c] = "run"]
          /\ UNCHANGED status
       \/ /\ run[t] = "none"
          /\ Command(c, t, "pause", "completed")
          /\ status' = [status EXCEPT ![t] = "paused"]
          /\ control' = [control EXCEPT ![t] = "none"]
          /\ UNCHANGED <<aborted, awaits>>

\* resumeTask: the task runs again and asks for a permit.  When the queue is
\* full the request throws after the status was written.
Resume(c, t) ==
    /\ Commandable(c, t) /\ status[t] = "paused" /\ context[t] /\ run[t] = "none"
    /\ status' = [status EXCEPT ![t] = "running"]
    /\ toolStarted' = [toolStarted EXCEPT ![t] = FALSE]
    /\ UNCHANGED <<pendingCall, operation, outsideVars, up, context, aborted, control, awaits>>
    /\ \/ /\ Enqueue(t)
          /\ Command(c, t, "resume", "completed")
          /\ run' = [run EXCEPT ![t] = "scheduled"]
       \/ /\ Full
          /\ Command(c, t, "resume", "rejected")
          /\ UNCHANGED <<run, schedulerVars>>

\* Fault: the run is not told that the task was terminated.
TerminateQuietly(c, t, type) ==
    /\ Commandable(c, t) /\ status[t] \in Unfinished
    /\ Command(c, t, type, "accepted")
    /\ status' = [status EXCEPT ![t] = IF type = "cancel" THEN "cancelled" ELSE "interrupted"]
    /\ awaits' = [awaits EXCEPT ![c] = "nothing"]
    /\ UNCHANGED <<pendingCall, operation, outsideVars, up, run, context, aborted, toolStarted,
                   control, schedulerVars>>

\* terminateTask: the final status is written first, then the operations in
\* the proxy are cancelled.
Terminate(c, t, type) ==
    /\ Commandable(c, t) /\ status[t] \in Unfinished
    /\ Command(c, t, type, "accepted")
    /\ control' = [control EXCEPT ![t] = type]
    /\ status' = [status EXCEPT ![t] = IF type = "cancel" THEN "cancelled" ELSE "interrupted"]
    /\ awaits' = [awaits EXCEPT ![c] = "cancellers"]
    /\ UNCHANGED <<pendingCall, operation, outsideVars, up, run, context, aborted, toolStarted,
                   schedulerVars>>

\* cancelPending is through: what the proxy had not started may be cancelled.
\* The run is aborted and loses its permit, and the command waits for its end.
CancellersDone(c) ==
    LET t == cmd[c].task IN
    /\ awaits[c] = "cancellers"
    /\ \E hit \in SUBSET {d \in InFlight(t) : run[t] = "executing" /\ ledger[t][d] = "sent"} :
          ledger' = [ledger EXCEPT ![t] = [d \in Calls |->
                        IF d \in hit THEN "cancelled" ELSE @[d]]]
    /\ Finish(t, "cancelled")
    /\ aborted' = [aborted EXCEPT ![t] = @ \/ Started(t)]
    /\ UNCHANGED <<status, pendingCall, operation, durable, up, run, control>>
    /\ \/ /\ run[t] # "none"
          /\ awaits' = [awaits EXCEPT ![c] = "run"]
          /\ UNCHANGED <<cmd, context, toolStarted>>
       \/ /\ run[t] = "none"
          /\ awaits' = [awaits EXCEPT ![c] = "nothing"]
          /\ cmd' = [cmd EXCEPT ![c].status = "completed"]
          /\ context' = [context EXCEPT ![t] = FALSE]
          /\ toolStarted' = [toolStarted EXCEPT ![t] = FALSE]

\* A command that finds the task in no state for it.
RefuseCommand(c, t, type) ==
    /\ Commandable(c, t)
    /\ \/ type = "pause" /\ status[t] # "running"
       \/ type = "resume" /\ ~(status[t] = "paused" /\ context[t] /\ run[t] = "none")
       \/ type \in {"interrupt", "cancel"} /\ status[t] \notin Unfinished
    /\ Command(c, t, type, "rejected")
    /\ UNCHANGED <<status, pendingCall, operation, outsideVars, processVars, schedulerVars>>

-----------------------------------------------------------------------------
\* close: every run that has begun is aborted; the process waits for them all.
Close ==
    /\ up = "up" /\ up' = "closing"
    /\ aborted' = [t \in Tasks |-> aborted[t] \/ Started(t)]
    /\ UNCHANGED <<rowVars, outsideVars, run, context, toolStarted, control, awaits,
                   schedulerVars>>

\* Nothing of the process is left.
ProcessGone ==
    /\ up' = "down"
    /\ run' = [t \in Tasks |-> "none"]
    /\ context' = [t \in Tasks |-> FALSE]
    /\ aborted' = [t \in Tasks |-> FALSE]
    /\ toolStarted' = [t \in Tasks |-> FALSE]
    /\ control' = [t \in Tasks |-> "none"]
    /\ awaits' = [c \in Commands |-> "nothing"]

Stop ==
    /\ up = "closing" /\ \A t \in Tasks : run[t] = "none"
    /\ ProcessGone /\ CancelAll
    /\ UNCHANGED <<rowVars, outsideVars>>

Crash ==
    /\ up # "down" /\ ProcessGone
    /\ UNCHANGED <<rowVars, outsideVars, schedulerVars>>

\* The process dies between the two writes of SendOperation.
CrashBeforeDispatch(t, c) ==
    /\ MayCall(t, c) /\ ProcessGone
    /\ operation' = [operation EXCEPT ![t][c] = "reserved"]
    /\ UNCHANGED <<status, pendingCall, cmd, outsideVars, schedulerVars>>

\* The constructor of the scheduler.
Start ==
    /\ up = "down" /\ up' = "starting"
    /\ CancelAll
    /\ UNCHANGED <<rowVars, outsideVars, run, context, aborted, toolStarted, control, awaits>>

\* A running task whose submitted result is durable.
Reconcilable(t) == status[t] = "running" /\ pendingCall[t] # 0 /\ durable[t]

\* reconcileDurableHarness completes it.
Reconcile(t) ==
    /\ up = "starting" /\ Reconcilable(t)
    /\ status' = [status EXCEPT ![t] = "completed"]
    /\ UNCHANGED <<pendingCall, operation, cmd, outsideVars, processVars, schedulerVars>>

\* recoverUnfinished, after the last reconciliation.
Recover ==
    /\ up = "starting" /\ \A t \in Tasks : ~Reconcilable(t)
    /\ up' = "up"
    /\ status' = [t \in Tasks |-> IF status[t] \in Unfinished THEN "interrupted" ELSE status[t]]
    /\ operation' = [t \in Tasks |-> [c \in Calls |->
            CASE operation[t][c] = "reserved"   -> "interrupted"
              [] operation[t][c] = "dispatched" -> "outcome_unknown"
              [] OTHER -> operation[t][c]]]
    /\ cmd' = [c \in Commands |-> IF cmd[c].status = "accepted"
                                  THEN [cmd[c] EXCEPT !.status = "rejected"] ELSE cmd[c]]
    /\ UNCHANGED <<pendingCall, outsideVars, run, context, aborted, toolStarted, control,
                   awaits, schedulerVars>>

\* A chat run takes, waits for and gives back a permit.
OtherRun(r) ==
    /\ up \in {"up", "closing"}
    /\ Enqueue(r) \/ (r \in Queued \cup Active /\ Finish(r, "completed"))
    /\ UNCHANGED <<rowVars, outsideVars, processVars>>

-----------------------------------------------------------------------------
RunStep(t) ==
    \/ RunBegins(t) \/ RunAdmitted(t) \/ RunRefused(t)
    \/ LoopEnds(t) \/ Flush(t) \/ RunCompletes(t) \/ RunFails(t)

ToolStep(t, c) ==
    \/ SendOperation(t, c) \/ CrashBeforeDispatch(t, c)
    \/ OperationAnswered(t, c) \/ OperationUnanswered(t, c) \/ ProxyMoves(t, c)

CommandStep(c, t) ==
    \/ Pause(c, t) \/ Resume(c, t)
    \/ \E type \in {"interrupt", "cancel"} : Terminate(c, t, type)
    \/ \E type \in CommandType : RefuseCommand(c, t, type)

ProcessStep == Close \/ Stop \/ Crash \/ Start \/ Recover

TaskNext ==
    \/ \E t \in Tasks :
          \/ CreateTask(t) \/ RunStep(t) \/ TimesOut(t) \/ Submit(t) \/ Reconcile(t)
          \/ \E c \in Calls : ToolStep(t, c)
          \/ \E c \in Commands : CommandStep(c, t)
    \/ \E c \in Commands : CancellersDone(c)
    \/ \E r \in Runs \ Tasks : OtherRun(r)
    \/ ProcessStep

TaskSpec == TaskInit /\ [][TaskNext]_taskVars

\* Callbacks come; the harness loop is bounded by turns and time; a call of
\* the proxy is bounded by 30 seconds; chat runs end; the process is restarted,
\* and some restart is not killed before it is through.
TaskFairness ==
    /\ \A t \in Tasks :
          /\ WF_taskVars(RunStep(t)) /\ SF_taskVars(Reconcile(t))
          /\ \A c \in Calls : WF_taskVars(OperationUnanswered(t, c))
    /\ \A c \in Commands : WF_taskVars(CancellersDone(c))
    /\ \A r \in Runs \ Tasks : WF_taskVars(r \in Active /\ OtherRun(r))
    /\ WF_taskVars(Stop) /\ WF_taskVars(Start) /\ SF_taskVars(Recover)

FairTaskSpec == TaskSpec /\ TaskFairness

-----------------------------------------------------------------------------
\* The values every variable ranges over.
TaskTypeOK ==
    /\ SchedulerTypeOK
    /\ status \in [Tasks -> {"none"} \cup Unfinished \cup Terminal]
    /\ pendingCall \in [Tasks -> Nat]
    /\ operation \in [Tasks -> [Calls -> OpStatus]]
    /\ cmd \in [Commands -> [task : Tasks \cup {None}, type : CommandType,
                             status : {"none", "accepted", "completed", "rejected"}]]
    /\ durable \in [Tasks -> BOOLEAN]
    /\ ledger \in [Tasks -> [Calls -> LedgerStatus]]
    /\ up \in {"up", "closing", "down", "starting"}
    /\ run \in [Tasks -> RunPhase]
    /\ context \in [Tasks -> BOOLEAN] /\ aborted \in [Tasks -> BOOLEAN]
    /\ toolStarted \in [Tasks -> BOOLEAN]
    /\ control \in [Tasks -> {"none", "pause", "interrupt", "cancel"}]
    /\ awaits \in [Commands -> {"nothing", "cancellers", "run"}]

\* A paused task is at rest: none of its callbacks is left, none of its
\* browser operations is undecided, and while the process lives it can be
\* resumed.  (pauseTask, service.ts)
PausedIsSafe ==
    \A t \in Tasks : up = "up" /\ status[t] = "paused" =>
        run[t] = "none" /\ InFlight(t) = {} /\ context[t]

\* The record of a browser operation never says more than the proxy did: it is
\* there before the operation is sent, "succeeded" and "failed" are the
\* proxy's word, and an operation called interrupted was never sent.
LedgerAgrees ==
    \A t \in Tasks, c \in Calls :
        /\ ledger[t][c] # "none" => operation[t][c] \notin {"none", "reserved", "interrupted"}
        /\ operation[t][c] = "succeeded" => ledger[t][c] = "succeeded"
        /\ operation[t][c] = "failed" => ledger[t][c] \in {"failed", "cancelled", "refused"}

\* What ended stays as it ended, whichever of a run's end, a command, a
\* timeout, a shutdown and a restart come together.
TerminalIsFinal ==
    [][\A t \in Tasks : status[t] \in Terminal => status'[t] = status[t]]_taskVars

\* Every accepted command is answered, after a restart if need be.
CommandsSettle ==
    \A c \in Commands : cmd[c].status = "accepted" ~> cmd[c].status # "accepted"

=============================================================================
