--------------------------- MODULE AgentTasksProofs ---------------------------
(***************************************************************************)
(* Proofs about AgentTasks, for any sets of tasks, calls and commands and  *)
(* any limits of the scheduler: the record of the operations, the safety   *)
(* of a pause, the finality of an end, and the use of the permits.         *)
(***************************************************************************)
EXTENDS AgentTasks, RunSchedulerProofs

Row == [task : Tasks \cup {None}, type : CommandType,
        status : {"none", "accepted", "completed", "rejected"}]

\* What a command waits for, it waits for on behalf of a task.
Addressed == \A c \in Commands : awaits[c] # "nothing" => cmd[c].task \in Tasks

TypeInv == TaskTypeOK /\ Addressed

-----------------------------------------------------------------------------
\* What the end of a run leaves behind, when p is the pause that pauses the task
\* or None.
Ended(t, s, p) ==
    /\ status' = [status EXCEPT ![t] = IF p = None THEN s ELSE "paused"]
    /\ cmd' = [c \in Commands |->
           IF c = p \/ c \in Waiting(t, {"interrupt", "cancel"})
           THEN [cmd[c] EXCEPT !.status = "completed"]
           ELSE IF c \in Waiting(t, {"pause"}) THEN [cmd[c] EXCEPT !.status = "rejected"]
           ELSE cmd[c]]

LEMMA EndRunPicks ==
    ASSUME NEW t, NEW s, EndRun(t, s)
    PROVE  \E p \in Commands \cup {None} :
               /\ Ended(t, s, p)
               /\ p # None => s = "running" /\ p \in Waiting(t, {"pause"})
               /\ s = "running" /\ Waiting(t, {"pause"}) # {} => p # None
<1>1. PICK p \in IF s = "running" /\ Waiting(t, {"pause"}) # {} THEN Waiting(t, {"pause"}) ELSE {None} :
         Ended(t, s, p)
  BY DEF EndRun, Ended
<1>2. Waiting(t, {"pause"}) \subseteq Commands
  BY DEF Waiting
<1> QED  BY <1>1, <1>2, TasksAssumption

\* The end of a run moves the task of the run and the commands that wait for it.
LEMMA EndRunEffect ==
    ASSUME TypeInv, NEW t \in Tasks,
           NEW s \in {"none"} \cup Unfinished \cup Terminal, EndRun(t, s)
    PROVE  /\ SchedulerTypeOK'
           /\ status' \in [Tasks -> {"none"} \cup Unfinished \cup Terminal]
           /\ cmd' \in [Commands -> Row]
           /\ awaits' \in [Commands -> {"nothing", "cancellers", "run"}]
           /\ run' \in [Tasks -> RunPhase] /\ context' \in [Tasks -> BOOLEAN]
           /\ toolStarted' \in [Tasks -> BOOLEAN] /\ aborted' \in [Tasks -> BOOLEAN]
           /\ control' \in [Tasks -> {"none", "pause", "interrupt", "cancel"}]
           /\ \A c \in Commands : /\ cmd'[c].task = cmd[c].task /\ cmd'[c].type = cmd[c].type
                                  /\ awaits'[c] # "nothing" => awaits'[c] = awaits[c]
<1> USE TasksAssumption DEF TypeInv, TaskTypeOK
<1>1. SchedulerTypeOK' /\ t \in Runs
  BY FinishType DEF EndRun, Outcomes
<1> DEFINE pauses == Waiting(t, {"pause"})
           ends == Waiting(t, {"interrupt", "cancel"})
<1>0. pauses \subseteq Commands /\ ends \subseteq Commands
  BY DEF Waiting
<1>2. \E p \in Commands \cup {None} : Ended(t, s, p)
  BY EndRunPicks
<1>8. awaits' = [c \in Commands |-> IF c \in pauses \cup ends THEN "nothing" ELSE awaits[c]]
  BY DEF EndRun
<1>3. cmd \in [Commands -> Row]
  BY DEF Row
<1>4. ASSUME NEW c \in Commands
      PROVE  cmd'[c] \in Row /\ cmd'[c].task = cmd[c].task /\ cmd'[c].type = cmd[c].type
  <2>1. cmd[c] \in Row
    BY <1>3
  <2>2. \E x \in {"completed", "rejected"} : cmd'[c] = cmd[c] \/ cmd'[c] = [cmd[c] EXCEPT !.status = x]
    BY <1>2 DEF Ended
  <2> QED  BY <2>1, <2>2 DEF Row
<1>5. cmd' \in [Commands -> Row]
  <2>1. cmd' = [c \in Commands |-> cmd'[c]]
    BY <1>2 DEF Ended
  <2> QED  BY <1>4, <2>1
<1>6. status' \in [Tasks -> {"none"} \cup Unfinished \cup Terminal]
  BY <1>2 DEF Unfinished, Ended
<1>7. /\ run' = [run EXCEPT ![t] = "none"] /\ control' = [control EXCEPT ![t] = "none"]
      /\ aborted' = [aborted EXCEPT ![t] = FALSE]
  BY DEF EndRun
<1>9. context' \in [Tasks -> BOOLEAN]
  BY DEF EndRun
<1>10. toolStarted' \in [Tasks -> BOOLEAN]
  BY DEF EndRun
<1>11. awaits' \in [Commands -> {"nothing", "cancellers", "run"}]
       /\ \A c \in Commands : awaits'[c] # "nothing" => awaits'[c] = awaits[c]
  BY <1>8
<1>12. /\ run' \in [Tasks -> RunPhase]
       /\ aborted' \in [Tasks -> BOOLEAN]
       /\ control' \in [Tasks -> {"none", "pause", "interrupt", "cancel"}]
  BY <1>7 DEF RunPhase
<1> QED  BY <1>1, <1>4, <1>5, <1>6, <1>9, <1>10, <1>11, <1>12

\* Every step keeps the types.
LEMMA TypeStep == TypeInv /\ [TaskNext]_taskVars => TypeInv'
<1> SUFFICES ASSUME TypeInv, [TaskNext]_taskVars  PROVE TypeInv'
  OBVIOUS
<1> USE TasksAssumption DEF rowVars, outsideVars, processVars
<1>a. /\ SchedulerTypeOK /\ cmd \in [Commands -> Row] /\ Tasks \subseteq Runs
      /\ status \in [Tasks -> {"none"} \cup Unfinished \cup Terminal]
      /\ awaits \in [Commands -> {"nothing", "cancellers", "run"}]
  BY DEF TypeInv, TaskTypeOK, Row
<1>b. ASSUME SchedulerTypeOK', UNCHANGED <<status, cmd, awaits, control, context, toolStarted>>,
             pendingCall' \in [Tasks -> Nat], operation' \in [Tasks -> [Calls -> OpStatus]],
             durable' \in [Tasks -> BOOLEAN], ledger' \in [Tasks -> [Calls -> LedgerStatus]],
             up' \in {"up", "closing", "down", "starting"}, run' \in [Tasks -> RunPhase],
             aborted' \in [Tasks -> BOOLEAN]
      PROVE  TypeInv'
  BY <1>b DEF TypeInv, TaskTypeOK, Addressed
<1>c. UNCHANGED schedulerVars => SchedulerTypeOK'
  BY <1>a DEF schedulerVars, SchedulerTypeOK
<1>d. ASSUME NEW t \in Tasks, NEW s \in {"none"} \cup Unfinished \cup Terminal, EndRun(t, s),
             UNCHANGED <<pendingCall, operation, outsideVars, up>>
      PROVE  TypeInv'
  BY <1>d, EndRunEffect DEF TypeInv, TaskTypeOK, Addressed, Row
<1>1. CASE UNCHANGED taskVars
  BY <1>1, <1>b, <1>c DEF taskVars, TypeInv, TaskTypeOK
<1>2. ASSUME NEW t \in Tasks, CreateTask(t)  PROVE TypeInv'
  <2>1. SchedulerTypeOK'
    BY <1>2, <1>a, EnqueueType DEF CreateTask
  <2>2. /\ status' \in [Tasks -> {"none"} \cup Unfinished \cup Terminal]
        /\ context' \in [Tasks -> BOOLEAN] /\ run' \in [Tasks -> RunPhase]
    BY <1>2 DEF CreateTask, TypeInv, TaskTypeOK, Unfinished, RunPhase
  <2> QED  BY <1>2, <2>1, <2>2 DEF CreateTask, TypeInv, TaskTypeOK, Addressed
<1>3. ASSUME NEW t \in Tasks, RunStep(t)  PROVE TypeInv'
  <2>1. CASE RunBegins(t) \/ LoopEnds(t) \/ Flush(t)
    BY <1>b, <1>c, <2>1 DEF RunBegins, LoopEnds, Flush, TypeInv, TaskTypeOK, RunPhase
  <2>2. CASE RunRefused(t)
    <3>1. SchedulerTypeOK'
      BY <1>a, <1>c, <2>2, FinishType DEF RunRefused, Outcomes
    <3> QED  BY <1>b, <2>2, <3>1 DEF RunRefused, TypeInv, TaskTypeOK, RunPhase
  <2>3. CASE RunAdmitted(t)
    <3>1. CASE EndRun(t, status[t])
      BY <1>a, <1>d, <2>3, <3>1 DEF RunAdmitted
    <3>2. CASE /\ status' = [status EXCEPT ![t] = "running"]
               /\ run' = [run EXCEPT ![t] = "executing"]
               /\ UNCHANGED <<cmd, context, aborted, toolStarted, control, awaits, schedulerVars>>
      BY <1>c, <2>3, <3>2
         DEF RunAdmitted, TypeInv, TaskTypeOK, Addressed, RunPhase, Unfinished
    <3> QED  BY <2>3, <3>1, <3>2 DEF RunAdmitted
  <2>4. CASE RunCompletes(t)
    <3>1. PICK s \in {"completed", status[t]} : EndRun(t, s)
      BY <2>4 DEF RunCompletes
    <3> QED  BY <1>a, <1>d, <2>4, <3>1 DEF RunCompletes, Terminal
  <2>5. CASE RunFails(t)
    <3>1. PICK s \in {"failed", "blocked", "interrupted", status[t]} : EndRun(t, s)
      BY <2>5 DEF RunFails
    <3> QED  BY <1>a, <1>d, <2>5, <3>1 DEF RunFails, Terminal
  <2> QED  BY <1>3, <2>1, <2>2, <2>3, <2>4, <2>5 DEF RunStep
<1>4. ASSUME NEW t \in Tasks, TimesOut(t) \/ Submit(t)  PROVE TypeInv'
  BY <1>4, <1>b, <1>c DEF TimesOut, Submit, TypeInv, TaskTypeOK, SchedulerTypeOK
<1>5. ASSUME NEW t \in Tasks, Reconcile(t)  PROVE TypeInv'
  BY <1>5, <1>c DEF Reconcile, TypeInv, TaskTypeOK, Addressed, Terminal
<1>6. ASSUME NEW t \in Tasks, NEW c \in Calls, ToolStep(t, c)  PROVE TypeInv'
  <2>1. ASSUME NEW o \in OpStatus, operation' = [operation EXCEPT ![t][c] = o]
        PROVE  operation' \in [Tasks -> [Calls -> OpStatus]]
    BY <2>1 DEF TypeInv, TaskTypeOK
  <2>2. ASSUME NEW l \in LedgerStatus, ledger' = [ledger EXCEPT ![t][c] = l]
        PROVE  ledger' \in [Tasks -> [Calls -> LedgerStatus]]
    BY <2>2 DEF TypeInv, TaskTypeOK
  <2>3. CASE SendOperation(t, c)
    <3>1. /\ operation' \in [Tasks -> [Calls -> OpStatus]]
          /\ ledger' \in [Tasks -> [Calls -> LedgerStatus]]
      BY <2>1, <2>2, <2>3 DEF SendOperation, OpStatus, LedgerStatus
    <3> QED  BY <1>c, <2>3, <3>1 DEF SendOperation, TypeInv, TaskTypeOK, Addressed
  <2>4. CASE CrashBeforeDispatch(t, c)
    <3>1. operation' \in [Tasks -> [Calls -> OpStatus]]
      BY <2>1, <2>4 DEF CrashBeforeDispatch, OpStatus
    <3> QED  BY <1>c, <2>4, <3>1
              DEF CrashBeforeDispatch, ProcessGone, TypeInv, TaskTypeOK, Addressed, RunPhase
  <2>5. CASE OperationAnswered(t, c) \/ OperationUnanswered(t, c)
    <3>1. PICK o \in {"succeeded", "failed", "outcome_unknown"} : Settle(t, c, o)
      BY <2>5 DEF OperationAnswered, OperationUnanswered, OutcomeOf
    <3>2. operation' \in [Tasks -> [Calls -> OpStatus]]
      BY <2>1, <3>1 DEF Settle, OpStatus
    <3> QED  BY <1>b, <1>c, <3>1, <3>2 DEF Settle, TypeInv, TaskTypeOK
  <2>6. CASE ProxyMoves(t, c)
    <3>1. ledger' \in [Tasks -> [Calls -> LedgerStatus]]
      BY <2>2, <2>6 DEF ProxyMoves, LedgerStatus
    <3> QED  BY <1>b, <1>c, <2>6, <3>1 DEF ProxyMoves, TypeInv, TaskTypeOK
  <2> QED  BY <1>6, <2>3, <2>4, <2>5, <2>6 DEF ToolStep
<1>7. ASSUME NEW t \in Tasks, NEW c \in Commands, CommandStep(c, t)  PROVE TypeInv'
  <2>0. ASSUME NEW type \in CommandType, NEW result \in {"accepted", "completed", "rejected"},
               Command(c, t, type, result), \A d \in Commands \ {c} : awaits'[d] = awaits[d]
        PROVE  cmd' \in [Commands -> Row] /\ Addressed'
    <3>0. cmd \in [Commands -> Row]
      BY <1>a
    <3>1. /\ cmd' \in [Commands -> Row]
          /\ cmd'[c] = [task |-> t, type |-> type, status |-> result]
          /\ \A d \in Commands \ {c} : cmd'[d] = cmd[d]
      <4>1. [task |-> t, type |-> type, status |-> result] \in Row
        BY DEF Row
      <4>2. cmd' = [cmd EXCEPT ![c] = [task |-> t, type |-> type, status |-> result]]
        BY <2>0 DEF Command
      <4> QED  BY <3>0, <4>1, <4>2
    <3>2. cmd'[c].task = t
      BY <3>1
    <3> QED  BY <2>0, <3>1, <3>2 DEF TypeInv, Addressed
  <2>1. CASE Pause(c, t)
    <3>1. PICK result \in {"accepted", "completed"} : Command(c, t, "pause", result)
      BY <2>1 DEF Pause
    <3>2. \A d \in Commands \ {c} : awaits'[d] = awaits[d]
      BY <2>1, <1>a DEF Pause
    <3>3. cmd' \in [Commands -> Row] /\ Addressed'
      BY <2>0, <3>1, <3>2 DEF CommandType
    <3>4. /\ status' \in [Tasks -> {"none"} \cup Unfinished \cup Terminal]
          /\ control' \in [Tasks -> {"none", "pause", "interrupt", "cancel"}]
          /\ aborted' \in [Tasks -> BOOLEAN]
          /\ awaits' \in [Commands -> {"nothing", "cancellers", "run"}]
      BY <2>1 DEF Pause, TypeInv, TaskTypeOK, Unfinished
    <3> QED  BY <1>c, <2>1, <3>3, <3>4 DEF Pause, TypeInv, TaskTypeOK, Row
  <2>2. CASE Resume(c, t)
    <3>1. PICK result \in {"completed", "rejected"} : Command(c, t, "resume", result)
      BY <2>2 DEF Resume
    <3>2. cmd' \in [Commands -> Row] /\ Addressed'
      BY <2>0, <2>2, <3>1 DEF CommandType, Resume
    <3>3. SchedulerTypeOK'
      BY <1>a, <1>c, <2>2, EnqueueType DEF Resume
    <3>4. /\ status' \in [Tasks -> {"none"} \cup Unfinished \cup Terminal]
          /\ run' \in [Tasks -> RunPhase] /\ toolStarted' \in [Tasks -> BOOLEAN]
      BY <2>2 DEF Resume, TypeInv, TaskTypeOK, Unfinished, RunPhase
    <3> QED  BY <2>2, <3>2, <3>3, <3>4 DEF Resume, TypeInv, TaskTypeOK, Row
  <2>3. ASSUME NEW type \in {"interrupt", "cancel"}, Terminate(c, t, type)  PROVE TypeInv'
    <3>1. cmd' \in [Commands -> Row] /\ Addressed'
      BY <1>a, <2>0, <2>3 DEF CommandType, Terminate
    <3>2. /\ status' \in [Tasks -> {"none"} \cup Unfinished \cup Terminal]
          /\ control' \in [Tasks -> {"none", "pause", "interrupt", "cancel"}]
          /\ awaits' \in [Commands -> {"nothing", "cancellers", "run"}]
      BY <2>3 DEF Terminate, TypeInv, TaskTypeOK, Terminal
    <3> QED  BY <1>c, <2>3, <3>1, <3>2 DEF Terminate, TypeInv, TaskTypeOK, Row
  <2>4. ASSUME NEW type \in CommandType, RefuseCommand(c, t, type)  PROVE TypeInv'
    <3>1. cmd' \in [Commands -> Row] /\ Addressed'
      BY <2>0, <2>4 DEF RefuseCommand
    <3> QED  BY <1>c, <2>4, <3>1 DEF RefuseCommand, TypeInv, TaskTypeOK, Row
  <2> QED  BY <1>7, <2>1, <2>2, <2>3, <2>4 DEF CommandStep
<1>8. ASSUME NEW c \in Commands, CancellersDone(c)  PROVE TypeInv'
  <2>1. cmd[c].task \in Tasks
    BY <1>8 DEF CancellersDone, TypeInv, Addressed
  <2>2. SchedulerTypeOK'
    BY <1>8, <1>a, <2>1, FinishType DEF CancellersDone, Outcomes
  <2>3. ledger' \in [Tasks -> [Calls -> LedgerStatus]]
    BY <1>8, <2>1 DEF CancellersDone, TypeInv, TaskTypeOK, LedgerStatus
  <2>4. cmd' \in [Commands -> Row] /\ \A d \in Commands : cmd'[d].task = cmd[d].task
    BY <1>8, <1>a DEF CancellersDone, Row
  <2>5. /\ aborted' \in [Tasks -> BOOLEAN] /\ context' \in [Tasks -> BOOLEAN]
        /\ toolStarted' \in [Tasks -> BOOLEAN]
    BY <1>8, <2>1 DEF CancellersDone, TypeInv, TaskTypeOK
  <2>6. /\ awaits' \in [Commands -> {"nothing", "cancellers", "run"}]
        /\ \A d \in Commands \ {c} : awaits'[d] = awaits[d]
    BY <1>8, <1>a DEF CancellersDone
  <2>7. Addressed'
    BY <2>1, <2>4, <2>6 DEF TypeInv, Addressed
  <2> QED  BY <1>8, <2>2, <2>3, <2>4, <2>5, <2>6, <2>7
            DEF CancellersDone, TypeInv, TaskTypeOK, Row
<1>9. ASSUME NEW r \in Runs \ Tasks, OtherRun(r)  PROVE TypeInv'
  <2>1. SchedulerTypeOK'
    BY <1>9, <1>a, EnqueueType, FinishType DEF OtherRun, Outcomes
  <2> QED  BY <1>9, <1>b, <2>1 DEF OtherRun, TypeInv, TaskTypeOK
<1>10. CASE ProcessStep
  <2>1. CASE Close
    BY <1>b, <1>c, <2>1 DEF Close, TypeInv, TaskTypeOK, Started
  <2>2. CASE Stop \/ Crash
    <3>1. SchedulerTypeOK'
      BY <1>a, <1>c, <2>2, CancelAllType DEF Stop, Crash
    <3>2. ProcessGone /\ UNCHANGED <<rowVars, outsideVars>>
      BY <2>2 DEF Stop, Crash
    <3>3. /\ run' \in [Tasks -> RunPhase] /\ context' \in [Tasks -> BOOLEAN]
          /\ aborted' \in [Tasks -> BOOLEAN] /\ toolStarted' \in [Tasks -> BOOLEAN]
          /\ control' \in [Tasks -> {"none", "pause", "interrupt", "cancel"}]
          /\ awaits' \in [Commands -> {"nothing", "cancellers", "run"}]
          /\ up' = "down" /\ Addressed'
      BY <3>2 DEF ProcessGone, RunPhase, Addressed
    <3> QED  BY <3>1, <3>2, <3>3 DEF TypeInv, TaskTypeOK
  <2>3. CASE Start
    BY <1>a, <1>b, <2>3, CancelAllType DEF Start, TypeInv, TaskTypeOK
  <2>4. CASE Recover
    <3>1. status' \in [Tasks -> {"none"} \cup Unfinished \cup Terminal]
      BY <2>4 DEF Recover, TypeInv, TaskTypeOK, Terminal
    <3>2. operation' \in [Tasks -> [Calls -> OpStatus]]
      BY <2>4 DEF Recover, TypeInv, TaskTypeOK, OpStatus
    <3>3. cmd' \in [Commands -> Row] /\ \A d \in Commands : cmd'[d].task = cmd[d].task
      BY <1>a, <2>4 DEF Recover, Row
    <3>4. Addressed'
      BY <2>4, <3>3 DEF Recover, TypeInv, Addressed
    <3> QED  BY <1>c, <2>4, <3>1, <3>2, <3>3, <3>4 DEF Recover, TypeInv, TaskTypeOK, Row
  <2> QED  BY <1>10, <2>1, <2>2, <2>3, <2>4 DEF ProcessStep
<1> QED  BY <1>1, <1>2, <1>3, <1>4, <1>5, <1>6, <1>7, <1>8, <1>9, <1>10 DEF TaskNext

LEMMA TypeInvariant == TaskSpec => []TypeInv
<1>1. TaskInit => TypeInv
  BY TasksAssumption DEF TaskInit, SchedulerInit, SchedulerTypeOK, RunStatus, TypeInv, TaskTypeOK,
     Addressed, NoCommand, CommandType, OpStatus, LedgerStatus, RunPhase
<1> QED  BY <1>1, TypeStep, PTL DEF TaskSpec

\* Every variable keeps to its type.
THEOREM TasksTypeCorrect == TaskSpec => []TaskTypeOK
<1>1. TypeInv => TaskTypeOK
  BY DEF TypeInv
<1> QED  BY <1>1, TypeInvariant, PTL

-----------------------------------------------------------------------------
\* The record of a browser operation never says more than the proxy did.
THEOREM LedgerAgreement == TaskSpec => []LedgerAgrees
<1>1. TaskInit => LedgerAgrees
  BY DEF TaskInit, LedgerAgrees
<1>2. TypeInv /\ LedgerAgrees /\ [TaskNext]_taskVars => LedgerAgrees'
  <2> SUFFICES ASSUME TypeInv, LedgerAgrees, [TaskNext]_taskVars,
                      NEW t \in Tasks, NEW c \in Calls
               PROVE  /\ ledger'[t][c] # "none" =>
                            operation'[t][c] \notin {"none", "reserved", "interrupted"}
                      /\ operation'[t][c] = "succeeded" => ledger'[t][c] = "succeeded"
                      /\ operation'[t][c] = "failed" =>
                            ledger'[t][c] \in {"failed", "cancelled", "refused"}
    BY DEF LedgerAgrees
  <2> USE DEF rowVars, outsideVars, TypeInv, TaskTypeOK, LedgerAgrees
  <2>1. CASE operation'[t][c] = operation[t][c] /\ ledger'[t][c] = ledger[t][c]
    BY <2>1
  <2>2. CASE UNCHANGED taskVars
    BY <2>1, <2>2 DEF taskVars
  <2>3. ASSUME NEW u \in Tasks, \/ CreateTask(u) \/ RunStep(u) \/ TimesOut(u) \/ Submit(u) \/ Reconcile(u)
        PROVE  operation' = operation /\ ledger' = ledger
    BY <2>3 DEF CreateTask, RunStep, RunBegins, RunAdmitted, RunRefused, LoopEnds, Flush, RunCompletes,
       RunFails, TimesOut, Submit, Reconcile
  <2>4. ASSUME NEW u \in Tasks, NEW d \in Commands, CommandStep(d, u)
        PROVE  operation' = operation /\ ledger' = ledger
    BY <2>4 DEF CommandStep, Pause, Resume, Terminate, RefuseCommand
  <2>5. ASSUME NEW u \in Tasks, NEW d \in Calls, ToolStep(u, d), u # t \/ d # c
        PROVE  operation'[t][c] = operation[t][c] /\ ledger'[t][c] = ledger[t][c]
    BY <2>5 DEF ToolStep, SendOperation, CrashBeforeDispatch, OperationAnswered,
       OperationUnanswered, Settle, ProxyMoves
  <2>6. CASE SendOperation(t, c)
    BY <2>6 DEF SendOperation
  <2>7. CASE CrashBeforeDispatch(t, c)
    BY <2>7 DEF CrashBeforeDispatch, MayCall
  <2>8. CASE OperationAnswered(t, c) \/ OperationUnanswered(t, c)
    BY <2>8 DEF OperationAnswered, OperationUnanswered, Settle, OutcomeOf
  <2>9. CASE ProxyMoves(t, c)
    BY <2>9 DEF ProxyMoves
  <2>10. ASSUME NEW d \in Commands, CancellersDone(d)
         PROVE  /\ operation' = operation
                /\ ledger'[t][c] = ledger[t][c]
                   \/ (ledger[t][c] = "sent" /\ ledger'[t][c] = "cancelled")
    <3>1. cmd[d].task \in Tasks
      BY <2>10 DEF CancellersDone, Addressed
    <3> QED  BY <2>10, <3>1 DEF CancellersDone
  <2>11. ASSUME NEW r \in Runs \ Tasks, OtherRun(r)
         PROVE  operation' = operation /\ ledger' = ledger
    BY <2>11 DEF OtherRun
  <2>12. CASE ProcessStep
    <3>1. CASE Recover
      BY <3>1 DEF Recover
    <3>2. CASE Close \/ Stop \/ Crash \/ Start
      BY <2>1, <3>2 DEF Close, Stop, Crash, Start
    <3> QED  BY <2>12, <3>1, <3>2 DEF ProcessStep
  <2>13. ASSUME NEW u \in Tasks, NEW d \in Calls, ToolStep(u, d)
         PROVE  \/ operation'[t][c] = operation[t][c] /\ ledger'[t][c] = ledger[t][c]
                \/ SendOperation(t, c) \/ CrashBeforeDispatch(t, c) \/ ProxyMoves(t, c)
                \/ OperationAnswered(t, c) \/ OperationUnanswered(t, c)
    BY <2>5, <2>13 DEF ToolStep
  <2>14. CASE \E d \in Commands : CancellersDone(d)
    BY <2>10, <2>14
  <2> HIDE DEF rowVars, outsideVars, TypeInv, TaskTypeOK, LedgerAgrees
  <2> QED  BY <2>1, <2>2, <2>3, <2>4, <2>6, <2>7, <2>8, <2>9, <2>11, <2>12, <2>13, <2>14 DEF TaskNext
<1> QED  BY <1>1, <1>2, TypeInvariant, PTL DEF TaskSpec

\* Only the steps named here write the status of a task, and none of them
\* writes over an end.
THEOREM EndsAreFinal == TaskSpec => TerminalIsFinal
<1>1. TypeInv /\ [TaskNext]_taskVars
      => [\A t \in Tasks : status[t] \in Terminal => status'[t] = status[t]]_taskVars
  <2> SUFFICES ASSUME TypeInv, [TaskNext]_taskVars, NEW t \in Tasks, status[t] \in Terminal
               PROVE  status'[t] = status[t]
    OBVIOUS
  <2> USE DEF rowVars, TypeInv, TaskTypeOK
  <2>0. status[t] \notin Unfinished /\ status[t] # "none"
    BY DEF Terminal, Unfinished
  <2>1. CASE UNCHANGED taskVars
    BY <2>1 DEF taskVars
  <2>2. ASSUME NEW u \in Tasks, NEW s, EndRun(u, s), u # t \/ s = status[t]
        PROVE  status'[t] = status[t]
    <3>1. PICK p \in Commands \cup {None} :
             Ended(u, s, p) /\ (p # None => s = "running")
      BY <2>2, EndRunPicks
    <3>2. s = status[t] => p = None
      BY <2>0, <3>1 DEF Unfinished
    <3> QED  BY <2>2, <3>1, <3>2 DEF Ended
  <2>3. ASSUME NEW u \in Tasks, RunStep(u)  PROVE status'[t] = status[t]
    <3>1. CASE RunBegins(u) \/ RunRefused(u) \/ LoopEnds(u) \/ Flush(u)
      BY <3>1 DEF RunBegins, RunRefused, LoopEnds, Flush
    <3>2. CASE RunAdmitted(u)
      BY <2>0, <2>2, <3>2 DEF RunAdmitted, Unfinished
    <3>3. CASE RunCompletes(u)
      BY <2>0, <2>2, <3>3 DEF RunCompletes, Unfinished
    <3>4. CASE RunFails(u)
      BY <2>0, <2>2, <3>4 DEF RunFails
    <3> QED  BY <2>3, <3>1, <3>2, <3>3, <3>4 DEF RunStep
  <2>4. ASSUME NEW u \in Tasks, CreateTask(u) \/ TimesOut(u) \/ Submit(u) \/ Reconcile(u)
        PROVE  status'[t] = status[t]
    BY <2>0, <2>4 DEF CreateTask, TimesOut, Submit, Reconcile, Reconcilable, Unfinished
  <2>5. ASSUME NEW u \in Tasks, NEW d \in Calls, ToolStep(u, d)  PROVE status'[t] = status[t]
    BY <2>5 DEF ToolStep, SendOperation, CrashBeforeDispatch, OperationAnswered,
       OperationUnanswered, Settle, ProxyMoves
  <2>6. ASSUME NEW u \in Tasks, NEW d \in Commands, CommandStep(d, u)
        PROVE  status'[t] = status[t]
    BY <2>0, <2>6 DEF CommandStep, Pause, Resume, Terminate, RefuseCommand, Unfinished
  <2>7. ASSUME NEW d \in Commands, CancellersDone(d)  PROVE status'[t] = status[t]
    BY <2>7 DEF CancellersDone
  <2>8. ASSUME NEW r \in Runs \ Tasks, OtherRun(r)  PROVE status'[t] = status[t]
    BY <2>8 DEF OtherRun
  <2>9. CASE ProcessStep
    BY <2>0, <2>9 DEF ProcessStep, Close, Stop, Crash, Start, Recover
  <2> QED  BY <2>1, <2>3, <2>4, <2>5, <2>6, <2>7, <2>8, <2>9 DEF TaskNext
<1> QED  BY <1>1, TypeInvariant, PTL DEF TaskSpec, TerminalIsFinal

-----------------------------------------------------------------------------
\* The process that runs the tasks is there.
Alive == up \in {"up", "closing"}

\* What holds of a task while the process lives: only an execution has an
\* operation out, a paused task is at rest, an unfinished one can be run, an
\* intervention that was decided stands in the row, and a pause that is noted
\* has a command that waits for it.
TaskOK(t) ==
    /\ InFlight(t) # {} => run[t] = "executing"
    /\ status[t] = "none" => run[t] = "none"
    /\ status[t] = "paused" => run[t] = "none"
    /\ status[t] \in Unfinished => context[t]
    /\ control[t] \in {"interrupt", "cancel"} => status[t] \in Terminal
    /\ control[t] = "pause" =>
          status[t] \in {"running"} \cup Terminal /\ Waiting(t, {"pause"}) # {}

\* What holds of a command: it waits only while it is accepted, a pause for
\* the end of a run and a termination of what it ended; and while the process
\* lives an accepted command has a handler that waits.
CommandOK(c) ==
    /\ awaits[c] # "nothing" =>
          /\ cmd[c].status = "accepted"
          /\ \/ cmd[c].type \in {"interrupt", "cancel"} /\ status[cmd[c].task] \in Terminal
             \/ /\ cmd[c].type = "pause" /\ awaits[c] = "run"
                /\ \/ control[cmd[c].task] = "pause" /\ status[cmd[c].task] = "running"
                   \/ status[cmd[c].task] \in Terminal
    /\ awaits[c] = "run" => run[cmd[c].task] # "none"
    /\ Alive /\ cmd[c].status = "accepted" => awaits[c] # "nothing"

\* A task that never ran has submitted nothing.
Unsubmitted == \A t \in Tasks : status[t] \in {"none", "created"} => pendingCall[t] = 0

AtRest == /\ \A t \in Tasks : run[t] = "none" /\ control[t] = "none"
          /\ \A c \in Commands : awaits[c] = "nothing"

TaskInv ==
    /\ Alive => \A t \in Tasks : TaskOK(t)
    /\ ~Alive => AtRest
    /\ \A c \in Commands : CommandOK(c)
    /\ Unsubmitted

\* A step of the living process that moves task t and its commands alone.
MovesOnly(t) ==
    /\ Alive /\ up' = up
    /\ \A u \in Tasks \ {t} :
          /\ status'[u] = status[u] /\ run'[u] = run[u] /\ context'[u] = context[u]
          /\ control'[u] = control[u] /\ operation'[u] = operation[u]
          /\ pendingCall'[u] = pendingCall[u]
    /\ \A c \in Commands :
          cmd'[c].task # t \/ cmd[c].task \in Tasks \ {t} =>
              cmd'[c] = cmd[c] /\ awaits'[c] = awaits[c]

\* Such a step keeps the invariant when it keeps it for t and its commands.
LEMMA MovesOnlyOne ==
    ASSUME TypeInv, TypeInv', TaskInv, NEW t \in Tasks, MovesOnly(t), TaskOK(t)',
           \A c \in Commands : cmd'[c].task = t => CommandOK(c)',
           status'[t] \in {"none", "created"} => pendingCall'[t] = 0
    PROVE  TaskInv'
<1>1. Alive /\ Alive'
  BY DEF MovesOnly, Alive
<1>2. ASSUME NEW u \in Tasks, u # t  PROVE TaskOK(u)'
  <2>1. TaskOK(u)
    BY <1>1 DEF TaskInv
  <2>2. InFlight(u)' = InFlight(u)
    BY <1>2 DEF MovesOnly, InFlight
  <2>3. Waiting(u, {"pause"})' = Waiting(u, {"pause"})
    BY <1>2 DEF MovesOnly, Waiting
  <2> QED  BY <1>2, <2>1, <2>2, <2>3 DEF MovesOnly, TaskOK
<1>3. ASSUME NEW c \in Commands, cmd'[c].task # t  PROVE CommandOK(c)'
  <2>1. CommandOK(c) /\ cmd'[c] = cmd[c] /\ awaits'[c] = awaits[c]
    BY <1>3 DEF MovesOnly, TaskInv
  <2>2. awaits[c] # "nothing" => cmd[c].task \in Tasks
    BY DEF TypeInv, Addressed
  <2> QED  BY <1>1, <1>3, <2>1, <2>2 DEF MovesOnly, CommandOK
<1>4. Unsubmitted'
  BY DEF MovesOnly, TaskInv, Unsubmitted
<1> QED  BY <1>1, <1>2, <1>3, <1>4 DEF TaskInv

\* A callback of a run that goes on.
LEMMA CallbackKeeps ==
    ASSUME TypeInv, TypeInv', TaskInv, Alive, NEW t \in Tasks, run[t] # "none",
           NEW phase, run' = [run EXCEPT ![t] = phase], phase # "none",
           UNCHANGED <<status, context, control, cmd, awaits, pendingCall, up>>,
           \A u \in Tasks \ {t} : operation'[u] = operation[u],
           InFlight(t)' # {} => phase = "executing"
    PROVE  TaskInv'
<1>0. MovesOnly(t)
  BY DEF MovesOnly, TypeInv, TaskTypeOK
<1>1. run'[t] = phase
  BY DEF TypeInv, TaskTypeOK
<1>2. TaskOK(t)'
  <2>1. TaskOK(t)
    BY DEF TaskInv
  <2>2. Waiting(t, {"pause"})' = Waiting(t, {"pause"})
    BY DEF Waiting
  <2> QED  BY <1>1, <2>1, <2>2 DEF TaskOK
<1>3. ASSUME NEW c \in Commands, cmd'[c].task = t  PROVE CommandOK(c)'
  <2>1. CommandOK(c)
    BY DEF TaskInv
  <2> QED  BY <1>1, <1>3, <2>1 DEF CommandOK, Alive
<1>4. status'[t] \in {"none", "created"} => pendingCall'[t] = 0
  BY DEF TaskInv, Unsubmitted
<1> QED  BY <1>0, <1>2, <1>3, <1>4, MovesOnlyOne

\* The end of a run, whether it ends the task or leaves it to a pause.
LEMMA EndRunKeeps ==
    ASSUME TypeInv, TypeInv', TaskInv, Alive, NEW t \in Tasks,
           run[t] \notin {"none", "executing"},
           NEW s, EndRun(t, s), UNCHANGED <<pendingCall, operation, up>>,
           \/ s \in Terminal
           \/ s = "running" /\ status[t] = "running" /\ control[t] = "pause"
    PROVE  TaskInv'
<1> DEFINE pauses == Waiting(t, {"pause"})
           ends == Waiting(t, {"interrupt", "cancel"})
<1>1. PICK p \in Commands \cup {None} :
         /\ Ended(t, s, p)
         /\ p # None => s = "running" /\ p \in pauses
         /\ s = "running" /\ pauses # {} => p # None
  BY EndRunPicks
<1>2. TaskOK(t) /\ \A c \in Commands : CommandOK(c)
  BY DEF TaskInv
<1>3. /\ run' = [run EXCEPT ![t] = "none"] /\ control' = [control EXCEPT ![t] = "none"]
      /\ context' = [context EXCEPT ![t] = control[t] = "pause" /\ ends = {}]
      /\ awaits' = [c \in Commands |-> IF c \in pauses \cup ends THEN "nothing" ELSE awaits[c]]
  BY DEF EndRun
<1>4. run'[t] = "none" /\ control'[t] = "none"
      /\ context'[t] = (control[t] = "pause" /\ ends = {})
  BY <1>3 DEF TypeInv, TaskTypeOK
<1>5. status'[t] = IF p = None THEN s ELSE "paused"
  BY <1>1 DEF Ended, TypeInv, TaskTypeOK
<1>6. \/ status'[t] \in Terminal
      \/ status'[t] = "paused" /\ context'[t] /\ status[t] = "running"
  <2>1. CASE s \in Terminal
    BY <1>1, <1>5, <2>1 DEF Terminal
  <2>2. CASE s = "running" /\ status[t] = "running" /\ control[t] = "pause"
    <3>1. p # None
      BY <1>1, <1>2, <2>2 DEF TaskOK
    <3>2. ends = {}
      <4> SUFFICES ASSUME NEW c \in ends  PROVE FALSE
        OBVIOUS
      <4>1. c \in Commands /\ awaits[c] = "run" /\ cmd[c].task = t
            /\ cmd[c].type \in {"interrupt", "cancel"}
        BY DEF Waiting
      <4>2. status[t] \in Terminal
        BY <1>2, <4>1 DEF CommandOK
      <4> QED  BY <2>2, <4>2 DEF Terminal
    <3> QED  BY <1>4, <1>5, <2>2, <3>1, <3>2
  <2> QED  BY <2>1, <2>2
<1>7. ASSUME NEW c \in Commands
      PROVE  /\ cmd'[c].task = cmd[c].task /\ cmd'[c].type = cmd[c].type
             /\ c \notin pauses \cup ends => cmd'[c] = cmd[c] /\ awaits'[c] = awaits[c]
             /\ c \in pauses \cup ends =>
                    awaits'[c] = "nothing" /\ cmd'[c].status \in {"completed", "rejected"}
  <2>1. cmd[c] \in Row
    BY DEF TypeInv, TaskTypeOK, Row
  <2>2. \/ cmd'[c] = cmd[c] /\ c \notin pauses \cup ends
        \/ /\ \E x \in {"completed", "rejected"} : cmd'[c] = [cmd[c] EXCEPT !.status = x]
           /\ c \in pauses \cup ends
    BY <1>1, TasksAssumption DEF Ended
  <2> QED  BY <1>3, <2>1, <2>2 DEF Row
<1>8. \A c \in pauses \cup ends : c \in Commands /\ cmd[c].task = t
  BY DEF Waiting
<1>9. MovesOnly(t)
  <2>1. ASSUME NEW u \in Tasks \ {t}
        PROVE  /\ status'[u] = status[u] /\ run'[u] = run[u] /\ context'[u] = context[u]
               /\ control'[u] = control[u]
    BY <1>1, <1>3 DEF Ended, TypeInv, TaskTypeOK
  <2>2. ASSUME NEW c \in Commands, cmd'[c].task # t \/ cmd[c].task \in Tasks \ {t}
        PROVE  cmd'[c] = cmd[c] /\ awaits'[c] = awaits[c]
    BY <1>7, <1>8, <2>2
  <2> QED  BY <2>1, <2>2 DEF MovesOnly
<1>10. TaskOK(t)'
  <2>1. InFlight(t)' = {}
    BY <1>2 DEF TaskOK, InFlight
  <2> QED  BY <1>4, <1>6, <2>1 DEF TaskOK, Terminal, Unfinished
<1>11. ASSUME NEW c \in Commands, cmd'[c].task = t  PROVE CommandOK(c)'
  <2>1. CASE c \in pauses \cup ends
    BY <1>7, <2>1 DEF CommandOK
  <2>2. CASE c \notin pauses \cup ends
    <3>1. cmd'[c] = cmd[c] /\ awaits'[c] = awaits[c] /\ CommandOK(c) /\ cmd[c].task = t
      BY <1>2, <1>7, <1>11, <2>2
    <3>2. awaits[c] # "run"
      BY <2>2, <3>1 DEF CommandOK, Waiting
    <3>3. awaits[c] # "nothing" =>
              status[t] \in Terminal /\ cmd[c].type \in {"interrupt", "cancel"}
      BY <3>1, <3>2 DEF CommandOK
    <3>4. status[t] \in Terminal => status'[t] \in Terminal
      BY <1>6 DEF Terminal
    <3> QED  BY <3>1, <3>2, <3>3, <3>4 DEF CommandOK, Alive
  <2> QED  BY <2>1, <2>2
<1>12. status'[t] \notin {"none", "created"}
  BY <1>6 DEF Terminal
<1> HIDE DEF pauses, ends
<1> QED  BY <1>9, <1>10, <1>11, <1>12, MovesOnlyOne

\* The next command is a row that nobody waits for yet.
LEMMA NewCommand ==
    ASSUME TypeInv, TaskInv, NEW t \in Tasks, NEW c \in Commands, Commandable(c, t),
           NEW type, NEW result, Command(c, t, type, result)
    PROVE  /\ awaits[c] = "nothing" /\ Alive /\ status[t] # "none"
           /\ cmd'[c] = [task |-> t, type |-> type, status |-> result]
           /\ \A d \in Commands \ {c} : cmd'[d] = cmd[d]
           /\ cmd[c].task \notin Tasks
<1>1. cmd[c] = NoCommand
  <2>1. c \notin {d \in Commands : d < c}
    BY TasksAssumption
  <2> QED  BY <2>1 DEF Commandable
<1>2. CommandOK(c)
  BY DEF TaskInv
<1>3. cmd[c].status # "accepted" /\ cmd[c].task \notin Tasks
  BY <1>1, TasksAssumption DEF NoCommand
<1> QED  BY <1>2, <1>3 DEF CommandOK, Commandable, Alive, Command, TypeInv, TaskTypeOK

\* What a command does to a task whose run it lets go on or that has none.
LEMMA CommandKeeps ==
    ASSUME TypeInv, TypeInv', TaskInv, NEW t \in Tasks, NEW c \in Commands, CommandStep(c, t)
    PROVE  TaskInv'
<1>0. TaskOK(t) /\ \A d \in Commands : CommandOK(d)
  BY DEF TaskInv, CommandStep, Pause, Resume, Terminate, RefuseCommand, Commandable, Alive
<1>a. InFlight(t)' = InFlight(t)
  BY DEF CommandStep, Pause, Resume, Terminate, RefuseCommand, outsideVars, InFlight
<1>b. Commandable(c, t) /\ up' = up /\ pendingCall' = pendingCall /\ operation' = operation
  BY DEF CommandStep, Pause, Resume, Terminate, RefuseCommand, processVars
<1>c. status[t] \notin {"none", "created"} => status'[t] \notin {"none", "created"}
  BY DEF CommandStep, Pause, Resume, Terminate, RefuseCommand, TypeInv, TaskTypeOK
<1>1. ASSUME Pause(c, t), run[t] # "none"  PROVE TaskInv'
  <2>1. /\ Command(c, t, "pause", "accepted") /\ status' = status /\ run' = run
        /\ control' = [control EXCEPT ![t] = "pause"] /\ context' = context
        /\ awaits' = [awaits EXCEPT ![c] = "run"] /\ status[t] = "running"
    BY <1>1 DEF Pause
  <2>2. /\ awaits[c] = "nothing" /\ Alive /\ cmd[c].task \notin Tasks
        /\ cmd'[c] = [task |-> t, type |-> "pause", status |-> "accepted"]
        /\ \A d \in Commands \ {c} : cmd'[d] = cmd[d]
    BY <1>b, <2>1, NewCommand
  <2>3. awaits'[c] = "run" /\ control'[t] = "pause"
        /\ \A d \in Commands \ {c} : awaits'[d] = awaits[d]
    BY <2>1 DEF TypeInv, TaskTypeOK
  <2>4. MovesOnly(t)
    BY <1>b, <2>1, <2>2, <2>3 DEF MovesOnly, TypeInv, TaskTypeOK
  <2>5. TaskOK(t)'
    <3>1. c \in Waiting(t, {"pause"})'
      BY <2>2, <2>3 DEF Waiting
    <3> QED  BY <1>0, <1>a, <2>1, <2>3, <3>1 DEF TaskOK
  <2>6. ASSUME NEW d \in Commands, cmd'[d].task = t  PROVE CommandOK(d)'
    <3>1. CASE d = c
      BY <1>1, <2>1, <2>2, <2>3, <3>1 DEF CommandOK
    <3>2. CASE d # c
      <4>1. cmd'[d] = cmd[d] /\ awaits'[d] = awaits[d] /\ CommandOK(d)
        BY <1>0, <2>2, <2>3, <3>2
      <4> QED  BY <2>1, <2>2, <2>3, <2>6, <4>1 DEF CommandOK, Terminal
    <3> QED  BY <3>1, <3>2
  <2> QED  BY <1>c, <2>1, <2>4, <2>5, <2>6, MovesOnlyOne
\* In the other cases nothing waits for t, or what waits finds it ended.
<1>2. ASSUME NEW s, NEW k, NEW type, NEW result, NEW w,
             status' = [status EXCEPT ![t] = s], control' = [control EXCEPT ![t] = k],
             context' = context, Command(c, t, type, result),
             \A u \in Tasks \ {t} : run'[u] = run[u],
             awaits' = [awaits EXCEPT ![c] = w],
             \/ /\ result # "accepted" /\ w = "nothing"
                /\ k = "none" /\ s \in {"running", "paused"} /\ status[t] \in {"running", "paused"}
                /\ run[t] = "none" /\ (s = "paused" => run'[t] = "none")
             \/ /\ result = "accepted" /\ w = "cancellers"
                /\ k = type /\ type \in {"interrupt", "cancel"} /\ s \in Terminal
                /\ status[t] \in Unfinished /\ run' = run
      PROVE  TaskInv'
  <2>2. /\ awaits[c] = "nothing" /\ Alive /\ cmd[c].task \notin Tasks /\ status[t] # "none"
        /\ cmd'[c] = [task |-> t, type |-> type, status |-> result]
        /\ \A d \in Commands \ {c} : cmd'[d] = cmd[d]
    BY <1>b, <1>2, NewCommand
  <2>3. awaits'[c] = w /\ control'[t] = k /\ status'[t] = s
        /\ \A d \in Commands \ {c} : awaits'[d] = awaits[d]
    BY <1>2 DEF TypeInv, TaskTypeOK
  <2>4. MovesOnly(t)
    BY <1>2, <1>b, <2>2, <2>3 DEF MovesOnly, TypeInv, TaskTypeOK
  <2>5. TaskOK(t)'
    <3>1. CASE s \in Terminal /\ run' = run /\ k \in {"interrupt", "cancel"}
      <4>1. s \notin {"none", "paused"} \cup Unfinished /\ k # "pause"
        BY <3>1 DEF Terminal, Unfinished
      <4> QED  BY <1>0, <1>a, <2>3, <3>1, <4>1 DEF TaskOK
    <3>2. CASE /\ k = "none" /\ s \in {"running", "paused"} /\ status[t] \in {"running", "paused"}
               /\ run[t] = "none" /\ (s = "paused" => run'[t] = "none")
      <4>1. InFlight(t)' = {} /\ context'[t]
        BY <1>0, <1>2, <1>a, <3>2 DEF TaskOK, Unfinished
      <4> QED  BY <2>3, <3>2, <4>1 DEF TaskOK
    <3> QED  BY <1>2, <3>1, <3>2
  <2>6. ASSUME NEW d \in Commands, cmd'[d].task = t  PROVE CommandOK(d)'
    <3>1. CASE d = c
      BY <1>2, <2>2, <2>3, <3>1 DEF CommandOK
    <3>2. CASE d # c
      <4>1. cmd'[d] = cmd[d] /\ awaits'[d] = awaits[d] /\ CommandOK(d) /\ cmd[d].task = t
        BY <1>0, <2>2, <2>3, <2>6, <3>2
      <4>2. CASE run[t] = "none" /\ status[t] \in {"running", "paused"}
        <5>1. awaits[d] = "nothing"
          BY <4>1, <4>2 DEF CommandOK, Terminal, TypeInv, TaskTypeOK
        <5> QED  BY <2>2, <4>1, <5>1 DEF CommandOK, Alive
      <4>3. CASE s \in Terminal /\ run' = run
        <5>1. /\ awaits[d] # "nothing" =>
                    /\ cmd[d].status = "accepted"
                    /\ \/ cmd[d].type \in {"interrupt", "cancel"}
                       \/ cmd[d].type = "pause" /\ awaits[d] = "run"
              /\ awaits[d] = "run" => run[t] # "none"
              /\ cmd[d].status = "accepted" => awaits[d] # "nothing"
          BY <2>2, <4>1 DEF CommandOK
        <5> QED  BY <2>3, <2>6, <4>1, <4>3, <5>1 DEF CommandOK
      <4> QED  BY <1>2, <4>2, <4>3
    <3> QED  BY <3>1, <3>2
  <2>7. status'[t] \in {"none", "created"} => pendingCall'[t] = 0
    BY <1>2, <2>3 DEF Terminal
  <2> QED  BY <2>4, <2>5, <2>6, <2>7, MovesOnlyOne
<1>3. ASSUME Pause(c, t), run[t] = "none"  PROVE TaskInv'
  <2>1. /\ Command(c, t, "pause", "completed") /\ status' = [status EXCEPT ![t] = "paused"]
        /\ control' = [control EXCEPT ![t] = "none"] /\ UNCHANGED <<awaits, context, run>>
        /\ status[t] = "running"
    BY <1>3 DEF Pause
  <2>2. awaits' = [awaits EXCEPT ![c] = "nothing"]
    BY <1>b, <2>1, NewCommand DEF TypeInv, TaskTypeOK
  <2> QED  BY <1>2, <1>3, <2>1, <2>2
<1>4. ASSUME Resume(c, t)  PROVE TaskInv'
  <2>1. PICK result \in {"completed", "rejected"} : Command(c, t, "resume", result)
    BY <1>4 DEF Resume
  <2>2. /\ status' = [status EXCEPT ![t] = "running"] /\ UNCHANGED <<awaits, context, control>>
        /\ status[t] = "paused" /\ run[t] = "none" /\ \A u \in Tasks \ {t} : run'[u] = run[u]
    BY <1>4 DEF Resume, TypeInv, TaskTypeOK
  <2>3. awaits' = [awaits EXCEPT ![c] = "nothing"]
    BY <1>b, <2>1, <2>2, NewCommand DEF TypeInv, TaskTypeOK
  <2>4. control[t] = "none"
    BY <1>0, <2>2 DEF TaskOK, Terminal, TypeInv, TaskTypeOK
  <2>5. control' = [control EXCEPT ![t] = "none"]
    BY <2>2, <2>4 DEF TypeInv, TaskTypeOK
  <2>6. result # "accepted"
    BY <2>1
  <2> QED  BY <1>2, <2>1, <2>2, <2>3, <2>5, <2>6
<1>5. ASSUME NEW type \in {"interrupt", "cancel"}, Terminate(c, t, type)  PROVE TaskInv'
  <2>1. PICK s \in {"cancelled", "interrupted"} : status' = [status EXCEPT ![t] = s]
    BY <1>5 DEF Terminate
  <2>2. s \in Terminal
    BY <2>1 DEF Terminal
  <2> QED  BY <1>2, <1>5, <2>1, <2>2 DEF Terminate
<1>6. ASSUME NEW type \in CommandType, RefuseCommand(c, t, type)  PROVE TaskInv'
  <2>1. /\ Command(c, t, type, "rejected")
        /\ UNCHANGED <<status, run, context, control, awaits>>
    BY <1>6 DEF RefuseCommand, processVars
  <2>2. /\ awaits[c] = "nothing" /\ Alive /\ cmd[c].task \notin Tasks
        /\ cmd'[c] = [task |-> t, type |-> type, status |-> "rejected"]
        /\ \A d \in Commands \ {c} : cmd'[d] = cmd[d]
    BY <1>b, <2>1, NewCommand
  <2>3. MovesOnly(t)
    BY <1>b, <2>1, <2>2 DEF MovesOnly
  <2>4. TaskOK(t)'
    <3>1. \A d \in Waiting(t, {"pause"}) : d \in Waiting(t, {"pause"})'
      BY <2>1, <2>2 DEF Waiting
    <3> QED  BY <1>0, <1>a, <2>1, <3>1 DEF TaskOK
  <2>5. ASSUME NEW d \in Commands, cmd'[d].task = t  PROVE CommandOK(d)'
    <3>1. CASE d = c
      BY <2>1, <2>2, <3>1 DEF CommandOK
    <3>2. CASE d # c
      <4>1. cmd'[d] = cmd[d] /\ awaits'[d] = awaits[d] /\ CommandOK(d)
        BY <1>0, <2>1, <2>2, <3>2
      <4> QED  BY <2>1, <2>2, <4>1 DEF CommandOK
    <3> QED  BY <3>1, <3>2
  <2>6. status'[t] \in {"none", "created"} => pendingCall'[t] = 0
    BY <1>b, <2>1 DEF TaskInv, Unsubmitted
  <2> QED  BY <2>3, <2>4, <2>5, <2>6, MovesOnlyOne
<1> QED  BY <1>1, <1>3, <1>4, <1>5, <1>6 DEF CommandStep

\* A callback of a run that is neither its end nor the loss of the process.
LEMMA RunStepKeeps ==
    ASSUME TypeInv, TypeInv', TaskInv, NEW t \in Tasks, RunStep(t)
    PROVE  TaskInv'
<1>1. Alive
  <2>1. run[t] # "none"
    BY DEF RunStep, RunBegins, RunAdmitted, RunRefused, LoopEnds, Flush, RunCompletes, RunFails
  <2> QED  BY <2>1 DEF TaskInv, AtRest
<1>2. TaskOK(t)
  BY <1>1 DEF TaskInv
<1>3. CASE RunBegins(t) \/ RunRefused(t) \/ LoopEnds(t) \/ Flush(t)
  <2>1. PICK phase \in {"waiting", "settling", "flushing"} : run' = [run EXCEPT ![t] = phase]
    BY <1>3 DEF RunBegins, RunRefused, LoopEnds, Flush
  <2>2. /\ UNCHANGED <<status, context, control, cmd, awaits, pendingCall, up, operation>>
        /\ run[t] # "none"
    BY <1>3 DEF RunBegins, RunRefused, LoopEnds, Flush, rowVars
  <2>3. InFlight(t)' = {}
    <3>1. InFlight(t) = {}
      BY <1>2, <1>3 DEF TaskOK, RunBegins, RunRefused, LoopEnds, Flush
    <3> QED  BY <2>2, <3>1 DEF InFlight
  <2>4. phase # "none"
    BY <2>1
  <2> QED  BY <1>1, <2>1, <2>2, <2>3, <2>4, CallbackKeeps
<1>4. CASE RunAdmitted(t)
  <2>1. CASE EndRun(t, status[t]) /\ status[t] \notin {"created", "running"}
    <3>1. status[t] \in Terminal /\ run[t] \notin {"none", "executing"}
      BY <1>2, <1>4, <2>1 DEF RunAdmitted, TaskOK, TypeInv, TaskTypeOK, Unfinished
    <3>2. UNCHANGED <<pendingCall, operation, up>>
      BY <1>4 DEF RunAdmitted
    <3> QED  BY <1>1, <2>1, <3>1, <3>2, EndRunKeeps
  <2>2. CASE /\ status[t] \in {"created", "running"}
             /\ status' = [status EXCEPT ![t] = "running"]
             /\ run' = [run EXCEPT ![t] = "executing"]
             /\ UNCHANGED <<cmd, context, aborted, toolStarted, control, awaits, schedulerVars>>
    <3>1. status'[t] = "running" /\ run'[t] = "executing" /\ run[t] # "none"
          /\ UNCHANGED <<pendingCall, operation, up>>
      BY <1>4, <2>2 DEF RunAdmitted, TypeInv, TaskTypeOK
    <3>2. MovesOnly(t)
      BY <1>1, <2>2, <3>1 DEF MovesOnly, TypeInv, TaskTypeOK
    <3>3. Waiting(t, {"pause"})' = Waiting(t, {"pause"})
      BY <2>2 DEF Waiting
    <3>4. TaskOK(t)'
      <4>1. control[t] \notin {"interrupt", "cancel"} /\ context[t]
        BY <1>2, <2>2 DEF TaskOK, Terminal, Unfinished
      <4>2. control[t] = "pause" => Waiting(t, {"pause"}) # {}
        BY <1>2 DEF TaskOK
      <4> QED  BY <2>2, <3>1, <3>3, <4>1, <4>2 DEF TaskOK
    <3>5. ASSUME NEW c \in Commands, cmd'[c].task = t  PROVE CommandOK(c)'
      <4>1. CommandOK(c)
        BY DEF TaskInv
      <4> QED  BY <1>1, <2>2, <3>1, <3>5, <4>1 DEF CommandOK, Terminal, Alive
    <3> QED  BY <3>1, <3>2, <3>4, <3>5, MovesOnlyOne
  <2> QED  BY <1>4, <2>1, <2>2 DEF RunAdmitted
<1>5. CASE RunCompletes(t) \/ RunFails(t)
  <2>0. /\ run[t] \notin {"none", "executing"} /\ UNCHANGED <<pendingCall, operation, up>>
        /\ status[t] \notin {"none", "paused"}
    BY <1>2, <1>5 DEF RunCompletes, RunFails, TaskOK
  <2>1. control[t] = "none" \/ status[t] \in Terminal
        \/ (control[t] = "pause" /\ status[t] = "running")
    BY <1>2, <2>0 DEF TaskOK, TypeInv, TaskTypeOK
  <2>2. CASE RunCompletes(t)
    <3>1. status[t] # "created"
      BY <2>2 DEF RunCompletes, Submitted, TaskInv, Unsubmitted
    <3>2. PICK s : /\ EndRun(t, s)
                   /\ s = IF control[t] = "none" /\ status[t] = "running"
                          THEN "completed" ELSE status[t]
      BY <2>2 DEF RunCompletes
    <3>3. s \in Terminal \/ (s = "running" /\ status[t] = "running" /\ control[t] = "pause")
      BY <2>0, <2>1, <3>1, <3>2 DEF Terminal, Unfinished, TypeInv, TaskTypeOK
    <3> QED  BY <1>1, <2>0, <3>2, <3>3, EndRunKeeps
  <2>3. CASE RunFails(t)
    <3>1. PICK s : /\ EndRun(t, s)
                   /\ \/ s \in {"failed", "blocked", "interrupted"}
                      \/ s = status[t] /\ ~(control[t] = "none" /\ status[t] \in Unfinished)
      BY <2>3 DEF RunFails
    <3>2. s \in Terminal \/ (s = "running" /\ status[t] = "running" /\ control[t] = "pause")
      BY <2>0, <2>1, <3>1 DEF Terminal, Unfinished, TypeInv, TaskTypeOK
    <3> QED  BY <1>1, <2>0, <3>1, <3>2, EndRunKeeps
  <2> QED  BY <1>5, <2>2, <2>3
<1> QED  BY <1>3, <1>4, <1>5 DEF RunStep

\* A browser operation moves on, or the process dies before it is sent.
LEMMA ToolStepKeeps ==
    ASSUME TypeInv, TypeInv', TaskInv, NEW t \in Tasks, NEW c \in Calls, ToolStep(t, c)
    PROVE  TaskInv'
<1>1. CASE \/ SendOperation(t, c) \/ OperationAnswered(t, c) \/ OperationUnanswered(t, c)
  <2>1. /\ run[t] = "executing" /\ run' = run
        /\ UNCHANGED <<status, context, control, cmd, awaits, pendingCall, up>>
        /\ \A u \in Tasks \ {t} : operation'[u] = operation[u]
    BY <1>1 DEF SendOperation, MayCall, OperationAnswered, OperationUnanswered, Settle,
                processVars, TypeInv, TaskTypeOK
  <2>2. run' = [run EXCEPT ![t] = "executing"]
    BY <2>1 DEF TypeInv, TaskTypeOK
  <2>3. Alive
    BY <2>1 DEF TaskInv, AtRest
  <2> QED  BY <2>1, <2>2, <2>3, CallbackKeeps
<1>2. CASE ProxyMoves(t, c)
  <2>1. UNCHANGED <<status, context, control, cmd, awaits, pendingCall, up, operation, run>>
    BY <1>2 DEF ProxyMoves, rowVars, processVars
  <2> QED  BY <2>1 DEF TaskInv, TaskOK, CommandOK, AtRest, Alive, Unsubmitted, InFlight, Waiting
<1>3. CASE CrashBeforeDispatch(t, c)
  BY <1>3 DEF CrashBeforeDispatch, ProcessGone, TaskInv, CommandOK, AtRest, Alive, Unsubmitted
<1> QED  BY <1>1, <1>2, <1>3 DEF ToolStep

\* A termination has cancelled what it could in the proxy.
LEMMA CancellersKeep ==
    ASSUME TypeInv, TypeInv', TaskInv, NEW c \in Commands, CancellersDone(c)
    PROVE  TaskInv'
<1>1. PICK t \in Tasks : t = cmd[c].task
  BY DEF CancellersDone, TypeInv, Addressed
<1>2. Alive
  BY DEF CancellersDone, TaskInv, AtRest
<1>3. TaskOK(t) /\ \A d \in Commands : CommandOK(d)
  BY <1>2 DEF TaskInv
<1>4. /\ status[t] \in Terminal /\ cmd[c].status = "accepted"
      /\ cmd[c].type \in {"interrupt", "cancel"} /\ awaits[c] = "cancellers"
  BY <1>1, <1>3 DEF CancellersDone, CommandOK
<1>5. /\ UNCHANGED <<status, pendingCall, operation, up, run, control>>
      /\ \A u \in Tasks \ {t} : context'[u] = context[u]
  BY <1>1 DEF CancellersDone, TypeInv, TaskTypeOK
<1>6. /\ \A d \in Commands \ {c} : cmd'[d] = cmd[d] /\ awaits'[d] = awaits[d]
      /\ cmd'[c].task = t /\ cmd'[c].type = cmd[c].type
      /\ \/ awaits'[c] = "run" /\ run[t] # "none" /\ cmd'[c] = cmd[c]
         \/ awaits'[c] = "nothing" /\ cmd'[c].status = "completed"
  <2>1. cmd[c] \in Row
    BY DEF TypeInv, TaskTypeOK, Row
  <2>2. \/ awaits' = [awaits EXCEPT ![c] = "run"] /\ run[t] # "none" /\ cmd' = cmd
        \/ /\ awaits' = [awaits EXCEPT ![c] = "nothing"]
           /\ cmd' = [cmd EXCEPT ![c] = [cmd[c] EXCEPT !.status = "completed"]]
    BY <1>1 DEF CancellersDone
  <2> QED  BY <1>1, <2>1, <2>2 DEF TypeInv, TaskTypeOK, Row
<1>7. MovesOnly(t)
  BY <1>1, <1>2, <1>5, <1>6 DEF MovesOnly
<1>8. TaskOK(t)'
  <2>1. status[t] \notin {"none", "paused", "running"} \cup Unfinished
    BY <1>4 DEF Terminal, Unfinished
  <2>2. Waiting(t, {"pause"}) \subseteq Waiting(t, {"pause"})'
    BY <1>4, <1>6 DEF Waiting
  <2>3. InFlight(t)' = InFlight(t)
    BY <1>5 DEF InFlight
  <2> QED  BY <1>3, <1>4, <1>5, <2>1, <2>2, <2>3 DEF TaskOK
<1>9. ASSUME NEW d \in Commands, cmd'[d].task = t  PROVE CommandOK(d)'
  <2>1. CASE d = c
    BY <1>4, <1>5, <1>6, <2>1 DEF CommandOK
  <2>2. CASE d # c
    <3>1. cmd'[d] = cmd[d] /\ awaits'[d] = awaits[d] /\ CommandOK(d)
      BY <1>3, <1>6, <2>2
    <3> QED  BY <1>5, <3>1 DEF CommandOK, Alive
  <2> QED  BY <2>1, <2>2
<1>10. status'[t] \notin {"none", "created"}
  BY <1>4, <1>5 DEF Terminal
<1> QED  BY <1>7, <1>8, <1>9, <1>10, MovesOnlyOne

\* The shutdown, the death and the return of the process.
LEMMA ProcessKeeps ==
    ASSUME TypeInv, TypeInv', TaskInv, ProcessStep
    PROVE  TaskInv'
<1>1. CASE Close
  BY <1>1 DEF Close, rowVars, TaskInv, TaskOK, CommandOK, AtRest, Alive, Unsubmitted, InFlight,
              Waiting
<1>2. CASE Stop \/ Crash
  BY <1>2 DEF Stop, Crash, ProcessGone, rowVars, TaskInv, CommandOK, AtRest, Alive, Unsubmitted
<1>3. CASE Start
  BY <1>3 DEF Start, rowVars, TaskInv, CommandOK, AtRest, Alive, Unsubmitted
<1>4. CASE Recover
  <2>1. AtRest /\ AtRest' /\ Alive'
    BY <1>4 DEF Recover, TaskInv, AtRest, Alive
  <2>2. ASSUME NEW t \in Tasks  PROVE TaskOK(t)'
    <3>1. InFlight(t)' = {}
      BY <1>4 DEF Recover, InFlight
    <3>2. status'[t] \notin {"paused"} \cup Unfinished
      BY <1>4 DEF Recover, TypeInv, TaskTypeOK, Unfinished, Terminal
    <3> QED  BY <2>1, <3>1, <3>2 DEF AtRest, TaskOK
  <2>3. ASSUME NEW c \in Commands  PROVE CommandOK(c)'
    <3>1. cmd[c] \in Row
      BY DEF TypeInv, TaskTypeOK, Row
    <3>2. cmd'[c].status # "accepted"
      BY <1>4, <3>1 DEF Recover, Row
    <3> QED  BY <2>1, <3>2 DEF AtRest, CommandOK
  <2>4. Unsubmitted'
    BY <1>4 DEF Recover, TaskInv, Unsubmitted, Unfinished, TypeInv, TaskTypeOK
  <2> QED  BY <2>1, <2>2, <2>3, <2>4 DEF TaskInv
<1> QED  BY <1>1, <1>2, <1>3, <1>4 DEF ProcessStep

LEMMA TaskInvStep == TypeInv /\ TypeInv' /\ TaskInv /\ [TaskNext]_taskVars => TaskInv'
<1> SUFFICES ASSUME TypeInv, TypeInv', TaskInv, [TaskNext]_taskVars  PROVE TaskInv'
  OBVIOUS
<1>a. ASSUME UNCHANGED <<status, context, control, cmd, awaits, pendingCall, up, operation, run>>
      PROVE  TaskInv'
  BY <1>a DEF TaskInv, TaskOK, CommandOK, AtRest, Alive, Unsubmitted, InFlight, Waiting
<1>1. CASE UNCHANGED taskVars
  BY <1>1, <1>a DEF taskVars, rowVars, processVars
<1>2. ASSUME NEW t \in Tasks, CreateTask(t)  PROVE TaskInv'
  <2>1. /\ status'[t] = "created" /\ run'[t] = "scheduled" /\ context'[t] = TRUE
        /\ UNCHANGED <<pendingCall, operation, cmd, up, control, awaits>> /\ status[t] = "none"
        /\ Alive
    BY <1>2 DEF CreateTask, TypeInv, TaskTypeOK, Alive
  <2>2. TaskOK(t) /\ \A c \in Commands : CommandOK(c)
    BY <2>1 DEF TaskInv
  <2>3. run[t] = "none"
    BY <2>1, <2>2 DEF TaskOK
  <2>4. MovesOnly(t)
    BY <1>2, <2>1 DEF CreateTask, MovesOnly, TypeInv, TaskTypeOK
  <2>5. TaskOK(t)'
    <3>1. InFlight(t)' = {}
      BY <2>1, <2>2, <2>3 DEF TaskOK, InFlight
    <3>2. control[t] = "none"
      BY <2>1, <2>2 DEF TaskOK, Terminal, TypeInv, TaskTypeOK
    <3> QED  BY <2>1, <3>1, <3>2 DEF TaskOK
  <2>6. ASSUME NEW c \in Commands, cmd'[c].task = t  PROVE CommandOK(c)'
    <3>1. awaits[c] = "nothing"
      BY <2>1, <2>2, <2>3, <2>6 DEF CommandOK, Terminal, TypeInv, TaskTypeOK
    <3> QED  BY <2>1, <2>2, <3>1 DEF CommandOK, Alive
  <2>7. pendingCall'[t] = 0
    BY <2>1 DEF TaskInv, Unsubmitted
  <2> QED  BY <2>4, <2>5, <2>6, <2>7, MovesOnlyOne
<1>3. ASSUME NEW t \in Tasks, TimesOut(t)  PROVE TaskInv'
  BY <1>3, <1>a DEF TimesOut, rowVars
<1>4. ASSUME NEW t \in Tasks, Submit(t)  PROVE TaskInv'
  <2>1. UNCHANGED <<status, context, control, cmd, awaits, up, operation, run>>
    BY <1>4 DEF Submit, processVars
  <2>2. Unsubmitted'
    BY <1>4 DEF Submit, TaskInv, Unsubmitted, TypeInv, TaskTypeOK
  <2> QED  BY <2>1, <2>2 DEF TaskInv, TaskOK, CommandOK, AtRest, Alive, InFlight, Waiting
<1>5. ASSUME NEW t \in Tasks, Reconcile(t)  PROVE TaskInv'
  <2>1. /\ UNCHANGED <<context, control, cmd, awaits, up, operation, run, pendingCall>> /\ ~Alive
        /\ status' = [status EXCEPT ![t] = "completed"]
    BY <1>5 DEF Reconcile, processVars, Alive
  <2> QED  BY <2>1 DEF TaskInv, CommandOK, AtRest, Alive, Unsubmitted, TypeInv, TaskTypeOK
<1>6. ASSUME NEW r \in Runs \ Tasks, OtherRun(r)  PROVE TaskInv'
  BY <1>6, <1>a DEF OtherRun, rowVars, processVars
<1> QED  BY <1>1, <1>2, <1>3, <1>4, <1>5, <1>6, RunStepKeeps, ToolStepKeeps, CommandKeeps,
            CancellersKeep, ProcessKeeps DEF TaskNext

LEMMA TaskInvariant == TaskSpec => []TaskInv
<1>1. TaskInit => TaskInv
  BY DEF TaskInit, TaskInv, TaskOK, CommandOK, Alive, Unsubmitted, InFlight, NoCommand, Unfinished
<1> QED  BY <1>1, TaskInvStep, TypeInvariant, PTL DEF TaskSpec

\* A paused task is at rest and can be resumed.
THEOREM PausedSafe == TaskSpec => []PausedIsSafe
<1>1. TaskInv => PausedIsSafe
  BY DEF TaskInv, TaskOK, Alive, PausedIsSafe, Unfinished
<1> QED  BY <1>1, TaskInvariant, PTL

\* No command is forgotten: while the process lives, an accepted command has a
\* handler that waits for the end of a run that is there or for the
\* cancellation of what it ended.
AcceptedIsAwaited ==
    \A c \in Commands : Alive /\ cmd[c].status = "accepted" =>
        \/ awaits[c] = "cancellers" /\ status[cmd[c].task] \in Terminal
        \/ awaits[c] = "run" /\ run[cmd[c].task] # "none"

\* Every accepted command of a living process is awaited by its handler, which
\* is why each of them is settled when the runs end.
THEOREM CommandsAwaited == TaskSpec => []AcceptedIsAwaited
<1>1. TypeInv /\ TaskInv => AcceptedIsAwaited
  <2> SUFFICES ASSUME TypeInv, TaskInv, NEW c \in Commands, Alive, cmd[c].status = "accepted"
               PROVE  \/ awaits[c] = "cancellers" /\ status[cmd[c].task] \in Terminal
                      \/ awaits[c] = "run" /\ run[cmd[c].task] # "none"
    BY DEF AcceptedIsAwaited
  <2>1. CommandOK(c) /\ awaits[c] \in {"nothing", "cancellers", "run"}
    BY DEF TaskInv, TypeInv, TaskTypeOK
  <2> QED  BY <2>1 DEF CommandOK
<1> QED  BY <1>1, TypeInvariant, TaskInvariant, PTL

-----------------------------------------------------------------------------
\* The agent tasks use the scheduler as it is meant to be used: each of their
\* steps is one step of it or none.
THEOREM TasksUseScheduler == TaskSpec => SchedulerSpec
<1>1. TaskInit => SchedulerInit
  BY DEF TaskInit
<1>2. TypeInv /\ [TaskNext]_taskVars => [SchedulerNext]_schedulerVars
  <2> SUFFICES ASSUME TypeInv, [TaskNext]_taskVars
               PROVE  \/ SchedulerNext \/ UNCHANGED schedulerVars
    OBVIOUS
  <2> USE TasksAssumption
  <2>1. CASE UNCHANGED taskVars
    BY <2>1 DEF taskVars
  <2>2. ASSUME NEW t \in Tasks, NEW s, EndRun(t, s)  PROVE SchedulerNext
    BY <2>2 DEF EndRun, SchedulerNext
  <2>3. ASSUME NEW t \in Tasks, RunStep(t)  PROVE SchedulerNext \/ UNCHANGED schedulerVars
    BY <2>2, <2>3 DEF RunStep, RunBegins, RunAdmitted, RunRefused, LoopEnds, Flush, RunCompletes,
                      RunFails, SchedulerNext
  <2>4. ASSUME NEW t \in Tasks, CreateTask(t) \/ TimesOut(t) \/ Submit(t) \/ Reconcile(t)
        PROVE  SchedulerNext \/ UNCHANGED schedulerVars
    BY <2>4 DEF CreateTask, TimesOut, Submit, Reconcile, SchedulerNext
  <2>5. ASSUME NEW t \in Tasks, NEW c \in Calls, ToolStep(t, c)  PROVE UNCHANGED schedulerVars
    BY <2>5 DEF ToolStep, SendOperation, CrashBeforeDispatch, OperationAnswered,
                OperationUnanswered, Settle, ProxyMoves
  <2>6. ASSUME NEW t \in Tasks, NEW c \in Commands, CommandStep(c, t)
        PROVE  SchedulerNext \/ UNCHANGED schedulerVars
    BY <2>6 DEF CommandStep, Pause, Resume, Terminate, RefuseCommand, SchedulerNext
  <2>7. ASSUME NEW c \in Commands, CancellersDone(c)  PROVE SchedulerNext
    BY <2>7 DEF CancellersDone, TypeInv, Addressed, SchedulerNext
  <2>8. ASSUME NEW r \in Runs \ Tasks, OtherRun(r)  PROVE SchedulerNext
    BY <2>8 DEF OtherRun, SchedulerNext
  <2>9. CASE ProcessStep
    BY <2>9 DEF ProcessStep, Close, Stop, Crash, Start, Recover, SchedulerNext
  <2> QED  BY <2>1, <2>3, <2>4, <2>5, <2>6, <2>7, <2>8, <2>9 DEF TaskNext
<1> QED  BY <1>1, <1>2, TypeInvariant, PTL DEF TaskSpec, SchedulerSpec

\* Tasks and chat runs together never hold more permits than there are, and
\* none of them waits while a permit is free, restarts included.
THEOREM TaskPermits == TaskSpec => [](PermitBound /\ NoIdlePermit)
<1> QED  BY TasksUseScheduler, PermitsBounded, NoPermitIdle, PTL

=============================================================================
