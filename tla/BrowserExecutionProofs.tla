----------------------- MODULE BrowserExecutionProofs -----------------------
(***************************************************************************)
(* Theorems about BrowserExecution, for any sets of sessions, leases and   *)
(* operations and any number of restarts, and, in the second part, about   *)
(* BrowserArtifacts: what is called available has its file, what leaves the*)
(* ledger was settled, and the browser acts once for an operation.         *)
(***************************************************************************)
EXTENDS BrowserExecution, BrowserArtifacts, SequenceTheorems, TLAPS

\* Every variable keeps to its type, whatever the clients, the browser and the
\* crashes do to the service.
THEOREM TypeCorrect == Spec => []TypeOK
<1>1. Init => TypeOK
  <2> SUFFICES ASSUME Init PROVE TypeOK
    OBVIOUS
  <2>1. stateMutex \in StateMutex
    BY DEF Init, Free, StateMutex
  <2>2. << >> \in Seq(Ops)
    OBVIOUS
  <2>3. landed \in [Ops -> SUBSET Sessions]
    BY DEF Init
  <2> QED BY <2>1, <2>2, <2>3 DEF Init, TypeOK, SessionStatus, LeaseStatus, OpStatus,
             OpStage
<1>2. TypeOK /\ [Next]_vars => TypeOK'
  <2> SUFFICES ASSUME TypeOK, [Next]_vars PROVE TypeOK'
    OBVIOUS
  <2> USE DEF TypeOK
  <2> DEFINE Tables == /\ leaseStatus' \in [Leases -> LeaseStatus]
                       /\ opStatus' \in [Ops -> OpStatus]
                       /\ sessionStatus' \in [Sessions -> SessionStatus]
  <2>0. Swept(leaseStatus) \in [Leases -> LeaseStatus]
    BY DEF Swept, LeaseStatus
  <2>1. CASE UNCHANGED vars
    BY <2>1 DEF vars, processVars, sessionVars, leaseVars, opVars, callVars,
       browserVars, historyVars
  <2>2. CASE Request
    <3> USE DEF processVars, sessionVars, leaseVars, opVars, callVars, browserVars,
                historyVars
    <3>1. ASSUME NEW s \in Sessions, ReadSession(s) PROVE TypeOK'
      BY <2>0, <3>1 DEF ReadSession
    <3>2. ASSUME NEW s \in Sessions, CreateSession(s) PROVE TypeOK'
      BY <3>2, ConstantsAssumption DEF CreateSession, SessionStatus, Free, StateMutex
    <3>3. ASSUME NEW s \in Sessions, CloseFinished(s) PROVE TypeOK'
      BY <3>3 DEF CloseFinished, CloseResources, Swept, LeasesRevoked, QueuedCancelled,
         SessionStatus, LeaseStatus, OpStatus, TerminalOp
    <3>4. ASSUME NEW s \in Sessions, NEW l \in Leases, CloseSession(s, l) PROVE TypeOK'
      BY <2>0, <3>4, ConstantsAssumption DEF CloseSession, Free, StateMutex
    <3>5. ASSUME NEW s \in Sessions, NEW l \in Leases, CreateLease(s, l) PROVE TypeOK'
      BY <2>0, <3>5 DEF CreateLease, StateMutex
    <3>6. ASSUME NEW l \in Leases, RevokeLease(l) PROVE TypeOK'
      BY <2>0, <3>6 DEF RevokeLease, LeaseStatus
    <3>7. ASSUME NEW o \in Ops, NEW l \in Leases, SubmitOperation(o, l) PROVE TypeOK'
      BY <2>0, <3>7 DEF SubmitOperation, OpStatus, OpStage
    <3>8. ASSUME NEW o \in Ops, CancelOperation(o) PROVE TypeOK'
      BY <2>0, <3>8 DEF CancelOperation, OpStatus, TerminalOp
    <3> QED BY <2>2, <3>1, <3>2, <3>3, <3>4, <3>5, <3>6, <3>7, <3>8 DEF Request
  <2>3. CASE ControlStep
    <3> USE DEF processVars, sessionVars, leaseVars, opVars, callVars, browserVars,
                historyVars
    <3>0. Free \in StateMutex
      BY DEF Free, StateMutex
    <3>1. ASSUME NEW s \in Sessions, OpenPage(s) PROVE TypeOK'
      BY <3>1 DEF OpenPage, StateMutex
    <3>2. ASSUME NEW s \in Sessions, OpenReturns(s) PROVE TypeOK'
      BY <2>0, <3>0, <3>2 DEF OpenReturns, SessionStatus
    <3>3. ASSUME NEW s \in Sessions, OpenThrows(s) PROVE TypeOK'
      BY <3>0, <3>3 DEF OpenThrows, SessionStatus
    <3>4. ASSUME NEW s \in Sessions, Detach(s) PROVE TypeOK'
      BY <3>4 DEF Detach, StateMutex
    <3>5. ASSUME NEW s \in Sessions, CloseReturns(s) PROVE TypeOK'
      BY <3>0, <3>5 DEF CloseReturns, CloseResources, Swept, LeasesRevoked,
         QueuedCancelled, SessionStatus, LeaseStatus, OpStatus, TerminalOp
    <3>6. ASSUME NEW s \in Sessions, CloseThrows(s) PROVE TypeOK'
      BY <3>0, <3>6 DEF CloseThrows
    <3>7. ASSUME NEW s \in Sessions, NEW l \in Leases, IssueLease(s, l) PROVE TypeOK'
      BY <3>0, <3>7 DEF IssueLease, LeaseStatus
    <3>8. ASSUME RefuseLease PROVE TypeOK'
      BY <3>0, <3>8 DEF RefuseLease
    <3> QED BY <2>3, <3>1, <3>2, <3>3, <3>4, <3>5, <3>6, <3>7, <3>8 DEF ControlStep
  <2>4. CASE Environment
    <3> USE DEF processVars, sessionVars, leaseVars, opVars, callVars, browserVars,
                historyVars
    <3>0. ASSUME Interrupt \/ UNCHANGED <<leaseStatus, opStatus, sessionStatus>>
          PROVE Tables
      <4>1. \A s \in Sessions : LeasesRevoked(s) \in [Leases -> LeaseStatus]
        BY DEF LeasesRevoked, LeaseStatus
      <4>2. \A s \in Sessions : QueuedCancelled(s) \in [Ops -> OpStatus]
        BY DEF QueuedCancelled, OpStatus, TerminalOp
      <4> QED BY <3>0, <4>1, <4>2 DEF Interrupt, SessionStatus
    <3>1. CASE Start
      <4>1. Tables
        <5>1. leaseStatus' \in [Leases -> LeaseStatus]
          BY <3>1 DEF Start, LeaseStatus
        <5>2. sessionStatus' \in [Sessions -> SessionStatus]
          BY <3>1 DEF Start, SessionStatus
        <5>3. opStatus' \in [Ops -> OpStatus]
          BY <3>1 DEF Start, OpStatus, TerminalOp
        <5> QED BY <5>1, <5>2, <5>3
      <4> QED BY <3>1, <4>1 DEF Start
    <3>2. CASE Crash
      <4>1. Free \in StateMutex
        BY DEF Free, StateMutex
      <4>2. << >> \in Seq(Ops)
        OBVIOUS
      <4>3. opStage' \in [Ops -> OpStage]
        BY <3>2 DEF Crash, OpStage
      <4> QED BY <3>2, <4>1, <4>2, <4>3 DEF Crash
    <3>3. CASE PageCloses
      <4>1. Interrupt \/ UNCHANGED <<leaseStatus, opStatus, sessionStatus>>
        BY <3>3 DEF PageCloses
      <4>2. Tables
        BY <3>0, <4>1
      <4> QED BY <3>3, <4>2 DEF PageCloses
    <3>4. CASE BrowserDisconnects
      <4>1. Interrupt \/ UNCHANGED <<leaseStatus, opStatus, sessionStatus>>
        BY <3>4 DEF BrowserDisconnects
      <4>2. Tables
        BY <3>0, <4>1
      <4> QED BY <3>4, <4>2 DEF BrowserDisconnects
    <3>5. ASSUME NEW l \in Leases, Lapse(l) PROVE TypeOK'
      BY <3>5 DEF Lapse
    <3> QED BY <2>4, <3>1, <3>2, <3>3, <3>4, <3>5 DEF Environment
  <2>5. ASSUME NEW o \in Ops, OperationStep(o) PROVE TypeOK'
    <3> USE DEF processVars, sessionVars, leaseVars, opVars, callVars, browserVars,
                historyVars
    <3>1. ASSUME SweepFor(o) PROVE leaseStatus' \in [Leases -> LeaseStatus]
      BY <2>0, <3>1 DEF SweepFor
    <3>2. ASSUME Owns(o), Leave(o)
          PROVE /\ opStage' \in [Ops -> OpStage]
                /\ operationMutex' \in Seq(Ops)
      BY <3>2 DEF Owns, Leave, OpStage
    <3>3. ASSUME NEW outcome \in OpStatus, Owns(o), Complete(o, outcome) PROVE TypeOK'
      <4>1. leaseStatus' \in [Leases -> LeaseStatus]
        BY <3>3 DEF Complete, Consumed, LeaseStatus
      <4> QED BY <3>2, <3>3, <4>1 DEF Complete
    <3>4. CASE SkipCancelled(o)
      BY <3>2, <3>4 DEF SkipCancelled
    <3>5. CASE CancelAtHead(o)
      BY <3>1, <3>2, <3>5 DEF CancelAtHead, OpStatus, TerminalOp
    <3>6. CASE MarkRunning(o)
      BY <3>1, <3>6 DEF MarkRunning, OpStatus, OpStage, StartedStage
    <3>7. CASE Dispatch(o)
      BY <3>1, <3>7 DEF Dispatch, OpStage, StartedStage
    <3>8. CASE RefuseDispatch(o)
      BY <3>1, <3>8 DEF RefuseDispatch, OpStage, StartedStage
    <3>9. CASE SelectTab(o)
      BY <3>9 DEF SelectTab, OpStage, StartedStage
    <3>10. CASE Land(o)
      BY <3>10 DEF Land, OpStage, StartedStage
    <3>11. CASE ExecuteReturns(o)
      BY <3>11 DEF ExecuteReturns, OpStage, StartedStage
    <3>12. CASE ExecuteRefuses(o)
      BY <3>12 DEF ExecuteRefuses, OpStage, StartedStage
    <3>13. CASE ExecuteThrows(o)
      BY <3>13 DEF ExecuteThrows, OpStage, StartedStage
    <3>14. CASE Succeed(o)
      BY <3>3, <3>14 DEF Succeed, OpStatus, TerminalOp
    <3>15. CASE Fail(o)
      BY <3>3, <3>15 DEF Fail, OpStatus, TerminalOp
    <3> QED BY <2>5, <3>4, <3>5, <3>6, <3>7, <3>8, <3>9, <3>10, <3>11, <3>12, <3>13,
               <3>14, <3>15 DEF OperationStep
  <2> QED BY <2>1, <2>2, <2>3, <2>4, <2>5 DEF Next
<1> QED BY <1>1, <1>2, PTL DEF Spec

-----------------------------------------------------------------------------
(***************************************************************************)
(* The life of one operation.  Its ledger status, the stage its call has   *)
(* reached, the calls of browser.execute and the change of the page move   *)
(* together; this is the strengthening from which AtMostOnce and the       *)
(* implementation of OperationLedger follow.                               *)
(***************************************************************************)
Untried(o) == dispatched[o] = 0 /\ landed[o] = {}

StageOK(o) ==
    /\ up /\ opStatus[o] = "queued" => opStage[o] = "waiting"
    /\ opStage[o] = "waiting" => opStatus[o] \in {"queued", "cancelled"}
    /\ opStage[o] \in StartedStage => opStatus[o] = "running"
    /\ opStatus[o] \in {"none", "queued", "cancelled"} => Untried(o)
    /\ opStage[o] = "before" => Untried(o)
    /\ opStage[o] \in {"selecting", "selected", "refused"} => landed[o] = {}
    /\ opStage[o] = "landed" => landed[o] # {}
    /\ opStage[o] = "capturing" /\ o \in ActOps => landed[o] # {}
    /\ o \notin ActOps => landed[o] = {}
    /\ dispatched[o] <= 1

StageInv ==
    /\ ~up => \A o \in Ops : opStage[o] = "none"
    /\ \A o \in Ops : StageOK(o)

\* The part of the state StageInv reads.
stageVars == <<up, opStatus, opStage, dispatched, landed>>

\* A step that touches none of it.
LEMMA StageQuiet == ASSUME StageInv, UNCHANGED stageVars PROVE StageInv'
  BY DEF StageInv, StageOK, Untried, stageVars

\* Closing, interrupting: queued operations of one session are cancelled.
LEMMA StageCancelled ==
  ASSUME TypeOK, StageInv, NEW s, opStatus' = QueuedCancelled(s),
         UNCHANGED <<up, opStage, dispatched, landed>>
  PROVE  StageInv'
<1>1. ASSUME NEW o \in Ops PROVE StageOK(o)'
  <2>1. opStatus'[o] = opStatus[o] \/ (opStatus[o] = "queued" /\ opStatus'[o] = "cancelled")
    BY DEF QueuedCancelled
  <2>2. StageOK(o)
    BY DEF StageInv
  <2> QED BY <2>1, <2>2 DEF StageOK, Untried, StartedStage
<1> QED BY <1>1 DEF StageInv

\* One operation moves while the others keep what they have.
LEMMA StageMoves ==
  ASSUME StageInv, NEW o \in Ops, up, up' = up, StageOK(o)',
         \A p \in Ops \ {o} : /\ opStatus'[p] = opStatus[p]
                              /\ opStage'[p] = opStage[p]
                              /\ dispatched'[p] = dispatched[p]
                              /\ landed'[p] = landed[p]
  PROVE  StageInv'
<1>1. ASSUME NEW p \in Ops PROVE StageOK(p)'
  <2>1. CASE p = o
    BY <2>1
  <2>2. CASE p # o
    BY <2>2 DEF StageInv, StageOK, Untried
  <2> QED BY <2>1, <2>2
<1> QED BY <1>1 DEF StageInv

\* Every step of the call of an operation keeps StageInv.
LEMMA StageOperationStep ==
  ASSUME TypeOK, StageInv, NEW o \in Ops, OperationStep(o)
  PROVE  StageInv'
<1> USE DEF TypeOK, processVars, sessionVars, leaseVars, opVars, callVars, historyVars
<1>0. StageOK(o) /\ (~up => opStage[o] = "none")
  BY DEF StageInv
<1>1. CASE SkipCancelled(o)
  <2>1. StageOK(o)'
    BY <1>0, <1>1 DEF SkipCancelled, Leave, StageOK, Untried, StartedStage
  <2> QED BY <1>0, <1>1, <2>1, StageMoves DEF SkipCancelled, Leave
<1>2. CASE CancelAtHead(o)
  <2>1. StageOK(o)'
    BY <1>0, <1>2 DEF CancelAtHead, Leave, StageOK, Untried, StartedStage
  <2> QED BY <1>0, <1>2, <2>1, StageMoves DEF CancelAtHead, Leave
<1>3. CASE MarkRunning(o)
  <2>1. StageOK(o)'
    BY <1>0, <1>3 DEF MarkRunning, StageOK, Untried, StartedStage
  <2> QED BY <1>0, <1>3, <2>1, StageMoves DEF MarkRunning
<1>4. CASE Dispatch(o)
  <2>1. StageOK(o)'
    BY <1>0, <1>4 DEF Dispatch, StageOK, Untried, StartedStage
  <2> QED BY <1>0, <1>4, <2>1, StageMoves DEF Dispatch
<1>5. CASE RefuseDispatch(o)
  <2>1. StageOK(o)'
    BY <1>0, <1>5 DEF RefuseDispatch, StageOK, Untried, StartedStage
  <2> QED BY <1>0, <1>5, <2>1, StageMoves DEF RefuseDispatch
<1>6. CASE SelectTab(o)
  <2>1. StageOK(o)'
    BY <1>0, <1>6 DEF SelectTab, StageOK, Untried, StartedStage
  <2> QED BY <1>0, <1>6, <2>1, StageMoves DEF SelectTab
<1>7. CASE Land(o)
  <2>1. StageOK(o)'
    BY <1>0, <1>7 DEF Land, StageOK, Untried, StartedStage
  <2> QED BY <1>0, <1>7, <2>1, StageMoves DEF Land
<1>8. CASE ExecuteReturns(o)
  <2>1. opStage[o] = "landed" => landed[o] # {}
    BY <1>0 DEF StageOK
  <2>2. StageOK(o)'
    BY <1>0, <1>8, <2>1 DEF ExecuteReturns, StageOK, Untried, StartedStage
  <2> QED BY <1>0, <1>8, <2>2, StageMoves DEF ExecuteReturns
<1>9. CASE ExecuteRefuses(o)
  <2>1. StageOK(o)'
    BY <1>0, <1>9 DEF ExecuteRefuses, StageOK, Untried, StartedStage
  <2> QED BY <1>0, <1>9, <2>1, StageMoves DEF ExecuteRefuses
<1>10. CASE ExecuteThrows(o)
  <2>1. StageOK(o)'
    BY <1>0, <1>10 DEF ExecuteThrows, StageOK, Untried, StartedStage
  <2> QED BY <1>0, <1>10, <2>1, StageMoves DEF ExecuteThrows
<1>11. CASE Succeed(o)
  <2>1. StageOK(o)'
    BY <1>0, <1>11 DEF Succeed, Complete, Leave, StageOK, Untried, StartedStage
  <2> QED BY <1>0, <1>11, <2>1, StageMoves DEF Succeed, Complete, Leave
<1>12. CASE Fail(o)
  <2>1. StageOK(o)'
    BY <1>0, <1>12 DEF Fail, Complete, Leave, StageOK, Untried, StartedStage
  <2> QED BY <1>0, <1>12, <2>1, StageMoves DEF Fail, Complete, Leave
<1> QED BY <1>1, <1>2, <1>3, <1>4, <1>5, <1>6, <1>7, <1>8, <1>9, <1>10, <1>11, <1>12
        DEF OperationStep

\* The stages of the calls agree with the ledger in every behaviour.
LEMMA StageInvariant == Spec => []StageInv
<1>1. Init => StageInv
  BY DEF Init, StageInv, StageOK, Untried, StartedStage
<1>2. TypeOK /\ StageInv /\ [Next]_vars => StageInv'
  <2> SUFFICES ASSUME TypeOK, StageInv, [Next]_vars PROVE StageInv'
    OBVIOUS
  <2> USE DEF processVars, sessionVars, leaseVars, opVars, callVars, historyVars
  <2>1. CASE UNCHANGED vars
    BY <2>1, StageQuiet DEF vars, stageVars
  <2>2. CASE Request
    <3>1. ASSUME NEW s \in Sessions, ReadSession(s) \/ CreateSession(s) PROVE StageInv'
      BY <3>1, StageQuiet DEF ReadSession, CreateSession, stageVars
    <3>2. ASSUME NEW s \in Sessions, CloseFinished(s) PROVE StageInv'
      BY <3>2, StageCancelled DEF CloseFinished, CloseResources
    <3>3. ASSUME NEW s \in Sessions, NEW l \in Leases, CloseSession(s, l) \/ CreateLease(s, l)
          PROVE StageInv'
      BY <3>3, StageQuiet DEF CloseSession, CreateLease, stageVars
    <3>4. ASSUME NEW l \in Leases, RevokeLease(l) PROVE StageInv'
      BY <3>4, StageQuiet DEF RevokeLease, stageVars
    <3>5. ASSUME NEW o \in Ops, NEW l \in Leases, SubmitOperation(o, l) PROVE StageInv'
      <4>1. StageOK(o)'
        BY <3>5 DEF SubmitOperation, TypeOK, StageInv, StageOK, Untried, StartedStage
      <4> QED BY <3>5, <4>1, StageMoves DEF SubmitOperation, TypeOK
    <3>6. ASSUME NEW o \in Ops, CancelOperation(o) PROVE StageInv'
      <4>1. StageOK(o)'
        BY <3>6 DEF CancelOperation, TypeOK, StageInv, StageOK, Untried, StartedStage
      <4> QED BY <3>6, <4>1, StageMoves DEF CancelOperation, TypeOK
    <3> QED BY <2>2, <3>1, <3>2, <3>3, <3>4, <3>5, <3>6 DEF Request
  <2>3. CASE ControlStep
    <3>1. ASSUME NEW s \in Sessions, CloseReturns(s) PROVE StageInv'
      BY <3>1, StageCancelled DEF CloseReturns, CloseResources
    <3>2. ASSUME NEW s \in Sessions,
                 OpenPage(s) \/ OpenReturns(s) \/ OpenThrows(s) \/ Detach(s) \/ CloseThrows(s)
          PROVE StageInv'
      BY <3>2, StageQuiet DEF OpenPage, OpenReturns, OpenThrows, Detach, CloseThrows, stageVars
    <3>3. ASSUME NEW s \in Sessions, NEW l \in Leases, IssueLease(s, l) PROVE StageInv'
      BY <3>3, StageQuiet DEF IssueLease, stageVars
    <3>4. ASSUME RefuseLease PROVE StageInv'
      BY <3>4, StageQuiet DEF RefuseLease, stageVars
    <3> QED BY <2>3, <3>1, <3>2, <3>3, <3>4 DEF ControlStep
  <2>4. CASE Environment
    <3>1. CASE Start
      \* No call survived the crash, so every running or queued operation is settled.
      <4>1. ASSUME NEW o \in Ops PROVE StageOK(o)'
        <5>1. /\ opStage'[o] = "none"
              /\ opStatus'[o] # "queued"
              /\ dispatched'[o] = dispatched[o] /\ landed'[o] = landed[o]
          BY <3>1 DEF Start, StageInv
        <5>2. opStatus'[o] \in {"none", "cancelled"}
              => opStatus[o] \in {"none", "queued", "cancelled"}
          BY <3>1 DEF Start
        <5> QED BY <5>1, <5>2 DEF StageInv, StageOK, Untried, StartedStage
      <4> QED BY <3>1, <4>1 DEF StageInv, Start
    <3>2. CASE Crash
      BY <3>2 DEF Crash, StageInv, StageOK, Untried, StartedStage
    <3>3. CASE PageCloses \/ BrowserDisconnects
      <4>1. CASE UNCHANGED opStatus
        BY <3>3, <4>1, StageQuiet DEF PageCloses, BrowserDisconnects, stageVars
      <4>2. ASSUME NEW s \in Sessions, opStatus' = QueuedCancelled(s) PROVE StageInv'
        BY <3>3, <4>2, StageCancelled DEF PageCloses, BrowserDisconnects
      <4> QED BY <3>3, <4>1, <4>2 DEF PageCloses, BrowserDisconnects, Interrupt
    <3>4. ASSUME NEW l \in Leases, Lapse(l) PROVE StageInv'
      BY <3>4, StageQuiet DEF Lapse, stageVars
    <3> QED BY <2>4, <3>1, <3>2, <3>3, <3>4 DEF Environment
  <2>5. ASSUME NEW o \in Ops, OperationStep(o) PROVE StageInv'
    BY <2>5, StageOperationStep
  <2> QED BY <2>1, <2>2, <2>3, <2>4, <2>5 DEF Next
<1> QED BY <1>1, <1>2, TypeCorrect, PTL DEF Spec

\* browser.execute is called at most once for an operation, for any number of
\* callers, retries, cancellations and restarts.
THEOREM ExecutedAtMostOnce == Spec => []AtMostOnce
<1>1. StageInv => AtMostOnce
  BY DEF StageInv, StageOK, AtMostOnce
<1> QED BY <1>1, StageInvariant, PTL

-----------------------------------------------------------------------------
(***************************************************************************)
(* BrowserExecution implements OperationLedger.  A step of the control     *)
(* plane is a step of the ledger if each operation makes one of the steps  *)
(* Ledger!Step allows it.                                                  *)
(***************************************************************************)
LEMMA LedgerStep ==
  ASSUME TypeOK', \A o \in Ops : Ledger!Step(o)
  PROVE  Ledger!Next
<1>1. opStatus' \in [Ops -> Ledger!Status]
  BY DEF TypeOK, OpStatus, TerminalOp, Ledger!Status, Ledger!Terminal
<1>2. [o \in Ops |-> landed[o] # {}]' \in [Ops -> BOOLEAN]
  OBVIOUS
<1> QED BY <1>1, <1>2 DEF Ledger!Next

\* A step that leaves the operations alone is a stutter of the ledger.
LEMMA LedgerQuiet ==
  ASSUME UNCHANGED <<opStatus, landed>>
  PROVE  UNCHANGED Ledger!vars
BY DEF Ledger!vars

\* Closing, interrupting: each operation keeps its status or is cancelled.
LEMMA LedgerCancelled ==
  ASSUME TypeOK', NEW s, opStatus' = QueuedCancelled(s), UNCHANGED landed
  PROVE  Ledger!Next
<1>1. ASSUME NEW o \in Ops PROVE Ledger!Step(o)
  <2>1. opStatus'[o] = opStatus[o] \/ (opStatus[o] = "queued" /\ opStatus'[o] = "cancelled")
    BY DEF QueuedCancelled
  <2> QED BY <2>1 DEF Ledger!Step, Ledger!Keep, Ledger!Cancel
<1> QED BY <1>1, LedgerStep

\* One operation moves while the others keep what they have.
LEMMA LedgerMoves ==
  ASSUME TypeOK', NEW o \in Ops, Ledger!Step(o),
         \A p \in Ops \ {o} : opStatus'[p] = opStatus[p] /\ landed'[p] = landed[p]
  PROVE  Ledger!Next
<1>1. ASSUME NEW p \in Ops PROVE Ledger!Step(p)
  <2>1. CASE p = o
    BY <2>1
  <2>2. CASE p # o
    BY <2>2 DEF Ledger!Step, Ledger!Keep
  <2> QED BY <2>1, <2>2
<1> QED BY <1>1, LedgerStep

\* Every accepted operation is decided once, the decision is never revised, a
\* succeeded action has changed the page and a failed one has not.
THEOREM LedgerImplemented == Spec => ImplementsLedger
<1>1. Init => Ledger!Init
  BY DEF Init, Ledger!Init
<1>2. TypeOK /\ TypeOK' /\ StageInv /\ [Next]_vars => [Ledger!Next]_(Ledger!vars)
  <2> SUFFICES ASSUME TypeOK, TypeOK', StageInv, [Next]_vars
               PROVE  Ledger!Next \/ UNCHANGED Ledger!vars
    OBVIOUS
  <2> USE DEF sessionVars, leaseVars, opVars, callVars, historyVars
  <2>1. CASE UNCHANGED vars
    BY <2>1, LedgerQuiet DEF vars
  <2>2. CASE Request
    <3>1. ASSUME NEW s \in Sessions, ReadSession(s) \/ CreateSession(s)
          PROVE UNCHANGED Ledger!vars
      BY <3>1, LedgerQuiet DEF ReadSession, CreateSession
    <3>2. ASSUME NEW s \in Sessions, CloseFinished(s) PROVE Ledger!Next
      BY <3>2, LedgerCancelled DEF CloseFinished, CloseResources
    <3>3. ASSUME NEW s \in Sessions, NEW l \in Leases, CloseSession(s, l) \/ CreateLease(s, l)
          PROVE UNCHANGED Ledger!vars
      BY <3>3, LedgerQuiet DEF CloseSession, CreateLease
    <3>4. ASSUME NEW l \in Leases, RevokeLease(l) PROVE UNCHANGED Ledger!vars
      BY <3>4, LedgerQuiet DEF RevokeLease
    <3>5. ASSUME NEW o \in Ops, NEW l \in Leases, SubmitOperation(o, l) PROVE Ledger!Next
      <4>1. Ledger!Accept(o)
        BY <3>5 DEF SubmitOperation, TypeOK, Ledger!Accept
      <4> QED BY <3>5, <4>1, LedgerMoves DEF SubmitOperation, TypeOK, Ledger!Step
    <3>6. ASSUME NEW o \in Ops, CancelOperation(o) PROVE Ledger!Next
      <4>1. Ledger!Cancel(o)
        BY <3>6 DEF CancelOperation, TypeOK, Ledger!Cancel
      <4> QED BY <3>6, <4>1, LedgerMoves DEF CancelOperation, TypeOK, Ledger!Step
    <3> QED BY <2>2, <3>1, <3>2, <3>3, <3>4, <3>5, <3>6 DEF Request
  <2>3. CASE ControlStep
    <3>1. ASSUME NEW s \in Sessions, CloseReturns(s) PROVE Ledger!Next
      BY <3>1, LedgerCancelled DEF CloseReturns, CloseResources
    <3>2. ASSUME NEW s \in Sessions,
                 OpenPage(s) \/ OpenReturns(s) \/ OpenThrows(s) \/ Detach(s) \/ CloseThrows(s)
          PROVE UNCHANGED Ledger!vars
      BY <3>2, LedgerQuiet DEF OpenPage, OpenReturns, OpenThrows, Detach, CloseThrows
    <3>3. ASSUME NEW s \in Sessions, NEW l \in Leases, IssueLease(s, l)
          PROVE UNCHANGED Ledger!vars
      BY <3>3, LedgerQuiet DEF IssueLease
    <3>4. ASSUME RefuseLease PROVE UNCHANGED Ledger!vars
      BY <3>4, LedgerQuiet DEF RefuseLease
    <3> QED BY <2>3, <3>1, <3>2, <3>3, <3>4 DEF ControlStep
  <2>4. CASE Environment
    <3>1. CASE Start
      <4>1. ASSUME NEW o \in Ops PROVE Ledger!Step(o)
        <5>1. landed'[o] = landed[o]
          BY <3>1 DEF Start
        <5>2. CASE opStatus[o] = "running"
          BY <3>1, <5>1, <5>2 DEF Start, Ledger!Step, Ledger!Lose
        <5>3. CASE opStatus[o] = "queued"
          BY <3>1, <5>1, <5>3 DEF Start, Ledger!Step, Ledger!Cancel
        <5>4. CASE opStatus[o] \notin {"running", "queued"}
          BY <3>1, <5>1, <5>4 DEF Start, Ledger!Step, Ledger!Keep
        <5> QED BY <5>2, <5>3, <5>4
      <4> QED BY <4>1, LedgerStep
    <3>2. CASE Crash
      BY <3>2, LedgerQuiet DEF Crash
    <3>3. CASE PageCloses \/ BrowserDisconnects
      <4>1. CASE UNCHANGED opStatus
        BY <3>3, <4>1, LedgerQuiet DEF PageCloses, BrowserDisconnects
      <4>2. ASSUME NEW s \in Sessions, opStatus' = QueuedCancelled(s) PROVE Ledger!Next
        BY <3>3, <4>2, LedgerCancelled DEF PageCloses, BrowserDisconnects
      <4> QED BY <3>3, <4>1, <4>2 DEF PageCloses, BrowserDisconnects, Interrupt
    <3>4. ASSUME NEW l \in Leases, Lapse(l) PROVE UNCHANGED Ledger!vars
      BY <3>4, LedgerQuiet DEF Lapse
    <3> QED BY <2>4, <3>1, <3>2, <3>3, <3>4 DEF Environment
  <2>5. ASSUME NEW o \in Ops, OperationStep(o) PROVE Ledger!Next \/ UNCHANGED Ledger!vars
    <3> USE DEF TypeOK
    <3>0. StageOK(o)
      BY DEF StageInv
    <3>1. CASE \/ SkipCancelled(o) \/ Dispatch(o) \/ RefuseDispatch(o) \/ SelectTab(o)
               \/ ExecuteReturns(o) \/ ExecuteRefuses(o) \/ ExecuteThrows(o)
      BY <3>1, LedgerQuiet DEF SkipCancelled, Dispatch, RefuseDispatch, SelectTab,
         ExecuteReturns, ExecuteRefuses, ExecuteThrows
    <3>2. CASE CancelAtHead(o)
      <4>1. Ledger!Cancel(o)
        BY <3>2 DEF CancelAtHead, Ledger!Cancel
      <4> QED BY <3>2, <4>1, LedgerMoves DEF CancelAtHead, Ledger!Step
    <3>3. CASE MarkRunning(o)
      <4>1. Ledger!Begin(o)
        BY <3>3 DEF MarkRunning, Ledger!Begin
      <4> QED BY <3>3, <4>1, LedgerMoves DEF MarkRunning, Ledger!Step
    <3>4. CASE Land(o)
      <4>1. Ledger!Touch(o)
        BY <3>0, <3>4 DEF Land, StageOK, StartedStage, Ledger!Touch
      <4> QED BY <3>4, <4>1, LedgerMoves DEF Land, Ledger!Step
    <3>5. CASE Succeed(o)
      <4>1. Ledger!Succeed(o)
        BY <3>0, <3>5 DEF Succeed, Complete, StageOK, StartedStage, Ledger!Succeed
      <4> QED BY <3>5, <4>1, LedgerMoves DEF Succeed, Complete, Ledger!Step
    <3>6. CASE Fail(o)
      \* A broken action is lost, everything else has left the page alone.
      <4>1. Ledger!Fail(o) \/ Ledger!Lose(o)
        BY <3>0, <3>6 DEF Fail, Complete, StageOK, StartedStage, Ledger!Fail, Ledger!Lose
      <4> QED BY <3>6, <4>1, LedgerMoves DEF Fail, Complete, Ledger!Step
    <3> QED BY <2>5, <3>1, <3>2, <3>3, <3>4, <3>5, <3>6 DEF OperationStep
  <2> QED BY <2>1, <2>2, <2>3, <2>4, <2>5 DEF Next
<1> QED BY <1>1, <1>2, TypeCorrect, StageInvariant, PTL DEF Spec, ImplementsLedger, Ledger!Spec

-----------------------------------------------------------------------------
(***************************************************************************)
(* Sessions.  A createSession call in flight is the only way a session can *)
(* become unfinished, and it has the page to itself.                       *)
(***************************************************************************)
SessionInv ==
    /\ SingleUnfinishedSession
    /\ PageHasOwner
    /\ stateMutex.call = "create" =>
          /\ \A t \in Sessions : Unfinished(t) => t = stateMutex.session
          /\ ~stateMutex.ready => page = NoSession
    /\ ~up => stateMutex = Free /\ page = NoSession

sessionInvVars == <<up, sessionStatus, stateMutex, page>>

\* A step that leaves sessions, page and mutex alone keeps the invariant.
LEMMA SessionQuiet == ASSUME SessionInv, UNCHANGED sessionInvVars PROVE SessionInv'
  BY DEF SessionInv, SingleUnfinishedSession, PageHasOwner, Unfinished, sessionInvVars

\* A call that is not a createSession takes or releases stateMutex.
LEMMA SessionMutex ==
  ASSUME SessionInv, up' = up, up, stateMutex.call # "create", stateMutex'.call # "create",
         UNCHANGED <<sessionStatus, page>>
  PROVE  SessionInv'
  BY DEF SessionInv, SingleUnfinishedSession, PageHasOwner, Unfinished

\* The session invariant holds in every behaviour.
LEMMA SessionInvariant == Spec => []SessionInv
<1>1. Init => SessionInv
  BY DEF Init, Free, SessionInv, SingleUnfinishedSession, PageHasOwner, Unfinished
<1>2. TypeOK /\ SessionInv /\ [Next]_vars => SessionInv'
  <2> SUFFICES ASSUME TypeOK, SessionInv, [Next]_vars PROVE SessionInv'
    OBVIOUS
  <2> USE DEF processVars, sessionVars, browserVars
  <2>0. ~up => stateMutex.call = "none"
    BY DEF SessionInv, Free
  <2>1. CASE UNCHANGED vars
    BY <2>1, SessionQuiet DEF vars, sessionInvVars
  <2>2. CASE Request
    <3>1. ASSUME NEW s \in Sessions, ReadSession(s) PROVE SessionInv'
      BY <3>1, SessionQuiet DEF ReadSession, sessionInvVars
    <3>2. ASSUME NEW s \in Sessions, CreateSession(s) PROVE SessionInv'
      <4>1. page = NoSession
        BY <3>2 DEF CreateSession, SessionInv, PageHasOwner, Free, TypeOK
      <4>2. stateMutex'.session = s
        BY <3>2 DEF CreateSession, Free
      <4>3. \A t \in Sessions : Unfinished(t)' => t = s
        BY <3>2 DEF CreateSession, Unfinished, TypeOK
      <4> QED BY <3>2, <4>1, <4>2, <4>3 DEF CreateSession, SessionInv,
                 SingleUnfinishedSession, PageHasOwner
    <3>3. ASSUME NEW s \in Sessions, CloseFinished(s) PROVE SessionInv'
      <4>1. \A t \in Sessions : Unfinished(t)' <=> Unfinished(t)
        BY <3>3 DEF CloseFinished, CloseResources, Unfinished, TypeOK
      <4> QED BY <3>3, <4>1 DEF CloseFinished, SessionInv, SingleUnfinishedSession,
                 PageHasOwner, TypeOK
    <3>4. ASSUME NEW s \in Sessions, NEW l \in Leases, CloseSession(s, l) \/ CreateLease(s, l)
          PROVE SessionInv'
      <4>1. stateMutex.call = "none"
        BY <3>4 DEF CloseSession, CreateLease, Free
      <4>2. stateMutex'.call # "create"
        <5>1. CASE CloseSession(s, l)
          <6>1. [Free EXCEPT !.call = "close", !.session = s].call = "close"
            BY DEF Free
          <6> QED BY <5>1, <6>1 DEF CloseSession
        <5>2. CASE CreateLease(s, l)
          BY <5>2 DEF CreateLease
        <5> QED BY <3>4, <5>1, <5>2
      <4>3. up /\ UNCHANGED <<up, sessionStatus, page>>
        BY <3>4 DEF CloseSession, CreateLease
      <4> QED BY <4>1, <4>2, <4>3, SessionMutex
    <3>5. ASSUME NEW l \in Leases, RevokeLease(l) PROVE SessionInv'
      BY <3>5, SessionQuiet DEF RevokeLease, sessionInvVars
    <3>6. ASSUME NEW o \in Ops, NEW l \in Leases, SubmitOperation(o, l) PROVE SessionInv'
      BY <3>6, SessionQuiet DEF SubmitOperation, sessionInvVars
    <3>7. ASSUME NEW o \in Ops, CancelOperation(o) PROVE SessionInv'
      BY <3>7, SessionQuiet DEF CancelOperation, sessionInvVars
    <3> QED BY <2>2, <3>1, <3>2, <3>3, <3>4, <3>5, <3>6, <3>7 DEF Request
  <2>3. CASE ControlStep
    <3>1. ASSUME NEW s \in Sessions, OpenPage(s) PROVE SessionInv'
      <4>1. stateMutex'.call = "create" /\ stateMutex'.session = s /\ stateMutex'.ready
        BY <3>1 DEF OpenPage, TypeOK, StateMutex
      <4> QED BY <2>0, <3>1, <4>1 DEF OpenPage, SessionInv, SingleUnfinishedSession,
                 PageHasOwner, Unfinished
    <3>2. ASSUME NEW s \in Sessions, OpenReturns(s) PROVE SessionInv'
      <4>1. \A t \in Sessions : Unfinished(t)' => t = s
        BY <3>2 DEF OpenReturns, SessionInv, Unfinished, TypeOK
      <4>2. Unfinished(s)'
        BY <3>2 DEF OpenReturns, Unfinished, TypeOK
      <4>3. page \in {s, NoSession}
        BY <3>2 DEF OpenReturns, SessionInv, PageHasOwner, TypeOK
      <4> QED BY <2>0, <3>2, <4>1, <4>2, <4>3 DEF OpenReturns, Free, SessionInv,
                 SingleUnfinishedSession, PageHasOwner
    <3>3. ASSUME NEW s \in Sessions, OpenThrows(s) PROVE SessionInv'
      <4>1. \A t \in Sessions : ~Unfinished(t)'
        BY <3>3 DEF OpenThrows, SessionInv, Unfinished, TypeOK
      <4> QED BY <2>0, <3>3, <4>1 DEF OpenThrows, Free, SessionInv,
                 SingleUnfinishedSession, PageHasOwner
    <3>4. ASSUME NEW s \in Sessions, Detach(s) \/ CloseThrows(s) PROVE SessionInv'
      BY <2>0, <3>4, SessionMutex DEF Detach, CloseThrows, Free, TypeOK, StateMutex
    <3>5. ASSUME NEW s \in Sessions, CloseReturns(s) PROVE SessionInv'
      <4>1. \A t \in Sessions : Unfinished(t)' => Unfinished(t)
        BY <3>5 DEF CloseReturns, CloseResources, Unfinished, TypeOK
      <4> QED BY <2>0, <3>5, <4>1 DEF CloseReturns, Free, SessionInv,
                 SingleUnfinishedSession, PageHasOwner
    <3>6. ASSUME NEW s \in Sessions, NEW l \in Leases, IssueLease(s, l) PROVE SessionInv'
      BY <2>0, <3>6, SessionMutex DEF IssueLease, Free
    <3>7. ASSUME RefuseLease PROVE SessionInv'
      BY <2>0, <3>7, SessionMutex DEF RefuseLease, Free
    <3> QED BY <2>3, <3>1, <3>2, <3>3, <3>4, <3>5, <3>6, <3>7 DEF ControlStep
  <2>4. CASE Environment
    <3>1. CASE Start
      <4>1. \A t \in Sessions : ~Unfinished(t)'
        BY <3>1 DEF Start, Unfinished
      <4> QED BY <2>0, <3>1, <4>1 DEF Start, SessionInv, SingleUnfinishedSession, PageHasOwner
    <3>2. CASE Crash
      BY <3>2 DEF Crash, Free, SessionInv, SingleUnfinishedSession, PageHasOwner, Unfinished
    <3>3. CASE PageCloses \/ BrowserDisconnects
      <4>1. page' = NoSession /\ stateMutex' = stateMutex /\ up' = up
        BY <3>3 DEF PageCloses, BrowserDisconnects
      <4>2. \A t \in Sessions : Unfinished(t)' => Unfinished(t)
        BY <3>3 DEF PageCloses, BrowserDisconnects, Interrupt, Unfinished, TypeOK
      <4> QED BY <4>1, <4>2 DEF SessionInv, SingleUnfinishedSession, PageHasOwner
    <3>4. ASSUME NEW l \in Leases, Lapse(l) PROVE SessionInv'
      BY <3>4, SessionQuiet DEF Lapse, sessionInvVars
    <3> QED BY <2>4, <3>1, <3>2, <3>3, <3>4 DEF Environment
  <2>5. ASSUME NEW o \in Ops, OperationStep(o) PROVE SessionInv'
    <3>1. UNCHANGED sessionInvVars
      BY <2>5 DEF OperationStep, SkipCancelled, CancelAtHead, MarkRunning, Dispatch,
         RefuseDispatch, SelectTab, Land, ExecuteReturns, ExecuteRefuses, ExecuteThrows,
         Succeed, Fail, Complete, sessionInvVars
    <3> QED BY <3>1, SessionQuiet
  <2> QED BY <2>1, <2>2, <2>3, <2>4, <2>5 DEF Next
<1> QED BY <1>1, <1>2, TypeCorrect, PTL DEF Spec

\* At most one session is opening or active, however interruptions, failures
\* and restarts fall between the awaits of createSession and closeSession.
THEOREM OneUnfinishedSession == Spec => []SingleUnfinishedSession
<1>1. SessionInv => SingleUnfinishedSession
  BY DEF SessionInv
<1> QED BY <1>1, SessionInvariant, PTL

\* No session ends and leaves its browser page behind.
THEOREM PageOwned == Spec => []PageHasOwner
<1>1. SessionInv => PageHasOwner
  BY DEF SessionInv
<1> QED BY <1>1, SessionInvariant, PTL

-----------------------------------------------------------------------------
\* The leases, the interruptions and the queue: what a lease authorizes, what an
\* interruption ends, and that operations run in the order of the ledger and are
\* never orphaned, whatever closes, interrupts or restarts around them.

\* Only IssueLease makes a lease active; every other step leaves the active
\* leases as they are or takes some of them away.
NoNewLease == \A l \in Leases : leaseStatus'[l] = "active" => leaseStatus[l] = "active"

\* No other step makes a lease active.
LEMMA OthersIssueNothing ==
  ASSUME TypeOK, [Next]_vars
  PROVE  \/ NoNewLease
         \/ \E s \in Sessions, l \in Leases : IssueLease(s, l)
<1> USE DEF NoNewLease, TypeOK
<1>1. CASE UNCHANGED vars
  BY <1>1 DEF vars, leaseVars
<1>2. CASE Request
  <2>1. ASSUME NEW s \in Sessions, ReadSession(s) \/ CreateSession(s) \/ CloseFinished(s)
        PROVE  NoNewLease
    BY <2>1 DEF ReadSession, CreateSession, CloseFinished, CloseResources, Swept,
       LeasesRevoked, leaseVars
  <2>2. ASSUME NEW s \in Sessions, NEW l \in Leases, CloseSession(s, l) \/ CreateLease(s, l)
        PROVE  NoNewLease
    BY <2>2 DEF CloseSession, CreateLease, Swept
  <2>3. ASSUME NEW l \in Leases, RevokeLease(l)  PROVE NoNewLease
    BY <2>3 DEF RevokeLease, Swept
  <2>4. ASSUME NEW o \in Ops, NEW l \in Leases, SubmitOperation(o, l)  PROVE NoNewLease
    BY <2>4 DEF SubmitOperation, Swept
  <2>5. ASSUME NEW o \in Ops, CancelOperation(o)  PROVE NoNewLease
    BY <2>5 DEF CancelOperation, Swept
  <2> QED  BY <1>2, <2>1, <2>2, <2>3, <2>4, <2>5 DEF Request
<1>3. CASE ControlStep
  <2>1. ASSUME NEW s \in Sessions,
               \/ OpenPage(s) \/ OpenReturns(s) \/ OpenThrows(s)
               \/ Detach(s) \/ CloseReturns(s) \/ CloseThrows(s)
        PROVE  NoNewLease
    BY <2>1 DEF OpenPage, OpenReturns, OpenThrows, Detach, CloseReturns, CloseThrows,
       CloseResources, Swept, LeasesRevoked, leaseVars
  <2>2. CASE RefuseLease
    BY <2>2 DEF RefuseLease, leaseVars
  <2> QED  BY <1>3, <2>1, <2>2 DEF ControlStep
<1>4. CASE Environment
  <2>1. CASE Start \/ Crash
    BY <2>1 DEF Start, Crash, leaseVars
  <2>2. CASE PageCloses \/ BrowserDisconnects
    BY <2>2 DEF PageCloses, BrowserDisconnects, Interrupt, LeasesRevoked
  <2>3. ASSUME NEW l \in Leases, Lapse(l)  PROVE NoNewLease
    BY <2>3 DEF Lapse, leaseVars
  <2> QED  BY <1>4, <2>1, <2>2, <2>3 DEF Environment
<1>5. ASSUME NEW o \in Ops, OperationStep(o)  PROVE NoNewLease
  <2>1. CASE \/ SkipCancelled(o) \/ SelectTab(o) \/ Land(o) \/ ExecuteReturns(o)
             \/ ExecuteRefuses(o) \/ ExecuteThrows(o)
    BY <2>1 DEF SkipCancelled, SelectTab, Land, ExecuteReturns, ExecuteRefuses,
       ExecuteThrows, leaseVars
  <2>2. CASE CancelAtHead(o) \/ MarkRunning(o) \/ Dispatch(o) \/ RefuseDispatch(o)
    BY <2>2 DEF CancelAtHead, MarkRunning, Dispatch, RefuseDispatch, SweepFor, Swept
  <2>3. CASE Succeed(o) \/ Fail(o)
    BY <2>3 DEF Succeed, Fail, Complete, Consumed
  <2> QED  BY <1>5, <2>1, <2>2, <2>3 DEF OperationStep
<1> QED  BY <1>1, <1>2, <1>3, <1>4, <1>5 DEF Next

\* At most one control lease is active in the whole ledger, although
\* createLease looks only at its own session and only before its await.
THEOREM OneControlLease == Spec => []SingleControlLease
<1>1. Init => SingleControlLease
  BY ConstantsAssumption DEF Init, SingleControlLease
<1>2. TypeOK /\ SingleControlLease /\ [Next]_vars => SingleControlLease'
  <2> SUFFICES ASSUME TypeOK, SingleControlLease, [Next]_vars
               PROVE  SingleControlLease'
    OBVIOUS
  <2>1. CASE NoNewLease
    BY <2>1, ConstantsAssumption DEF NoNewLease, SingleControlLease
  <2>2. ASSUME NEW s \in Sessions, NEW l \in Leases, IssueLease(s, l)
        PROVE  SingleControlLease'
    <3>1. \A k \in Leases : leaseStatus'[k] = "active" => k = l \/ leaseStatus[k] = "active"
      BY <2>2 DEF IssueLease, TypeOK
    <3>2. l \in ControlLeases => \A k \in ControlLeases : leaseStatus[k] # "active"
      BY <2>2 DEF IssueLease, AdmittedByIndex
    <3> QED  BY <3>1, <3>2, ConstantsAssumption DEF SingleControlLease
  <2> QED  BY <2>1, <2>2, OthersIssueNothing
<1> QED  BY <1>1, <1>2, TypeCorrect, PTL DEF Spec

-----------------------------------------------------------------------------
\* Only Dispatch calls browser.execute.
LEMMA OthersDispatchNothing ==
  ASSUME [Next]_vars
  PROVE  dispatched' = dispatched \/ \E o \in Ops : Dispatch(o)
<1> USE DEF historyVars
<1>1. CASE UNCHANGED vars
  BY <1>1 DEF vars
<1>2. CASE Request
  BY <1>2 DEF Request, ReadSession, CreateSession, CloseFinished, CloseSession, CreateLease,
     RevokeLease, SubmitOperation, CancelOperation
<1>3. CASE ControlStep
  BY <1>3 DEF ControlStep, OpenPage, OpenReturns, OpenThrows, Detach, CloseReturns,
     CloseThrows, IssueLease, RefuseLease
<1>4. CASE Environment
  BY <1>4 DEF Environment, Start, Crash, PageCloses, BrowserDisconnects, Lapse
<1>5. ASSUME NEW o \in Ops, OperationStep(o), ~Dispatch(o)  PROVE dispatched' = dispatched
  BY <1>5 DEF OperationStep, SkipCancelled, CancelAtHead, MarkRunning, RefuseDispatch,
     SelectTab, Land, ExecuteReturns, ExecuteRefuses, ExecuteThrows, Succeed, Fail, Complete
<1> QED  BY <1>1, <1>2, <1>3, <1>4, <1>5 DEF Next

\* browser.execute is called only under a lease that is valid at that moment:
\* the validation after the before-screenshot is the one that counts.
THEOREM DispatchAuthorized == Spec => DispatchUnderValidLease
<1>1. TypeOK /\ [Next]_vars
      => [\A o \in Ops : dispatched'[o] > dispatched[o] => ValidFor(o, opLease[o])]_vars
  <2> SUFFICES ASSUME TypeOK, [Next]_vars, NEW o \in Ops, dispatched'[o] > dispatched[o]
               PROVE  ValidFor(o, opLease[o])
    OBVIOUS
  <2>1. PICK p \in Ops : Dispatch(p)
    BY OthersDispatchNothing DEF TypeOK
  <2>2. p = o
    BY <2>1 DEF Dispatch, TypeOK
  <2> QED  BY <2>1, <2>2 DEF Dispatch
<1> QED  BY <1>1, TypeCorrect, PTL DEF Spec, DispatchUnderValidLease

\* An interrupted session becomes active again only through its own
\* createSession call, whose updateSessionStatus overwrites the interruption.
THEOREM InterruptionStays == Spec => InterruptionIsFinal
<1>1. TypeOK /\ [Next]_vars
      => [\A s \in Sessions :
            sessionStatus[s] = "interrupted" /\ sessionStatus'[s] = "active"
            => stateMutex.call = "create" /\ stateMutex.session = s]_vars
  <2> SUFFICES ASSUME TypeOK, [Next]_vars, NEW s \in Sessions,
                      sessionStatus[s] = "interrupted", sessionStatus'[s] = "active"
               PROVE  stateMutex.call = "create" /\ stateMutex.session = s
    OBVIOUS
  <2> USE DEF sessionVars, TypeOK
  <2>1. CASE UNCHANGED vars
    BY <2>1 DEF vars
  <2>2. CASE Request
    BY <2>2 DEF Request, ReadSession, CreateSession, CloseFinished, CloseResources,
       CloseSession, CreateLease, RevokeLease, SubmitOperation, CancelOperation
  <2>3. CASE ControlStep
    BY <2>3 DEF ControlStep, OpenPage, OpenReturns, OpenThrows, Detach, CloseReturns,
       CloseResources, CloseThrows, IssueLease, RefuseLease
  <2>4. CASE Environment
    BY <2>4 DEF Environment, Start, Crash, PageCloses, BrowserDisconnects, Interrupt, Lapse
  <2>5. ASSUME NEW o \in Ops, OperationStep(o)  PROVE UNCHANGED sessionStatus
    BY <2>5 DEF OperationStep, SkipCancelled, CancelAtHead, MarkRunning, Dispatch,
       RefuseDispatch, SelectTab, Land, ExecuteReturns, ExecuteRefuses, ExecuteThrows,
       Succeed, Fail, Complete
  <2> QED  BY <2>1, <2>2, <2>3, <2>4, <2>5 DEF Next
<1> QED  BY <1>1, TypeCorrect, PTL DEF Spec, InterruptionIsFinal

-----------------------------------------------------------------------------
(***************************************************************************)
(* The queue of operationMutex: the calls that are under way, in the order  *)
(* of their numbers, of which only the first has started.                   *)
(***************************************************************************)
Queued(o) == \E i \in 1 .. Len(operationMutex) : operationMutex[i] = o

OrderInv ==
    /\ ~up => operationMutex = << >>
    /\ \A i, j \in 1 .. Len(operationMutex) :
          i < j => queueSequence[operationMutex[i]] < queueSequence[operationMutex[j]]
    /\ \A o \in Ops : opStage[o] # "none" <=> Queued(o)
    /\ \A o \in Ops : opStage[o] \in StartedStage => Owns(o)

orderVars == <<up, queueSequence, callVars>>

LEMMA OrderQuiet == ASSUME OrderInv, UNCHANGED orderVars PROVE OrderInv'
  BY DEF OrderInv, Queued, Owns, orderVars, callVars

\* The call at the head goes on.
LEMMA OrderGoesOn ==
  ASSUME TypeOK, OrderInv, NEW o \in Ops, Owns(o), NEW stage \in OpStage \ {"none"},
         opStage' = [opStage EXCEPT ![o] = stage],
         UNCHANGED <<up, queueSequence, operationMutex>>
  PROVE  OrderInv'
<1>1. Queued(o)
  BY DEF Owns, Queued, TypeOK
<1>2. \A p \in Ops : opStage'[p] = IF p = o THEN stage ELSE opStage[p]
  BY DEF TypeOK
<1>3. \A p \in Ops : opStage'[p] # "none" <=> Queued(p)'
  BY <1>1, <1>2 DEF OrderInv, Queued
<1>4. \A p \in Ops : opStage'[p] \in StartedStage => Owns(p)'
  BY <1>2 DEF OrderInv, Owns
<1> QED BY <1>3, <1>4 DEF OrderInv

\* The call at the head returns.
LEMMA OrderLeaves ==
  ASSUME TypeOK, OrderInv, NEW o \in Ops, Owns(o), Leave(o), UNCHANGED <<up, queueSequence>>
  PROVE  OrderInv'
<1> DEFINE q == operationMutex
<1>1. q \in Seq(Ops) /\ q # << >> /\ q[1] = o /\ q' = Tail(q)
  BY DEF Owns, Leave, TypeOK
<1>2. Len(q') = Len(q) - 1 /\ \A i \in 1 .. Len(q') : q'[i] = q[i + 1]
  BY <1>1
<1>3. Len(q) \in Nat /\ Len(q) >= 1 /\ \A i \in 1 .. Len(q) : q[i] \in Ops
  BY <1>1
<1>4. \A i, j \in 1 .. Len(q') : i < j => queueSequence[q'[i]] < queueSequence[q'[j]]
  <2> HIDE DEF q
  <2>1. \A i, j \in 1 .. Len(q) : i < j => queueSequence[q[i]] < queueSequence[q[j]]
    BY DEF OrderInv, q
  <2> QED BY <1>2, <1>3, <2>1
<1>5. \A i \in 2 .. Len(q) : q[i] # o
  <2> SUFFICES ASSUME NEW i \in 2 .. Len(q), q[i] = o PROVE FALSE
    OBVIOUS
  <2>1. queueSequence[q[1]] < queueSequence[q[i]]
    BY <1>3 DEF OrderInv
  <2> QED BY <1>1, <2>1 DEF TypeOK
<1>6. \A p \in Ops : opStage'[p] = IF p = o THEN "none" ELSE opStage[p]
  BY DEF Leave, TypeOK
<1>7. \A p \in Ops : Queued(p)' <=> Queued(p) /\ p # o
  <2> SUFFICES ASSUME NEW p \in Ops PROVE Queued(p)' <=> Queued(p) /\ p # o
    OBVIOUS
  <2>1. Queued(p)' <=> \E i \in 1 .. Len(q') : q'[i] = p
    BY DEF Queued
  <2>2. Queued(p) <=> \E i \in 1 .. Len(q) : q[i] = p
    BY DEF Queued
  <2> HIDE DEF q
  <2>3. ASSUME NEW i \in 1 .. Len(q'), q'[i] = p PROVE Queued(p) /\ p # o
    BY <1>2, <1>3, <1>5, <2>2, <2>3
  <2>4. ASSUME NEW i \in 1 .. Len(q), q[i] = p, p # o PROVE Queued(p)'
    <3>1. i # 1
      BY <1>1, <2>4
    <3>2. i - 1 \in 1 .. Len(q') /\ q'[i - 1] = p
      BY <1>2, <1>3, <2>4, <3>1
    <3> QED BY <2>1, <3>2
  <2> QED BY <2>1, <2>2, <2>3, <2>4
<1>8. \A p \in Ops : opStage'[p] \notin StartedStage
  BY <1>6 DEF OrderInv, Owns, StartedStage
<1>9. ~up' => q' = << >>
  BY <1>1 DEF OrderInv
<1>10. \A p \in Ops : opStage'[p] # "none" <=> Queued(p)'
  BY <1>6, <1>7 DEF OrderInv
<1> HIDE DEF q
<1> QED BY <1>4, <1>8, <1>9, <1>10 DEF OrderInv, q

\* A new call takes the last place and the highest number.
LEMMA OrderEnters ==
  ASSUME TypeOK, StageInv, OrderInv, NEW o \in Ops, NEW l \in Leases, SubmitOperation(o, l)
  PROVE  OrderInv'
<1> DEFINE q == operationMutex
<1>1. q \in Seq(Ops) /\ q' = Append(q, o) /\ Len(q) \in Nat
  BY DEF SubmitOperation, TypeOK
<1>2. Len(q') = Len(q) + 1 /\ q'[Len(q) + 1] = o /\ \A i \in 1 .. Len(q) : q'[i] = q[i] /\ q[i] \in Ops
  BY <1>1
<1>3. opStage[o] = "none"
  BY DEF SubmitOperation, StageInv, StageOK, TypeOK, OpStage
<1>4. \A i \in 1 .. Len(q) : q[i] # o
  BY <1>3 DEF OrderInv, Queued
<1>5. /\ \A p \in Ops \ {o} : queueSequence'[p] = queueSequence[p]
      /\ \A p \in Ops : queueSequence[p] < queueSequence'[o]
  BY DEF SubmitOperation, TypeOK
<1>6. \A p \in Ops : opStage'[p] = IF p = o THEN "waiting" ELSE opStage[p]
  BY DEF SubmitOperation, TypeOK
<1>7. \A i, j \in 1 .. Len(q') : i < j => queueSequence'[q'[i]] < queueSequence'[q'[j]]
  <2>1. \A i, j \in 1 .. Len(q) : i < j => queueSequence[q[i]] < queueSequence[q[j]]
    BY DEF OrderInv
  <2> HIDE DEF q
  <2> SUFFICES ASSUME NEW i \in 1 .. Len(q'), NEW j \in 1 .. Len(q'), i < j
               PROVE  queueSequence'[q'[i]] < queueSequence'[q'[j]]
    OBVIOUS
  <2>2. i \in 1 .. Len(q) /\ q'[i] = q[i] /\ q[i] \in Ops \ {o}
    BY <1>1, <1>2, <1>4
  <2>3. CASE j = Len(q) + 1
    BY <1>2, <1>5, <2>2, <2>3
  <2>4. CASE j \in 1 .. Len(q)
    BY <1>2, <1>4, <1>5, <2>1, <2>2, <2>4
  <2> QED BY <1>1, <1>2, <2>3, <2>4
<1>8. \A p \in Ops : Queued(p)' <=> Queued(p) \/ p = o
  <2> SUFFICES ASSUME NEW p \in Ops PROVE Queued(p)' <=> Queued(p) \/ p = o
    OBVIOUS
  <2>1. Queued(p)' <=> \E i \in 1 .. Len(q') : q'[i] = p
    BY DEF Queued
  <2>2. Queued(p) <=> \E i \in 1 .. Len(q) : q[i] = p
    BY DEF Queued
  <2> HIDE DEF q
  <2>3. \A i \in 1 .. Len(q') : i \in 1 .. Len(q) \/ i = Len(q) + 1
    BY <1>1, <1>2
  <2>4. Len(q) + 1 \in 1 .. Len(q') /\ \A i \in 1 .. Len(q) : i \in 1 .. Len(q')
    BY <1>1, <1>2
  <2> QED BY <1>2, <2>1, <2>2, <2>3, <2>4
<1>9. \A p \in Ops : opStage'[p] \in StartedStage => Owns(p)'
  <2>1. \A p \in Ops : opStage'[p] \in StartedStage => p # o /\ Owns(p)
    BY <1>6 DEF OrderInv, StartedStage
  <2>2. q # << >> => q' # << >> /\ Head(q') = Head(q)
    BY <1>1
  <2> QED BY <2>1, <2>2 DEF Owns
<1>10. up'
  BY DEF SubmitOperation, processVars
<1>11. \A p \in Ops : opStage'[p] # "none" <=> Queued(p)'
  BY <1>6, <1>8 DEF OrderInv
<1> HIDE DEF q
<1> QED BY <1>7, <1>9, <1>10, <1>11 DEF OrderInv, q

LEMMA OrderInvariant == Spec => []OrderInv
<1>1. Init => OrderInv
  BY DEF Init, OrderInv, Queued, StartedStage
<1>2. TypeOK /\ StageInv /\ OrderInv /\ [Next]_vars => OrderInv'
  <2> SUFFICES ASSUME TypeOK, StageInv, OrderInv, [Next]_vars PROVE OrderInv'
    OBVIOUS
  <2> USE DEF processVars, opVars, orderVars
  <2>1. CASE UNCHANGED vars
    BY <2>1, OrderQuiet DEF vars
  <2>2. CASE Request
    <3>1. ASSUME NEW s \in Sessions, ReadSession(s) \/ CreateSession(s) \/ CloseFinished(s)
          PROVE  OrderInv'
      BY <3>1, OrderQuiet DEF ReadSession, CreateSession, CloseFinished, CloseResources
    <3>2. ASSUME NEW s \in Sessions, NEW l \in Leases, CloseSession(s, l) \/ CreateLease(s, l)
          PROVE  OrderInv'
      BY <3>2, OrderQuiet DEF CloseSession, CreateLease
    <3>3. ASSUME NEW l \in Leases, RevokeLease(l) PROVE OrderInv'
      BY <3>3, OrderQuiet DEF RevokeLease
    <3>4. ASSUME NEW o \in Ops, CancelOperation(o) PROVE OrderInv'
      BY <3>4, OrderQuiet DEF CancelOperation
    <3> QED BY <2>2, <3>1, <3>2, <3>3, <3>4, OrderEnters DEF Request
  <2>3. CASE ControlStep
    <3>1. ASSUME NEW s \in Sessions,
                 \/ OpenPage(s) \/ OpenReturns(s) \/ OpenThrows(s)
                 \/ Detach(s) \/ CloseReturns(s) \/ CloseThrows(s)
          PROVE  OrderInv'
      BY <3>1, OrderQuiet DEF OpenPage, OpenReturns, OpenThrows, Detach, CloseReturns, CloseThrows,
         CloseResources
    <3>2. ASSUME NEW s \in Sessions, NEW l \in Leases, IssueLease(s, l) PROVE OrderInv'
      BY <3>2, OrderQuiet DEF IssueLease
    <3>3. CASE RefuseLease
      BY <3>3, OrderQuiet DEF RefuseLease
    <3> QED BY <2>3, <3>1, <3>2, <3>3 DEF ControlStep
  <2>4. CASE Environment
    <3>1. CASE Start
      \* No call survived the crash.
      BY <3>1 DEF Start, OrderInv, Queued, Owns, callVars
    <3>2. CASE Crash
      BY <3>2 DEF Crash, OrderInv, Queued, StartedStage
    <3>3. CASE PageCloses \/ BrowserDisconnects
      BY <3>3, OrderQuiet DEF PageCloses, BrowserDisconnects
    <3>4. ASSUME NEW l \in Leases, Lapse(l) PROVE OrderInv'
      BY <3>4, OrderQuiet DEF Lapse
    <3> QED BY <2>4, <3>1, <3>2, <3>3, <3>4 DEF Environment
  <2>5. ASSUME NEW o \in Ops, OperationStep(o) PROVE OrderInv'
    <3>1. CASE SkipCancelled(o) \/ CancelAtHead(o) \/ Succeed(o) \/ Fail(o)
      BY <3>1, OrderLeaves DEF SkipCancelled, CancelAtHead, Succeed, Fail, Complete
    <3>2. CASE \/ MarkRunning(o) \/ Dispatch(o) \/ RefuseDispatch(o) \/ SelectTab(o) \/ Land(o)
               \/ ExecuteReturns(o) \/ ExecuteRefuses(o) \/ ExecuteThrows(o)
      <4>1. /\ Owns(o) /\ UNCHANGED <<up, queueSequence, operationMutex>>
            /\ \E stage \in StartedStage : opStage' = [opStage EXCEPT ![o] = stage]
        BY <3>2 DEF MarkRunning, Dispatch, RefuseDispatch, SelectTab, Land, ExecuteReturns,
           ExecuteRefuses, ExecuteThrows, StartedStage
      <4>2. StartedStage \subseteq OpStage \ {"none"}
        BY DEF StartedStage, OpStage
      <4> QED BY <4>1, <4>2, OrderGoesOn
    <3> QED BY <2>5, <3>1, <3>2 DEF OperationStep
  <2> QED BY <2>1, <2>2, <2>3, <2>4, <2>5 DEF Next
<1> QED BY <1>1, <1>2, TypeCorrect, StageInvariant, PTL DEF Spec

\* Operations run in the order in which the ledger numbered them, over
\* cancellations, interruptions and restarts.
THEOREM RunInLedgerOrder == Spec => []RunsInLedgerOrder
<1>1. TypeOK /\ StageInv /\ OrderInv => RunsInLedgerOrder
  <2> SUFFICES ASSUME TypeOK, StageInv, OrderInv, NEW o \in Ops, NEW p \in Ops,
                      opStage[o] \in StartedStage, opStatus[p] = "queued"
               PROVE  queueSequence[o] < queueSequence[p]
    BY DEF RunsInLedgerOrder
  <2> DEFINE q == operationMutex
  <2>1. q # << >> /\ q[1] = o /\ Len(q) \in Nat /\ Len(q) >= 1
    BY DEF OrderInv, Owns, TypeOK
  <2>2. up /\ opStatus[o] = "running"
    BY <2>1 DEF OrderInv, StageInv, StageOK
  <2>3. PICK i \in 1 .. Len(q) : q[i] = p
    BY <2>2 DEF OrderInv, Queued, StageInv, StageOK
  <2>4. i # 1
    BY <2>1, <2>2, <2>3
  <2> QED BY <2>1, <2>3, <2>4 DEF OrderInv
<1> QED BY <1>1, TypeCorrect, StageInvariant, OrderInvariant, PTL

-----------------------------------------------------------------------------
(***************************************************************************)
(* A lease gets its session when it is issued, and keeps it.               *)
(***************************************************************************)
LeasesKept ==
    /\ leaseSession' = leaseSession
    /\ \A l \in Leases : leaseStatus'[l] = "none" <=> leaseStatus[l] = "none"

\* Every step but the issue of a lease keeps the set of the leases issued so
\* far, and their sessions.
LEMMA OnlyIssueAddsLease ==
  ASSUME TypeOK, [Next]_vars
  PROVE  \/ LeasesKept
         \/ \E s \in Sessions, l \in Leases : IssueLease(s, l)
<1> USE DEF LeasesKept, TypeOK, leaseVars
<1>1. CASE UNCHANGED vars
  BY <1>1 DEF vars
<1>2. CASE Request
  <2>1. ASSUME NEW s \in Sessions, ReadSession(s) \/ CreateSession(s) \/ CloseFinished(s)
        PROVE  LeasesKept
    BY <2>1 DEF ReadSession, CreateSession, CloseFinished, CloseResources, Swept, LeasesRevoked
  <2>2. ASSUME NEW s \in Sessions, NEW l \in Leases, CloseSession(s, l) \/ CreateLease(s, l)
        PROVE  LeasesKept
    BY <2>2 DEF CloseSession, CreateLease, Swept
  <2>3. ASSUME NEW l \in Leases, RevokeLease(l)  PROVE LeasesKept
    BY <2>3 DEF RevokeLease, Swept, Valid
  <2>4. ASSUME NEW o \in Ops, NEW l \in Leases, SubmitOperation(o, l)  PROVE LeasesKept
    BY <2>4 DEF SubmitOperation, Swept
  <2>5. ASSUME NEW o \in Ops, CancelOperation(o)  PROVE LeasesKept
    BY <2>5 DEF CancelOperation, Swept
  <2> QED  BY <1>2, <2>1, <2>2, <2>3, <2>4, <2>5 DEF Request
<1>3. CASE ControlStep
  <2>1. ASSUME NEW s \in Sessions,
               \/ OpenPage(s) \/ OpenReturns(s) \/ OpenThrows(s)
               \/ Detach(s) \/ CloseReturns(s) \/ CloseThrows(s)
        PROVE  LeasesKept
    BY <2>1 DEF OpenPage, OpenReturns, OpenThrows, Detach, CloseReturns, CloseThrows,
       CloseResources, Swept, LeasesRevoked
  <2>2. CASE RefuseLease
    BY <2>2 DEF RefuseLease
  <2> QED  BY <1>3, <2>1, <2>2 DEF ControlStep
<1>4. CASE Environment
  <2>1. CASE Start \/ Crash
    BY <2>1 DEF Start, Crash
  <2>2. CASE PageCloses \/ BrowserDisconnects
    BY <2>2 DEF PageCloses, BrowserDisconnects, Interrupt, LeasesRevoked
  <2>3. ASSUME NEW l \in Leases, Lapse(l)  PROVE LeasesKept
    BY <2>3 DEF Lapse
  <2> QED  BY <1>4, <2>1, <2>2, <2>3 DEF Environment
<1>5. ASSUME NEW o \in Ops, OperationStep(o)  PROVE LeasesKept
  <2>1. CASE \/ SkipCancelled(o) \/ SelectTab(o) \/ Land(o) \/ ExecuteReturns(o)
             \/ ExecuteRefuses(o) \/ ExecuteThrows(o)
    BY <2>1 DEF SkipCancelled, SelectTab, Land, ExecuteReturns, ExecuteRefuses, ExecuteThrows
  <2>2. CASE CancelAtHead(o) \/ MarkRunning(o) \/ Dispatch(o) \/ RefuseDispatch(o)
    BY <2>2 DEF CancelAtHead, MarkRunning, Dispatch, RefuseDispatch, SweepFor, Swept
  <2>3. CASE Succeed(o) \/ Fail(o)
    BY <2>3 DEF Succeed, Fail, Complete, Consumed
  <2> QED  BY <1>5, <2>1, <2>2, <2>3 DEF OperationStep
<1> QED  BY <1>1, <1>2, <1>3, <1>4, <1>5 DEF Next

(***************************************************************************)
(* What the holder of stateMutex may rely on after its await: the session  *)
(* it opens has not become active meanwhile, and the lease it issues has   *)
(* not been issued.                                                        *)
(***************************************************************************)
HolderInv ==
    /\ stateMutex.call = "create" =>
          /\ stateMutex.session \in Sessions
          /\ sessionStatus[stateMutex.session] \in {"opening", "interrupted"}
    /\ stateMutex.call = "lease" =>
          /\ stateMutex.lease \in Leases
          /\ leaseStatus[stateMutex.lease] = "none"

LEMMA HolderInvariant == Spec => []HolderInv
<1>1. Init => HolderInv
  BY DEF Init, HolderInv, Free
<1>2. TypeOK /\ SessionInv /\ HolderInv /\ [Next]_vars => HolderInv'
  <2> SUFFICES ASSUME TypeOK, SessionInv, HolderInv, [Next]_vars PROVE HolderInv'
    OBVIOUS
  <2> USE DEF sessionVars, leaseVars
  <2>1. CASE stateMutex' = Free
    BY <2>1 DEF HolderInv, Free
  <2>2. ASSUME LeasesKept, UNCHANGED <<sessionStatus, stateMutex>> PROVE HolderInv'
    BY <2>2 DEF HolderInv, LeasesKept
  <2>3. ASSUME NEW s \in Sessions, NEW l \in Leases, IssueLease(s, l) PROVE HolderInv'
    BY <2>1, <2>3 DEF IssueLease
  <2>4. CASE LeasesKept
    <3>1. CASE UNCHANGED vars
      BY <2>2, <2>4, <3>1 DEF vars
    <3>2. CASE Request
      <4>1. ASSUME NEW s \in Sessions, CreateSession(s) PROVE HolderInv'
        <5>1. stateMutex'.call = "create" /\ stateMutex'.session = s
          BY <4>1 DEF CreateSession, Free
        <5>2. sessionStatus'[s] = "opening"
          BY <4>1 DEF CreateSession, TypeOK
        <5> QED BY <5>1, <5>2 DEF HolderInv
      <4>2. ASSUME NEW s \in Sessions, NEW l \in Leases, CreateLease(s, l) PROVE HolderInv'
        <5>1. leaseStatus'[l] = "none"
          BY <2>4, <4>2 DEF CreateLease, LeasesKept
        <5> QED BY <4>2, <5>1 DEF HolderInv, CreateLease
      <4>3. ASSUME NEW s \in Sessions, NEW l \in Leases, CloseSession(s, l) PROVE HolderInv'
        <5>1. stateMutex'.call = "close"
          BY <4>3 DEF CloseSession, Free
        <5> QED BY <5>1 DEF HolderInv
      <4>4. ASSUME NEW s \in Sessions, CloseFinished(s) PROVE HolderInv'
        BY <2>1, <4>4 DEF CloseFinished
      <4>5. ASSUME NEW s \in Sessions, ReadSession(s) PROVE HolderInv'
        BY <2>2, <2>4, <4>5 DEF ReadSession
      <4>6. ASSUME NEW l \in Leases, RevokeLease(l) PROVE HolderInv'
        BY <2>2, <2>4, <4>6 DEF RevokeLease
      <4>7. ASSUME NEW o \in Ops, NEW l \in Leases, SubmitOperation(o, l)
            PROVE  HolderInv'
        BY <2>2, <2>4, <4>7 DEF SubmitOperation
      <4>8. ASSUME NEW o \in Ops, CancelOperation(o) PROVE HolderInv'
        BY <2>2, <2>4, <4>8 DEF CancelOperation
      <4> QED BY <3>2, <4>1, <4>2, <4>3, <4>4, <4>5, <4>6, <4>7, <4>8 DEF Request
    <3>3. CASE ControlStep
      <4>1. ASSUME NEW s \in Sessions, OpenPage(s) PROVE HolderInv'
        <5>1. stateMutex'.call = "create" /\ stateMutex'.session = s
          BY <4>1 DEF OpenPage, TypeOK, StateMutex
        <5> QED BY <4>1, <5>1 DEF HolderInv, OpenPage
      <4>2. ASSUME NEW s \in Sessions, Detach(s) PROVE HolderInv'
        <5>1. stateMutex'.call = "close"
          BY <4>2 DEF Detach, TypeOK, StateMutex
        <5> QED BY <5>1 DEF HolderInv
      <4>3. ASSUME NEW s \in Sessions,
                   OpenReturns(s) \/ OpenThrows(s) \/ CloseReturns(s) \/ CloseThrows(s)
            PROVE  HolderInv'
        BY <2>1, <4>3 DEF OpenReturns, OpenThrows, CloseReturns, CloseThrows
      <4>4. CASE RefuseLease
        BY <2>1, <4>4 DEF RefuseLease
      <4> QED BY <2>3, <3>3, <4>1, <4>2, <4>3, <4>4 DEF ControlStep
    <3>4. CASE Environment
      <4>1. CASE Start \/ Crash
        BY <2>1, <4>1 DEF Start, Crash, SessionInv
      <4>2. CASE PageCloses \/ BrowserDisconnects
        <5>1. stateMutex' = stateMutex /\ \A s \in Sessions :
                 sessionStatus'[s] = sessionStatus[s] \/ sessionStatus'[s] = "interrupted"
          BY <4>2 DEF PageCloses, BrowserDisconnects, Interrupt, TypeOK
        <5> QED BY <2>4, <5>1 DEF HolderInv, LeasesKept
      <4>3. ASSUME NEW l \in Leases, Lapse(l) PROVE HolderInv'
        BY <2>2, <2>4, <4>3 DEF Lapse
      <4> QED BY <3>4, <4>1, <4>2, <4>3 DEF Environment
    <3>5. ASSUME NEW o \in Ops, OperationStep(o) PROVE HolderInv'
      <4>1. UNCHANGED <<sessionStatus, stateMutex>>
        BY <3>5 DEF OperationStep, SkipCancelled, CancelAtHead, MarkRunning, Dispatch,
           RefuseDispatch, SelectTab, Land, ExecuteReturns, ExecuteRefuses, ExecuteThrows,
           Succeed, Fail, Complete
      <4> QED BY <2>2, <2>4, <4>1
    <3> QED BY <3>1, <3>2, <3>3, <3>4, <3>5 DEF Next
  <2> QED BY <2>3, <2>4, OnlyIssueAddsLease
<1> QED BY <1>1, <1>2, TypeCorrect, SessionInvariant, PTL DEF Spec

(***************************************************************************)
(* A queued operation came under a lease that was issued, to a session     *)
(* that is live as long as the operation is queued.                        *)
(***************************************************************************)
AliveInv ==
    up => \A o \in Ops : opStatus[o] = "queued" =>
             /\ opLease[o] \in Leases /\ leaseStatus[opLease[o]] # "none"
             /\ Live(SessionOf(o))

\* A step that queues no operation, issues no lease and ends no session in
\* which an operation stays queued.
LEMMA AliveKept ==
  ASSUME AliveInv, LeasesKept, up,
         \A o \in Ops : opStatus'[o] = "queued" => opStatus[o] = "queued" /\ opLease'[o] = opLease[o],
         \A o \in Ops : opStatus'[o] = "queued" /\ Live(SessionOf(o)) => Live(SessionOf(o))'
  PROVE  AliveInv'
  BY DEF AliveInv, LeasesKept

LEMMA AliveInvariant == Spec => []AliveInv
<1>1. Init => AliveInv
  BY DEF Init, AliveInv
<1>2. TypeOK /\ SessionInv /\ HolderInv /\ AliveInv /\ [Next]_vars => AliveInv'
  <2> SUFFICES ASSUME TypeOK, SessionInv, HolderInv, AliveInv, [Next]_vars PROVE AliveInv'
    OBVIOUS
  <2> DEFINE NoneQueued == \A o \in Ops : opStatus'[o] = "queued" =>
                              opStatus[o] = "queued" /\ opLease'[o] = opLease[o]
             SessionsKept == UNCHANGED <<epoch, sessionStatus, sessionEpoch>>
  <2> USE DEF processVars, sessionVars, opVars
  <2>1. ASSUME LeasesKept, up' = up, NoneQueued, SessionsKept PROVE AliveInv'
    <3>1. \A o \in Ops : opStatus'[o] = "queued" /\ Live(SessionOf(o)) => Live(SessionOf(o))'
      BY <2>1 DEF Live, SessionOf, LeasesKept
    <3> QED BY <2>1, <3>1, AliveKept DEF AliveInv
  <2>2. ASSUME LeasesKept, up' = up, opStatus' = opStatus, opLease' = opLease,
               epoch' = epoch, NEW s \in Sessions, ~Live(s),
               \A t \in Sessions \ {s} : /\ sessionStatus'[t] = sessionStatus[t]
                                         /\ sessionEpoch'[t] = sessionEpoch[t]
        PROVE  AliveInv'
    <3>1. \A o \in Ops : opStatus'[o] = "queued" /\ Live(SessionOf(o)) => Live(SessionOf(o))'
      BY <2>2 DEF Live, SessionOf, LeasesKept
    <3> QED BY <2>2, <3>1, AliveKept DEF AliveInv
  <2>3. ASSUME LeasesKept, up' = up, opLease' = opLease, UNCHANGED <<epoch, sessionEpoch>>,
               NEW s \in Sessions, opStatus' = QueuedCancelled(s),
               \A t \in Sessions \ {s} : sessionStatus'[t] = sessionStatus[t]
        PROVE  AliveInv'
    \* The operations that stay queued are those of other sessions.
    <3>1. \A o \in Ops : opStatus'[o] = "queued" => opStatus[o] = "queued" /\ SessionOf(o) # s
      BY <2>3 DEF QueuedCancelled
    <3>2. \A o \in Ops : opStatus'[o] = "queued" /\ Live(SessionOf(o)) => Live(SessionOf(o))'
      BY <2>3, <3>1 DEF Live, SessionOf, LeasesKept
    <3> QED BY <2>3, <3>1, <3>2, AliveKept DEF AliveInv
  <2>4. ASSUME NEW s \in Sessions, NEW l \in Leases, IssueLease(s, l) PROVE AliveInv'
    <3>1. leaseStatus[l] = "none"
      BY <2>4 DEF IssueLease, HolderInv
    <3>2. \A k \in Leases : k # l => /\ leaseStatus'[k] = leaseStatus[k]
                                     /\ leaseSession'[k] = leaseSession[k]
      BY <2>4 DEF IssueLease, TypeOK
    <3> QED BY <2>4, <3>1, <3>2 DEF IssueLease, AliveInv, Live, SessionOf
  <2>5. CASE LeasesKept
    <3>1. CASE UNCHANGED vars
      BY <2>1, <2>5, <3>1 DEF vars
    <3>2. CASE Request
      <4>1. ASSUME NEW s \in Sessions, CreateSession(s) PROVE AliveInv'
        <5>1. ~Live(s)
          BY <4>1 DEF CreateSession, Live
        <5> QED BY <2>2, <2>5, <4>1, <5>1 DEF CreateSession, TypeOK
      <4>2. ASSUME NEW s \in Sessions, CloseFinished(s) PROVE AliveInv'
        BY <2>3, <2>5, <4>2 DEF CloseFinished, CloseResources, TypeOK
      <4>3. ASSUME NEW s \in Sessions, ReadSession(s) PROVE AliveInv'
        BY <2>1, <2>5, <4>3 DEF ReadSession
      <4>4. ASSUME NEW s \in Sessions, NEW l \in Leases, CloseSession(s, l) \/ CreateLease(s, l)
            PROVE  AliveInv'
        BY <2>1, <2>5, <4>4 DEF CloseSession, CreateLease
      <4>5. ASSUME NEW l \in Leases, RevokeLease(l) PROVE AliveInv'
        BY <2>1, <2>5, <4>5 DEF RevokeLease
      <4>6. ASSUME NEW o \in Ops, NEW l \in Leases, SubmitOperation(o, l) PROVE AliveInv'
        <5>1. leaseStatus'[l] # "none" /\ Live(leaseSession[l])'
          BY <2>5, <4>6 DEF SubmitOperation, ValidFor, Valid, LeasesKept, Live
        <5>2. opLease'[o] = l
          BY <4>6 DEF SubmitOperation, TypeOK
        <5>3. \A p \in Ops \ {o} : opStatus'[p] = opStatus[p] /\ opLease'[p] = opLease[p]
          BY <4>6 DEF SubmitOperation, TypeOK
        <5>4. \A s \in Sessions : Live(s) => Live(s)'
          BY <4>6 DEF SubmitOperation, Live
        <5>5. up /\ leaseSession' = leaseSession
          BY <4>6 DEF SubmitOperation
        <5> QED BY <2>5, <5>1, <5>2, <5>3, <5>4, <5>5 DEF AliveInv, LeasesKept, SessionOf, Live
      <4>7. ASSUME NEW o \in Ops, CancelOperation(o) PROVE AliveInv'
        BY <2>1, <2>5, <4>7 DEF CancelOperation, TypeOK
      <4> QED BY <3>2, <4>1, <4>2, <4>3, <4>4, <4>5, <4>6, <4>7 DEF Request
    <3>3. CASE ControlStep
      <4>1. ASSUME NEW s \in Sessions, OpenPage(s) \/ Detach(s) \/ CloseThrows(s) PROVE AliveInv'
        BY <2>1, <2>5, <4>1 DEF OpenPage, Detach, CloseThrows
      <4>2. ASSUME NEW s \in Sessions, OpenReturns(s) \/ OpenThrows(s) PROVE AliveInv'
        <5>1. ~Live(s)
          BY <4>2 DEF OpenReturns, OpenThrows, HolderInv, Live
        <5> QED BY <2>2, <2>5, <4>2, <5>1 DEF OpenReturns, OpenThrows, TypeOK
      <4>3. ASSUME NEW s \in Sessions, CloseReturns(s) PROVE AliveInv'
        BY <2>3, <2>5, <4>3 DEF CloseReturns, CloseResources, TypeOK
      <4>4. CASE RefuseLease
        BY <2>1, <2>5, <4>4 DEF RefuseLease
      <4> QED BY <2>4, <3>3, <4>1, <4>2, <4>3, <4>4 DEF ControlStep
    <3>4. CASE Environment
      <4>1. CASE Start
        BY <4>1 DEF Start, AliveInv
      <4>2. CASE Crash
        BY <4>2 DEF Crash, AliveInv
      <4>3. CASE PageCloses \/ BrowserDisconnects
        <5>1. up' = up /\ UNCHANGED <<epoch, sessionEpoch, opLease>>
          BY <4>3 DEF PageCloses, BrowserDisconnects
        <5>2. CASE UNCHANGED <<leaseStatus, opStatus, sessionStatus>>
          BY <2>1, <2>5, <5>1, <5>2
        <5>3. ASSUME NEW s \in Sessions, opStatus' = QueuedCancelled(s),
                     sessionStatus' = [sessionStatus EXCEPT ![s] = "interrupted"]
              PROVE  AliveInv'
          BY <2>3, <2>5, <5>1, <5>3 DEF TypeOK
        <5> QED BY <4>3, <5>2, <5>3 DEF PageCloses, BrowserDisconnects, Interrupt
      <4>4. ASSUME NEW l \in Leases, Lapse(l) PROVE AliveInv'
        BY <2>1, <2>5, <4>4 DEF Lapse
      <4> QED BY <3>4, <4>1, <4>2, <4>3, <4>4 DEF Environment
    <3>5. ASSUME NEW o \in Ops, OperationStep(o) PROVE AliveInv'
      <4>1. up' = up /\ SessionsKept /\ opLease' = opLease
        BY <3>5 DEF OperationStep, SkipCancelled, CancelAtHead, MarkRunning, Dispatch,
           RefuseDispatch, SelectTab, Land, ExecuteReturns, ExecuteRefuses, ExecuteThrows,
           Succeed, Fail, Complete
      <4>2. \A p \in Ops : opStatus'[p] = "queued" => opStatus[p] = "queued"
        BY <3>5 DEF OperationStep, SkipCancelled, CancelAtHead, MarkRunning, Dispatch,
           RefuseDispatch, SelectTab, Land, ExecuteReturns, ExecuteRefuses, ExecuteThrows,
           Succeed, Fail, Complete, TypeOK
      <4> QED BY <2>1, <2>5, <4>1, <4>2
    <3> QED BY <3>1, <3>2, <3>3, <3>4, <3>5 DEF Next
  <2> QED BY <2>4, <2>5, OnlyIssueAddsLease
<1> QED BY <1>1, <1>2, TypeCorrect, SessionInvariant, HolderInvariant, PTL DEF Spec

\* Closing, interrupting and restarting leave no orphan in the queue: while
\* the process runs, a queued operation has a call that will decide it and a
\* session it can still run in.
THEOREM QueuedWorkAlive == Spec => []QueuedWorkIsAlive
<1>1. TypeOK /\ StageInv /\ OrderInv /\ AliveInv => QueuedWorkIsAlive
  <2> SUFFICES ASSUME TypeOK, StageInv, OrderInv, AliveInv, up, NEW o \in Ops,
                      opStatus[o] = "queued"
               PROVE  /\ Live(SessionOf(o))
                      /\ \E i \in DOMAIN operationMutex : operationMutex[i] = o
    BY DEF QueuedWorkIsAlive
  <2>1. Queued(o)
    BY DEF StageInv, StageOK, OrderInv
  <2>2. DOMAIN operationMutex = 1 .. Len(operationMutex)
    BY DEF TypeOK
  <2> QED BY <2>1, <2>2 DEF Queued, AliveInv
<1> QED BY <1>1, TypeCorrect, StageInvariant, OrderInvariant, AliveInvariant, PTL

-----------------------------------------------------------------------------
\* Artifacts.

Row  == [status : LedgerStatus, session : Nat, capture : CaptureStatus]
Item == [op : Operations, status : ArtifactStatus, ref : Contents \cup {None}]
Turn == [kind : {"free", "op", "cleanup"}, op : Operations \cup {None},
         step : OpStep \cup {"none", "claim", "mark"}, items : Nat,
         todo : SUBSET (Contents \cup Nat)]

\* An operation that holds the mutex is one of the ledger, a cleanup has
\* records to delete.
TypeInv ==
    /\ session \in Nat /\ open \in BOOLEAN /\ troubles \in Nat
    /\ op \in [Operations -> Row] /\ artifact \in Seq(Item)
    /\ files \in [Contents -> {"none", "part", "whole"}]
    /\ executed \in [Operations -> Nat] /\ turn \in Turn
    /\ turn.kind = "op" => turn.op \in Operations /\ turn.todo \subseteq Contents
    /\ turn.kind = "cleanup" => turn.todo \subseteq Recorded /\ turn.step \in {"claim", "mark"}
    /\ turn.kind = "cleanup" /\ turn.step = "mark" => turn.items \in Recorded

-----------------------------------------------------------------------------
LEMMA FreeTurn ==
    /\ NoTurn \in Turn /\ NoTurn.kind = "free" /\ NoTurn.todo = {} /\ NoTurn.step = "none"
  BY DEF NoTurn, Turn

\* The turn at another step, with something else to do.
MovedTurn(t, step, todo, items) == [t EXCEPT !.step = step, !.todo = todo, !.items = items]

LEMMA NextTurn ==
    ASSUME NEW t \in Turn, NEW step \in OpStep \cup {"none", "claim", "mark"}, NEW items \in Nat,
           NEW todo \in SUBSET (Contents \cup Nat)
    PROVE  /\ MovedTurn(t, step, todo, items) \in Turn
           /\ MovedTurn(t, step, todo, items).kind = t.kind
           /\ MovedTurn(t, step, todo, items).op = t.op
           /\ MovedTurn(t, step, todo, items).step = step
           /\ MovedTurn(t, step, todo, items).todo = todo
           /\ MovedTurn(t, step, todo, items).items = items
  BY DEF Turn, MovedTurn

\* A sequence with one element changed.
LEMMA ChangedItem ==
    ASSUME NEW s \in Seq(Item), NEW a \in DOMAIN s, NEW x \in ArtifactStatus
    PROVE  LET t == [s EXCEPT ![a].status = x]
           IN  /\ t \in Seq(Item) /\ DOMAIN t = DOMAIN s
               /\ t[a].status = x /\ t[a].ref = s[a].ref /\ t[a].op = s[a].op
               /\ \A b \in DOMAIN s \ {a} : t[b] = s[b]
<1>1. s[a] \in Item
  OBVIOUS
<1>2. [s[a] EXCEPT !.status = x] \in Item /\ [s[a] EXCEPT !.status = x].status = x
      /\ [s[a] EXCEPT !.status = x].ref = s[a].ref /\ [s[a] EXCEPT !.status = x].op = s[a].op
  BY <1>1 DEF Item
<1>3. DOMAIN s = 1 .. Len(s) /\ Len(s) \in Nat
  OBVIOUS
<1> DEFINE t == [s EXCEPT ![a] = [s[a] EXCEPT !.status = x]]
<1>4. t \in Seq(Item) /\ DOMAIN t = DOMAIN s
  <2>1. a \in 1 .. Len(s)
    BY <1>3
  <2>2. t \in Seq(Item)
    BY <1>2, <2>1, ExceptSeq
  <2> QED  BY <2>2
<1>5. t[a] = [s[a] EXCEPT !.status = x] /\ \A b \in DOMAIN s \ {a} : t[b] = s[b]
  OBVIOUS
<1> QED  BY <1>2, <1>4, <1>5

\* A sequence with an element added.
LEMMA AddedItem ==
    ASSUME NEW s \in Seq(Item), NEW x \in Item
    PROVE  /\ Append(s, x) \in Seq(Item)
           /\ DOMAIN s \subseteq DOMAIN Append(s, x)
           /\ \A b \in DOMAIN Append(s, x) :
                  \/ b \in DOMAIN s /\ Append(s, x)[b] = s[b]
                  \/ b \notin DOMAIN s /\ Append(s, x)[b] = x
  OBVIOUS

LEMMA ChangedRow ==
    ASSUME TypeInv, NEW o \in Operations, NEW status \in LedgerStatus,
           NEW capture \in CaptureStatus, NEW s \in Nat,
           op' = [op EXCEPT ![o] = [status |-> status, session |-> s, capture |-> capture]]
    PROVE  /\ op' \in [Operations -> Row]
           /\ op'[o].status = status /\ op'[o].session = s
           /\ \A p \in Operations \ {o} : op'[p] = op[p]
<1>1. [status |-> status, session |-> s, capture |-> capture] \in Row
  BY DEF Row
<1> QED  BY <1>1 DEF TypeInv

\* FinishCapture leaves the rest of the row alone.
LEMMA FinishedRow ==
    ASSUME NEW row \in Row, NEW items, NEW status \in LedgerStatus
    PROVE  \E capture \in CaptureStatus :
               [FinishCapture(row, items) EXCEPT !.status = status] =
                   [status |-> status, session |-> row.session, capture |-> capture]
<1>1. FinishCapture(row, items) \in Row /\ FinishCapture(row, items).session = row.session
  BY DEF FinishCapture, Row, CaptureStatus
<1>2. [FinishCapture(row, items) EXCEPT !.status = status] =
        [status |-> status, session |-> row.session, capture |-> FinishCapture(row, items).capture]
  BY <1>1 DEF Row
<1> QED  BY <1>1, <1>2 DEF Row

-----------------------------------------------------------------------------
\* The actions in groups, and what each group does to the rows of the ledger:
\* the status of one operation moves, all rows are swept, or none is touched.

\* The turn of an operation takes a step that does not end it.
OpStepNext ==
    \/ \E c \in Contents : WriteItem(c)
    \/ InsertArtifact \/ ItemFails \/ SkipItem \/ Act

LEMMA OpStepTypes ==
    ASSUME TypeInv, OpStepNext
    PROVE  /\ TypeInv' /\ turn.kind = "op" /\ turn'.kind = "op" /\ turn'.op = turn.op
           /\ UNCHANGED <<session, open, op>>
<1>0. turn \in Turn
  BY DEF TypeInv
<1>1. CASE \E c \in Contents : WriteItem(c)
  <2>1. PICK c \in Contents : WriteItem(c)
    BY <1>1
  <2>2. turn' \in Turn /\ turn'.kind = "op" /\ turn'.op = turn.op /\ turn'.todo = {c}
        /\ turn.kind = "op"
    <3>1. PICK step \in {"written", "settling"}, n \in {turn.items, turn.items + 1} :
             turn' = MovedTurn(turn, step, {c}, n)
      BY <2>1 DEF WriteItem, MovedTurn
    <3>2. n \in Nat /\ {c} \in SUBSET (Contents \cup Nat) /\ step \in OpStep
      BY <1>0 DEF Turn, OpStep
    <3>3. turn.kind = "op"
      BY <2>1 DEF WriteItem, OpAt
    <3> QED  BY <1>0, <3>1, <3>2, <3>3, NextTurn
  <2>3. files' \in [Contents -> {"none", "part", "whole"}]
    BY <2>1 DEF WriteItem, Write, TypeInv
  <2> QED  BY <2>1, <2>2, <2>3 DEF WriteItem, TypeInv, Recorded
<1>2. CASE InsertArtifact
  <2>0. turn.kind = "op" /\ turn.op \in Operations /\ turn.todo \subseteq Contents
    BY <1>2 DEF InsertArtifact, TypeInv
  <2>1. PICK c \in turn.todo : artifact' = Append(artifact, NewArtifact("available", c))
    BY <1>2 DEF InsertArtifact
  <2>2. NewArtifact("available", c) \in Item
    BY <2>0 DEF NewArtifact, Item, ArtifactStatus
  <2>3. artifact' \in Seq(Item)
    BY <2>1, <2>2, AddedItem DEF TypeInv
  <2>4. turn' \in Turn /\ turn'.kind = "op" /\ turn'.op = turn.op /\ turn'.todo = {}
    BY <1>0, <1>2, <2>0 DEF InsertArtifact, Turn, OpStep
  <2> QED  BY <1>2, <2>0, <2>3, <2>4 DEF InsertArtifact, TypeInv
<1>3. CASE ItemFails
  <2>0. turn.kind = "op" /\ turn.op \in Operations
    BY <1>3 DEF ItemFails, OpAt, TypeInv
  <2>1. artifact' = Append(artifact, NewArtifact("failed", None))
    BY <1>3 DEF ItemFails
  <2>2. NewArtifact("failed", None) \in Item
    BY <2>0 DEF NewArtifact, Item, ArtifactStatus
  <2>3. artifact' \in Seq(Item)
    BY <2>1, <2>2, AddedItem DEF TypeInv
  <2>4. turn' \in Turn /\ turn'.kind = "op" /\ turn'.op = turn.op /\ turn'.todo = turn.todo
    BY <1>0, <1>3, <2>0 DEF ItemFails, Turn, OpStep
  <2> QED  BY <1>3, <2>0, <2>3, <2>4 DEF ItemFails, TypeInv
<1>4. CASE SkipItem
  <2>1. turn' \in Turn /\ turn'.kind = "op" /\ turn'.op = turn.op /\ turn'.todo = turn.todo
        /\ turn.kind = "op"
    BY <1>0, <1>4 DEF SkipItem, OpAt, Turn, OpStep
  <2> QED  BY <1>4, <2>1 DEF SkipItem, TypeInv, Recorded
<1>5. CASE Act
  <2>1. turn' \in Turn /\ turn'.kind = "op" /\ turn'.op = turn.op /\ turn'.todo = turn.todo
        /\ turn.kind = "op"
    BY <1>0, <1>5 DEF Act, OpAt, Turn, OpStep
  <2>2. executed' \in [Operations -> Nat]
    <3>1. turn.op \in Operations /\ executed[turn.op] + 1 \in Nat
      BY <2>1 DEF TypeInv
    <3> QED  BY <1>5, <3>1 DEF Act, TypeInv
  <2>3. UNCHANGED <<session, open, op, artifact, files, troubles>>
    BY <1>5 DEF Act
  <2> QED  BY <2>1, <2>2, <2>3 DEF TypeInv
<1> QED  BY <1>1, <1>2, <1>3, <1>4, <1>5 DEF OpStepNext

\* A cleanup takes a step, or the rest of a file that a write left appears.
CleanupNext ==
    \/ \E a \in Recorded : ClaimAndDelete(a) \/ DeleteFails(a)
    \/ BeginCleanup \/ MarkDeleted
    \/ \E c \in Contents : WriteBreaks(c)

LEMMA CleanupTypes ==
    ASSUME TypeInv, CleanupNext
    PROVE  /\ TypeInv' /\ UNCHANGED <<session, open, op, executed>> /\ Recorded' = Recorded
           /\ turn'.kind = "op" => turn' = turn
<1>0. turn \in Turn /\ artifact \in Seq(Item) /\ Recorded \subseteq Nat
  BY DEF TypeInv, Recorded
<1>1. ASSUME NEW a \in Recorded, ClaimAndDelete(a)
      PROVE  /\ TypeInv' /\ Recorded' = Recorded /\ turn'.kind = "cleanup"
  <2>1. artifact' \in Seq(Item) /\ Recorded' = Recorded
    BY <1>0, <1>1, ChangedItem DEF ClaimAndDelete, ArtifactStatus, Recorded
  <2>2. turn' \in Turn /\ turn'.kind = "cleanup" /\ turn'.step = "mark" /\ turn'.items = a
        /\ turn'.todo = turn.todo
    BY <1>0, <1>1 DEF ClaimAndDelete, Turn
  <2>3. files' \in [Contents -> {"none", "part", "whole"}]
    BY <1>1 DEF ClaimAndDelete, TypeInv
  <2> QED  BY <1>1, <2>1, <2>2, <2>3 DEF ClaimAndDelete, TypeInv
<1>2. ASSUME NEW a \in Recorded, DeleteFails(a)
      PROVE  TypeInv' /\ Recorded' = Recorded /\ turn'.kind = "free"
  <2>1. artifact' \in Seq(Item) /\ Recorded' = Recorded
    BY <1>0, <1>2, ChangedItem DEF DeleteFails, ArtifactStatus, Recorded
  <2>2. turn' = NoTurn /\ troubles' \in Nat
    BY <1>2 DEF DeleteFails, AfterFailure, Trouble, TypeInv
  <2> QED  BY <1>2, <2>1, <2>2, FreeTurn DEF DeleteFails, TypeInv
<1>3. CASE BeginCleanup
  <2>1. turn'.kind = "cleanup" /\ turn'.step = "claim" /\ turn'.todo \subseteq Recorded /\ turn' \in Turn
    BY <1>0, <1>3, FreeTurn DEF BeginCleanup, StillExpired, Turn
  <2> QED  BY <1>3, <2>1 DEF BeginCleanup, TypeInv, Recorded
<1>4. CASE MarkDeleted
  <2>0. turn.items \in Recorded
    BY <1>4 DEF MarkDeleted, TypeInv
  <2>1. artifact' \in Seq(Item) /\ Recorded' = Recorded
    BY <1>0, <1>4, <2>0, ChangedItem DEF MarkDeleted, ArtifactStatus, Recorded
  <2>2. CASE turn' = NoTurn
    BY <1>4, <2>1, <2>2, FreeTurn DEF MarkDeleted, TypeInv
  <2>3. CASE turn' = [turn EXCEPT !.step = "claim", !.todo = turn.todo \ {turn.items}, !.items = 0]
    <3>0. turn.todo \ {turn.items} \in SUBSET (Contents \cup Nat) /\ turn.kind = "cleanup"
      BY <1>0, <1>4 DEF MarkDeleted, Turn
    <3>m. turn' = MovedTurn(turn, "claim", turn.todo \ {turn.items}, 0)
      BY <2>3 DEF MovedTurn
    <3>n. "claim" \in OpStep \cup {"none", "claim", "mark"} /\ 0 \in Nat
      OBVIOUS
    <3>o. /\ turn' \in Turn /\ turn'.kind = turn.kind /\ turn'.step = "claim"
          /\ turn'.todo = turn.todo \ {turn.items}
      <4>1. PICK T \in SUBSET (Contents \cup Nat) : T = turn.todo \ {turn.items}
        BY <3>0
      <4>2. PICK t \in Turn : t = turn
        BY <1>0
      <4>3. /\ MovedTurn(t, "claim", T, 0) \in Turn
            /\ MovedTurn(t, "claim", T, 0).kind = t.kind
            /\ MovedTurn(t, "claim", T, 0).step = "claim"
            /\ MovedTurn(t, "claim", T, 0).todo = T
        BY <3>n, NextTurn
      <4>4. turn' = MovedTurn(t, "claim", T, 0)
        BY <3>m, <4>1, <4>2
      <4> QED  BY <4>1, <4>2, <4>3, <4>4
    <3>1. turn' \in Turn /\ turn'.kind = "cleanup" /\ turn'.step = "claim"
          /\ turn'.todo \subseteq turn.todo
      BY <3>o, <3>0
    <3> QED  BY <1>4, <2>1, <3>1 DEF MarkDeleted, TypeInv
  <2> QED  BY <1>4, <2>1, <2>2, <2>3, FreeTurn DEF MarkDeleted
<1>5. ASSUME NEW c \in Contents, WriteBreaks(c)
      PROVE  TypeInv' /\ Recorded' = Recorded /\ turn' = turn
  BY <1>5 DEF WriteBreaks, Trouble, TypeInv, Recorded
<1> QED  BY <1>1, <1>2, <1>3, <1>4, <1>5
         DEF CleanupNext, ClaimAndDelete, DeleteFails, BeginCleanup, MarkDeleted, WriteBreaks

\* One operation moves in the ledger.
RowNext(o) ==
    \/ \E capture \in BOOLEAN : Accept(o, capture)
    \/ CancelQueued(o) \/ BeginTurn(o)
    \/ (turn.op = o /\ \E status \in LedgerStatus : CompleteTurn(status))

\* what it does: it is queued, cancelled, gets the mutex or leaves it
Queues(o) ==
    /\ LeaseValid(o) /\ op[o].status \in {"none", "gone"} /\ session > 0 /\ turn' = turn
    /\ op'[o].status = "queued" /\ op'[o].session \in {op[o].session, session}
    /\ op'[o].session # 0
Drops(o) ==
    /\ op[o].status = "queued" /\ op'[o].status = "cancelled"
    /\ op'[o].session = op[o].session /\ turn' = turn
Starts(o) ==
    /\ turn = NoTurn /\ op[o].status = "queued" /\ op'[o].status = "running"
    /\ op'[o].session = op[o].session
    /\ turn'.kind = "op" /\ turn'.op = o /\ turn'.todo = {} /\ turn'.step = "before"
Ends(o) ==
    /\ turn.kind = "op" /\ turn.op = o /\ turn' = NoTurn /\ op'[o].session = op[o].session
    /\ op'[o].status \in {"succeeded", "failed", "outcome_unknown"}

LEMMA RowTypes ==
    ASSUME TypeInv, NEW o \in Operations, RowNext(o)
    PROVE  /\ TypeInv' /\ UNCHANGED <<session, open, artifact, files, executed>>
           /\ \A p \in Operations \ {o} : op'[p] = op[p]
           /\ Queues(o) \/ Drops(o) \/ Starts(o) \/ Ends(o)
<1>0. op[o] \in Row /\ turn \in Turn
  BY DEF TypeInv
<1>1. ASSUME NEW capture \in BOOLEAN, Accept(o, capture)
      PROVE  /\ op' \in [Operations -> Row] /\ \A p \in Operations \ {o} : op'[p] = op[p]
             /\ op'[o].status = "queued" /\ op'[o].session \in {op[o].session, session}
             /\ op'[o].session # 0
  <2> DEFINE s == IF op[o].session = 0 THEN session ELSE op[o].session
             k == IF capture THEN "pending" ELSE "none"
  <2>1. s \in Nat /\ k \in CaptureStatus /\ "queued" \in LedgerStatus /\ s # 0
        /\ s \in {op[o].session, session}
    BY <1>0, <1>1 DEF Accept, Row, CaptureStatus, LedgerStatus, TypeInv
  <2>2. op' = [op EXCEPT ![o] = [status |-> "queued", session |-> s, capture |-> k]]
    BY <1>1 DEF Accept
  <2> HIDE DEF s, k
  <2> QED  BY <2>1, <2>2, ChangedRow
<1>2. ASSUME NEW status \in LedgerStatus, NEW capture \in CaptureStatus,
             op' = [op EXCEPT ![o] = [status |-> status, session |-> op[o].session, capture |-> capture]]
      PROVE  /\ op' \in [Operations -> Row] /\ \A p \in Operations \ {o} : op'[p] = op[p]
             /\ op'[o].status = status /\ op'[o].session = op[o].session
  <2>1. op[o].session \in Nat
    BY <1>0 DEF Row
  <2> QED  BY <1>2, <2>1, ChangedRow
<1>3. ASSUME NEW status \in LedgerStatus, op' = [op EXCEPT ![o].status = status]
      PROVE  /\ op' \in [Operations -> Row] /\ \A p \in Operations \ {o} : op'[p] = op[p]
             /\ op'[o].status = status /\ op'[o].session = op[o].session
  <2>1. [op[o] EXCEPT !.status = status] =
           [status |-> status, session |-> op[o].session, capture |-> op[o].capture]
        /\ op[o].capture \in CaptureStatus
    BY <1>0 DEF Row
  <2>2. op' = [op EXCEPT ![o] = [status |-> status, session |-> op[o].session,
                                 capture |-> op[o].capture]]
    BY <1>3, <2>1
  <2> QED  BY <1>2, <2>1, <2>2
<1>4. ASSUME NEW items, NEW status \in LedgerStatus,
             op' = [op EXCEPT ![o] = [FinishCapture(op[o], items) EXCEPT !.status = status]]
      PROVE  /\ op' \in [Operations -> Row] /\ \A p \in Operations \ {o} : op'[p] = op[p]
             /\ op'[o].status = status /\ op'[o].session = op[o].session
  <2>1. PICK capture \in CaptureStatus :
            [FinishCapture(op[o], items) EXCEPT !.status = status] =
                [status |-> status, session |-> op[o].session, capture |-> capture]
    BY <1>0, FinishedRow
  <2>2. op' = [op EXCEPT ![o] = [status |-> status, session |-> op[o].session, capture |-> capture]]
    BY <1>4, <2>1
  <2> QED  BY <1>2, <2>2
<1>s. {"running", "cancelled", "succeeded", "failed", "outcome_unknown"} \subseteq LedgerStatus
  BY DEF LedgerStatus
<1>5. CASE \E capture \in BOOLEAN : Accept(o, capture)
  <2>1. PICK capture \in BOOLEAN : Accept(o, capture)
    BY <1>5
  <2>2. /\ op' \in [Operations -> Row] /\ \A p \in Operations \ {o} : op'[p] = op[p]
        /\ op'[o].status = "queued" /\ op'[o].session \in {op[o].session, session}
        /\ op'[o].session # 0
    BY <1>1, <2>1
  <2>3. UNCHANGED <<session, open, artifact, files, turn, executed, troubles>>
    BY <2>1 DEF Accept
  <2>4. Queues(o)
    BY <2>1, <2>2, <2>3 DEF Accept, Queues
  <2>5. TypeInv'
    BY <2>2, <2>3 DEF TypeInv, Recorded
  <2> QED  BY <2>2, <2>3, <2>4, <2>5
<1>6. CASE CancelQueued(o)
  <2>1. /\ op' \in [Operations -> Row] /\ \A p \in Operations \ {o} : op'[p] = op[p]
        /\ op'[o].status = "cancelled" /\ op'[o].session = op[o].session
    BY <1>3, <1>6, <1>s DEF CancelQueued
  <2>2. UNCHANGED <<session, open, artifact, files, turn, executed, troubles>>
    BY <1>6 DEF CancelQueued
  <2>q. op[o].status = "queued" /\ turn' = turn
    BY <1>6 DEF CancelQueued
  <2>3. Drops(o)
    BY <2>1, <2>q DEF Drops
  <2>4. TypeInv'
    BY <2>1, <2>2 DEF TypeInv, Recorded
  <2> QED  BY <2>1, <2>2, <2>3, <2>4
<1>7. CASE BeginTurn(o)
  <2>1. CASE /\ op' = [op EXCEPT ![o].status = "running"]
             /\ turn' = [NoTurn EXCEPT !.kind = "op", !.op = o, !.step = "before"]
    <3>1. /\ op' \in [Operations -> Row] /\ \A p \in Operations \ {o} : op'[p] = op[p]
          /\ op'[o].status = "running" /\ op'[o].session = op[o].session
      BY <1>3, <1>s, <2>1
    <3>2. turn' \in Turn /\ turn'.kind = "op" /\ turn'.op = o /\ turn'.todo = {}
          /\ turn'.step = "before"
      BY <2>1 DEF NoTurn, Turn, OpStep
    <3>3. turn = NoTurn /\ op[o].status = "queued"
          /\ UNCHANGED <<session, open, artifact, files, executed, troubles>>
      BY <1>7 DEF BeginTurn
    <3>4. TypeInv'
      BY <3>1, <3>2, <3>3 DEF TypeInv
    <3>5. Starts(o)
      BY <3>1, <3>2, <3>3 DEF Starts
    <3> QED  BY <3>1, <3>3, <3>4, <3>5
  <2>2. CASE /\ op' = [op EXCEPT ![o] = [FinishCapture(@, 0) EXCEPT !.status = "cancelled"]]
             /\ UNCHANGED turn
    <3>1. /\ op' \in [Operations -> Row] /\ \A p \in Operations \ {o} : op'[p] = op[p]
          /\ op'[o].status = "cancelled" /\ op'[o].session = op[o].session
      BY <1>4, <1>s, <2>2
    <3>3. op[o].status = "queued" /\ turn' = turn
          /\ UNCHANGED <<session, open, artifact, files, executed, troubles>>
      BY <1>7, <2>2 DEF BeginTurn
    <3>4. TypeInv'
      BY <3>1, <3>3 DEF TypeInv, Recorded
    <3>5. Drops(o)
      BY <3>1, <3>3 DEF Drops
    <3> QED  BY <3>1, <3>3, <3>4, <3>5
  <2> QED  BY <1>7, <2>1, <2>2 DEF BeginTurn
<1>8. CASE turn.op = o /\ \E status \in LedgerStatus : CompleteTurn(status)
  <2>1. PICK status \in LedgerStatus : CompleteTurn(status)
    BY <1>8
  <2>2. op' = [op EXCEPT ![o] = [FinishCapture(op[o], turn.items) EXCEPT !.status = status]]
    BY <1>8, <2>1 DEF CompleteTurn
  <2>3. /\ op' \in [Operations -> Row] /\ \A p \in Operations \ {o} : op'[p] = op[p]
        /\ op'[o].status = status /\ op'[o].session = op[o].session
    BY <1>4, <2>2
  <2>4. /\ turn' = NoTurn /\ turn.kind = "op" /\ status \in {"succeeded", "failed", "outcome_unknown"}
        /\ UNCHANGED <<session, open, artifact, files, executed, troubles>>
    BY <2>1 DEF CompleteTurn, OpAt
  <2>5. TypeInv'
    BY <2>3, <2>4, FreeTurn DEF TypeInv
  <2>6. Ends(o)
    BY <1>8, <2>3, <2>4 DEF Ends
  <2> QED  BY <2>3, <2>4, <2>5, <2>6
<1> QED  BY <1>5, <1>6, <1>7, <1>8 DEF RowNext

\* The session, the process or the age of the ledger moves all rows at once.
SweepNext == OpenSession \/ EndSession \/ ServiceDies \/ CleanLedger

\* what that does to a row: nothing, it is over, or it leaves the ledger
SweptRow(o) ==
    /\ op'[o].session = op[o].session
    /\ \/ op'[o].status = op[o].status
       \/ op[o].status \in {"queued", "running"} /\ op'[o].status \in {"cancelled", "outcome_unknown"}
       \/ /\ op[o].status \in Removable /\ SessionEnded(o) /\ op'[o].status = "gone"
          /\ UNCHANGED <<session, open>> /\ turn' = turn

LEMMA SweepTypes ==
    ASSUME TypeInv, SweepNext
    PROVE  /\ TypeInv' /\ UNCHANGED <<files, executed>>
           /\ \A o \in Operations : SweptRow(o)
           /\ \/ turn' = turn /\ \A o \in Operations : op'[o].status = "running" <=> op[o].status = "running"
              \/ turn' = NoTurn /\ \A o \in Operations : op'[o].status # "running"
           /\ Recorded' = Recorded
           /\ \A a \in Recorded : /\ artifact'[a].op = artifact[a].op /\ artifact'[a].ref = artifact[a].ref
                                  /\ \/ artifact'[a].status = artifact[a].status
                                     \/ artifact'[a].status = "gone" /\ op'[artifact[a].op].status = "gone"
<1>0. \A o \in Operations : op[o] \in Row
  BY DEF TypeInv
<1>1. ASSUME NEW row \in Row, NEW status \in LedgerStatus
      PROVE  /\ [row EXCEPT !.status = status] \in Row
             /\ [row EXCEPT !.status = status].status = status
             /\ [row EXCEPT !.status = status].session = row.session
  BY DEF Row
<1>s. {"cancelled", "outcome_unknown", "gone"} \subseteq LedgerStatus /\ "gone" \in CaptureStatus
  BY DEF LedgerStatus, CaptureStatus
<1>2. CASE OpenSession
  <2>1. TypeInv'
    BY <1>2 DEF OpenSession, TypeInv, Recorded
  <2> QED  BY <1>2, <2>1 DEF OpenSession, SweptRow, Recorded
<1>3. CASE EndSession
  <2>1. ASSUME NEW o \in Operations
        PROVE  /\ op'[o] \in Row /\ SweptRow(o)
               /\ op'[o].status = "running" <=> op[o].status = "running"
    <3>1. CASE op[o].status = "queued"
      <4>1. op'[o] = [op[o] EXCEPT !.status = "cancelled"]
        BY <1>3, <3>1 DEF EndSession
      <4> QED  BY <1>0, <1>1, <1>s, <3>1, <4>1 DEF SweptRow
    <3>2. CASE op[o].status # "queued"
      BY <1>0, <1>3, <3>2 DEF EndSession, SweptRow
    <3> QED  BY <3>1, <3>2
  <2>2. op' \in [Operations -> Row]
    BY <1>3, <2>1 DEF EndSession
  <2>3. UNCHANGED <<session, artifact, files, turn, executed, troubles>> /\ open' = FALSE
    BY <1>3 DEF EndSession
  <2>4. TypeInv'
    BY <2>2, <2>3 DEF TypeInv, Recorded
  <2> QED  BY <2>1, <2>3, <2>4 DEF Recorded
<1>4. CASE ServiceDies
  <2>1. ASSUME NEW o \in Operations
        PROVE  op'[o] \in Row /\ SweptRow(o) /\ op'[o].status # "running"
    <3>1. ASSUME NEW status \in {"cancelled", "outcome_unknown"},
                 op[o].status \in {"queued", "running"}, op'[o] = [op[o] EXCEPT !.status = status]
          PROVE  op'[o] \in Row /\ SweptRow(o) /\ op'[o].status # "running"
      BY <1>0, <1>1, <1>s, <3>1 DEF SweptRow
    <3>2. CASE op[o].status \in {"queued", "running"}
      BY <1>4, <3>1, <3>2 DEF ServiceDies
    <3>3. CASE op[o].status \notin {"queued", "running"}
      BY <1>0, <1>4, <3>3 DEF ServiceDies, SweptRow
    <3> QED  BY <3>2, <3>3
  <2>2. op' \in [Operations -> Row]
    BY <1>4, <2>1 DEF ServiceDies
  <2>3. UNCHANGED <<session, artifact, files, executed>> /\ open' = FALSE /\ troubles' \in Nat
        /\ turn' = NoTurn
    BY <1>4 DEF ServiceDies, Trouble, TypeInv
  <2>4. TypeInv'
    BY <2>2, <2>3, FreeTurn DEF TypeInv, Recorded
  <2> QED  BY <2>1, <2>3, <2>4 DEF Recorded
<1>5. CASE CleanLedger
  <2>1. PICK removed \in SUBSET {o \in Operations : Ended(o) /\ SessionEnded(o) /\ ArtifactsDeleted(o)} :
            /\ turn = NoTurn /\ removed # {}
            /\ op' = [o \in Operations |->
                        IF o \notin removed THEN op[o]
                        ELSE [op[o] EXCEPT !.status = "gone",
                                 !.capture = IF @ = "none" THEN @ ELSE "gone"]]
            /\ artifact' = [a \in Recorded |->
                              IF artifact[a].op \in removed
                              THEN [artifact[a] EXCEPT !.status = "gone"] ELSE artifact[a]]
            /\ UNCHANGED <<session, open, files, turn, executed, troubles>>
    BY <1>5 DEF CleanLedger
  <2>2. ASSUME NEW o \in Operations
        PROVE  /\ op'[o] \in Row /\ SweptRow(o)
               /\ op'[o].status = "running" <=> op[o].status = "running"
    <3>1. CASE o \notin removed
      BY <1>0, <2>1, <3>1 DEF SweptRow
    <3>2. CASE o \in removed
      <4>1. PICK capture \in CaptureStatus :
                op'[o] = [op[o] EXCEPT !.status = "gone", !.capture = capture]
        BY <1>0, <1>s, <2>1, <3>2 DEF Row
      <4>2. op'[o] \in Row /\ op'[o].status = "gone" /\ op'[o].session = op[o].session
        BY <1>0, <1>s, <4>1 DEF Row
      <4>3. op[o].status \in Removable /\ SessionEnded(o)
        BY <2>1, <3>2 DEF Ended
      <4> QED  BY <2>1, <4>2, <4>3 DEF SweptRow, Removable
    <3> QED  BY <3>1, <3>2
  <2>3. op' \in [Operations -> Row]
    BY <2>1, <2>2
  <2>4. ASSUME NEW a \in Recorded
        PROVE  /\ artifact'[a] \in Item
               /\ artifact'[a].op = artifact[a].op /\ artifact'[a].ref = artifact[a].ref
               /\ \/ artifact'[a].status = artifact[a].status
                  \/ artifact'[a].status = "gone" /\ op'[artifact[a].op].status = "gone"
    <3>1. artifact[a] \in Item
      BY DEF TypeInv, Recorded
    <3>2. CASE artifact[a].op \in removed
      <4>1. artifact'[a] = [artifact[a] EXCEPT !.status = "gone"]
        BY <2>1, <3>2
      <4>2. op'[artifact[a].op].status = "gone"
        BY <1>0, <2>1, <3>2 DEF Row
      <4> QED  BY <3>1, <4>1, <4>2 DEF Item, ArtifactStatus
    <3>3. CASE artifact[a].op \notin removed
      BY <2>1, <3>1, <3>3
    <3> QED  BY <3>2, <3>3
  <2>5. artifact' \in Seq(Item) /\ Recorded' = Recorded
    <3>1. Recorded = 1 .. Len(artifact) /\ Len(artifact) \in Nat
      BY DEF TypeInv, Recorded
    <3>2. artifact' \in [1 .. Len(artifact) -> Item]
      BY <2>1, <2>4, <3>1
    <3> QED  BY <3>1, <3>2, IsASeq DEF Recorded
  <2>6. TypeInv'
    BY <2>1, <2>3, <2>5 DEF TypeInv
  <2> QED  BY <2>1, <2>2, <2>4, <2>5, <2>6
<1> QED  BY <1>2, <1>3, <1>4, <1>5 DEF SweepNext

LEMMA FourGroups ==
    ASSUME TypeInv, ArtifactsNext
    PROVE  OpStepNext \/ CleanupNext \/ SweepNext \/ \E o \in Operations : RowNext(o)
<1>1. ASSUME NEW status \in LedgerStatus, CompleteTurn(status)
      PROVE  \E o \in Operations : RowNext(o)
  BY <1>1 DEF CompleteTurn, OpAt, RowNext, TypeInv
<1> QED  BY <1>1 DEF ArtifactsNext, OpStepNext, CleanupNext, SweepNext, RowNext

LEMMA TypeInvariant == ArtifactsSpec => []TypeInv
<1>1. ArtifactsInit => TypeInv
  BY FreeTurn DEF ArtifactsInit, TypeInv, Recorded, Row, NoRow, LedgerStatus, CaptureStatus
<1>2. TypeInv /\ [ArtifactsNext]_artifactVars => TypeInv'
  <2>1. CASE UNCHANGED artifactVars
    BY <2>1 DEF artifactVars, TypeInv, Recorded
  <2>2. ASSUME TypeInv, ArtifactsNext
        PROVE  TypeInv'
    BY <2>2, FourGroups, OpStepTypes, CleanupTypes, SweepTypes, RowTypes
  <2> QED  BY <2>1, <2>2
<1> QED  BY <1>1, <1>2, PTL DEF ArtifactsSpec

-----------------------------------------------------------------------------
\* What is available has its file, and so has what is written and has no record
\* yet.  A deletion keeps the file of every other record that is still live.
FileInv ==
    /\ \A a \in Recorded : artifact[a].status = "available" =>
           artifact[a].ref \in Contents /\ files[artifact[a].ref] # "none"
    /\ turn.kind = "op" => \A c \in turn.todo : files[c] # "none"

\* No file goes away, and no record becomes available.
FilesStay ==
    /\ \A c \in Contents : files[c] # "none" => files'[c] # "none"
    /\ \A a \in Recorded' : artifact'[a].status = "available" =>
           /\ a \in Recorded /\ artifact[a].status = "available"
           /\ artifact'[a].ref = artifact[a].ref
    /\ turn'.kind = "op" => turn'.todo = {} \/ (turn.kind = "op" /\ turn'.todo = turn.todo)

LEMMA FilesKept ==
    ASSUME TypeInv, FileInv, FilesStay
    PROVE  FileInv'
<1>1. turn.kind = "op" => turn.todo \subseteq Contents
  BY DEF TypeInv
<1>2. ASSUME NEW a \in Recorded', artifact'[a].status = "available"
      PROVE  artifact'[a].ref \in Contents /\ files'[artifact'[a].ref] # "none"
  BY <1>2 DEF FilesStay, FileInv
<1>3. ASSUME turn'.kind = "op", NEW c \in turn'.todo
      PROVE  files'[c] # "none"
  BY <1>1, <1>3 DEF FilesStay, FileInv
<1> QED  BY <1>2, <1>3 DEF FileInv, Recorded

LEMMA FilesOfTurn ==
    ASSUME TypeInv, FileInv, OpStepNext
    PROVE  FileInv'
<1>0. turn \in Turn /\ artifact \in Seq(Item) /\ files \in [Contents -> {"none", "part", "whole"}]
  BY DEF TypeInv
<1>1. CASE \E c \in Contents : WriteItem(c)
  <2>1. PICK c \in Contents : WriteItem(c)
    BY <1>1
  <2>2. turn'.todo = {c} /\ artifact' = artifact
    BY <1>0, <2>1 DEF WriteItem, Turn
  <2>3. \A d \in Contents : files'[d] # "none" \/ (d # c /\ files'[d] = files[d])
    BY <1>0, <2>1 DEF WriteItem, Write
  <2> QED  BY <2>2, <2>3 DEF FileInv, Recorded
<1>2. CASE InsertArtifact
  <2>1. PICK c \in turn.todo : artifact' = Append(artifact, NewArtifact("available", c))
    BY <1>2 DEF InsertArtifact
  <2>2. c \in Contents /\ files[c] # "none" /\ turn.op \in Operations
    BY <1>2, <2>1 DEF InsertArtifact, TypeInv, FileInv
  <2>3. NewArtifact("available", c) \in Item /\ NewArtifact("available", c).ref = c
    BY <2>2 DEF NewArtifact, Item, ArtifactStatus
  <2>4. turn'.todo = {} /\ files' = files
    BY <1>0, <1>2 DEF InsertArtifact, Turn
  <2>5. ASSUME NEW a \in Recorded', artifact'[a].status = "available"
        PROVE  artifact'[a].ref \in Contents /\ files'[artifact'[a].ref] # "none"
    <3>1. \/ a \in Recorded /\ artifact'[a] = artifact[a]
          \/ artifact'[a] = NewArtifact("available", c)
      BY <1>0, <2>1, <2>3, AddedItem DEF Recorded
    <3> QED  BY <2>2, <2>3, <2>4, <2>5, <3>1 DEF FileInv
  <2> QED  BY <2>4, <2>5 DEF FileInv, Recorded
<1>3. CASE ItemFails
  <2>1. NewArtifact("failed", None) \in Item /\ NewArtifact("failed", None).status = "failed"
    <3>1. turn.op \in Operations
      BY <1>3 DEF ItemFails, OpAt, TypeInv
    <3> QED  BY <3>1 DEF NewArtifact, Item, ArtifactStatus
  <2>2. artifact' = Append(artifact, NewArtifact("failed", None)) /\ files' = files
    BY <1>3 DEF ItemFails
  <2>3. \A a \in Recorded' : \/ a \in Recorded /\ artifact'[a] = artifact[a]
                             \/ artifact'[a].status = "failed"
    BY <1>0, <2>1, <2>2, AddedItem DEF Recorded
  <2>4. turn'.todo = turn.todo /\ turn.kind = "op"
    BY <1>0, <1>3 DEF ItemFails, OpAt, Turn
  <2>5. FilesStay
    BY <2>2, <2>3, <2>4 DEF FilesStay
  <2> QED  BY <2>5, FilesKept
<1>4. CASE SkipItem \/ Act
  <2>1. turn'.todo = turn.todo /\ turn.kind = "op"
    BY <1>0, <1>4 DEF SkipItem, Act, OpAt, Turn
  <2>2. UNCHANGED <<artifact, files>>
    BY <1>4 DEF SkipItem, Act
  <2>3. FilesStay
    BY <2>1, <2>2 DEF FilesStay, Recorded
  <2> QED  BY <2>3, FilesKept
<1> QED  BY <1>1, <1>2, <1>3, <1>4 DEF OpStepNext

LEMMA FilesOfCleanup ==
    ASSUME TypeInv, FileInv, CleanupNext
    PROVE  FileInv'
<1>0. turn \in Turn /\ artifact \in Seq(Item) /\ files \in [Contents -> {"none", "part", "whole"}]
  BY DEF TypeInv
<1>k. Recorded' = Recorded /\ (turn'.kind = "op" => turn' = turn)
  BY CleanupTypes
<1>1. ASSUME NEW a \in Recorded, NEW status \in ArtifactStatus \ {"available"},
             artifact' = [artifact EXCEPT ![a].status = status]
      PROVE  \A b \in Recorded : artifact'[b].status = "available" =>
                 b # a /\ artifact'[b] = artifact[b]
  BY <1>0, <1>1, ChangedItem DEF Recorded
<1>2. ASSUME NEW a \in Recorded, ClaimAndDelete(a)
      PROVE  FileInv'
  <2>1. \A b \in Recorded : artifact'[b].status = "available" => b # a /\ artifact'[b] = artifact[b]
    BY <1>1, <1>2 DEF ClaimAndDelete, ArtifactStatus
  <2>2. turn'.kind # "op"
    BY <1>0, <1>2 DEF ClaimAndDelete, Turn
  <2>3. ASSUME NEW b \in Recorded, artifact'[b].status = "available"
        PROVE  artifact'[b].ref \in Contents /\ files'[artifact'[b].ref] # "none"
    <3>1. /\ b # a /\ artifact'[b] = artifact[b] /\ artifact[b].status = "available"
          /\ artifact[b].ref \in Contents /\ files[artifact[b].ref] # "none"
      BY <2>1, <2>3 DEF FileInv
    <3>2. CASE artifact[b].ref = artifact[a].ref
      <4>1. OtherReference(a)
        BY <3>1, <3>2 DEF OtherReference, KeepsReference
      <4> QED  BY <1>2, <3>1, <4>1 DEF ClaimAndDelete
    <3>3. CASE artifact[b].ref # artifact[a].ref
      BY <1>0, <1>2, <3>1, <3>3 DEF ClaimAndDelete
    <3> QED  BY <3>2, <3>3
  <2> QED  BY <1>k, <2>2, <2>3 DEF FileInv
<1>3. ASSUME NEW a \in Recorded, DeleteFails(a)
      PROVE  FilesStay
  <2>1. \A b \in Recorded : artifact'[b].status = "available" => b # a /\ artifact'[b] = artifact[b]
    BY <1>1, <1>3 DEF DeleteFails, ArtifactStatus
  <2> QED  BY <1>k, <1>3, <2>1 DEF FilesStay, DeleteFails
<1>4. CASE MarkDeleted
  <2>1. turn.items \in Recorded
    BY <1>4 DEF MarkDeleted, TypeInv
  <2>2. \A b \in Recorded : artifact'[b].status = "available" => b # turn.items /\ artifact'[b] = artifact[b]
    <3>1. artifact' = [artifact EXCEPT ![turn.items].status = "deleted"]
      BY <1>4 DEF MarkDeleted
    <3>2. PICK a \in Recorded : a = turn.items
      BY <2>1
    <3> QED  BY <1>1, <3>1, <3>2 DEF ArtifactStatus
  <2>3. files' = files
    BY <1>4 DEF MarkDeleted
  <2>4. FilesStay
    BY <1>k, <2>2, <2>3 DEF FilesStay
  <2> QED  BY <2>4, FilesKept
<1>5. CASE BeginCleanup
  <2>1. UNCHANGED <<artifact, files>>
    BY <1>5 DEF BeginCleanup
  <2>2. FilesStay
    BY <1>k, <2>1 DEF FilesStay
  <2> QED  BY <2>2, FilesKept
<1>6. ASSUME NEW c \in Contents, WriteBreaks(c)
      PROVE  FilesStay
  <2>1. \A d \in Contents : files[d] # "none" => files'[d] # "none"
    BY <1>0, <1>6 DEF WriteBreaks
  <2> QED  BY <1>k, <1>6, <2>1 DEF FilesStay, WriteBreaks
<1> QED  BY <1>2, <1>3, <1>4, <1>5, <1>6, FilesKept DEF CleanupNext

\* An artifact the ledger calls available has its file: its record was written
\* after the file, and a cleanup deletes a file only with the last of its live
\* records, while the mutex keeps the writer of a new one out (service.ts
\* captureArtifact, cleanupExpiredArtifacts).
THEOREM AvailableKeepsFile == ArtifactsSpec => []AvailableHasFile
<1>1. ArtifactsInit => FileInv
  BY FreeTurn DEF ArtifactsInit, FileInv, Recorded
<1>2. TypeInv /\ FileInv /\ [ArtifactsNext]_artifactVars => FileInv'
  <2>1. CASE UNCHANGED artifactVars
    BY <2>1 DEF artifactVars, FileInv, Recorded
  <2>2. ASSUME TypeInv, FileInv, NEW o \in Operations, RowNext(o)
        PROVE  FileInv'
    <3>1. UNCHANGED <<artifact, files>> /\ (Queues(o) \/ Drops(o) \/ Starts(o) \/ Ends(o))
      BY <2>2, RowTypes
    <3>2. FilesStay
      BY <3>1, FreeTurn DEF FilesStay, Recorded, Queues, Drops, Starts, Ends
    <3> QED  BY <2>2, <3>2, FilesKept
  <2>3. ASSUME TypeInv, FileInv, SweepNext
        PROVE  FileInv'
    <3>1. FilesStay
      BY <2>3, SweepTypes, FreeTurn DEF FilesStay
    <3> QED  BY <2>3, <3>1, FilesKept
  <2>4. ASSUME TypeInv, FileInv, ArtifactsNext
        PROVE  FileInv'
    BY <2>2, <2>3, <2>4, FourGroups, FilesOfTurn, FilesOfCleanup
  <2> QED  BY <2>1, <2>4
<1>3. FileInv => AvailableHasFile
  BY DEF FileInv, AvailableHasFile
<1> QED  BY <1>1, <1>2, <1>3, TypeInvariant, PTL DEF ArtifactsSpec

-----------------------------------------------------------------------------
\* The browser has not acted for an operation that is new or waits; the one that
\* runs holds the mutex; the ledger forgets an operation of an ended session
\* only, which is never open again.
ActOK(o) ==
    /\ op[o].session <= session
    /\ op[o].status # "none" => op[o].session # 0
    /\ op[o].status \in {"none", "queued"} => executed[o] = 0
    /\ op[o].status = "running" <=> turn.kind = "op" /\ turn.op = o
    /\ op[o].status = "gone" => SessionEnded(o)
    /\ executed[o] <= 1

Unacted == {"before", "written", "acting"}

ActInv ==
    /\ \A o \in Operations : ActOK(o)
    /\ turn.kind = "op" /\ turn.step \in Unacted => executed[turn.op] = 0

LEMMA ActOfTurn ==
    ASSUME TypeInv, ActInv, OpStepNext
    PROVE  ActInv'
<1>0. turn \in Turn /\ turn.kind = "op" /\ turn.op \in Operations
  BY OpStepTypes DEF TypeInv
<1>k. turn'.kind = "op" /\ turn'.op = turn.op /\ UNCHANGED <<session, open, op>>
  BY OpStepTypes
<1>1. CASE Act
  <2>1. turn.step = "acting" /\ executed[turn.op] = 0
    BY <1>0, <1>1 DEF Act, OpAt, ActInv, Unacted
  <2>2. turn'.step \notin Unacted
    BY <1>0, <1>1 DEF Act, Turn, Unacted
  <2>3. \A o \in Operations : executed'[o] = executed[o] \/ (executed[o] = 0 /\ executed'[o] = 1 /\ o = turn.op)
    BY <1>0, <1>1, <2>1 DEF Act, TypeInv
  <2>4. ASSUME NEW o \in Operations
        PROVE  ActOK(o)'
    <3>1. ActOK(o)
      BY DEF ActInv
    <3> QED  BY <1>0, <1>k, <2>3, <3>1 DEF ActOK, SessionEnded
  <2> QED  BY <2>2, <2>4 DEF ActInv
<1>2. CASE ~Act
  <2>1. executed' = executed
    BY <1>2 DEF OpStepNext, WriteItem, InsertArtifact, ItemFails, SkipItem
  <2>2. turn'.step \in Unacted => turn.step \in Unacted
    BY <1>0, <1>2 DEF OpStepNext, WriteItem, InsertArtifact, ItemFails, SkipItem, OpAt, Turn, Unacted
  <2>3. \A o \in Operations : ActOK(o)'
    BY <1>k, <1>0, <2>1 DEF ActInv, ActOK, SessionEnded
  <2> QED  BY <1>0, <1>k, <2>1, <2>2, <2>3 DEF ActInv
<1> QED  BY <1>1, <1>2

LEMMA ActOfCleanup ==
    ASSUME TypeInv, ActInv, CleanupNext
    PROVE  ActInv'
<1>1. UNCHANGED <<session, open, op, executed>> /\ (turn'.kind = "op" => turn' = turn)
  BY CleanupTypes
<1>2. turn.kind = "op" => turn' = turn
  BY FreeTurn DEF CleanupNext, ClaimAndDelete, DeleteFails, BeginCleanup, MarkDeleted, WriteBreaks
<1>3. \A o \in Operations : ActOK(o)'
  BY <1>1, <1>2 DEF ActInv, ActOK, SessionEnded
<1> QED  BY <1>1, <1>2, <1>3 DEF ActInv

LEMMA ActOfRow ==
    ASSUME TypeInv, ActInv, NEW o \in Operations, RowNext(o)
    PROVE  ActInv' /\ (op[o].status = "gone" => op'[o].status = "gone")
<1>1. /\ UNCHANGED <<session, open, executed>>
      /\ Queues(o) \/ Drops(o) \/ Starts(o) \/ Ends(o)
      /\ \A p \in Operations \ {o} : op'[p] = op[p]
  BY RowTypes
<1>2. ActOK(o) /\ session \in Nat /\ op[o].session \in Nat
  BY DEF ActInv, TypeInv, Row
<1>3. CASE Queues(o)
  <2>1. op[o].status # "gone"
    BY <1>2, <1>3 DEF Queues, ActOK, SessionEnded, LeaseValid
  <2>2. ActOK(o)'
    BY <1>1, <1>2, <1>3, <2>1 DEF Queues, ActOK, SessionEnded
  <2>3. ASSUME NEW p \in Operations \ {o}  PROVE ActOK(p)'
    BY <1>1, <1>3 DEF Queues, ActInv, ActOK, SessionEnded
  <2> QED  BY <1>1, <1>3, <2>1, <2>2, <2>3 DEF ActInv, Queues
<1>4. CASE Drops(o)
  <2>2. ActOK(o)'
    BY <1>1, <1>2, <1>4 DEF Drops, ActOK, SessionEnded
  <2>3. ASSUME NEW p \in Operations \ {o}  PROVE ActOK(p)'
    BY <1>1, <1>4 DEF Drops, ActInv, ActOK, SessionEnded
  <2> QED  BY <1>1, <1>4, <2>2, <2>3 DEF ActInv, Drops
<1>5. CASE Starts(o)
  <2>2. ActOK(o)'
    BY <1>1, <1>2, <1>5 DEF Starts, ActOK, SessionEnded
  <2>3. ASSUME NEW p \in Operations \ {o}  PROVE ActOK(p)'
    BY <1>1, <1>5, FreeTurn DEF Starts, ActInv, ActOK, SessionEnded
  <2>4. executed[o] = 0
    BY <1>2, <1>5 DEF Starts, ActOK
  <2> QED  BY <1>1, <1>5, <2>2, <2>3, <2>4 DEF ActInv, Starts
<1>6. CASE Ends(o)
  <2>2. ActOK(o)'
    BY <1>1, <1>2, <1>6, FreeTurn DEF Ends, ActOK, SessionEnded
  <2>3. ASSUME NEW p \in Operations \ {o}  PROVE ActOK(p)'
    BY <1>1, <1>6, FreeTurn DEF Ends, ActInv, ActOK, SessionEnded
  <2>4. op[o].status = "running"
    BY <1>2, <1>6 DEF Ends, ActOK
  <2> QED  BY <1>1, <1>6, <2>2, <2>3, <2>4, FreeTurn DEF ActInv, Ends
<1> QED  BY <1>1, <1>3, <1>4, <1>5, <1>6

LEMMA ActOfSweep ==
    ASSUME TypeInv, ActInv, SweepNext
    PROVE  ActInv'
<1>1. /\ UNCHANGED executed /\ \A o \in Operations : SweptRow(o)
      /\ \/ turn' = turn /\ \A o \in Operations : op'[o].status = "running" <=> op[o].status = "running"
         \/ turn' = NoTurn /\ \A o \in Operations : op'[o].status # "running"
  BY SweepTypes
<1>2. \/ UNCHANGED <<session, open>>
      \/ session' = session /\ open' = FALSE
      \/ ~open /\ session' = session + 1 /\ UNCHANGED op
  BY DEF SweepNext, OpenSession, EndSession, ServiceDies, CleanLedger
<1>3. ASSUME NEW o \in Operations  PROVE ActOK(o)'
  <2>1. ActOK(o) /\ SweptRow(o) /\ session \in Nat /\ op[o].session \in Nat
    BY <1>1 DEF ActInv, TypeInv, Row
  <2>2. op'[o].session = op[o].session /\ op'[o].session <= session' /\ session' \in Nat
    BY <1>2, <2>1 DEF ActOK, SweptRow
  <2>3. op'[o].status = "gone" => SessionEnded(o)'
    BY <1>2, <2>1, <2>2 DEF ActOK, SweptRow, SessionEnded
  <2>4. op'[o].status = "running" <=> turn'.kind = "op" /\ turn'.op = o
    BY <1>1, <2>1, FreeTurn DEF ActOK, SweptRow, Removable
  <2>5. /\ op'[o].status # "none" => op'[o].session # 0
        /\ op'[o].status \in {"none", "queued"} => executed'[o] = 0
        /\ executed'[o] <= 1
    BY <1>1, <2>1 DEF ActOK, SweptRow, Removable
  <2> QED  BY <2>2, <2>3, <2>4, <2>5 DEF ActOK
<1> QED  BY <1>1, <1>3, FreeTurn DEF ActInv

LEMMA ActInvariant == ArtifactsSpec => []ActInv
<1>1. ArtifactsInit => ActInv
  BY FreeTurn DEF ArtifactsInit, ActInv, ActOK, NoRow, SessionEnded
<1>2. TypeInv /\ ActInv /\ [ArtifactsNext]_artifactVars => ActInv'
  <2>1. CASE UNCHANGED artifactVars
    BY <2>1 DEF artifactVars, ActInv, ActOK, SessionEnded
  <2>2. ASSUME TypeInv, ActInv, ArtifactsNext
        PROVE  ActInv'
    BY <2>2, FourGroups, ActOfTurn, ActOfCleanup, ActOfRow, ActOfSweep
  <2> QED  BY <2>1, <2>2
<1> QED  BY <1>1, <1>2, TypeInvariant, PTL DEF ArtifactsSpec

\* The browser is told to act at most once for an operation, however often its
\* request comes and although the ledger forgets it (service.ts executeOperation,
\* repository.ts cleanupExpiredLedger).
THEOREM BrowserActsOnce == ArtifactsSpec => []ActsOnce
<1>1. ActInv => ActsOnce
  BY DEF ActInv, ActOK, ActsOnce
<1> QED  BY <1>1, ActInvariant, PTL

\* A record leaves the ledger only with its operation.
GoneInv == \A a \in Recorded : artifact[a].status = "gone" => op[artifact[a].op].status = "gone"

LEMMA GoneKept ==
    ASSUME TypeInv, ActInv, GoneInv, ArtifactsNext
    PROVE  GoneInv'
<1>0. artifact \in Seq(Item) /\ \A a \in Recorded : artifact[a].op \in Operations
  <2>1. artifact \in Seq(Item)
    BY DEF TypeInv
  <2>2. ASSUME NEW a \in Recorded  PROVE artifact[a] \in Item
    BY <2>1 DEF Recorded
  <2> QED  BY <2>1, <2>2 DEF Item
<1>1. CASE OpStepNext
  <2>1. op' = op
    BY <1>1, OpStepTypes
  <2>2. \A a \in Recorded' : artifact'[a].status = "gone" => a \in Recorded /\ artifact'[a] = artifact[a]
    <3>1. ASSUME NEW c, NEW status \in {"available", "failed"}, c \in Contents \cup {None},
                 artifact' = Append(artifact, NewArtifact(status, c)), turn.op \in Operations
          PROVE  \A a \in Recorded' : artifact'[a].status = "gone" => a \in Recorded /\ artifact'[a] = artifact[a]
      <4>1. NewArtifact(status, c) \in Item /\ NewArtifact(status, c).status # "gone"
        BY <3>1 DEF NewArtifact, Item, ArtifactStatus
      <4> QED  BY <1>0, <3>1, <4>1, AddedItem DEF Recorded
    <3>2. turn.op \in Operations /\ turn.todo \subseteq Contents
      BY <1>1, OpStepTypes DEF TypeInv
    <3>3. CASE InsertArtifact
      BY <3>1, <3>2, <3>3 DEF InsertArtifact
    <3>4. CASE ItemFails
      BY <3>1, <3>2, <3>4 DEF ItemFails
    <3>5. CASE artifact' = artifact
      BY <3>5 DEF Recorded
    <3> QED  BY <1>1, <3>3, <3>4, <3>5 DEF OpStepNext, WriteItem, SkipItem, Act
  <2> QED  BY <2>1, <2>2 DEF GoneInv
<1>2. CASE CleanupNext
  <2>1. op' = op /\ Recorded' = Recorded
    BY <1>2, CleanupTypes
  <2>2. ASSUME NEW a \in Recorded, NEW status \in {"expired", "deleted"},
               artifact' = [artifact EXCEPT ![a].status = status]
        PROVE  \A b \in Recorded : artifact'[b].status = "gone" => artifact'[b] = artifact[b]
    BY <1>0, <2>2, ChangedItem DEF ArtifactStatus, Recorded
  <2>3. \A b \in Recorded : artifact'[b].status = "gone" => artifact'[b] = artifact[b]
    <3>1. CASE \E a \in Recorded : ClaimAndDelete(a) \/ DeleteFails(a)
      BY <2>2, <3>1 DEF ClaimAndDelete, DeleteFails
    <3>2. CASE MarkDeleted
      <4>1. artifact' = [artifact EXCEPT ![turn.items].status = "deleted"] /\ turn.items \in Recorded
        BY <3>2 DEF MarkDeleted, TypeInv
      <4>2. PICK a \in Recorded : a = turn.items
        BY <4>1
      <4> QED  BY <2>2, <4>1, <4>2
    <3>3. CASE artifact' = artifact
      BY <3>3
    <3> QED  BY <1>2, <3>1, <3>2, <3>3 DEF CleanupNext, BeginCleanup, WriteBreaks
  <2> QED  BY <2>1, <2>3 DEF GoneInv
<1>3. CASE SweepNext
  <2>1. \A o \in Operations : op[o].status = "gone" => op'[o].status = "gone"
    BY <1>3, SweepTypes DEF SweptRow, Removable
  <2> QED  BY <1>0, <1>3, <2>1, SweepTypes DEF GoneInv
<1>4. ASSUME NEW o \in Operations, RowNext(o)
      PROVE  GoneInv'
  <2>1. /\ artifact' = artifact
        /\ op[o].status = "gone" => op'[o].status = "gone"
        /\ \A p \in Operations \ {o} : op'[p] = op[p]
    BY <1>4, RowTypes, ActOfRow
  <2> QED  BY <1>0, <2>1 DEF GoneInv, Recorded
<1> QED  BY <1>1, <1>2, <1>3, <1>4, FourGroups

LEMMA GoneInvariant == ArtifactsSpec => []GoneInv
<1>1. ArtifactsInit => GoneInv
  BY DEF ArtifactsInit, GoneInv, Recorded
<1>2. TypeInv /\ ActInv /\ GoneInv /\ [ArtifactsNext]_artifactVars => GoneInv'
  <2>1. CASE UNCHANGED artifactVars
    BY <2>1 DEF artifactVars, GoneInv, Recorded
  <2> QED  BY <2>1, GoneKept
<1> QED  BY <1>1, <1>2, TypeInvariant, ActInvariant, PTL DEF ArtifactsSpec

\* What leaves the ledger was settled, its outcome known, and each of its records
\* deleted before it (repository.ts cleanupExpiredLedger).
THEOREM RemovedWasSettled == ArtifactsSpec => RemovedIsSettled
<1>1. ASSUME TypeInv, ActInv, GoneInv, [ArtifactsNext]_artifactVars, NEW o \in Operations,
             op[o].status # "gone", op'[o].status = "gone"
      PROVE  /\ op[o].status # "outcome_unknown"
             /\ \A a \in Recorded : artifact[a].op = o => artifact[a].status = "deleted"
  <2>1. CleanLedger
    <3>1. CASE UNCHANGED artifactVars
      BY <1>1, <3>1 DEF artifactVars
    <3>2. ASSUME NEW p \in Operations, RowNext(p)  PROVE FALSE
      <4>1. op'[o] = op[o] \/ (p = o /\ (Queues(o) \/ Drops(o) \/ Starts(o) \/ Ends(o)))
        BY <1>1, <3>2, RowTypes
      <4> QED  BY <1>1, <4>1 DEF Queues, Drops, Starts, Ends
    <3>3. ASSUME OpenSession \/ EndSession \/ ServiceDies  PROVE op'[o].status # "gone"
      <4>1. \/ op'[o] = op[o]
            \/ \E status \in {"cancelled", "outcome_unknown"} : op'[o] = [op[o] EXCEPT !.status = status]
        BY <3>3 DEF OpenSession, EndSession, ServiceDies
      <4>2. op[o] \in Row
        BY <1>1 DEF TypeInv
      <4> QED  BY <1>1, <4>1, <4>2 DEF Row
    <3>4. ASSUME OpStepNext \/ CleanupNext  PROVE FALSE
      BY <1>1, <3>4, OpStepTypes, CleanupTypes
    <3>5. CASE ArtifactsNext
      BY <1>1, <3>2, <3>3, <3>4, <3>5, FourGroups DEF SweepNext
    <3> QED  BY <1>1, <3>1, <3>5
  <2>2. Ended(o) /\ ArtifactsDeleted(o)
    BY <1>1, <2>1 DEF CleanLedger
  <2>3. op[o].status # "outcome_unknown"
    BY <2>2 DEF Ended, Removable
  <2>4. ASSUME NEW a \in Recorded, artifact[a].op = o
        PROVE  artifact[a].status = "deleted"
    <3>1. artifact[a].status \in ArtifactStatus /\ ~KeepsReference(a)
      <4>1. artifact[a] \in Item
        BY <1>1 DEF TypeInv, Recorded
      <4> QED  BY <2>2, <2>4, <4>1 DEF Item, ArtifactsDeleted
    <3>2. artifact[a].status # "gone"
      BY <1>1, <2>4 DEF GoneInv
    <3> QED  BY <3>1, <3>2 DEF ArtifactStatus, KeepsReference
  <2> QED  BY <2>3, <2>4
<1>2. TypeInv /\ ActInv /\ GoneInv /\ [ArtifactsNext]_artifactVars =>
         [\A o \in Operations : op[o].status # "gone" /\ op'[o].status = "gone" =>
             /\ op[o].status # "outcome_unknown"
             /\ \A a \in Recorded : artifact[a].op = o => artifact[a].status = "deleted"]_artifactVars
  BY <1>1
<1> QED  BY <1>2, TypeInvariant, ActInvariant, GoneInvariant, PTL DEF ArtifactsSpec, RemovedIsSettled

=============================================================================
