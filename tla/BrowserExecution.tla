-------------------------- MODULE BrowserExecution --------------------------
(***************************************************************************)
(* The execution control plane of the browser gateway:                     *)
(* services/proxy-adapter/src/browser-execution/{service,repository}.ts    *)
(* and the part of playwright-browser.ts and browser-lifecycle.ts that     *)
(* decides which page an operation reaches.                                *)
(*                                                                         *)
(* The service keeps sessions, leases and operations in one SQLite ledger  *)
(* and guards its calls with two mutexes: stateMutex (create and close a   *)
(* session, issue and revoke a lease) and operationMutex (the operations,  *)
(* first come first served).  Node runs a call without interruption up to  *)
(* its next await; there the page can die, other calls run, the process    *)
(* can crash.  An action here is one such uninterrupted stretch.           *)
(***************************************************************************)
EXTENDS Naturals, Sequences

CONSTANTS Sessions,       \* fresh identifiers for browser sessions
          Leases,         \* fresh identifiers for leases
          ControlLeases,  \* the identifiers drawn for control leases;
                          \* the others are drawn for observe leases
          Ops,            \* operation identifiers chosen by the callers
          ActOps,         \* those submitted with kind "act"
          NoSession, NoLease,
          MaxEpoch        \* bound: process starts in a behaviour

ASSUME ConstantsAssumption ==
    /\ ControlLeases \subseteq Leases
    /\ ActOps \subseteq Ops
    /\ NoSession \notin Sessions
    /\ NoLease \notin Leases
    /\ MaxEpoch \in Nat \ {0}

VARIABLES
    epoch,           \* process_epoch in browser_execution_meta
    up,              \* the process runs and the service is initialized
    sessionStatus, sessionEpoch,                        \* browser_sessions
    leaseStatus, leaseSession, leaseEpoch,              \* browser_leases
    lapsed,          \* leases whose expires_at is not after the clock
    opStatus, opLease, queueSequence,                   \* browser_operations
    opStage,         \* where the executeOperation call of an operation is
    operationMutex,  \* its holder, then the calls waiting for it
    stateMutex,      \* the call that holds it, with what it remembers
    page,            \* the session whose page the browser service holds
    watched,         \* the close and disconnect handlers are installed
    dispatched,      \* history: calls of browser.execute for an operation
    landed           \* history: the sessions whose page it changed

processVars == <<epoch, up>>
sessionVars == <<sessionStatus, sessionEpoch>>
leaseVars   == <<leaseStatus, leaseSession, leaseEpoch>>
opVars      == <<opStatus, opLease, queueSequence>>
callVars    == <<opStage, operationMutex>>
browserVars == <<page, watched>>
historyVars == <<dispatched, landed>>

vars == <<processVars, sessionVars, leaseVars, lapsed, opVars, callVars,
          stateMutex, browserVars, historyVars>>

SessionStatus == {"none", "opening", "active", "closed", "interrupted", "failed"}
LeaseStatus   == {"none", "active", "revoked", "expired"}
TerminalOp    == {"succeeded", "failed", "cancelled", "outcome_unknown"}
OpStatus      == {"none", "queued", "running"} \cup TerminalOp

\* Where a call of executeOperation can be suspended, in order.
StartedStage  == {"before",     \* running, taking the before-screenshot
                  "selecting",  \* in browser.execute, selecting the tab
                  "selected",   \* tab selected, waiting for the page
                  "landed",     \* the action has changed the page
                  "capturing",  \* execute returned, capturing artifacts
                  "refused",    \* a definite error: nothing was done
                  "broken"}     \* any other error: nobody knows
OpStage       == {"none", "waiting"} \cup StartedStage

\* What the holder of stateMutex remembers across its await.
Free == [call |-> "none", session |-> NoSession, lease |-> NoLease, ready |-> FALSE]
StateMutex == [call : {"none", "create", "close", "lease"},
               session : Sessions \cup {NoSession},
               lease : Leases \cup {NoLease},
               ready : BOOLEAN]

Init ==
    /\ epoch = 0 /\ up = FALSE
    /\ sessionStatus = [s \in Sessions |-> "none"]
    /\ sessionEpoch = [s \in Sessions |-> 0]
    /\ leaseStatus = [l \in Leases |-> "none"]
    /\ leaseSession = [l \in Leases |-> NoSession]
    /\ leaseEpoch = [l \in Leases |-> 0]
    /\ lapsed = {}
    /\ opStatus = [o \in Ops |-> "none"]
    /\ opLease = [o \in Ops |-> NoLease]
    /\ queueSequence = [o \in Ops |-> 0]
    /\ opStage = [o \in Ops |-> "none"]
    /\ operationMutex = << >>
    /\ stateMutex = Free
    /\ page = NoSession /\ watched = FALSE
    /\ dispatched = [o \in Ops |-> 0]
    /\ landed = [o \in Ops |-> {}]

-----------------------------------------------------------------------------
(***************************************************************************)
(* Helpers of the repository and of the service.                           *)
(***************************************************************************)
\* findActiveSession
Unfinished(s) == sessionStatus[s] \in {"opening", "active"}

\* requireLiveSession
Live(s) == s \in Sessions /\ sessionStatus[s] = "active" /\ sessionEpoch[s] = epoch

\* expireLeases: a status column after the sweep
Swept(column) == [l \in Leases |->
    IF column[l] = "active" /\ l \in lapsed THEN "expired" ELSE column[l]]

\* validateLease, after its sweep
Valid(l) ==
    /\ l \in Leases
    /\ Live(leaseSession[l])
    /\ leaseStatus[l] = "active" /\ l \notin lapsed
    /\ leaseEpoch[l] = epoch

\* validateOperationLease: an action needs a control lease
ValidFor(o, l) == Valid(l) /\ (o \in ActOps => l \in ControlLeases)

SessionOf(o) == leaseSession[opLease[o]]

\* Fault: a session status is written into the lease column.
LeasesInterrupted(s) == [l \in Leases |->
    IF leaseStatus[l] = "active" /\ leaseSession[l] = s THEN "interrupted" ELSE leaseStatus[l]]

\* The status columns after the active leases of s were revoked, and after
\* its queued operations were cancelled.
LeasesRevoked(s) == [l \in Leases |->
    IF leaseStatus[l] = "active" /\ leaseSession[l] = s THEN "revoked" ELSE leaseStatus[l]]
QueuedCancelled(s) == [o \in Ops |->
    IF opStatus[o] = "queued" /\ SessionOf(o) = s THEN "cancelled" ELSE opStatus[o]]

\* consumeObserveLease
Consumed(l) == [leaseStatus EXCEPT ![l] =
    IF l \notin ControlLeases /\ @ = "active" THEN "revoked" ELSE @]

\* o's call holds operationMutex.
Owns(o) == operationMutex # << >> /\ Head(operationMutex) = o

-----------------------------------------------------------------------------
(***************************************************************************)
(* The process: start with recovery, and crash.                            *)
(***************************************************************************)

\* initialize: a new epoch, then recoverAfterRestart settles what the last
\* process left behind.
Start ==
    /\ ~up
    /\ up' = TRUE
    /\ epoch' = epoch + 1
    /\ opStatus' = [o \in Ops |-> CASE opStatus[o] = "running" -> "outcome_unknown"
                                    [] opStatus[o] = "queued" -> "cancelled"
                                    [] OTHER -> opStatus[o]]
    /\ leaseStatus' = [l \in Leases |-> IF leaseStatus[l] = "active" THEN "expired"
                                        ELSE leaseStatus[l]]
    /\ sessionStatus' = [s \in Sessions |-> IF Unfinished(s) THEN "interrupted"
                                            ELSE sessionStatus[s]]
    /\ UNCHANGED <<sessionEpoch, leaseSession, leaseEpoch, lapsed, opLease,
                   queueSequence, callVars, stateMutex, browserVars, historyVars>>

\* The ledger survives; the calls, the mutexes and the browser do not.
Crash ==
    /\ up /\ epoch < MaxEpoch
    /\ up' = FALSE
    /\ opStage' = [o \in Ops |-> "none"]
    /\ operationMutex' = << >>
    /\ stateMutex' = Free
    /\ page' = NoSession /\ watched' = FALSE
    /\ UNCHANGED <<epoch, sessionVars, leaseVars, lapsed, opVars, historyVars>>

\* The clock passes the expires_at of a lease.
Lapse(l) ==
    /\ leaseStatus[l] = "active" /\ l \notin lapsed
    /\ lapsed' = lapsed \cup {l}
    /\ UNCHANGED <<processVars, sessionVars, leaseVars, opVars, callVars,
                   stateMutex, browserVars, historyVars>>

\* getSession, and every validateLease that ends in a refusal: both sweep.
ReadSession(s) ==
    /\ up /\ sessionStatus[s] # "none"
    /\ leaseStatus' = Swept(leaseStatus)
    /\ UNCHANGED <<processVars, sessionVars, leaseSession, leaseEpoch, lapsed,
                   opVars, callVars, stateMutex, browserVars, historyVars>>

-----------------------------------------------------------------------------
(***************************************************************************)
(* Sessions.  createSession and closeSession hold stateMutex across the    *)
(* await of browser.open and browser.close.                                *)
(***************************************************************************)

CreateSession(s) ==
    /\ up /\ stateMutex = Free
    /\ sessionStatus[s] = "none"
    /\ \A t \in Sessions : ~Unfinished(t)
    /\ sessionStatus' = [sessionStatus EXCEPT ![s] = "opening"]
    /\ sessionEpoch' = [sessionEpoch EXCEPT ![s] = epoch]
    /\ stateMutex' = [Free EXCEPT !.call = "create", !.session = s]
    /\ UNCHANGED <<processVars, leaseVars, lapsed, opVars, callVars,
                   browserVars, historyVars>>

\* lifecycle.open has a page and installs its handlers; what remains of the
\* call (the screencast) is still awaited.
OpenPage(s) ==
    /\ stateMutex.call = "create" /\ stateMutex.session = s /\ ~stateMutex.ready
    /\ page' = s /\ watched' = TRUE
    /\ stateMutex' = [stateMutex EXCEPT !.ready = TRUE]
    /\ UNCHANGED <<processVars, sessionVars, leaseVars, lapsed, opVars, callVars,
                   historyVars>>

\* updateSessionStatus does not look at the status it overwrites.
OpenReturns(s) ==
    /\ stateMutex.call = "create" /\ stateMutex.session = s /\ stateMutex.ready
    /\ sessionStatus' = [sessionStatus EXCEPT ![s] = "active"]
    /\ leaseStatus' = Swept(leaseStatus)
    /\ stateMutex' = Free
    /\ UNCHANGED <<processVars, sessionEpoch, leaseSession, leaseEpoch, lapsed,
                   opVars, callVars, browserVars, historyVars>>

OpenThrows(s) ==
    /\ stateMutex.call = "create" /\ stateMutex.session = s /\ ~stateMutex.ready
    /\ sessionStatus' = [sessionStatus EXCEPT ![s] = "failed"]
    /\ stateMutex' = Free
    /\ UNCHANGED <<processVars, sessionEpoch, leaseVars, lapsed, opVars, callVars,
                   browserVars, historyVars>>

\* An active session is closed by the holder of a control lease.
CloseSession(s, l) ==
    /\ up /\ stateMutex = Free
    /\ sessionStatus[s] = "active"
    /\ leaseSession[l] = s /\ Valid(l) /\ l \in ControlLeases
    /\ leaseStatus' = Swept(leaseStatus)
    /\ stateMutex' = [Free EXCEPT !.call = "close", !.session = s]
    /\ UNCHANGED <<processVars, sessionVars, leaseSession, leaseEpoch, lapsed,
                   opVars, callVars, browserVars, historyVars>>

\* lifecycle.close removes the handlers before it closes the browser.
Detach(s) ==
    /\ stateMutex.call = "close" /\ stateMutex.session = s /\ ~stateMutex.ready
    /\ watched' = FALSE
    /\ stateMutex' = [stateMutex EXCEPT !.ready = TRUE]
    /\ UNCHANGED <<processVars, sessionVars, leaseVars, lapsed, opVars, callVars,
                   page, historyVars>>

\* closeSessionResources, and the sweep of the final getSession.
CloseResources(s) ==
    /\ leaseStatus' = Swept(LeasesRevoked(s))
    /\ opStatus' = QueuedCancelled(s)
    /\ sessionStatus' = [sessionStatus EXCEPT ![s] = "closed"]
    /\ UNCHANGED <<sessionEpoch, leaseSession, leaseEpoch, lapsed, opLease,
                   queueSequence>>

CloseReturns(s) ==
    /\ stateMutex.call = "close" /\ stateMutex.session = s /\ stateMutex.ready
    /\ page' = NoSession
    /\ CloseResources(s)
    /\ stateMutex' = Free
    /\ UNCHANGED <<processVars, callVars, watched, historyVars>>

\* The session stays active, with or without its handlers.
CloseThrows(s) ==
    /\ stateMutex.call = "close" /\ stateMutex.session = s
    /\ stateMutex' = Free
    /\ UNCHANGED <<processVars, sessionVars, leaseVars, lapsed, opVars, callVars,
                   browserVars, historyVars>>

\* A session that is over is closed by anybody, without the browser.
CloseFinished(s) ==
    /\ up /\ stateMutex = Free
    /\ sessionStatus[s] \in {"interrupted", "failed"}
    /\ CloseResources(s)
    /\ UNCHANGED <<processVars, callVars, stateMutex, browserVars, historyVars>>

\* Fault: the queue of the interrupted session is forgotten.
InterruptLeavesQueue ==
    IF \E s \in Sessions : Unfinished(s)
    THEN \E s \in Sessions :
           /\ Unfinished(s)
           /\ leaseStatus' = LeasesRevoked(s)
           /\ opStatus' = opStatus
           /\ sessionStatus' = [sessionStatus EXCEPT ![s] = "interrupted"]
    ELSE UNCHANGED <<leaseStatus, opStatus, sessionStatus>>

\* handleUnexpectedBrowserState, run by a handler: the unfinished session,
\* if there is one, is interrupted with all it owns.
Interrupt ==
    IF \E s \in Sessions : Unfinished(s)
    THEN \E s \in Sessions :
           /\ Unfinished(s)
           /\ leaseStatus' = LeasesRevoked(s)
           /\ opStatus' = QueuedCancelled(s)
           /\ sessionStatus' = [sessionStatus EXCEPT ![s] = "interrupted"]
    ELSE UNCHANGED <<leaseStatus, opStatus, sessionStatus>>

\* The user closes the page; the browser process lives on.
PageCloses ==
    /\ page # NoSession
    /\ page' = NoSession
    /\ IF watched THEN Interrupt ELSE UNCHANGED <<leaseStatus, opStatus, sessionStatus>>
    /\ UNCHANGED <<processVars, sessionEpoch, leaseSession, leaseEpoch, lapsed,
                   opLease, queueSequence, callVars, stateMutex, watched, historyVars>>

\* The browser process ends, with or without a page.  lifecycle.open has the
\* disconnect handler installed before there is a page, and calls it itself
\* when it cannot get rid of a stale browser.
BrowserDisconnects ==
    LET noticed == watched \/ stateMutex.call = "create" IN
    /\ page # NoSession \/ noticed
    /\ page' = NoSession /\ watched' = FALSE
    /\ IF noticed THEN Interrupt ELSE UNCHANGED <<leaseStatus, opStatus, sessionStatus>>
    /\ UNCHANGED <<processVars, sessionEpoch, leaseSession, leaseEpoch, lapsed,
                   opLease, queueSequence, callVars, stateMutex, historyVars>>

-----------------------------------------------------------------------------
(***************************************************************************)
(* Leases.  createLease holds stateMutex across the await of getTabs and   *)
(* reads neither the session nor its leases again afterwards.              *)
(***************************************************************************)
CreateLease(s, l) ==
    /\ up /\ stateMutex = Free
    /\ Live(s) /\ leaseStatus[l] = "none"
    /\ l \in ControlLeases =>
          \A k \in ControlLeases : ~(/\ leaseSession[k] = s
                                     /\ leaseStatus[k] = "active" /\ k \notin lapsed)
    /\ leaseStatus' = Swept(leaseStatus)
    /\ stateMutex' = [call |-> "lease", session |-> s, lease |-> l,
                      ready |-> page # NoSession]
    /\ UNCHANGED <<processVars, sessionVars, leaseSession, leaseEpoch, lapsed,
                   opVars, callVars, browserVars, historyVars>>

\* Fault: the index is per session.
AdmittedPerSession(l) ==
    l \in ControlLeases =>
        \A k \in ControlLeases : ~(/\ leaseStatus[k] = "active"
                                   /\ leaseSession[k] = stateMutex.session)

\* idx_browser_leases_single_control admits one active control lease in the
\* whole table: the insertion of a second one throws.
AdmittedByIndex(l) ==
    l \in ControlLeases => \A k \in ControlLeases : leaseStatus[k] # "active"

IssueLease(s, l) ==
    /\ stateMutex = [call |-> "lease", session |-> s, lease |-> l, ready |-> TRUE]
    /\ l \notin ControlLeases => operationMutex = << >>
    /\ AdmittedByIndex(l)
    /\ leaseStatus' = [leaseStatus EXCEPT ![l] = "active"]
    /\ leaseSession' = [leaseSession EXCEPT ![l] = s]
    /\ leaseEpoch' = [leaseEpoch EXCEPT ![l] = epoch]
    /\ stateMutex' = Free
    /\ UNCHANGED <<processVars, sessionVars, lapsed, opVars, callVars,
                   browserVars, historyVars>>

\* No tab, an unknown tab, a policy beyond the mode, an operation under way,
\* the index, or getTabs itself: each throws before anything is written.
RefuseLease ==
    /\ stateMutex.call = "lease"
    /\ stateMutex' = Free
    /\ UNCHANGED <<processVars, sessionVars, leaseVars, lapsed, opVars, callVars,
                   browserVars, historyVars>>

RevokeLease(l) ==
    /\ up /\ stateMutex = Free
    /\ Valid(l)
    /\ leaseStatus' = [Swept(leaseStatus) EXCEPT ![l] = "revoked"]
    /\ UNCHANGED <<processVars, sessionVars, leaseSession, leaseEpoch, lapsed,
                   opVars, callVars, stateMutex, browserVars, historyVars>>

-----------------------------------------------------------------------------
(***************************************************************************)
(* Operations.  executeOperation writes the ledger and joins the queue of  *)
(* operationMutex in one stretch; the rest runs when the mutex is granted. *)
(***************************************************************************)

\* Fault: the last call to arrive is the next to run.
SubmitOperationFirst(o, l) ==
    /\ up /\ opStatus[o] = "none"
    /\ ValidFor(o, l)
    /\ leaseStatus' = Swept(leaseStatus)
    /\ opStatus' = [opStatus EXCEPT ![o] = "queued"]
    /\ opLease' = [opLease EXCEPT ![o] = l]
    /\ \E n \in {queueSequence[p] + 1 : p \in Ops} :
          /\ \A p \in Ops : queueSequence[p] < n
          /\ queueSequence' = [queueSequence EXCEPT ![o] = n]
    /\ opStage' = [opStage EXCEPT ![o] = "waiting"]
    /\ operationMutex' = IF operationMutex = << >> THEN <<o>>
                         ELSE <<Head(operationMutex), o>> \o Tail(operationMutex)
    /\ UNCHANGED <<processVars, sessionVars, leaseSession, leaseEpoch, lapsed,
                   stateMutex, browserVars, historyVars>>

\* A known identifier returns its record: nothing changes.
SubmitOperation(o, l) ==
    /\ up /\ opStatus[o] = "none"
    /\ ValidFor(o, l)
    /\ leaseStatus' = Swept(leaseStatus)
    /\ opStatus' = [opStatus EXCEPT ![o] = "queued"]
    /\ opLease' = [opLease EXCEPT ![o] = l]
    /\ \E n \in {queueSequence[p] + 1 : p \in Ops} :   \* the maximum plus one
          /\ \A p \in Ops : queueSequence[p] < n
          /\ queueSequence' = [queueSequence EXCEPT ![o] = n]
    /\ opStage' = [opStage EXCEPT ![o] = "waiting"]
    /\ operationMutex' = Append(operationMutex, o)
    /\ UNCHANGED <<processVars, sessionVars, leaseSession, leaseEpoch, lapsed,
                   stateMutex, browserVars, historyVars>>

\* cancelOperation, by the holder of the operation's lease.
CancelOperation(o) ==
    /\ up /\ opStatus[o] = "queued"
    /\ Valid(opLease[o])
    /\ leaseStatus' = Swept(leaseStatus)
    /\ opStatus' = [opStatus EXCEPT ![o] = "cancelled"]
    /\ UNCHANGED <<processVars, sessionVars, leaseSession, leaseEpoch, lapsed,
                   opLease, queueSequence, callVars, stateMutex, browserVars,
                   historyVars>>

\* o's call returns and releases the mutex.
Leave(o) ==
    /\ opStage' = [opStage EXCEPT ![o] = "none"]
    /\ operationMutex' = Tail(operationMutex)

\* The sweep of a validateOperationLease, whether it then refuses or not.
SweepFor(o) ==
    leaseStatus' = IF Live(SessionOf(o)) THEN Swept(leaseStatus) ELSE leaseStatus

\* Cancelled while it waited: the call returns what the ledger says.
SkipCancelled(o) ==
    /\ Owns(o) /\ opStage[o] = "waiting" /\ opStatus[o] # "queued"
    /\ Leave(o)
    /\ UNCHANGED <<processVars, sessionVars, leaseVars, lapsed, opVars, stateMutex,
                   browserVars, historyVars>>

\* Fault: the call gives up and leaves its row as it is.
GiveUpAtHead(o) ==
    /\ Owns(o) /\ opStage[o] = "waiting" /\ opStatus[o] = "queued"
    /\ SweepFor(o)
    /\ Leave(o)
    /\ UNCHANGED <<processVars, sessionVars, leaseSession, leaseEpoch, lapsed,
                   opVars, stateMutex, browserVars, historyVars>>

\* The lease is no longer valid, or the deadline has passed.
CancelAtHead(o) ==
    /\ Owns(o) /\ opStage[o] = "waiting" /\ opStatus[o] = "queued"
    /\ SweepFor(o)
    /\ opStatus' = [opStatus EXCEPT ![o] = "cancelled"]
    /\ Leave(o)
    /\ UNCHANGED <<processVars, sessionVars, leaseSession, leaseEpoch, lapsed,
                   opLease, queueSequence, stateMutex, browserVars, historyVars>>

MarkRunning(o) ==
    /\ Owns(o) /\ opStage[o] = "waiting" /\ opStatus[o] = "queued"
    /\ ValidFor(o, opLease[o])
    /\ SweepFor(o)
    /\ opStatus' = [opStatus EXCEPT ![o] = "running"]
    /\ opStage' = [opStage EXCEPT ![o] = "before"]
    /\ UNCHANGED <<processVars, sessionVars, leaseSession, leaseEpoch, lapsed,
                   opLease, queueSequence, operationMutex, stateMutex, browserVars,
                   historyVars>>

\* Fault: the validation before the before-screenshot is trusted.
DispatchUnchecked(o) ==
    /\ Owns(o) /\ opStage[o] = "before"
    /\ SweepFor(o)
    /\ opStage' = [opStage EXCEPT ![o] = "selecting"]
    /\ dispatched' = [dispatched EXCEPT ![o] = @ + 1]
    /\ UNCHANGED <<processVars, sessionVars, leaseSession, leaseEpoch, lapsed,
                   opVars, operationMutex, stateMutex, browserVars, landed>>

\* After the before-screenshot the lease is validated once more.
Dispatch(o) ==
    /\ Owns(o) /\ opStage[o] = "before"
    /\ ValidFor(o, opLease[o])
    /\ SweepFor(o)
    /\ opStage' = [opStage EXCEPT ![o] = "selecting"]
    /\ dispatched' = [dispatched EXCEPT ![o] = @ + 1]
    /\ UNCHANGED <<processVars, sessionVars, leaseSession, leaseEpoch, lapsed,
                   opVars, operationMutex, stateMutex, browserVars, landed>>

RefuseDispatch(o) ==
    /\ Owns(o) /\ opStage[o] = "before"
    /\ ~ValidFor(o, opLease[o])
    /\ SweepFor(o)
    /\ opStage' = [opStage EXCEPT ![o] = "refused"]
    /\ UNCHANGED <<processVars, sessionVars, leaseSession, leaseEpoch, lapsed,
                   opVars, operationMutex, stateMutex, browserVars, historyVars>>

\* selectTab: the tab of the request is the active one, or is made so.  Its
\* identifier is known only in the browser of its own session; the operation
\* "tabs" may come without one.
SelectTab(o) ==
    /\ Owns(o) /\ opStage[o] = "selecting"
    /\ page = SessionOf(o) \/ o \notin ActOps
    /\ opStage' = [opStage EXCEPT ![o] = "selected"]
    /\ UNCHANGED <<processVars, sessionVars, leaseVars, lapsed, opVars,
                   operationMutex, stateMutex, browserVars, historyVars>>

\* withPage: the action runs on the page the browser service holds now.
Land(o) ==
    /\ Owns(o) /\ opStage[o] = "selected"
    /\ o \in ActOps /\ page # NoSession
    /\ landed' = [landed EXCEPT ![o] = @ \cup {page}]
    /\ opStage' = [opStage EXCEPT ![o] = "landed"]
    /\ UNCHANGED <<processVars, sessionVars, leaseVars, lapsed, opVars,
                   operationMutex, stateMutex, browserVars, dispatched>>

ExecuteReturns(o) ==
    /\ Owns(o)
    /\ \/ opStage[o] = "landed"
       \/ opStage[o] = "selected" /\ o \notin ActOps /\ page # NoSession
    /\ opStage' = [opStage EXCEPT ![o] = "capturing"]
    /\ UNCHANGED <<processVars, sessionVars, leaseVars, lapsed, opVars,
                   operationMutex, stateMutex, browserVars, historyVars>>

\* The request or its target is rejected with a BrowserExecutionError, before
\* anything was done to the page.
ExecuteRefuses(o) ==
    /\ Owns(o) /\ opStage[o] = "selected" /\ page # NoSession
    /\ opStage' = [opStage EXCEPT ![o] = "refused"]
    /\ UNCHANGED <<processVars, sessionVars, leaseVars, lapsed, opVars,
                   operationMutex, stateMutex, browserVars, historyVars>>

\* Anything else that execute throws.
ExecuteThrows(o) ==
    /\ Owns(o) /\ opStage[o] \in {"selecting", "selected", "landed"}
    /\ opStage' = [opStage EXCEPT ![o] = "broken"]
    /\ UNCHANGED <<processVars, sessionVars, leaseVars, lapsed, opVars,
                   operationMutex, stateMutex, browserVars, historyVars>>

\* completeOperation writes the outcome without looking at the status.
Complete(o, outcome) ==
    /\ opStatus' = [opStatus EXCEPT ![o] = outcome]
    /\ leaseStatus' = Consumed(opLease[o])
    /\ Leave(o)
    /\ UNCHANGED <<processVars, sessionVars, leaseSession, leaseEpoch, lapsed,
                   opLease, queueSequence, stateMutex, browserVars, historyVars>>

Succeed(o) ==
    /\ Owns(o) /\ opStage[o] = "capturing"
    /\ Complete(o, "succeeded")

\* Fault: every error is taken for a definite one.
FailDefinitely(o) ==
    /\ Owns(o) /\ opStage[o] \in {"refused", "broken"}
    /\ Complete(o, "failed")

\* The outcome of an action is unknown unless its error is definite.
Fail(o) ==
    /\ Owns(o) /\ opStage[o] \in {"refused", "broken"}
    /\ Complete(o, IF o \in ActOps /\ opStage[o] = "broken"
                   THEN "outcome_unknown" ELSE "failed")

-----------------------------------------------------------------------------
\* What the call of operation o does once it holds operationMutex.
OperationStep(o) ==
    \/ SkipCancelled(o) \/ CancelAtHead(o) \/ MarkRunning(o)
    \/ Dispatch(o) \/ RefuseDispatch(o)
    \/ SelectTab(o) \/ Land(o)
    \/ ExecuteReturns(o) \/ ExecuteRefuses(o) \/ ExecuteThrows(o)
    \/ Succeed(o) \/ Fail(o)

\* What the call that holds stateMutex does after its await.
ControlStep ==
    \/ \E s \in Sessions :
          \/ OpenPage(s) \/ OpenReturns(s) \/ OpenThrows(s)
          \/ Detach(s) \/ CloseReturns(s) \/ CloseThrows(s)
    \/ \E s \in Sessions, l \in Leases : IssueLease(s, l)
    \/ RefuseLease

\* What the clients ask for.
Request ==
    \/ \E s \in Sessions : ReadSession(s) \/ CreateSession(s) \/ CloseFinished(s)
    \/ \E s \in Sessions, l \in Leases : CloseSession(s, l) \/ CreateLease(s, l)
    \/ \E l \in Leases : RevokeLease(l)
    \/ \E o \in Ops, l \in Leases : SubmitOperation(o, l)
    \/ \E o \in Ops : CancelOperation(o)

\* What happens to the service.
Environment ==
    \/ Start \/ Crash \/ PageCloses \/ BrowserDisconnects
    \/ \E l \in Leases : Lapse(l)

Next ==
    \/ Request \/ ControlStep \/ Environment
    \/ \E o \in Ops : OperationStep(o)

Spec == Init /\ [][Next]_vars

(***************************************************************************)
(* Every await ends: Playwright bounds its waits by the remaining timeout  *)
(* of the request, the browser lock gives up after 30 seconds, and the     *)
(* continuation of a settled promise runs.  The process is supervised.     *)
(* Clients owe nothing.                                                    *)
(***************************************************************************)
Fairness ==
    /\ \A o \in Ops : WF_vars(OperationStep(o))
    /\ WF_vars(ControlStep)
    /\ WF_vars(Start)

FairSpec == Spec /\ Fairness

-----------------------------------------------------------------------------
(***************************************************************************)
(* Properties.                                                             *)
(***************************************************************************)
\* The values every variable ranges over.
TypeOK ==
    /\ epoch \in Nat /\ up \in BOOLEAN
    /\ sessionStatus \in [Sessions -> SessionStatus]
    /\ sessionEpoch \in [Sessions -> Nat]
    /\ leaseStatus \in [Leases -> LeaseStatus]
    /\ leaseSession \in [Leases -> Sessions \cup {NoSession}]
    /\ leaseEpoch \in [Leases -> Nat]
    /\ lapsed \subseteq Leases
    /\ opStatus \in [Ops -> OpStatus]
    /\ opLease \in [Ops -> Leases \cup {NoLease}]
    /\ queueSequence \in [Ops -> Nat]
    /\ opStage \in [Ops -> OpStage]
    /\ operationMutex \in Seq(Ops)
    /\ stateMutex \in StateMutex
    /\ page \in Sessions \cup {NoSession} /\ watched \in BOOLEAN
    /\ dispatched \in [Ops -> Nat]
    /\ landed \in [Ops -> SUBSET Sessions]

\* At most one session is opening or active, whatever the await of
\* browser.open, an interruption and the unguarded activation do in between.
SingleUnfinishedSession ==
    \A s, t \in Sessions : Unfinished(s) /\ Unfinished(t) => s = t

\* At most one control lease is active in the whole ledger.  createLease looks
\* only at its own session and only before its await; a lease it issued to a
\* session interrupted meanwhile stays active until it lapses.
SingleControlLease ==
    \A k, l \in ControlLeases :
        leaseStatus[k] = "active" /\ leaseStatus[l] = "active" => k = l

\* browser.execute is called at most once for an operation identifier, over
\* retries, cancellations, interruptions and restarts.
AtMostOnce == \A o \in Ops : dispatched[o] <= 1

\* An observe lease is good for one dispatched operation, although any number
\* of operations may have been accepted under it.
ObserveLeaseSingleUse ==
    \A o, p \in Ops :
        /\ dispatched[o] > 0 /\ dispatched[p] > 0
        /\ opLease[o] = opLease[p] /\ opLease[o] \notin ControlLeases
        => o = p

\* While the process runs, a queued operation has a call that will decide it
\* and a session it can still run in: closing, interrupting and restarting
\* leave no orphan in the queue.
QueuedWorkIsAlive ==
    up => \A o \in Ops : opStatus[o] = "queued" =>
            /\ Live(SessionOf(o))
            /\ \E i \in DOMAIN operationMutex : operationMutex[i] = o

\* Operations run in the order in which the ledger numbered them.
RunsInLedgerOrder ==
    \A o, p \in Ops : opStage[o] \in StartedStage /\ opStatus[p] = "queued"
                       => queueSequence[o] < queueSequence[p]

\* A page on screen belongs to the session that is active or being opened:
\* no session ends and leaves its browser behind.
PageHasOwner ==
    page # NoSession =>
        \/ Unfinished(page)
        \/ stateMutex.call = "create" /\ stateMutex.session = page

\* browser.execute is called only under a lease that is valid at that moment:
\* not revoked, consumed or lapsed while the operation waited for the mutex or
\* for its before-screenshot, in a session that is still active.
DispatchUnderValidLease ==
    [][\A o \in Ops : dispatched'[o] > dispatched[o] => ValidFor(o, opLease[o])]_vars

\* An interrupted session is never active again, except through its own
\* createSession call, when the interruption came while that call awaited
\* browser.open: the activation overwrites it.
InterruptionIsFinal ==
    [][\A s \in Sessions :
         sessionStatus[s] = "interrupted" /\ sessionStatus'[s] = "active"
         => stateMutex.call = "create" /\ stateMutex.session = s]_vars

\* The operations seen through OperationLedger.
Ledger == INSTANCE OperationLedger WITH
    status <- opStatus,
    touched <- [o \in Ops |-> landed[o] # {}]

\* The control plane implements the promise of the operation ledger: one
\* decision per operation, never revised, and true of the page.
ImplementsLedger == Ledger!Spec

\* Every accepted operation is decided, across cancellations, closed sessions,
\* lost pages and restarts.
OperationsAreDecided ==
    \A o \in Ops : opStatus[o] = "queued" ~> opStatus[o] \in TerminalOp

=============================================================================
