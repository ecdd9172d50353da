-------------------------- MODULE OperationLedger --------------------------
(***************************************************************************)
(* What the browser operation ledger promises to its callers               *)
(* (services/proxy-adapter/src/browser-execution): every operation that    *)
(* was accepted is decided once, and the decision tells the truth about    *)
(* the page.  BrowserExecution implements this specification.              *)
(*                                                                         *)
(*   none --> queued --> running --> succeeded | failed | outcome_unknown  *)
(*               \--> cancelled                                            *)
(*                                                                         *)
(* One step may decide several operations: closing a session cancels all   *)
(* its queued operations in one transaction, a restart decides all that    *)
(* were left behind.                                                       *)
(***************************************************************************)

CONSTANTS Ops,      \* operation identifiers
          ActOps    \* those whose kind is "act": they change the page

VARIABLES status,   \* status[o]: the ledger's status column
          touched   \* touched[o]: the page was changed on behalf of o

vars == <<status, touched>>

Terminal == {"succeeded", "failed", "cancelled", "outcome_unknown"}
Status == {"none", "queued", "running"} \cup Terminal

Init ==
    /\ status = [o \in Ops |-> "none"]
    /\ touched = [o \in Ops |-> FALSE]

(***************************************************************************)
(* The steps of one operation, as relations between its old and new values.*)
(***************************************************************************)
Accept(o) ==
    /\ status[o] = "none" /\ status'[o] = "queued"
    /\ touched'[o] = touched[o]

Cancel(o) ==
    /\ status[o] = "queued" /\ status'[o] = "cancelled"
    /\ touched'[o] = touched[o]

Begin(o) ==
    /\ status[o] = "queued" /\ status'[o] = "running"
    /\ touched'[o] = touched[o]

\* The page may change only on behalf of an action that is running.
Touch(o) ==
    /\ o \in ActOps
    /\ status[o] = "running" /\ status'[o] = "running"
    /\ touched'[o]

\* "succeeded" is claimed of an action only if it changed the page.
Succeed(o) ==
    /\ status[o] = "running" /\ status'[o] = "succeeded"
    /\ o \in ActOps => touched[o]
    /\ touched'[o] = touched[o]

\* "failed" is claimed only of an operation that left the page alone.
Fail(o) ==
    /\ status[o] = "running" /\ status'[o] = "failed"
    /\ ~touched[o]
    /\ touched'[o] = touched[o]

Lose(o) ==
    /\ status[o] = "running" /\ status'[o] = "outcome_unknown"
    /\ touched'[o] = touched[o]

Keep(o) ==
    /\ status'[o] = status[o]
    /\ touched'[o] = touched[o]

Step(o) ==
    \/ Accept(o) \/ Cancel(o) \/ Begin(o) \/ Touch(o)
    \/ Succeed(o) \/ Fail(o) \/ Lose(o) \/ Keep(o)

Next ==
    /\ status' \in [Ops -> Status]
    /\ touched' \in [Ops -> BOOLEAN]
    /\ \A o \in Ops : Step(o)

Spec == Init /\ [][Next]_vars
=============================================================================
