-------------------------- MODULE BrowserArtifacts --------------------------
(***************************************************************************)
(* The evidence a browser operation leaves in the proxy-adapter and how it  *)
(* is cleaned up: captures and artifacts in the ledger, their bytes in a    *)
(* content-addressed store of files, the deletion of what has expired and   *)
(* the removal of old operations from the ledger                            *)
(* (browser-execution/service.ts, repository.ts, artifact-store.ts).        *)
(* BrowserExecution models sessions, leases and the order of operations;    *)
(* here a session is open or not and the queue of the operation mutex has   *)
(* no order.                                                                *)
(*                                                                         *)
(* An operation has at most two captured items: one before it acts, asked   *)
(* for or not, and one after it, a screenshot or a DOM snapshot that was    *)
(* asked for, or the screenshot of its failure.  What a page looks like is  *)
(* one of Contents, and its file has the name of its content.  Which        *)
(* artifacts are past their expires_at when a cleanup looks, and which      *)
(* operations are seven days old, is any choice.                            *)
(***************************************************************************)
EXTENDS Naturals, Sequences, FiniteSets

CONSTANTS Operations,   \* operation identifiers
          Contents,     \* what the page can look like
          None,         \* no content, no file
          MaxSessions,  \* bound: sessions opened, one after the other
          MaxArtifacts, \* bound: artifacts recorded
          MaxTroubles   \* bound: restarts, writes cut short by a crash or a full
                        \* disk, and deletions of a file that fail, together

ASSUME ArtifactsAssumption ==
    /\ None \notin Contents /\ None \notin Operations /\ IsFiniteSet(Operations)
    /\ \A n \in {MaxSessions, MaxArtifacts, MaxTroubles} : n \in Nat

VARIABLES session,   \* the sessions opened so far; the last one is open or not
          open,
          op,        \* operation |-> its row and its capture's
          artifact,  \* the artifacts recorded, in order
          files,     \* content |-> how much of its file is there
          turn,      \* what holds the operation mutex
          executed,  \* operation |-> how often the browser was told to act
          troubles   \* how many there were

artifactVars == <<session, open, op, artifact, files, turn, executed, troubles>>

Trouble == troubles < MaxTroubles /\ troubles' = troubles + 1

LedgerStatus == {"none", "queued", "running", "succeeded", "failed", "cancelled",
                "outcome_unknown", "gone"}
CaptureStatus == {"none", "pending", "completed", "failed", "gone"}
NoRow == [status |-> "none", session |-> 0, capture |-> "none"]
Removable == {"succeeded", "failed", "cancelled"}

ArtifactStatus == {"available", "failed", "expired", "deleted", "gone"}
Recorded == DOMAIN artifact
KeepsReference(a) == artifact[a].status \in {"available", "failed", "expired"}

\* the mutex: free, an operation at a step of executeOperation, or a cleanup
NoTurn == [kind |-> "free", op |-> None, step |-> "none", items |-> 0, todo |-> {}]
OpStep == {"before", "acting", "succeeding", "failing", "written", "settling"}

-----------------------------------------------------------------------------
\* Operations are accepted.

OpenSession ==
    /\ ~open /\ session < MaxSessions
    /\ session' = session + 1 /\ open' = TRUE
    /\ UNCHANGED <<op, artifact, files, turn, executed, troubles>>

\* validateOperationLease: only an open session has valid leases
LeaseValid(o) == open /\ op[o].session \in {0, session}

\* executeOperation up to the mutex; a request whose operation was removed from the
\* ledger names the session it always named.
Accept(o, capture) ==
    /\ op[o].status \in {"none", "gone"} /\ session > 0
    /\ LeaseValid(o)
    /\ op' = [op EXCEPT ![o] = [status |-> "queued",
                                session |-> IF @.session = 0 THEN session ELSE @.session,
                                capture |-> IF capture THEN "pending" ELSE "none"]]
    /\ UNCHANGED <<session, open, artifact, files, turn, executed, troubles>>

\* cancelOperation, which leaves the capture as it is
CancelQueued(o) ==
    /\ op[o].status = "queued" /\ op' = [op EXCEPT ![o].status = "cancelled"]
    /\ UNCHANGED <<session, open, artifact, files, turn, executed, troubles>>

\* the session is closed, or its browser went away
EndSession ==
    /\ open /\ open' = FALSE
    /\ op' = [o \in Operations |->
                IF op[o].status = "queued" THEN [op[o] EXCEPT !.status = "cancelled"] ELSE op[o]]
    /\ UNCHANGED <<session, artifact, files, turn, executed, troubles>>

-----------------------------------------------------------------------------
\* The turn of an operation.

\* finishCapture, of a capture that is pending
FinishCapture(row, items) ==
    IF row.capture # "pending" THEN row
    ELSE [row EXCEPT !.capture = IF items > 0 THEN "completed" ELSE "failed"]

\* The mutex is granted: a lease that ended cancels the operation, which returns.
BeginTurn(o) ==
    /\ turn = NoTurn /\ op[o].status = "queued"
    /\ \/ /\ LeaseValid(o) /\ Len(artifact) + 2 <= MaxArtifacts
          /\ op' = [op EXCEPT ![o].status = "running"]
          /\ turn' = [NoTurn EXCEPT !.kind = "op", !.op = o, !.step = "before"]
       \/ \* the lease was revoked or consumed, or the deadline is over
          /\ op' = [op EXCEPT ![o] = [FinishCapture(@, 0) EXCEPT !.status = "cancelled"]]
          /\ UNCHANGED turn
    /\ UNCHANGED <<session, open, artifact, files, executed, troubles>>

OpAt(step) == turn.kind = "op" /\ turn.step = step

\* write: the name is the content's, a file already there is taken for it
Write(c) == IF files[c] = "none" THEN [files EXCEPT ![c] = "whole"] ELSE files

\* after which step the item that is written belongs, and whether it was asked for
Asked(step) == step \in {"before", "succeeding"}

\* captureArtifact, up to the end of the write
WriteItem(c) ==
    /\ \E step \in {"before", "succeeding", "failing"} :
          /\ OpAt(step)
          /\ Asked(step) => op[turn.op].capture = "pending"
          /\ turn' = [turn EXCEPT !.step = IF step = "before" THEN "written" ELSE "settling",
                                  !.todo = {c},
                                  !.items = IF Asked(step) THEN @ + 1 ELSE @]
    /\ files' = Write(c)
    /\ UNCHANGED <<session, open, op, artifact, executed, troubles>>

\* the write is cut short: the file is there and is not whole
WriteBreaks(c) ==
    /\ \E step \in {"before", "succeeding", "failing"} : OpAt(step)
    /\ files[c] = "none" /\ Trouble
    /\ files' = [files EXCEPT ![c] = "part"]
    /\ UNCHANGED <<session, open, op, artifact, turn, executed>>

NewArtifact(status, c) == [op |-> turn.op, status |-> status, ref |-> c]

\* the item's row, in the same stretch as the answer of the write
InsertArtifact ==
    /\ turn.kind = "op" /\ turn.step \in {"written", "settling"} /\ turn.todo # {}
    /\ \E c \in turn.todo : artifact' = Append(artifact, NewArtifact("available", c))
    /\ turn' = [turn EXCEPT !.step = IF @ = "written" THEN "acting" ELSE @, !.todo = {}]
    /\ UNCHANGED <<session, open, op, files, executed, troubles>>

\* the capture or the write fails: the row says so, and the operation goes on
ItemFails ==
    /\ \E step \in {"before", "succeeding", "failing"} :
          /\ OpAt(step)
          /\ Asked(step) => op[turn.op].capture = "pending"
          /\ turn' = [turn EXCEPT !.step = IF step = "before" THEN "acting" ELSE "settling"]
    /\ artifact' = Append(artifact, NewArtifact("failed", None))
    /\ UNCHANGED <<session, open, op, files, executed, troubles>>

\* an item that was not asked for
SkipItem ==
    /\ \E step \in {"before", "succeeding"} :
          /\ OpAt(step)
          /\ turn' = [turn EXCEPT !.step = IF step = "before" THEN "acting" ELSE "settling"]
    /\ UNCHANGED <<session, open, op, artifact, files, executed, troubles>>

\* the lease is validated again and the browser acts; a failure has its own screenshot
Act ==
    /\ OpAt("acting")
    /\ \/ /\ LeaseValid(turn.op)
          /\ executed' = [executed EXCEPT ![turn.op] = @ + 1]
          /\ \E step \in {"succeeding", "failing"} : turn' = [turn EXCEPT !.step = step]
       \/ turn' = [turn EXCEPT !.step = "failing"] /\ UNCHANGED executed
    /\ UNCHANGED <<session, open, op, artifact, files, troubles>>

\* finishCapture and completeOperation
CompleteTurn(status) ==
    /\ OpAt("settling") /\ turn.todo = {} /\ status \in {"succeeded", "failed", "outcome_unknown"}
    /\ op' = [op EXCEPT ![turn.op] = [FinishCapture(@, turn.items) EXCEPT !.status = status]]
    /\ turn' = NoTurn
    /\ UNCHANGED <<session, open, artifact, files, executed, troubles>>

-----------------------------------------------------------------------------
\* The cleanup, once a minute.

\* Fault: an artifact whose deletion was interrupted is not taken up again
ExpiredForgotten == {}

\* the records a cleanup that was interrupted left behind
StillExpired == {a \in Recorded : artifact[a].status = "expired"}

\* listArtifactsEligibleForDeletion: those, and what is past its expires_at
BeginCleanup ==
    /\ turn = NoTurn
    /\ \E past \in SUBSET {a \in Recorded : artifact[a].status \in {"available", "failed"}} :
          /\ StillExpired \cup past # {}
          /\ turn' = [NoTurn EXCEPT !.kind = "cleanup", !.step = "claim",
                                  !.todo = StillExpired \cup past]
    /\ UNCHANGED <<session, open, op, artifact, files, executed, troubles>>

\* Fault: other records of the same content are not looked for
NobodyElse(a) == FALSE

\* hasOtherArtifactStorageReference
OtherReference(a) == \E b \in Recorded \ {a} : KeepsReference(b) /\ artifact[b].ref = artifact[a].ref

\* claimArtifactDeletion and the deletion of the file, which may be gone already
ClaimAndDelete(a) ==
    /\ turn.kind = "cleanup" /\ turn.step = "claim" /\ a \in turn.todo
    /\ artifact' = [artifact EXCEPT ![a].status = "expired"]
    /\ files' = IF artifact[a].ref = None \/ OtherReference(a) THEN files
                ELSE [files EXCEPT ![artifact[a].ref] = "none"]
    /\ turn' = [turn EXCEPT !.step = "mark", !.items = a]
    /\ UNCHANGED <<session, open, op, executed, troubles>>

\* the mutex when a cleanup has failed
AfterFailure == NoTurn

\* the file cannot be deleted: the cleanup is over and the record stays expired
DeleteFails(a) ==
    /\ turn.kind = "cleanup" /\ turn.step = "claim" /\ a \in turn.todo
    /\ artifact[a].ref # None /\ ~OtherReference(a) /\ Trouble
    /\ artifact' = [artifact EXCEPT ![a].status = "expired"]
    /\ turn' = AfterFailure
    /\ UNCHANGED <<session, open, op, files, executed>>

\* markArtifactDeleted; then the next record
MarkDeleted ==
    /\ turn.kind = "cleanup" /\ turn.step = "mark"
    /\ artifact' = [artifact EXCEPT ![turn.items].status = "deleted"]
    /\ LET rest == turn.todo \ {turn.items}
       IN  turn' = IF rest = {} THEN NoTurn
                   ELSE [turn EXCEPT !.step = "claim", !.todo = rest, !.items = 0]
    /\ UNCHANGED <<session, open, op, files, executed, troubles>>

SessionEnded(o) == ~open \/ op[o].session # session

ArtifactsDeleted(o) == \A a \in Recorded : artifact[a].op = o => ~KeepsReference(a)

\* Fault: whatever does not run any more is removed, what is unknown included
NotRunning(o) == op[o].status \in Removable \cup {"outcome_unknown"}

Ended(o) == op[o].status \in Removable

\* cleanupExpiredLedger, one transaction
CleanLedger ==
    \E removed \in SUBSET {o \in Operations : Ended(o) /\ SessionEnded(o) /\ ArtifactsDeleted(o)} :
        /\ turn = NoTurn /\ removed # {}
        /\ op' = [o \in Operations |->
                    IF o \notin removed THEN op[o]
                    ELSE [op[o] EXCEPT !.status = "gone",
                             !.capture = IF @ = "none" THEN @ ELSE "gone"]]
        /\ artifact' = [a \in Recorded |->
                          IF artifact[a].op \in removed
                          THEN [artifact[a] EXCEPT !.status = "gone"] ELSE artifact[a]]
        /\ UNCHANGED <<session, open, files, turn, executed, troubles>>

\* the process dies; recoverAfterRestart
ServiceDies ==
    /\ Trouble
    /\ turn' = NoTurn /\ open' = FALSE
    /\ op' = [o \in Operations |->
                IF op[o].status = "running" THEN [op[o] EXCEPT !.status = "outcome_unknown"]
                ELSE IF op[o].status = "queued" THEN [op[o] EXCEPT !.status = "cancelled"]
                ELSE op[o]]
    /\ UNCHANGED <<session, artifact, files, executed>>

-----------------------------------------------------------------------------
ArtifactsInit ==
    /\ session = 1 /\ open = TRUE
    /\ op = [o \in Operations |-> NoRow]
    /\ artifact = <<>> /\ files = [c \in Contents |-> "none"]
    /\ turn = NoTurn /\ executed = [o \in Operations |-> 0]
    /\ troubles = 0

TurnStep ==
    \/ \E c \in Contents : WriteItem(c)
    \/ InsertArtifact \/ ItemFails \/ SkipItem \/ Act
    \/ \E status \in LedgerStatus : CompleteTurn(status)
    \/ \E a \in Recorded : ClaimAndDelete(a)
    \/ MarkDeleted
    \/ \E o \in Operations : BeginTurn(o)

ArtifactsNext ==
    \/ OpenSession \/ EndSession \/ ServiceDies
    \/ \E o \in Operations : \/ \E capture \in BOOLEAN : Accept(o, capture)
                             \/ CancelQueued(o) \/ BeginTurn(o)
    \/ \E c \in Contents : WriteItem(c) \/ WriteBreaks(c)
    \/ InsertArtifact \/ ItemFails \/ SkipItem \/ Act
    \/ \E status \in LedgerStatus : CompleteTurn(status)
    \/ \E a \in Recorded : ClaimAndDelete(a) \/ DeleteFails(a)
    \/ BeginCleanup \/ MarkDeleted \/ CleanLedger

ArtifactsSpec == ArtifactsInit /\ [][ArtifactsNext]_artifactVars

\* What holds the mutex goes on, and the cleanup of each minute gets its turn.
LiveArtifacts == ArtifactsSpec /\ WF_artifactVars(TurnStep) /\ SF_artifactVars(BeginCleanup)

-----------------------------------------------------------------------------
ArtifactsTypeOK ==
    /\ session \in 0 .. MaxSessions /\ open \in BOOLEAN
    /\ \A o \in Operations :
          /\ op[o].status \in LedgerStatus /\ op[o].capture \in CaptureStatus
          /\ op[o].session \in 0 .. session /\ executed[o] \in Nat
          /\ (op[o].status = "running" <=> turn.kind = "op" /\ turn.op = o)
          /\ (op[o].capture = "pending" => op[o].status \notin {"succeeded", "failed"})
    /\ \A a \in Recorded : /\ artifact[a].status \in ArtifactStatus
                           /\ artifact[a].ref \in Contents \cup {None}
    /\ files \in [Contents -> {"none", "part", "whole"}]
    /\ turn.kind \in {"free", "op", "cleanup"} /\ turn.step \in OpStep \cup {"none", "claim", "mark"}

\* An artifact the ledger calls available has its file, although files are shared by
\* content, deleted with the last of their records and taken up again after a crash
\* (service.ts cleanupExpiredArtifacts, captureArtifact; artifact-store.ts).
AvailableHasFile ==
    \A a \in Recorded : artifact[a].status = "available" => files[artifact[a].ref] # "none"

\* The browser is told to act once for an operation, although the ledger forgets it after
\* seven days and its request may come again (service.ts executeOperation).
ActsOnce == \A o \in Operations : executed[o] <= 1

\* What is removed from the ledger has left no file and no record behind, and an outcome
\* that is not known is never removed (repository.ts cleanupExpiredLedger).
RemovedIsSettled ==
    [][\A o \in Operations : op[o].status # "gone" /\ op'[o].status = "gone" =>
           /\ op[o].status # "outcome_unknown"
           /\ \A a \in Recorded : artifact[a].op = o => artifact[a].status = "deleted"]_artifactVars

\* An artifact claimed by a cleanup is deleted in the end, although the cleanup dies or
\* fails between the claim, the file and the record (service.ts cleanupExpiredArtifacts).
ExpiredIsDeleted ==
    \A a \in 1 .. MaxArtifacts :
        (a \in Recorded /\ artifact[a].status = "expired")
            ~> (a \in Recorded /\ artifact[a].status \in {"deleted", "gone"})

=============================================================================
