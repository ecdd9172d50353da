------------------------------ MODULE Amendments ------------------------------
(***************************************************************************)
(* The candidates of the authoring jobs of one business version             *)
(* (services/ai-e2e): AuthoringAmendmentRepository, SemanticAssetRepository *)
(* and SemanticAuthoringCandidateService.                                   *)
(*                                                                         *)
(* An agent proposes draft revisions, an amendment groups some of them, its *)
(* decisions are answered, it is applied, a browser verification is made of *)
(* it, and its revisions become current together.  The amendment lives in   *)
(* the context thread of its job; another context, another current revision *)
(* or another approval takes its ground away.                               *)
(*                                                                         *)
(* An action is a transaction.  What the coordinator does with the answer   *)
(* of a verification is a sequence of transactions that no request          *)
(* interrupts, and that the death of the process cuts after any of them.    *)
(***************************************************************************)
EXTENDS Naturals, FiniteSets

CONSTANTS Jobs,        \* authoring jobs of the version, one after the other
          Scopes,      \* contexts: URL, page, module, base, scenarios
          Amendments,
          Revisions,
          AssetOf,     \* the asset of a revision
          BaseOf,      \* the revision it supersedes; itself: it creates the asset
          Published,   \* revisions that are current at the beginning
          Kinds,       \* decisions that the scope of a change may ask for
          NoAmendment,
          MaxCrashes   \* bound: deaths of the process

Approval == "side_effect_approval"

ASSUME RevisionAssumption ==
    /\ Jobs # {} /\ Scopes # {} /\ NoAmendment \notin Amendments /\ MaxCrashes \in Nat
    /\ \A r \in Revisions : BaseOf[r] \in Revisions /\ AssetOf[BaseOf[r]] = AssetOf[r]
    /\ \A r, s \in Published : AssetOf[r] = AssetOf[s] => r = s
    /\ Approval \notin Kinds

VARIABLES job,      \* lifecycle of each job
          thread,   \* state of the thread of each context of each job
          am,       \* the amendments
          grant,    \* whose evaluation the active grant of a job is for
          life,     \* lifecycle of each revision
          verified, \* current verifications, by the amendment they were made for
          validity, \* [status, graph]: validation of the version
          task,     \* the verification that runs
          crashes

assets == <<life, verified, validity>>
vars   == <<job, thread, am, grant, assets, task, crashes>>

Ended     == {"completed", "failed", "cancelled"}
Closed    == {"activated", "rejected", "failed", "stale"}
State     == {"none", "candidate_ready", "waiting_decision", "verifying"} \cup Closed
Decision  == {"none", "open", "applied", "answered", "withdrawn"}
Result    == {"auto_allowed", "approval_required", "denied"}
NoTask    == [of |-> NoAmendment, at |-> "idle"]
Drafts    == {r \in Revisions : life[r] = "draft"}
Current   == {r \in Revisions : life[r] = "current"}
Verifying == {a \in Amendments : am[a].state = "verifying"}

Blank == [state |-> "none", job |-> CHOOSE j \in Jobs : TRUE, scope |-> CHOOSE s \in Scopes : TRUE,
          changes |-> {}, dec |-> [k \in Kinds \cup {Approval} |-> "none"], policy |-> "denied"]

Init ==
    /\ job = [j \in Jobs |-> "none"]
    /\ thread = [j \in Jobs |-> [s \in Scopes |-> "none"]]
    /\ am = [a \in Amendments |-> Blank]
    /\ grant = [j \in Jobs |-> NoAmendment]
    /\ life = [r \in Revisions |-> IF r \in Published THEN "current" ELSE "none"]
    /\ verified = {}
    /\ validity = [status |-> "needs_recheck", graph |-> {}]
    /\ task = NoTask
    /\ crashes = 0

-----------------------------------------------------------------------------
\* The operators the actions are built from.

Open(a)     == am[a].state \notin Closed \cup {"none"}
OpenDecs(a) == {k \in DOMAIN am[a].dec : am[a].dec[k] = "open"}

\* Fault: the decisions of an amendment that is over stay open.
LeftOpen(dec) == dec

\* withdrawOpenDecisions
Withdrawn(dec) == [k \in DOMAIN dec |-> IF dec[k] = "open" THEN "withdrawn" ELSE dec[k]]

\* updateAmendmentState to a final state, and the UPDATE of markStale
Ends(r, state) == [r EXCEPT !.state = state, !.dec = Withdrawn(@)]

\* invalidate of the evaluation of an amendment
Revoked(g, A) == [j \in Jobs |-> IF g[j] \in A THEN NoAmendment ELSE g[j]]

\* Fault: a base is good as long as the candidate is still a draft.
CandidateIsDraft(r) == life[r] = "draft"

\* validateChange and assertCandidateFresh: a revision is made from the one
\* that is current, or it is the first of its asset.
BaseIsCurrent(r) ==
    IF BaseOf[r] = r
    THEN life[r] = "draft" /\ \A s \in Current : AssetOf[s] # AssetOf[r]
    ELSE life[BaseOf[r]] = "current"

\* assertCandidateFresh
Fresh(a) ==
    /\ thread[am[a].job][am[a].scope] = "active"
    /\ \A r \in am[a].changes : BaseIsCurrent(r)

\* Fault: the active grant of the job will do.
AnyGrant(a) ==
    /\ am[a].policy # "denied"
    /\ job[am[a].job] = "open"
    /\ am[a].policy = "auto_allowed" \/ grant[am[a].job] # NoAmendment
    /\ am[a].state \notin Closed

\* requireAuthoringAuthorization, check
Authorised(a) ==
    /\ am[a].policy # "denied"
    /\ job[am[a].job] = "open"
    /\ am[a].policy = "auto_allowed" \/ grant[am[a].job] = a
    /\ am[a].state \notin Closed

\* What a refusal leaves: the grants of a job that is over are expired.
Refusal(a) ==
    IF job[am[a].job] # "open" THEN [grant EXCEPT ![am[a].job] = NoAmendment] ELSE Revoked(grant, {a})

\* areAllCandidatesCurrent
AllCurrent(a) == am[a].changes \subseteq Current

\* No verification is being applied: requests are served.
Serving == task.at \in {"idle", "running"}

-----------------------------------------------------------------------------
\* Jobs, seen from here.

\* uq_authoring_job_single_writer
CreateAuthoringJob(j) ==
    /\ Serving
    /\ job[j] = "none"
    /\ \A k \in Jobs : job[k] \in Ended \cup {"none"}
    /\ job' = [job EXCEPT ![j] = "open"]
    /\ UNCHANGED <<thread, am, grant, assets, task, crashes>>

Cancel(j) ==
    /\ Serving
    /\ job[j] = "open"
    /\ job' = [job EXCEPT ![j] = "cancelling"]
    /\ UNCHANGED <<thread, am, grant, assets, task, crashes>>

\* The other tasks of the job end: settleAuthoringJob and
\* settleAuthoringCancellation.  The former asks for no transition table: a
\* candidate that is ready parks a job that is being cancelled.
Settle(j, outcome) ==
    /\ Serving
    /\ job[j] \in {"open", "cancelling"}
    /\ outcome \in {"cancelled", "open"} => job[j] = "cancelling"
    /\ ~(task # NoTask /\ am[task.of].job = j)
    /\ job' = [job EXCEPT ![j] = outcome]
    /\ grant' = IF outcome = "open" THEN grant ELSE [grant EXCEPT ![j] = NoAmendment]
    /\ UNCHANGED <<thread, am, assets, task, crashes>>

Writable(j) == job[j] \in {"open", "cancelling"}

-----------------------------------------------------------------------------
\* Contexts, candidates and decisions.

\* createContextThread, staleActiveThread
CreateContextThread(j, s) ==
    LET left == {a \in Amendments : Open(a) /\ am[a].job = j /\ am[a].scope # s
                                     /\ thread[j][am[a].scope] = "active"}
    IN  /\ Serving
        /\ Writable(j)
        /\ thread[j][s] # "active"
        /\ thread' = [thread EXCEPT ![j] = [u \in Scopes |->
              IF u = s THEN "active" ELSE IF @[u] = "active" THEN "stale" ELSE @[u]]]
        /\ am' = [a \in Amendments |-> IF a \in left THEN Ends(am[a], "stale") ELSE am[a]]
        /\ grant' = Revoked(grant, left)
        /\ UNCHANGED <<job, assets, task, crashes>>

\* createRevision, for the proposal of an agent
CreateRevision(r) ==
    /\ Serving
    /\ \E j \in Jobs : Writable(j)
    /\ life[r] = "none"
    /\ BaseOf[r] = r \/ life[BaseOf[r]] # "none"
    /\ life' = [life EXCEPT ![r] = "draft"]
    /\ UNCHANGED <<job, thread, am, grant, verified, validity, task, crashes>>

\* createAmendment: `kinds` is what classifyScopeExpansion finds.
CreateAmendment(a, j, s, changes, kinds, policy) ==
    LET asked == kinds \cup (IF policy = "approval_required" THEN {Approval} ELSE {})
        made  == [state |-> IF asked = {} THEN "candidate_ready" ELSE "waiting_decision",
                  job |-> j, scope |-> s, changes |-> changes, policy |-> policy,
                  dec |-> [k \in Kinds \cup {Approval} |-> IF k \in asked THEN "open" ELSE "none"]]
    IN  /\ Serving
        /\ am[a].state = "none"
        /\ Writable(j)
        /\ thread[j][s] = "active"
        /\ changes \subseteq Drafts /\ \A r \in changes : BaseIsCurrent(r)
        /\ am' = [am EXCEPT ![a] = IF policy = "denied" THEN Ends(made, "failed") ELSE made]
        /\ UNCHANGED <<job, thread, grant, assets, task, crashes>>

\* answerDecision with "approve"
Approve(a, k) ==
    LET dec == [am[a].dec EXCEPT ![k] = "applied"]
    IN  /\ Serving
        /\ am[a].state = "waiting_decision" /\ am[a].dec[k] = "open"
        /\ k = Approval => job[am[a].job] = "open"
        /\ am' = [am EXCEPT ![a].dec = dec,
                            ![a].state = IF \E q \in DOMAIN dec : dec[q] = "open"
                                         THEN @ ELSE "candidate_ready"]
        /\ grant' = IF k = Approval THEN [grant EXCEPT ![am[a].job] = a] ELSE grant
        /\ UNCHANGED <<job, thread, assets, task, crashes>>

\* answerDecision with "reject"
Decline(a, k) ==
    /\ Serving
    /\ am[a].state = "waiting_decision" /\ am[a].dec[k] = "open"
    /\ am' = [am EXCEPT ![a] = Ends([@ EXCEPT !.dec[k] = "answered"], "rejected")]
    /\ grant' = Revoked(grant, {a})
    /\ UNCHANGED <<job, thread, assets, task, crashes>>

\* queueAtSafeBoundary: no browser operation is ever linked, so the boundary
\* is always found safe.
QueueAtSafeBoundary(a) ==
    /\ Serving
    /\ am[a].state = "candidate_ready"
    /\ Fresh(a) /\ Authorised(a)
    /\ \A k \in DOMAIN am[a].dec : am[a].dec[k] \in {"none", "applied"}
    /\ am' = [am EXCEPT ![a].state = "verifying"]
    /\ UNCHANGED <<job, thread, grant, assets, task, crashes>>

\* queueAtSafeBoundary of a candidate that is stale
QueueStale(a) ==
    /\ Serving
    /\ am[a].state = "candidate_ready"
    /\ ~Fresh(a)
    /\ am' = [am EXCEPT ![a] = Ends(@, "stale")]
    /\ grant' = Revoked(grant, {a})
    /\ UNCHANGED <<job, thread, assets, task, crashes>>

\* queueAtSafeBoundary without authorization
QueueRefused(a) ==
    /\ Serving
    /\ am[a].state = "candidate_ready"
    /\ Fresh(a) /\ ~Authorised(a)
    /\ grant' = Refusal(a)
    /\ UNCHANGED <<job, thread, am, assets, task, crashes>>

\* reject, finishWithoutActivation
Reject(a) ==
    /\ Serving
    /\ Open(a)
    /\ am' = [am EXCEPT ![a] = Ends(@, "rejected")]
    /\ grant' = Revoked(grant, {a})
    /\ UNCHANGED <<job, thread, assets, task, crashes>>

-----------------------------------------------------------------------------
\* The verification of an amendment by an agent in the browser.

\* ensureAuthoringVerification and startAuthoringTask
StartVerification(a) ==
    /\ task = NoTask
    /\ am[a].state = "verifying" /\ Authorised(a)
    /\ task' = [of |-> a, at |-> "running"]
    /\ UNCHANGED <<job, thread, am, grant, assets, crashes>>

\* completeAuthoringAttempt and settleAuthoringJob after the verification
JobEnds(outcome) ==
    /\ job' = [job EXCEPT ![am[task.of].job] = outcome]
    /\ task' = NoTask

\* A verification ends without an activation: the attempt and the job fail.
FailJob ==
    /\ JobEnds("failed")
    /\ grant' = [grant EXCEPT ![am[task.of].job] = NoAmendment]

\* applyVerificationOutput of an agent that did not succeed
VerificationFails ==
    /\ task.at = "running"
    /\ am' = [am EXCEPT ![task.of] = IF Open(task.of) THEN Ends(@, "failed") ELSE @]
    /\ FailJob
    /\ UNCHANGED <<thread, assets, crashes>>

\* reconcileAuthoringTask of a job that is being cancelled
VerificationCancelled ==
    /\ task.at = "running"
    /\ job[am[task.of].job] = "cancelling"
    /\ JobEnds("cancelled")
    /\ grant' = [grant EXCEPT ![am[task.of].job] = NoAmendment]
    /\ UNCHANGED <<thread, am, assets, crashes>>

\* recordVerification of the changes
RecordVerification ==
    /\ task.at = "running"
    /\ verified' = verified \cup {<<task.of, r>> : r \in am[task.of].changes}
    /\ task' = [task EXCEPT !.at = "recorded"]
    /\ UNCHANGED <<job, thread, am, grant, life, validity, crashes>>

\* recordCandidateVerification and the checks of activate
CheckActivation ==
    LET a == task.of
        ready == /\ am[a].state = "verifying" /\ Authorised(a)
                 /\ AllCurrent(a) \/ Fresh(a)
                 /\ \A r, s \in am[a].changes : AssetOf[r] = AssetOf[s] => r = s
    IN  /\ task.at = "recorded"
        /\ \/ ready /\ task' = [task EXCEPT !.at = IF AllCurrent(a) THEN "activated" ELSE "checked"]
                    /\ UNCHANGED <<job, am, grant>>
           \/ /\ ~ready
              /\ FailJob
              /\ am' = [am EXCEPT ![a] =
                    IF @.state = "verifying" /\ Authorised(a) /\ ~AllCurrent(a) /\ ~Fresh(a)
                    THEN Ends(@, "stale") ELSE @]
        /\ UNCHANGED <<thread, assets, crashes>>

\* activateRevisions
ActivateRevisions ==
    LET new == am[task.of].changes \ Current
    IN  /\ task.at = "checked"
        /\ \A r \in new : life[r] = "draft" /\ <<task.of, r>> \in verified
        /\ life' = [r \in Revisions |->
              IF r \in new THEN "current"
              ELSE IF life[r] = "current" /\ \E s \in new : AssetOf[s] = AssetOf[r]
                   THEN "superseded" ELSE life[r]]
        /\ validity' = [validity EXCEPT !.status = "needs_recheck"]
        /\ task' = [task EXCEPT !.at = "activated"]
        /\ UNCHANGED <<job, thread, am, grant, verified, crashes>>

\* The second transaction of activate
MarkActivated ==
    /\ task.at = "activated"
    /\ am' = [am EXCEPT ![task.of] = Ends(@, "activated")]
    /\ grant' = Revoked(grant, {task.of})
    /\ task' = [task EXCEPT !.at = "marked"]
    /\ UNCHANGED <<job, thread, assets, crashes>>

\* recordSuccessfulBusinessVersionValidation: valid when the amendment
\* verified every asset there is.
RecordValidation ==
    LET verifiedAssets == {AssetOf[r] : r \in am[task.of].changes}
        all == {AssetOf[r] : r \in Current} \subseteq verifiedAssets
    IN  /\ task.at = "marked"
        /\ validity' = [status |-> IF all THEN "valid" ELSE "needs_recheck", graph |-> Current]
        /\ task' = [task EXCEPT !.at = "validated"]
        /\ UNCHANGED <<job, thread, am, grant, life, verified, crashes>>

\* completeAuthoringAttempt and settleAuthoringJob of a success
Succeed ==
    /\ task.at = "validated"
    /\ JobEnds("completed")
    /\ grant' = [grant EXCEPT ![am[task.of].job] = NoAmendment]
    /\ UNCHANGED <<thread, am, assets, crashes>>

\* The process dies in the middle; the task is found running again.
Crash ==
    /\ ~Serving
    /\ crashes < MaxCrashes
    /\ task' = [task EXCEPT !.at = "running"]
    /\ crashes' = crashes + 1
    /\ UNCHANGED <<job, thread, am, grant, assets>>

Verify ==
    \/ \E a \in Amendments : StartVerification(a)
    \/ VerificationFails \/ VerificationCancelled
    \/ RecordVerification \/ CheckActivation \/ ActivateRevisions
    \/ MarkActivated \/ RecordValidation \/ Succeed

Request ==
    \/ \E j \in Jobs : \/ CreateAuthoringJob(j) \/ Cancel(j)
                       \/ \E o \in Ended \cup {"open"} : Settle(j, o)
                       \/ \E s \in Scopes : CreateContextThread(j, s)
    \/ \E r \in Revisions : CreateRevision(r)
    \/ \E a \in Amendments, j \in Jobs, s \in Scopes, changes \in SUBSET Drafts \ {{}},
          kinds \in SUBSET Kinds, policy \in Result :
          CreateAmendment(a, j, s, changes, kinds, policy)
    \/ \E a \in Amendments :
          \/ \E k \in Kinds \cup {Approval} : Approve(a, k) \/ Decline(a, k)
          \/ QueueAtSafeBoundary(a) \/ QueueStale(a) \/ QueueRefused(a) \/ Reject(a)

Next == Request \/ Verify \/ Crash

Spec == Init /\ [][Next]_vars

-----------------------------------------------------------------------------
\* Properties.

TypeOK ==
    /\ job \in [Jobs -> {"none", "open", "cancelling"} \cup Ended]
    /\ thread \in [Jobs -> [Scopes -> {"none", "active", "stale"}]]
    /\ am \in [Amendments -> [state : State, job : Jobs, scope : Scopes, changes : SUBSET Revisions,
                              dec : [Kinds \cup {Approval} -> Decision], policy : Result]]
    /\ grant \in [Jobs -> Amendments \cup {NoAmendment}]
    /\ life \in [Revisions -> {"none", "draft", "current", "superseded"}]
    /\ verified \subseteq Amendments \X Revisions
    /\ validity \in [status : {"needs_recheck", "valid"}, graph : SUBSET Revisions]
    /\ task \in [of : Amendments \cup {NoAmendment},
                 at : {"idle", "running", "recorded", "checked", "activated", "marked", "validated"}]
    /\ task.at = "idle" <=> task.of = NoAmendment
    /\ crashes \in 0 .. MaxCrashes

\* An amendment that is not over belongs to the active context of its job:
\* nothing that was proposed for another page can be decided or applied.
OpenIsInContext == \A a \in Amendments : Open(a) => thread[am[a].job][am[a].scope] = "active"

\* An amendment waits for a decision exactly as long as one of its decisions
\* can be answered: none waits for nothing, and no question outlives it.
DecisionsFollow == \A a \in Amendments : am[a].state = "waiting_decision" <=> OpenDecs(a) # {}

\* A revision replaces the very revision it was made from: of two candidates
\* made from one revision, the second never overwrites the first.
NothingIsOverwritten ==
    [][\A r \in Revisions : life[r] # "current" /\ life'[r] = "current" =>
          IF BaseOf[r] = r THEN \A s \in Current : AssetOf[s] # AssetOf[r]
                           ELSE life[BaseOf[r]] = "current"]_vars

\* Revisions become current all together, for an amendment that was verified,
\* whose decisions were all applied, and whose own approval is in force.
ActivationIsGranted ==
    [][\A r \in Revisions : life[r] # "current" /\ life'[r] = "current" =>
          \E a \in Verifying :
              /\ r \in am[a].changes
              /\ \A s \in am[a].changes : <<a, s>> \in verified /\ life'[s] = "current"
              /\ \A k \in DOMAIN am[a].dec : am[a].dec[k] \in {"none", "applied"}
              /\ job[am[a].job] = "open"
              /\ am[a].policy = "approval_required" => grant[am[a].job] = a]_vars

=============================================================================
