--------------------------- MODULE AmendmentsProofs ---------------------------
(***************************************************************************)
(* Theorems about Amendments, for any sets of jobs, contexts, amendments   *)
(* and revisions and any number of deaths of the process.                  *)
(***************************************************************************)
EXTENDS Amendments, TLAPS

Amendment == [state : State, job : Jobs, scope : Scopes, changes : SUBSET Revisions,
              dec : [Kinds \cup {Approval} -> Decision], policy : Result]

\* An amendment that is ended keeps its ground and asks nothing any more.
LEMMA EndsEffect ==
    ASSUME NEW r \in Amendment, NEW state \in State
    PROVE  /\ Ends(r, state) \in Amendment
           /\ Ends(r, state).state = state
           /\ Ends(r, state).job = r.job
           /\ Ends(r, state).scope = r.scope
           /\ Ends(r, state).changes = r.changes
           /\ \A k \in Kinds \cup {Approval} : Ends(r, state).dec[k] # "open"
<1>1. DOMAIN r.dec = Kinds \cup {Approval}
  BY DEF Amendment
<1>2. Withdrawn(r.dec) \in [Kinds \cup {Approval} -> Decision]
  BY <1>1 DEF Withdrawn, Amendment, Decision
<1>3. \A k \in Kinds \cup {Approval} : Withdrawn(r.dec)[k] # "open"
  BY <1>1 DEF Withdrawn
<1> QED BY <1>2, <1>3 DEF Ends, Amendment

LEMMA RevokedType ==
    ASSUME NEW g \in [Jobs -> Amendments \cup {NoAmendment}], NEW A
    PROVE  Revoked(g, A) \in [Jobs -> Amendments \cup {NoAmendment}]
BY DEF Revoked

LEMMA RefusalType ==
    ASSUME TypeOK, NEW a \in Amendments
    PROVE  Refusal(a) \in [Jobs -> Amendments \cup {NoAmendment}]
BY RevokedType DEF Refusal, TypeOK

-----------------------------------------------------------------------------
\* Every variable keeps to its type, whatever users ask for, wherever the
\* process dies.
LEMMA InitType == Init => TypeOK
<1> SUFFICES ASSUME Init PROVE TypeOK
  OBVIOUS
<1>1. Blank \in Amendment
  BY RevisionAssumption DEF Blank, Amendment, State, Decision, Result
<1>2. am \in [Amendments -> Amendment]
  BY <1>1 DEF Init
<1>3. grant \in [Jobs -> Amendments \cup {NoAmendment}]
  BY DEF Init
<1>4. crashes \in 0 .. MaxCrashes
  BY RevisionAssumption DEF Init
<1> QED BY <1>2, <1>3, <1>4 DEF Init, TypeOK, NoTask, Amendment

LEMMA RequestType == ASSUME TypeOK, Request PROVE TypeOK'
<1> USE DEF assets
<1>0. am \in [Amendments -> Amendment]
  BY DEF TypeOK, Amendment
<1>a. TypeOK /\ am' \in [Amendments -> Amendment]
             /\ grant' \in [Jobs -> Amendments \cup {NoAmendment}]
             /\ UNCHANGED <<job, thread, assets, task, crashes>> => TypeOK'
  BY DEF TypeOK, Amendment
<1>b. TypeOK /\ job' \in [Jobs -> {"none", "open", "cancelling"} \cup Ended]
             /\ grant' \in [Jobs -> Amendments \cup {NoAmendment}]
             /\ UNCHANGED <<am, thread, assets, task, crashes>> => TypeOK'
  BY DEF TypeOK
<1>1. ASSUME NEW j \in Jobs, CreateAuthoringJob(j) \/ Cancel(j) PROVE TypeOK'
  <2>1. job' \in [Jobs -> {"none", "open", "cancelling"} \cup Ended]
    BY <1>1 DEF TypeOK, CreateAuthoringJob, Cancel
  <2> QED BY <1>1, <1>b, <2>1 DEF TypeOK, CreateAuthoringJob, Cancel
<1>2. ASSUME NEW j \in Jobs, NEW o \in Ended \cup {"open"}, Settle(j, o) PROVE TypeOK'
  BY <1>2, <1>b DEF TypeOK, Settle
<1>3. ASSUME NEW j \in Jobs, NEW s \in Scopes, CreateContextThread(j, s) PROVE TypeOK'
  <2>1. \A A : Revoked(grant, A) \in [Jobs -> Amendments \cup {NoAmendment}]
    BY RevokedType DEF TypeOK
  <2>2. \A a \in Amendments : Ends(am[a], "stale") \in Amendment
    BY <1>0, EndsEffect DEF State, Closed
  <2>3. am' \in [Amendments -> Amendment]
    BY <1>0, <1>3, <2>2 DEF CreateContextThread
  <2>4. grant' \in [Jobs -> Amendments \cup {NoAmendment}]
    BY <1>3, <2>1 DEF CreateContextThread
  <2>5. thread' \in [Jobs -> [Scopes -> {"none", "active", "stale"}]]
    BY <1>3 DEF TypeOK, CreateContextThread
  <2> QED BY <1>3, <2>3, <2>4, <2>5 DEF TypeOK, CreateContextThread, Amendment
<1>4. ASSUME NEW r \in Revisions, CreateRevision(r) PROVE TypeOK'
  BY <1>4 DEF TypeOK, CreateRevision
<1>5. ASSUME NEW a \in Amendments, NEW j \in Jobs, NEW s \in Scopes,
             NEW changes \in SUBSET Drafts \ {{}}, NEW kinds \in SUBSET Kinds,
             NEW policy \in Result, CreateAmendment(a, j, s, changes, kinds, policy)
      PROVE  TypeOK'
  <2> DEFINE asked == kinds \cup (IF policy = "approval_required" THEN {Approval} ELSE {})
             dec   == [k \in Kinds \cup {Approval} |-> IF k \in asked THEN "open" ELSE "none"]
             made  == [state |-> IF asked = {} THEN "candidate_ready" ELSE "waiting_decision",
                       job |-> j, scope |-> s, changes |-> changes, policy |-> policy,
                       dec |-> dec]
  <2>1. dec \in [Kinds \cup {Approval} -> Decision]
    BY DEF Decision
  <2>2. made \in Amendment
    <3> HIDE DEF dec, asked
    <3> QED BY <2>1 DEF Amendment, State, Drafts
  <2>3. Ends(made, "failed") \in Amendment
    BY <2>2, EndsEffect DEF State, Closed
  <2>4. am' = [am EXCEPT ![a] = IF policy = "denied" THEN Ends(made, "failed") ELSE made]
    BY <1>5 DEF CreateAmendment
  <2>5. am' \in [Amendments -> Amendment]
    <3> HIDE DEF made
    <3> QED BY <1>0, <2>2, <2>3, <2>4
  <2> QED BY <1>5, <1>a, <2>5 DEF CreateAmendment, TypeOK
<1>6. ASSUME NEW a \in Amendments, NEW k \in Kinds \cup {Approval}, Approve(a, k) PROVE TypeOK'
  <2> DEFINE dec == [am[a].dec EXCEPT ![k] = "applied"]
  <2>1. dec \in [Kinds \cup {Approval} -> Decision]
    BY <1>0 DEF Amendment, Decision
  <2>2. am' \in [Amendments -> Amendment]
    <3> DEFINE answered(state) == [am[a] EXCEPT !.dec = dec, !.state = state]
    <3>1. \A state \in State : answered(state) \in Amendment
      BY <1>0, <2>1 DEF Amendment
    <3>2. PICK state \in State : am' = [am EXCEPT ![a] = answered(state)]
      <4>1. CASE \E q \in DOMAIN dec : dec[q] = "open"
        BY <1>0, <1>6, <4>1 DEF Approve, Amendment
      <4>2. CASE ~\E q \in DOMAIN dec : dec[q] = "open"
        BY <1>0, <1>6, <4>2 DEF Approve, Amendment, State
      <4> QED BY <4>1, <4>2
    <3> HIDE DEF dec
    <3> QED BY <1>0, <3>1, <3>2
  <2>3. grant' \in [Jobs -> Amendments \cup {NoAmendment}]
    BY <1>6 DEF Approve, TypeOK
  <2> QED BY <1>6, <1>a, <2>2, <2>3 DEF Approve
<1>7. ASSUME NEW a \in Amendments, NEW k \in Kinds \cup {Approval}, Decline(a, k) PROVE TypeOK'
  <2>1. [am[a] EXCEPT !.dec[k] = "answered"] \in Amendment
    BY <1>0 DEF Amendment, Decision
  <2>2. Ends([am[a] EXCEPT !.dec[k] = "answered"], "rejected") \in Amendment
    BY <2>1, EndsEffect DEF State, Closed
  <2>3. am' \in [Amendments -> Amendment]
    BY <1>0, <1>7, <2>2 DEF Decline
  <2> QED BY <1>7, <1>a, <2>3, RevokedType DEF Decline, TypeOK
<1>8. ASSUME NEW a \in Amendments, QueueAtSafeBoundary(a) PROVE TypeOK'
  <2>1. [am[a] EXCEPT !.state = "verifying"] \in Amendment
    BY <1>0 DEF Amendment, State
  <2>2. am' = [am EXCEPT ![a] = [am[a] EXCEPT !.state = "verifying"]]
    BY <1>0, <1>8 DEF QueueAtSafeBoundary
  <2>3. am' \in [Amendments -> Amendment]
    BY <1>0, <2>1, <2>2
  <2>4. grant' \in [Jobs -> Amendments \cup {NoAmendment}]
    BY <1>8 DEF QueueAtSafeBoundary, TypeOK
  <2> QED BY <1>8, <1>a, <2>3, <2>4 DEF QueueAtSafeBoundary
<1>9. ASSUME NEW a \in Amendments, QueueStale(a) \/ Reject(a) PROVE TypeOK'
  <2>1. Ends(am[a], "stale") \in Amendment /\ Ends(am[a], "rejected") \in Amendment
    BY <1>0, EndsEffect DEF State, Closed
  <2>2. Revoked(grant, {a}) \in [Jobs -> Amendments \cup {NoAmendment}]
    BY RevokedType DEF TypeOK
  <2>3. am' \in [Amendments -> Amendment]
    BY <1>0, <1>9, <2>1 DEF QueueStale, Reject
  <2> QED BY <1>9, <1>a, <2>2, <2>3 DEF QueueStale, Reject
<1>10. ASSUME NEW a \in Amendments, QueueRefused(a) PROVE TypeOK'
  BY <1>0, <1>10, <1>a, RefusalType DEF QueueRefused, TypeOK
<1> QED BY <1>1, <1>2, <1>3, <1>4, <1>5, <1>6, <1>7, <1>8, <1>9, <1>10 DEF Request

LEMMA VerifyType == ASSUME TypeOK, Verify \/ Crash PROVE TypeOK'
<1> USE DEF assets, TypeOK
<1>0. am \in [Amendments -> Amendment]
  BY DEF Amendment
<1>1. ASSUME task.of \in Amendments
      PROVE  \A state \in State : Ends(am[task.of], state) \in Amendment
  BY <1>0, <1>1, EndsEffect
<1>2. task.at # "idle" => task.of \in Amendments /\ am[task.of].job \in Jobs
  BY <1>0 DEF Amendment
<1>3. ASSUME NEW a \in Amendments, StartVerification(a) PROVE TypeOK'
  BY <1>3, RevisionAssumption DEF StartVerification
<1>4. CASE VerificationFails
  <2>1. am' \in [Amendments -> Amendment]
    BY <1>0, <1>1, <1>2, <1>4 DEF VerificationFails, State, Closed
  <2> QED BY <1>2, <1>4, <2>1 DEF VerificationFails, FailJob, JobEnds, NoTask, Ended, Amendment
<1>5. CASE VerificationCancelled
  BY <1>2, <1>5 DEF VerificationCancelled, JobEnds, NoTask, Ended
<1>6. CASE RecordVerification
  <2>1. am[task.of].changes \subseteq Revisions
    BY <1>0, <1>2, <1>6 DEF RecordVerification, Amendment
  <2>2. verified' \subseteq Amendments \X Revisions
    BY <1>2, <1>6, <2>1 DEF RecordVerification
  <2> QED BY <1>2, <1>6, <2>2 DEF RecordVerification
<1>7. CASE CheckActivation
  <2>0. task.of \in Amendments
    BY <1>2, <1>7 DEF CheckActivation
  <2>1. CASE UNCHANGED am /\ task'.at \in {"activated", "checked"} /\ task' = [task EXCEPT !.at = task'.at]
             /\ UNCHANGED <<job, grant, thread, assets, crashes>>
    BY <1>2, <1>7, <2>1 DEF CheckActivation
  <2>2. CASE FailJob /\ UNCHANGED <<thread, assets, crashes>>
             /\ am' \in [Amendments -> Amendment]
    BY <1>2, <1>7, <2>2 DEF CheckActivation, FailJob, JobEnds, NoTask, Ended, Amendment
  <2>3. Ends(am[task.of], "stale") \in Amendment
    BY <1>1, <1>2, <1>7 DEF CheckActivation, State, Closed
  <2>4. am' = [am EXCEPT ![task.of] = Ends(am[task.of], "stale")] \/ am' = am
        => am' \in [Amendments -> Amendment]
    BY <1>0, <2>0, <2>3
  <2> QED BY <1>7, <2>1, <2>2, <2>4 DEF CheckActivation
<1>8. CASE ActivateRevisions
  BY <1>2, <1>8 DEF ActivateRevisions
<1>9. CASE MarkActivated
  <2>1. am' \in [Amendments -> Amendment]
    BY <1>0, <1>1, <1>2, <1>9 DEF MarkActivated, State, Closed
  <2> QED BY <1>2, <1>9, <2>1, RevokedType DEF MarkActivated, Amendment
<1>10. CASE RecordValidation
  BY <1>2, <1>10 DEF RecordValidation, Current
<1>11. CASE Succeed
  BY <1>2, <1>11 DEF Succeed, JobEnds, NoTask, Ended
<1>12. CASE Crash
  <2>1. crashes' \in 0 .. MaxCrashes
    BY <1>12, RevisionAssumption DEF Crash
  <2> QED BY <1>2, <1>12, <2>1 DEF Crash, Serving
<1> QED BY <1>3, <1>4, <1>5, <1>6, <1>7, <1>8, <1>9, <1>10, <1>11, <1>12 DEF Verify

THEOREM AmendmentsTypeCorrect == Spec => []TypeOK
<1>1. TypeOK /\ [Next]_vars => TypeOK'
  <2>1. TypeOK /\ UNCHANGED vars => TypeOK'
    BY DEF TypeOK, vars, assets
  <2> QED BY <2>1, RequestType, VerifyType DEF Next
<1> QED BY <1>1, InitType, PTL DEF Spec

-----------------------------------------------------------------------------
\* What a step does with one amendment: it ends it, it leaves it with its
\* questions, it sends it to its verification, or it does not touch it.
Over(e) == am'[e].state \in Closed /\ \A k \in Kinds \cup {Approval} : am'[e].dec[k] # "open"

Asked(e) ==
    /\ am'[e].state \in {"candidate_ready", "waiting_decision"}
    /\ am'[e].state = "waiting_decision" <=> \E k \in Kinds \cup {Approval} : am'[e].dec[k] = "open"
    /\ \/ am[e].state = "waiting_decision" /\ am'[e].job = am[e].job /\ am'[e].scope = am[e].scope
       \/ thread[am'[e].job][am'[e].scope] = "active"
    /\ UNCHANGED thread

Queued(e) ==
    /\ am[e].state = "candidate_ready"
    /\ am'[e] = [am[e] EXCEPT !.state = "verifying"]
    /\ \A k \in Kinds \cup {Approval} : am[e].dec[k] \in {"none", "applied"}
    /\ UNCHANGED thread

LEMMA AmendmentStep ==
    ASSUME TypeOK, [Next]_vars, NEW e \in Amendments
    PROVE  am'[e] = am[e] \/ Over(e) \/ Asked(e) \/ Queued(e)
<1>0. am \in [Amendments -> Amendment]
  BY DEF TypeOK, Amendment
<1>a. \A a \in Amendments, state \in State :
         \A k \in Kinds \cup {Approval} : Ends(am[a], state).dec[k] # "open"
  BY <1>0, EndsEffect
<1>b. \A a \in Amendments, state \in State : Ends(am[a], state).state = state
  BY <1>0, EndsEffect
<1>c. ASSUME NEW a \in Amendments, NEW state \in Closed,
             am' = [am EXCEPT ![a] = Ends(am[a], state)]
      PROVE  am'[e] = am[e] \/ Over(e)
  BY <1>0, <1>a, <1>b, <1>c DEF Over, State
<1>d. task.at # "idle" => task.of \in Amendments
  BY DEF TypeOK
<1>1. CASE UNCHANGED am
  BY <1>1
<1>2. ASSUME NEW j \in Jobs, NEW s \in Scopes, CreateContextThread(j, s)
      PROVE  am'[e] = am[e] \/ Over(e)
  BY <1>0, <1>2, <1>a, <1>b DEF CreateContextThread, Over, State, Closed
<1>3. ASSUME NEW a \in Amendments, NEW j \in Jobs, NEW s \in Scopes,
             NEW changes \in SUBSET Drafts \ {{}}, NEW kinds \in SUBSET Kinds,
             NEW policy \in Result, CreateAmendment(a, j, s, changes, kinds, policy)
      PROVE  am'[e] = am[e] \/ Over(e) \/ Asked(e)
  <2> DEFINE asked == kinds \cup (IF policy = "approval_required" THEN {Approval} ELSE {})
             dec   == [k \in Kinds \cup {Approval} |-> IF k \in asked THEN "open" ELSE "none"]
             made  == [state |-> IF asked = {} THEN "candidate_ready" ELSE "waiting_decision",
                       job |-> j, scope |-> s, changes |-> changes, policy |-> policy,
                       dec |-> dec]
  <2>1. am' = [am EXCEPT ![a] = IF policy = "denied" THEN Ends(made, "failed") ELSE made]
        /\ UNCHANGED thread /\ thread[j][s] = "active"
    BY <1>3 DEF CreateAmendment
  <2>2. dec \in [Kinds \cup {Approval} -> Decision]
    BY DEF Decision
  <2>3. made \in Amendment
    <3> HIDE DEF dec, asked
    <3> QED BY <2>2 DEF Amendment, State, Drafts
  <2>4. CASE e # a
    BY <1>0, <2>1, <2>4
  <2>5. CASE e = a /\ policy = "denied"
    <3>1. am'[e] = Ends(made, "failed")
      <4> HIDE DEF made
      <4> QED BY <1>0, <2>1, <2>5
    <3>2. "failed" \in State /\ "failed" \in Closed
      BY DEF State, Closed
    <3> HIDE DEF made
    <3> QED BY <2>3, <3>1, <3>2, EndsEffect DEF Over
  <2>6. CASE e = a /\ policy # "denied"
    <3>1. am'[e] = made
      <4> HIDE DEF made
      <4> QED BY <1>0, <2>1, <2>6
    <3>2. (asked # {}) <=> \E k \in Kinds \cup {Approval} : dec[k] = "open"
      OBVIOUS
    <3>3. /\ made.state = IF asked = {} THEN "candidate_ready" ELSE "waiting_decision"
          /\ made.dec = dec /\ made.job = j /\ made.scope = s
      OBVIOUS
    <3> HIDE DEF made, dec, asked
    <3> QED BY <2>1, <3>1, <3>2, <3>3 DEF Asked
  <2> QED BY <2>4, <2>5, <2>6
<1>4. ASSUME NEW a \in Amendments, NEW k \in Kinds \cup {Approval}, Approve(a, k)
      PROVE  am'[e] = am[e] \/ Asked(e)
  <2> DEFINE dec == [am[a].dec EXCEPT ![k] = "applied"]
             state == IF \E q \in DOMAIN dec : dec[q] = "open"
                      THEN am[a].state ELSE "candidate_ready"
  <2>1. am' = [am EXCEPT ![a] = [am[a] EXCEPT !.dec = dec, !.state = state]]
    BY <1>0, <1>4 DEF Approve, Amendment
  <2>2. DOMAIN dec = Kinds \cup {Approval}
    BY <1>0 DEF Amendment
  <2>3. CASE e # a
    BY <1>0, <2>1, <2>3
  <2>4. CASE e = a
    <3>1. /\ am'[e].dec = dec /\ am'[e].state = state
          /\ am'[e].job = am[e].job /\ am'[e].scope = am[e].scope
      <4> HIDE DEF dec, state
      <4> QED BY <1>0, <2>1, <2>4 DEF Amendment
    <3>2. am[e].state = "waiting_decision" /\ UNCHANGED thread
      BY <1>4, <2>4 DEF Approve
    <3>3. state = IF \E q \in Kinds \cup {Approval} : dec[q] = "open"
                  THEN "waiting_decision" ELSE "candidate_ready"
      BY <2>2, <2>4, <3>2
    <3> HIDE DEF dec, state
    <3> QED BY <3>1, <3>2, <3>3 DEF Asked
  <2> QED BY <2>3, <2>4
<1>5. ASSUME NEW a \in Amendments, NEW k \in Kinds \cup {Approval}, Decline(a, k)
      PROVE  am'[e] = am[e] \/ Over(e)
  <2> DEFINE declined == [am[a] EXCEPT !.dec[k] = "answered"]
  <2>1. declined \in Amendment
    BY <1>0 DEF Amendment, Decision
  <2>2. am' = [am EXCEPT ![a] = Ends(declined, "rejected")]
    BY <1>0, <1>5 DEF Decline
  <2>3. "rejected" \in State /\ "rejected" \in Closed
    BY DEF State, Closed
  <2> HIDE DEF declined
  <2> QED BY <1>0, <2>1, <2>2, <2>3, EndsEffect DEF Over
<1>6. ASSUME NEW a \in Amendments, QueueAtSafeBoundary(a)
      PROVE  am'[e] = am[e] \/ Queued(e)
  <2>1. am' = [am EXCEPT ![a] = [am[a] EXCEPT !.state = "verifying"]] /\ UNCHANGED thread
    BY <1>0, <1>6 DEF QueueAtSafeBoundary
  <2>2. \A k \in Kinds \cup {Approval} : am[a].dec[k] \in {"none", "applied"}
    BY <1>0, <1>6 DEF QueueAtSafeBoundary, Amendment
  <2> QED BY <1>0, <1>6, <2>1, <2>2 DEF QueueAtSafeBoundary, Queued
<1>7. ASSUME NEW a \in Amendments, QueueStale(a) \/ Reject(a)
      PROVE  am'[e] = am[e] \/ Over(e)
  BY <1>0, <1>7, <1>c DEF QueueStale, Reject, Closed
<1>8. CASE VerificationFails
  <2>1. CASE am' = [am EXCEPT ![task.of] = Ends(am[task.of], "failed")]
    BY <1>8, <1>c, <1>d, <2>1 DEF VerificationFails, Closed
  <2> QED BY <1>0, <1>8, <2>1 DEF VerificationFails
<1>9. CASE CheckActivation
  <2>1. CASE am' = [am EXCEPT ![task.of] = Ends(am[task.of], "stale")]
    BY <1>9, <1>c, <1>d, <2>1 DEF CheckActivation, Closed
  <2> QED BY <1>0, <1>9, <2>1 DEF CheckActivation
<1>10. CASE MarkActivated
  BY <1>10, <1>c, <1>d DEF MarkActivated, Closed
<1>11. CASE Request
  BY <1>1, <1>2, <1>3, <1>4, <1>5, <1>6, <1>7, <1>11
     DEF Request, CreateAuthoringJob, Cancel, Settle, CreateRevision, QueueRefused
<1>12. CASE Verify \/ Crash
  BY <1>1, <1>8, <1>9, <1>10, <1>12
     DEF Verify, Crash, StartVerification, VerificationCancelled, RecordVerification,
         ActivateRevisions, RecordValidation, Succeed
<1> QED BY <1>1, <1>11, <1>12 DEF Next, vars

-----------------------------------------------------------------------------
\* An amendment that is being verified was decided in full.
DecidedInFull ==
    \A a \in Verifying : \A k \in Kinds \cup {Approval} : am[a].dec[k] \in {"none", "applied"}

\* What holds of the amendments: their decisions and their context follow
\* their state.
AmendmentInv == DecisionsFollow /\ DecidedInFull /\ OpenIsInContext

LEMMA DecisionsOf ==
    ASSUME TypeOK
    PROVE  DecisionsFollow <=>
              \A a \in Amendments : am[a].state = "waiting_decision"
                 <=> \E k \in Kinds \cup {Approval} : am[a].dec[k] = "open"
<1>1. \A a \in Amendments : DOMAIN am[a].dec = Kinds \cup {Approval}
  BY DEF TypeOK
<1> QED BY <1>1 DEF DecisionsFollow, OpenDecs

LEMMA DecidedInFullOf ==
    DecidedInFull <=> \A a \in Amendments : am[a].state = "verifying" =>
        \A k \in Kinds \cup {Approval} : am[a].dec[k] \in {"none", "applied"}
BY DEF DecidedInFull, Verifying

\* An open amendment stays in the active context, unless a change of context
\* ends it.
LEMMA ContextStep ==
    ASSUME TypeOK, OpenIsInContext, [Next]_vars, NEW e \in Amendments, Open(e),
           am'[e].job = am[e].job, am'[e].scope = am[e].scope
    PROVE  Over(e) \/ thread'[am[e].job][am[e].scope] = "active"
<1>0. am \in [Amendments -> Amendment] /\ am[e].job \in Jobs /\ am[e].scope \in Scopes
  BY DEF TypeOK, Amendment
<1>1. CASE UNCHANGED thread
  BY <1>1 DEF OpenIsInContext
<1>2. ASSUME NEW j \in Jobs, NEW s \in Scopes, CreateContextThread(j, s)
      PROVE  Over(e) \/ thread'[am[e].job][am[e].scope] = "active"
  <2>1. CASE am[e].job # j
    BY <1>0, <1>2, <2>1 DEF CreateContextThread, OpenIsInContext, TypeOK
  <2>2. CASE am[e].job = j /\ am[e].scope = s
    BY <1>0, <1>2, <2>2 DEF CreateContextThread, TypeOK
  <2>3. CASE am[e].job = j /\ am[e].scope # s
    <3>1. thread[j][am[e].scope] = "active"
      BY <2>3 DEF OpenIsInContext
    <3>2. am'[e] = Ends(am[e], "stale")
      BY <1>2, <2>3, <3>1 DEF CreateContextThread
    <3>3. "stale" \in State /\ "stale" \in Closed
      BY DEF State, Closed
    <3> QED BY <1>0, <3>2, <3>3, EndsEffect DEF Over
  <2> QED BY <2>1, <2>2, <2>3
<1>3. CASE Request
  <2>1. ASSUME NEW j \in Jobs,
               CreateAuthoringJob(j) \/ Cancel(j) \/ \E o \in Ended \cup {"open"} : Settle(j, o)
        PROVE  UNCHANGED thread
    BY <2>1 DEF CreateAuthoringJob, Cancel, Settle
  <2>2. ASSUME NEW r \in Revisions, CreateRevision(r) PROVE UNCHANGED thread
    BY <2>2 DEF CreateRevision
  <2>3. ASSUME NEW a \in Amendments, NEW j, NEW s, NEW changes, NEW kinds, NEW policy,
               CreateAmendment(a, j, s, changes, kinds, policy)
        PROVE  UNCHANGED thread
    BY <2>3 DEF CreateAmendment
  <2>4. ASSUME NEW a \in Amendments, NEW k, Approve(a, k) \/ Decline(a, k)
        PROVE  UNCHANGED thread
    BY <2>4 DEF Approve, Decline
  <2>5. ASSUME NEW a \in Amendments,
               QueueAtSafeBoundary(a) \/ QueueStale(a) \/ QueueRefused(a) \/ Reject(a)
        PROVE  UNCHANGED thread
    BY <2>5 DEF QueueAtSafeBoundary, QueueStale, QueueRefused, Reject
  <2> QED BY <1>1, <1>2, <1>3, <2>1, <2>2, <2>3, <2>4, <2>5 DEF Request
<1>4. CASE Verify \/ Crash
  BY <1>1, <1>4
     DEF Verify, Crash, StartVerification, VerificationFails, VerificationCancelled,
         RecordVerification, CheckActivation, ActivateRevisions, MarkActivated,
         RecordValidation, Succeed
<1> QED BY <1>1, <1>3, <1>4 DEF Next, vars

LEMMA AmendmentInvStep ==
    ASSUME TypeOK, TypeOK', AmendmentInv, [Next]_vars
    PROVE  AmendmentInv'
<1> DEFINE Follows(e) ==
       /\ am[e].state = "waiting_decision" <=> \E k \in Kinds \cup {Approval} : am[e].dec[k] = "open"
       /\ am[e].state = "verifying" =>
             \A k \in Kinds \cup {Approval} : am[e].dec[k] \in {"none", "applied"}
       /\ Open(e) => thread[am[e].job][am[e].scope] = "active"
<1>1. AmendmentInv <=> \A e \in Amendments : Follows(e)
  BY DecisionsOf, DecidedInFullOf DEF AmendmentInv, OpenIsInContext
<1>2. AmendmentInv' <=> \A e \in Amendments : Follows(e)'
  <2>1. \A a \in Amendments : DOMAIN am'[a].dec = Kinds \cup {Approval}
    BY DEF TypeOK
  <2>2. DecisionsFollow' <=>
           \A a \in Amendments : am'[a].state = "waiting_decision"
              <=> \E k \in Kinds \cup {Approval} : am'[a].dec[k] = "open"
    BY <2>1 DEF DecisionsFollow, OpenDecs
  <2>3. DecidedInFull' <=> \A a \in Amendments : am'[a].state = "verifying" =>
           \A k \in Kinds \cup {Approval} : am'[a].dec[k] \in {"none", "applied"}
    BY DEF DecidedInFull, Verifying
  <2> QED BY <2>2, <2>3 DEF AmendmentInv, OpenIsInContext
<1>3. ASSUME NEW e \in Amendments PROVE Follows(e)'
  <2>0. am \in [Amendments -> Amendment]
    BY DEF TypeOK, Amendment
  <2>1. Follows(e) /\ (Open(e) <=> am[e].state \in {"candidate_ready", "waiting_decision", "verifying"})
    BY <1>1, <2>0 DEF Open, Amendment, State, Closed
  <2>2. Open(e)' <=> am'[e].state \notin Closed \cup {"none"}
    BY DEF Open
  <2>3. CASE Over(e)
    BY <2>2, <2>3 DEF Over, Closed
  <2>4. CASE Asked(e)
    BY <2>1, <2>4 DEF Asked, AmendmentInv, OpenIsInContext
  <2>5. CASE Queued(e)
    <3>1. am'[e].state = "verifying" /\ am'[e].dec = am[e].dec /\ am'[e].job = am[e].job
          /\ am'[e].scope = am[e].scope
      BY <2>0, <2>5 DEF Queued, Amendment
    <3> QED BY <2>1, <2>5, <3>1 DEF Queued
  <2>6. CASE am'[e] = am[e] /\ ~Over(e)
    <3>1. Open(e)' <=> Open(e)
      BY <2>6 DEF Open
    <3>2. Open(e) => thread'[am[e].job][am[e].scope] = "active"
      BY <2>6, ContextStep DEF AmendmentInv
    <3> QED BY <2>1, <2>6, <3>1, <3>2
  <2> QED BY <2>3, <2>4, <2>5, <2>6, AmendmentStep
<1> QED BY <1>2, <1>3

LEMMA AmendmentInvariant == Spec => []AmendmentInv
<1>1. Init => AmendmentInv
  <2> SUFFICES ASSUME Init PROVE AmendmentInv
    OBVIOUS
  <2>1. Blank.state = "none" /\ \A k \in DOMAIN Blank.dec : Blank.dec[k] = "none"
    BY DEF Blank
  <2>2. \A a \in Amendments : am[a] = Blank
    BY DEF Init
  <2> QED BY <2>1, <2>2 DEF AmendmentInv, DecisionsFollow, OpenDecs, DecidedInFull, Verifying,
                           OpenIsInContext, Open
<1> QED BY <1>1, AmendmentInvStep, AmendmentsTypeCorrect, PTL DEF Spec

\* An amendment waits for a decision exactly as long as there is one to take:
\* whatever ends it withdraws its questions with it.
THEOREM DecisionsFollowed == Spec => []DecisionsFollow
BY AmendmentInvariant, PTL DEF AmendmentInv

\* Whatever is still to be decided, verified or activated belongs to the
\* active context of its job.
THEOREM OpenInContext == Spec => []OpenIsInContext
BY AmendmentInvariant, PTL DEF AmendmentInv

-----------------------------------------------------------------------------
\* What the checks of an activation leave behind for the transaction that
\* makes the revisions current: no request comes between the two.
Ready(a) ==
    /\ am[a].state = "verifying" /\ Authorised(a) /\ Fresh(a)
    /\ \A r, s \in am[a].changes : AssetOf[r] = AssetOf[s] => r = s

ActivationInv ==
    /\ task.at \in {"recorded", "checked"} => \A r \in am[task.of].changes : <<task.of, r>> \in verified
    /\ task.at = "checked" => Ready(task.of)

LEMMA RequestsAreServed == Request => Serving /\ UNCHANGED task
<1>1. ASSUME NEW j \in Jobs,
             \/ CreateAuthoringJob(j) \/ Cancel(j)
             \/ \E o \in Ended \cup {"open"} : Settle(j, o)
             \/ \E s \in Scopes : CreateContextThread(j, s)
      PROVE  Serving /\ UNCHANGED task
  BY <1>1 DEF CreateAuthoringJob, Cancel, Settle, CreateContextThread
<1>2. ASSUME NEW r \in Revisions, CreateRevision(r) PROVE Serving /\ UNCHANGED task
  BY <1>2 DEF CreateRevision
<1>3. ASSUME NEW a, NEW j, NEW s, NEW changes, NEW kinds, NEW policy,
             CreateAmendment(a, j, s, changes, kinds, policy)
      PROVE  Serving /\ UNCHANGED task
  BY <1>3 DEF CreateAmendment
<1>4. ASSUME NEW a, NEW k, Approve(a, k) \/ Decline(a, k) PROVE Serving /\ UNCHANGED task
  BY <1>4 DEF Approve, Decline
<1>5. ASSUME NEW a, QueueAtSafeBoundary(a) \/ QueueStale(a) \/ QueueRefused(a) \/ Reject(a)
      PROVE  Serving /\ UNCHANGED task
  BY <1>5 DEF QueueAtSafeBoundary, QueueStale, QueueRefused, Reject
<1> QED BY <1>1, <1>2, <1>3, <1>4, <1>5 DEF Request

LEMMA ActivationInvStep ==
    ASSUME TypeOK, ActivationInv, [Next]_vars
    PROVE  ActivationInv'
<1> USE DEF assets
<1>0. task.at # "idle" => task.of \in Amendments
  BY DEF TypeOK
<1>q. task'.at \notin {"recorded", "checked"} => ActivationInv'
  BY DEF ActivationInv
<1>1. CASE UNCHANGED vars
  BY <1>1 DEF vars, ActivationInv, Ready, Authorised, Fresh, BaseIsCurrent, Current
<1>2. CASE Request
  BY <1>2, <1>q, RequestsAreServed DEF Serving
<1>3. CASE RecordVerification
  BY <1>0, <1>3 DEF RecordVerification, ActivationInv, TypeOK
<1>4. CASE CheckActivation
  <2>1. CASE task' = [task EXCEPT !.at = "checked"] /\ UNCHANGED <<job, am, grant>>
             /\ ~AllCurrent(task.of)
    <3>1. task'.at = "checked" /\ task'.of = task.of
      BY <2>1 DEF TypeOK
    <3>2. Ready(task.of)
      BY <1>4, <2>1, <3>1 DEF CheckActivation, Ready, FailJob, JobEnds, NoTask
    <3>3. Ready(task.of)'
      BY <1>4, <2>1, <3>1, <3>2
         DEF CheckActivation, Ready, Authorised, Fresh, BaseIsCurrent, Current
    <3> QED BY <1>4, <2>1, <3>1, <3>3 DEF CheckActivation, ActivationInv
  <2>2. CASE task'.at \notin {"recorded", "checked"}
    BY <1>q, <2>2
  <2>3. \/ task' = NoTask
        \/ /\ task' = [task EXCEPT !.at = IF AllCurrent(task.of) THEN "activated" ELSE "checked"]
           /\ UNCHANGED <<job, am, grant>>
    BY <1>4 DEF CheckActivation, FailJob, JobEnds
  <2> QED BY <2>1, <2>2, <2>3 DEF NoTask, TypeOK
<1>5. CASE \/ \E a \in Amendments : StartVerification(a)
           \/ VerificationFails \/ VerificationCancelled \/ Succeed
  BY <1>5, <1>q DEF StartVerification, VerificationFails, VerificationCancelled, Succeed, FailJob,
     JobEnds, NoTask
<1>6. CASE ActivateRevisions \/ MarkActivated \/ RecordValidation \/ Crash
  BY <1>6, <1>q DEF ActivateRevisions, MarkActivated, RecordValidation, Crash, TypeOK
<1> QED BY <1>1, <1>2, <1>3, <1>4, <1>5, <1>6 DEF Next, Verify

LEMMA ActivationInvariant == Spec => []ActivationInv
<1>1. Init => ActivationInv
  BY DEF Init, ActivationInv, NoTask
<1> QED BY <1>1, ActivationInvStep, AmendmentsTypeCorrect, PTL DEF Spec

\* Revisions become current in one transaction of an activation only.
LEMMA OnlyActivation ==
    ASSUME TypeOK, [Next]_vars, NEW r \in Revisions, life[r] # "current", life'[r] = "current"
    PROVE  ActivateRevisions
<1> USE DEF assets
<1>1. CASE UNCHANGED life
  BY <1>1
<1>2. ASSUME NEW s \in Revisions, CreateRevision(s) PROVE ActivateRevisions
  BY <1>2 DEF CreateRevision, TypeOK
<1>3. Request => UNCHANGED life \/ \E s \in Revisions : CreateRevision(s)
  <2>1. ASSUME NEW j \in Jobs,
               \/ CreateAuthoringJob(j) \/ Cancel(j)
               \/ \E o \in Ended \cup {"open"} : Settle(j, o)
               \/ \E s \in Scopes : CreateContextThread(j, s)
        PROVE  UNCHANGED life
    BY <2>1 DEF CreateAuthoringJob, Cancel, Settle, CreateContextThread
  <2>2. ASSUME NEW a, NEW j, NEW s, NEW changes, NEW kinds, NEW policy,
               CreateAmendment(a, j, s, changes, kinds, policy)
        PROVE  UNCHANGED life
    BY <2>2 DEF CreateAmendment
  <2>3. ASSUME NEW a, NEW k, Approve(a, k) \/ Decline(a, k) PROVE UNCHANGED life
    BY <2>3 DEF Approve, Decline
  <2>4. ASSUME NEW a, QueueAtSafeBoundary(a) \/ QueueStale(a) \/ QueueRefused(a) \/ Reject(a)
        PROVE  UNCHANGED life
    BY <2>4 DEF QueueAtSafeBoundary, QueueStale, QueueRefused, Reject
  <2> QED BY <2>1, <2>2, <2>3, <2>4 DEF Request
<1>4. Verify \/ Crash => UNCHANGED life \/ ActivateRevisions
  BY DEF Verify, Crash, StartVerification, VerificationFails, VerificationCancelled,
         RecordVerification, CheckActivation, MarkActivated, RecordValidation, Succeed
<1> QED BY <1>1, <1>2, <1>3, <1>4 DEF Next, vars

\* The revisions that an activation makes current.
LEMMA ActivationEffect ==
    ASSUME TypeOK, ActivateRevisions
    PROVE  LET new == am[task.of].changes \ Current
           IN  /\ task.of \in Amendments /\ task.at = "checked" /\ new \subseteq Revisions
               /\ UNCHANGED <<job, am, grant>>
               /\ \A r \in Revisions : life'[r] =
                     IF r \in new THEN "current"
                     ELSE IF life[r] = "current" /\ \E s \in new : AssetOf[s] = AssetOf[r]
                          THEN "superseded" ELSE life[r]
<1>1. task.of \in Amendments
  BY DEF ActivateRevisions, TypeOK
<1>2. am[task.of].changes \subseteq Revisions
  BY <1>1 DEF TypeOK
<1> QED BY <1>1, <1>2 DEF ActivateRevisions

\* Of two candidates made from one revision, the second to be activated is
\* refused: what became current in between is not overwritten.
THEOREM NothingOverwritten == Spec => NothingIsOverwritten
<1>1. TypeOK /\ ActivationInv /\ [Next]_vars =>
         [\A r \in Revisions : life[r] # "current" /\ life'[r] = "current" =>
             IF BaseOf[r] = r THEN \A s \in Current : AssetOf[s] # AssetOf[r]
                              ELSE life[BaseOf[r]] = "current"]_vars
  <2> SUFFICES ASSUME TypeOK, ActivationInv, [Next]_vars,
                      NEW r \in Revisions, life[r] # "current", life'[r] = "current"
               PROVE  IF BaseOf[r] = r THEN \A s \in Current : AssetOf[s] # AssetOf[r]
                                       ELSE life[BaseOf[r]] = "current"
    OBVIOUS
  <2>1. ActivateRevisions
    BY OnlyActivation
  <2>2. r \in am[task.of].changes
    BY <2>1, ActivationEffect
  <2>3. BaseIsCurrent(r)
    BY <2>1, <2>2, ActivationEffect DEF ActivationInv, Ready, Fresh
  <2> QED BY <2>3 DEF BaseIsCurrent
<1> QED BY <1>1, AmendmentsTypeCorrect, ActivationInvariant, PTL DEF Spec, NothingIsOverwritten

\* An activation makes all the revisions of one amendment current that was
\* verified, decided in full and, where its policy asks for it, approved.
THEOREM ActivationGranted == Spec => ActivationIsGranted
<1> DEFINE Granted(r, a) ==
       /\ r \in am[a].changes
       /\ \A s \in am[a].changes : <<a, s>> \in verified /\ life'[s] = "current"
       /\ \A k \in DOMAIN am[a].dec : am[a].dec[k] \in {"none", "applied"}
       /\ job[am[a].job] = "open"
       /\ am[a].policy = "approval_required" => grant[am[a].job] = a
<1>1. TypeOK /\ AmendmentInv /\ ActivationInv /\ [Next]_vars =>
         [\A r \in Revisions : life[r] # "current" /\ life'[r] = "current" =>
             \E a \in Verifying : Granted(r, a)]_vars
  <2> SUFFICES ASSUME TypeOK, AmendmentInv, ActivationInv, [Next]_vars,
                      NEW r \in Revisions, life[r] # "current", life'[r] = "current"
               PROVE  \E a \in Verifying : Granted(r, a)
    OBVIOUS
  <2> DEFINE new == am[task.of].changes \ Current
  <2>1. ActivateRevisions
    BY OnlyActivation
  <2>2. Ready(task.of) /\ \A s \in am[task.of].changes : <<task.of, s>> \in verified
    BY <2>1, ActivationEffect DEF ActivationInv
  <2>3. task.of \in Verifying /\ r \in am[task.of].changes /\ am[task.of].changes \subseteq Revisions
    BY <2>1, <2>2, ActivationEffect DEF Verifying, Ready, TypeOK
  <2>4. ASSUME NEW s \in am[task.of].changes PROVE life'[s] = "current"
    <3>1. s \notin new => life[s] = "current"
      BY <2>3 DEF Current
    <3>2. \A t \in new : AssetOf[t] = AssetOf[s] => t = s
      BY <2>2 DEF Ready
    <3> QED BY <2>1, <2>3, <3>1, <3>2, ActivationEffect
  <2>5. DOMAIN am[task.of].dec = Kinds \cup {Approval}
    BY <2>3 DEF TypeOK, Verifying
  <2>6. \A k \in DOMAIN am[task.of].dec : am[task.of].dec[k] \in {"none", "applied"}
    BY <2>3, <2>5 DEF AmendmentInv, DecidedInFull
  <2>7. job[am[task.of].job] = "open"
        /\ (am[task.of].policy = "approval_required" => grant[am[task.of].job] = task.of)
    BY <2>2 DEF Ready, Authorised
  <2> QED BY <2>2, <2>3, <2>4, <2>6, <2>7
<1> QED BY <1>1, AmendmentsTypeCorrect, AmendmentInvariant, ActivationInvariant, PTL
        DEF Spec, ActivationIsGranted

-----------------------------------------------------------------------------
\* An asset has one current revision: an activation that cannot tell which of
\* two revisions of one asset it makes current is refused by its checks.
CurrentIsUnique == \A r, s \in Current : AssetOf[r] = AssetOf[s] => r = s

THEOREM OneCurrentRevision == Spec => []CurrentIsUnique
<1>1. Init => CurrentIsUnique
  BY RevisionAssumption DEF Init, CurrentIsUnique, Current
<1>2. TypeOK /\ ActivationInv /\ CurrentIsUnique /\ [Next]_vars => CurrentIsUnique'
  <2> SUFFICES ASSUME TypeOK, ActivationInv, CurrentIsUnique, [Next]_vars,
                      NEW r \in Revisions, NEW s \in Revisions,
                      life'[r] = "current", life'[s] = "current", AssetOf[r] = AssetOf[s]
               PROVE  r = s
    BY DEF CurrentIsUnique, Current
  <2>1. CASE life[r] = "current" /\ life[s] = "current"
    BY <2>1 DEF CurrentIsUnique, Current
  <2>2. CASE life[r] # "current" \/ life[s] # "current"
    <3> DEFINE new == am[task.of].changes \ Current
    <3>1. ActivateRevisions
      BY <2>2, OnlyActivation
    <3>2. \A t, u \in new : AssetOf[t] = AssetOf[u] => t = u
      BY <3>1, ActivationEffect DEF ActivationInv, Ready
    <3>3. \A t \in {r, s} : t \in new \/ ~\E u \in new : AssetOf[u] = AssetOf[t]
      BY <3>1, ActivationEffect
    <3>4. r \in new \/ s \in new
      BY <2>2, <3>1, ActivationEffect
    <3> QED BY <3>2, <3>3, <3>4
  <2> QED BY <2>1, <2>2
<1> QED BY <1>1, <1>2, AmendmentsTypeCorrect, ActivationInvariant, PTL DEF Spec

=============================================================================
