------------------------- MODULE AuthoringJobsProofs -------------------------
(***************************************************************************)
(* Theorems about AuthoringJobs, for any jobs, amendments, outcomes of the  *)
(* agents and numbers of events: no two tasks of a job run, a task that     *)
(* runs has the browser, what is over stays over, and nothing is activated  *)
(* for a job that was cancelled.                                            *)
(*                                                                         *)
(* Base is inductive whatever fails; Whole says in addition what holds as   *)
(* long as no call failed and no death fell between two transactions.       *)
(***************************************************************************)
EXTENDS AuthoringJobs, WellFoundedInduction, TLAPS

BrowserState == {"none", "queued"} \cup Holding \cup GivenBack
AgentStatus  == {"none", "running", "paused"} \cup TERMINAL_AGENT_STATES
ItemStatus   == Unsettled \cup {"confirmed", "cancelled", "terminal_failed"}
Out          == {"calling", "answered", "revoking"}
With         == {"reconciling", "capturing"}
TickAt       == {"idle", "begun", "claiming"} \cup With \cup Out
AnyTask      == Tasks \cup {NoJob}

ItemId  == [kind : Kind, of : Tasks, n : Nat]
Row     == [id : ItemId, status : ItemStatus, done : BOOLEAN]
Browser == [state : BrowserState, seq : Nat, at : Nat]
Tick    == [at : TickAt, item : Nat, of : AnyTask, lifecycle : Lifecycle, seen : AgentStatus]

-----------------------------------------------------------------------------
(***************************************************************************)
(* The least of a set of numbers, and what getAuthoringTask finds.          *)
(***************************************************************************)
LEMMA LeastNumber ==
    ASSUME NEW S \in SUBSET Nat, S # {}
    PROVE  \E x \in S : \A y \in S : x <= y
<1> DEFINE R == OpToRel(<, Nat)
<1>1. IsWellFoundedOn(R, Nat)
  BY NatLessThanWellFounded
<1>2. \A x, y \in Nat : <<x, y>> \in R <=> x < y
  BY DEF OpToRel
<1> HIDE DEF R
<1>3. PICK x \in S : \A y \in S : ~ (<<y, x>> \in R)
  BY <1>1, WFMin
<1>4. \A y \in S : x <= y
  <2> SUFFICES ASSUME NEW y \in S PROVE x <= y
    OBVIOUS
  <2>1. x \in Nat /\ y \in Nat /\ ~(y < x)
    BY <1>2, <1>3
  <2> QED  BY <2>1
<1> QED  BY <1>4

LEMMA MinIn == ASSUME NEW S \in SUBSET Nat, S # {} PROVE Min(S) \in S
  BY LeastNumber DEF Min

LEMMA OfFacts ==
    /\ \A t \in Tasks : Of(t) \in Jobs /\ t \in TasksOf(Of(t))
    /\ \A j \in Jobs : j \in Tasks /\ Of(j) = j
    /\ \A a \in Amendments : a \in Tasks /\ a \notin Jobs /\ Of(a) = JobOf[a] /\ a \in Nat
    /\ \A j \in Jobs : \A t \in TasksOf(j) : t \in Tasks /\ Of(t) = j
    /\ NoJob \notin Tasks
  BY JobAssumption, NumberAssumption DEF Of, Tasks, TasksOf, AmendmentsOf

LEMMA FoundFacts ==
    ASSUME NEW j \in Jobs, NEW s, NEW t \in Found(j, s)
    PROVE  /\ t \in Tasks /\ Of(t) = j /\ task[t] = s
           /\ browser[j].state = "active" /\ browser[j].at # 0
<1> DEFINE found == {u \in TasksOf(j) : task[u] = s}
<1>1. found # {} /\ browser[j].state = "active" /\ browser[j].at # 0
      /\ Found(j, s) = IF j \in found THEN {j} ELSE {Min(found)}
  BY DEF Found
<1>2. CASE j \in found
  BY <1>1, <1>2, OfFacts
<1>3. CASE j \notin found
  <2>1. found \subseteq Nat
    BY <1>3, OfFacts DEF TasksOf, AmendmentsOf
  <2>2. Min(found) \in found
    BY <1>1, <2>1, MinIn
  <2> QED  BY <1>1, <1>3, <2>2, OfFacts
<1> QED  BY <1>2, <1>3

-----------------------------------------------------------------------------
(***************************************************************************)
(* The outbox.  A step leaves the ids of its rows, adds rows of which there *)
(* was none, and opens none that was settled.                               *)
(***************************************************************************)
Continues(q, p) ==
    /\ p \in Seq(Row) /\ DOMAIN q \subseteq DOMAIN p
    /\ \A i \in DOMAIN q : /\ p[i].id = q[i].id
                           /\ p[i].status \in Unsettled => q[i].status \in Unsettled
    /\ \A i \in DOMAIN p \ DOMAIN q : \A k \in DOMAIN p : p[k].id = p[i].id => k = i

\* ... and only the row at i and the revocations take another status; what is
\* new is pending, and one of N.
Kept(q, p, k) ==
    \/ q[k].id.kind = "policy_revoke" \/ p[k].status = q[k].status
    \/ q[k].status = "dispatching" /\ p[k].status = "recovered"
Box(q, p, i, N) ==
    /\ Continues(q, p)
    /\ \A k \in DOMAIN q \ {i} : Kept(q, p, k)
    /\ \A k \in DOMAIN p \ DOMAIN q :
          p[k].id \in N /\ (p[k].status = "pending" \/ p[k].id.kind = "policy_revoke")

Quiet(q) == \A k \in DOMAIN q : q[k].status # "dispatching"

LEMMA BoxSame == ASSUME NEW q \in Seq(Row), NEW i, NEW N PROVE Box(q, q, i, N)
  BY DEF Box, Continues, Kept

LEMMA BoxThen ==
    ASSUME NEW q \in Seq(Row), NEW p, NEW o, NEW i \in DOMAIN q \cup {0}, NEW N,
           Box(q, p, i, N), Box(p, o, i, N)
    PROVE  Box(q, o, i, N)
<1>1. Continues(q, o)
  <2>1. ASSUME NEW k \in DOMAIN o \ DOMAIN q, NEW m \in DOMAIN o, o[m].id = o[k].id PROVE m = k
    BY <2>1 DEF Box, Continues
  <2> QED  BY <2>1 DEF Box, Continues
<1>2. DOMAIN q \subseteq DOMAIN p /\ p \in Seq(Row)
  BY DEF Box, Continues
<1>3. \A k \in DOMAIN p \ DOMAIN q : k # i
  BY <1>2
<1>4. \A k \in DOMAIN p : k \in DOMAIN o /\ o[k].id = p[k].id
  BY DEF Box, Continues
<1>5. ASSUME NEW k \in DOMAIN q \ {i} PROVE Kept(q, o, k)
  BY <1>2, <1>4 DEF Box, Continues, Kept
<1>6. ASSUME NEW k \in DOMAIN o \ DOMAIN q
      PROVE o[k].id \in N /\ (o[k].status = "pending" \/ o[k].id.kind = "policy_revoke")
  BY <1>2, <1>3, <1>4, <1>6 DEF Box, Kept
<1> QED  BY <1>1, <1>5, <1>6 DEF Box

LEMMA BoxEnqueued ==
    ASSUME NEW q \in Seq(Row), NEW id \in ItemId, NEW i, NEW N, id \in N
    PROVE  LET p == Enqueue(q, id)
           IN  /\ Box(q, p, i, N) /\ p \in Seq(Row) /\ (Quiet(q) => Quiet(p))
               /\ \A k \in DOMAIN q : k \in DOMAIN p /\ p[k] = q[k]
               /\ \A k \in DOMAIN p \ DOMAIN q : p[k].id = id /\ p[k].status = "pending"
               /\ \E k \in DOMAIN p : p[k].id = id
<1> DEFINE new == [id |-> id, status |-> "pending", done |-> FALSE]
<1>1. new \in Row /\ new.id = id /\ new.status = "pending"
  BY DEF Row, ItemStatus, Unsettled, AtOnce
<1>2. CASE \E k \in DOMAIN q : q[k].id = id
  BY <1>2, BoxSame DEF Enqueue
<1>3. CASE ~ \E k \in DOMAIN q : q[k].id = id
  <2>1. Enqueue(q, id) = Append(q, new)
    BY <1>3 DEF Enqueue
  <2> HIDE DEF new
  <2>0. Append(q, new) \in Seq(Row)
    BY <1>1
  <2>2. PICK p \in Seq(Row) : p = Append(q, new)
    BY <2>0
  <2>3. /\ \A k \in DOMAIN q : k \in DOMAIN p /\ p[k] = q[k]
        /\ \A k \in DOMAIN p \ DOMAIN q : k = Len(q) + 1 /\ p[k] = new
        /\ Len(q) + 1 \in DOMAIN p /\ p[Len(q) + 1] = new
    BY <1>1, <2>2
  <2>4. Continues(q, p)
    BY <1>1, <1>3, <2>3 DEF Continues
  <2>5. Box(q, p, i, N)
    BY <1>1, <2>3, <2>4 DEF Box, Kept
  <2>6. Quiet(q) => Quiet(p)
    BY <1>1, <2>3 DEF Quiet
  <2> QED  BY <1>1, <2>1, <2>2, <2>3, <2>5, <2>6
<1> QED  BY <1>2, <1>3

LEMMA BoxSettled ==
    ASSUME NEW q \in Seq(Row), NEW i \in DOMAIN q, NEW s \in ItemStatus, NEW N,
           s \in Unsettled => q[i].status \in Unsettled
    PROVE  LET p == Settled(q, i, s)
           IN  /\ Box(q, p, i, N) /\ p \in Seq(Row) /\ DOMAIN p = DOMAIN q
               /\ p[i].status = s /\ \A k \in DOMAIN q \ {i} : p[k] = q[k]
<1>1. q[i] \in Row /\ DOMAIN q = 1 .. Len(q) /\ Len(q) \in Nat
  OBVIOUS
<1> DEFINE x == [q[i] EXCEPT !.status = s]
<1>2. x \in Row /\ x.id = q[i].id /\ x.status = s
  BY <1>1 DEF Row
<1>3. Settled(q, i, s) = [q EXCEPT ![i] = x]
  BY DEF Settled
<1> HIDE DEF x
<1> DEFINE p == [q EXCEPT ![i] = x]
<1>4. DOMAIN p = DOMAIN q /\ p[i] = x /\ \A k \in DOMAIN q \ {i} : p[k] = q[k]
  OBVIOUS
<1>5. p \in Seq(Row)
  BY <1>1, <1>2
<1>6. Box(q, p, i, N)
  <2> HIDE DEF p
  <2> QED  BY <1>2, <1>4, <1>5 DEF Box, Continues, Kept
<1> QED  BY <1>2, <1>3, <1>4, <1>5, <1>6

\* The statuses of several rows written at once.
LEMMA WrittenMany ==
    ASSUME NEW q \in Seq(Row), NEW S, NEW s \in ItemStatus
    PROVE  LET p == [k \in DOMAIN q |-> IF k \in S THEN [q[k] EXCEPT !.status = s] ELSE q[k]]
           IN  /\ p \in Seq(Row) /\ DOMAIN p = DOMAIN q
               /\ \A k \in DOMAIN q : /\ p[k].id = q[k].id
                                      /\ IF k \in S THEN p[k].status = s ELSE p[k] = q[k]
<1> DEFINE p == [k \in DOMAIN q |-> IF k \in S THEN [q[k] EXCEPT !.status = s] ELSE q[k]]
<1>1. DOMAIN q = 1 .. Len(q) /\ Len(q) \in Nat /\ \A k \in DOMAIN q : q[k] \in Row
  OBVIOUS
<1>2. \A k \in DOMAIN q : /\ p[k] \in Row /\ p[k].id = q[k].id
                          /\ IF k \in S THEN p[k].status = s ELSE p[k] = q[k]
  BY <1>1 DEF Row
<1>3. DOMAIN p = DOMAIN q
  OBVIOUS
<1>4. p \in Seq(Row)
  <2>1. p \in [1 .. Len(q) -> Row]
    BY <1>1, <1>2
  <2> HIDE DEF p
  <2> QED  BY <1>1, <2>1
<1> HIDE DEF p
<1> QED  BY <1>2, <1>3, <1>4 DEF p

LEMMA BoxRecovered ==
    ASSUME NEW q \in Seq(Row), NEW i, NEW N
    PROVE  LET p == Recovered(q)
           IN  /\ Box(q, p, i, N) /\ p \in Seq(Row) /\ Quiet(p) /\ DOMAIN p = DOMAIN q
               /\ \A k \in DOMAIN q : p[k].status \in {q[k].status, "recovered"}
<1> DEFINE S == {k \in DOMAIN q : q[k].status = "dispatching"}
<1>1. Recovered(q) =
        [k \in DOMAIN q |-> IF k \in S THEN [q[k] EXCEPT !.status = "recovered"] ELSE q[k]]
  BY DEF Recovered
<1>2. "recovered" \in ItemStatus /\ {"recovered", "dispatching"} \subseteq Unsettled
  BY DEF ItemStatus, Unsettled, AtOnce
<1>3. \A k \in DOMAIN q : k \in S <=> q[k].status = "dispatching"
  OBVIOUS
<1> HIDE DEF S
<1> DEFINE p == [k \in DOMAIN q |-> IF k \in S THEN [q[k] EXCEPT !.status = "recovered"] ELSE q[k]]
<1>4. /\ p \in Seq(Row) /\ DOMAIN p = DOMAIN q
      /\ \A k \in DOMAIN q : /\ p[k].id = q[k].id
                             /\ IF k \in S THEN p[k].status = "recovered" ELSE p[k] = q[k]
  BY <1>2, WrittenMany
<1> HIDE DEF p
<1>5. Recovered(q) = p
  BY <1>1 DEF p
<1>6. Box(q, p, i, N) /\ Quiet(p)
  BY <1>2, <1>3, <1>4 DEF Box, Continues, Kept, Quiet
<1> QED  BY <1>3, <1>4, <1>5, <1>6

-----------------------------------------------------------------------------
(***************************************************************************)
(* The invariant.                                                           *)
(***************************************************************************)
RowTypes ==
    /\ job \in [Jobs -> Lifecycle] /\ task \in [Tasks -> TaskState] /\ am \in [Amendments -> AmState]
    /\ withdrawn \subseteq Amendments /\ leaseLink \subseteq Tasks /\ agentLink \subseteq Tasks
BrowserTypes ==
    /\ browser \in [Jobs -> Browser]
    /\ \A j \in Jobs : browser[j].at \in {0, browser[j].seq}
TickTypes ==
    /\ tick \in Tick /\ tick.item <= Len(outbox)
    /\ tick.at \in Out => tick.item \in DOMAIN outbox
    /\ tick.at \in With => tick.of \in Tasks
WorldTypes ==
    /\ count \in [events : Nat, breaks : Nat, seq : Nat]
    /\ session \in [1 .. MaxSeq -> {"none", "active", "closed"}]
    /\ lease \in [of : AnyTask, in : Nat] /\ (lease.of = NoJob => lease = NoLease)
    /\ agent \in [Tasks -> [status : AgentStatus, version : Nat]]
Types == RowTypes /\ BrowserTypes /\ outbox \in Seq(Row) /\ TickTypes /\ WorldTypes

\* A job has one amendment, of its first task, and verifies no other.
AmendmentOfDone == \A a \in Amendments : am[a] # "none" => task[JobOf[a]] = "succeeded"
OneAmendment ==
    \A a, b \in Amendments : am[a] # "none" /\ am[b] # "none" /\ JobOf[a] = JobOf[b] => a = b
VerifiesAmendment == \A a \in Amendments : task[a] # "none" => am[a] # "none"
NotCreated == \A j \in Jobs : job[j] = "none" => task[j] = "none" /\ browser[j].state = "none"
Family == AmendmentOfDone /\ OneAmendment /\ VerifiesAmendment /\ NotCreated

\* The browser is with one job at a time, and a row is recorded once.
OneHolder == \A j, k \in Jobs : browser[j].state \in Holding /\ browser[k].state \in Holding => j = k
OneRowEach == \A i, k \in DOMAIN outbox : outbox[i].id = outbox[k].id => i = k

\* The row that is out is the one of the tick; a lease that is asked for is
\* for a task that can start at once, and its answer is the lease of that task.
TickRow ==
    /\ tick.at \in Out => outbox[tick.item].status = "dispatching"
    /\ tick.at = "revoking" => outbox[tick.item].id.kind = "lease_create"
    /\ \A i \in DOMAIN outbox : outbox[i].status = "dispatching" =>
          /\ tick.at \in Out
          /\ \/ i = tick.item
             \/ tick.at = "revoking" /\ outbox[i].id = Id("policy_revoke", outbox[tick.item].id.of, 0)
TickLease ==
    tick.at \in Out /\ outbox[tick.item].id.kind = "lease_create" =>
        LET t == outbox[tick.item].id.of
        IN  /\ task[t] = "ready" /\ browser[Of(t)].state = "active"
            /\ tick.at = "answered" => lease.of = t
TickTask == tick.at \in With => task[tick.of] = "running"
TickInv == TickRow /\ TickLease /\ TickTask

\* What a row in the outbox says of the task it is for.
RowOfTask(id, state) ==
    /\ id.kind = "session_create" => id.of \in Jobs
    /\ id.kind = "lease_create" => state # "none" /\ id.n = 0
    /\ id.kind = "close_lease" => state \notin {"none", "ready", "running"}
RowsOfTasks == \A i \in DOMAIN outbox : RowOfTask(outbox[i].id, task[outbox[i].id.of])

Base == Types /\ Family /\ OneHolder /\ OneRowEach /\ TickInv /\ RowsOfTasks

Dead(j) == job[j] \in Ended \cup {"cancelling"}
Open(i) == outbox[i].status \in Unsettled
RowOf(i, j) == i \in DOMAIN outbox /\ Open(i) /\ Of(outbox[i].id.of) = j

\* The session of j is being closed by the row i although j goes on.
Parking(i, j) ==
    /\ outbox[i].id = Id("close_lease", j, browser[j].at) /\ outbox[i].status # "retryable_failed"
    /\ browser[j].state = "active" /\ task[j] = "succeeded" /\ lease.of \in {NoJob, j}
    /\ \A k \in DOMAIN outbox : RowOf(k, j) => outbox[k].id.kind # "lease_create"

LeaseRowOK(i)   == task[outbox[i].id.of] \in {"ready", "blocked"}
SessionRowOK(i, j) ==
    /\ outbox[i].id.of = j /\ outbox[i].id.n = browser[j].seq
    /\ browser[j].state = "acquiring" \/ (browser[j].state = "failed" /\ Dead(j))
CloseRowOK(i, j) == ~HasRunningTask(j) /\ (Dead(j) \/ Parking(i, j))
OpenRowOK(i, j) ==
    /\ outbox[i].id.kind = "lease_create" => LeaseRowOK(i)
    /\ outbox[i].id.kind = "session_create" => SessionRowOK(i, j)
    /\ outbox[i].id.kind \in Closing => CloseRowOK(i, j)

\* A task that runs has the browser, its lease, and a job that goes on.
RunningOK(j) ==
    /\ \A t \in TasksOf(j) : task[t] = "running" =>
          browser[j].state = "active" /\ t \in leaseLink /\ job[j] \notin Ended \cup {"waiting_decision"}
    /\ task[j] = "running" => lease.of \in {NoJob, j}
WaitingOK(j) ==
    job[j] = "waiting_decision" =>
        browser[j].state = "completed" \/ \E i \in DOMAIN outbox : RowOf(i, j) /\ Parking(i, j)
JobWhole(j) == RunningOK(j) /\ WaitingOK(j) /\ \A i \in DOMAIN outbox : RowOf(i, j) => OpenRowOK(i, j)
Whole == \A j \in Jobs : JobWhole(j)

IInv == Base /\ (count.breaks = 0 => Whole)

-----------------------------------------------------------------------------
(***************************************************************************)
(* What a step may do, and what it keeps when it does no more.              *)
(***************************************************************************)
AfterTask(s) ==
    CASE s = "none"    -> {"none", "ready"}
      [] s = "ready"   -> {"ready", "running", "blocked"}
      [] s = "running" -> TaskState \ {"none", "ready"}
      [] OTHER         -> {s}
TaskMoves == \A t \in Tasks : task'[t] \in AfterTask(task[t])

LEMMA AfterFacts ==
    ASSUME NEW s \in TaskState, NEW z \in AfterTask(s)
    PROVE  /\ s \notin {"none"} => z # "none"
           /\ s \notin {"none", "ready", "running"} => z = s
           /\ s = "none" => z \in {"none", "ready"}
           /\ s = "ready" => z \in {"ready", "running", "blocked"}
           /\ z \in TaskState
  BY DEF AfterTask, TaskState

LEMMA SameMoves == ASSUME RowTypes, task' = task PROVE TaskMoves
  BY DEF TaskMoves, RowTypes, AfterTask, TaskState

\* Two tasks of a job of which one is in the works are the same.
LEMMA OneActive ==
    ASSUME Types, Family, NEW t \in Tasks, NEW u \in Tasks, Of(t) = Of(u),
           task[t] \notin {"none", "succeeded"}, task[u] \notin {"none", "succeeded"}
    PROVE  t = u
<1>1. ASSUME NEW a \in Tasks, NEW b \in Tasks, a \in Jobs, b \in Amendments, Of(a) = Of(b),
             task[b] # "none"
      PROVE  task[a] = "succeeded"
  BY <1>1, OfFacts DEF Family, AmendmentOfDone, VerifiesAmendment
<1>2. CASE t \in Jobs /\ u \in Jobs
  BY <1>2, OfFacts
<1>3. CASE t \in Amendments /\ u \in Amendments
  BY <1>3, OfFacts DEF Family, OneAmendment, VerifiesAmendment
<1> QED  BY <1>1, <1>2, <1>3 DEF Tasks

LEMMA FamilyKept ==
    ASSUME Types, Family, TaskMoves,
           \A a \in Amendments : am[a] # "none" => am'[a] # "none",
           \A a \in Amendments : am[a] = "none" /\ am'[a] # "none" =>
               /\ task'[JobOf[a]] = "succeeded"
               /\ \A b \in Amendments \ {a} : JobOf[b] = JobOf[a] => am[b] = "none" /\ am'[b] = "none",
           \A a \in Amendments : task[a] = "none" /\ task'[a] # "none" => am[a] # "none",
           \A j \in Jobs : job'[j] = "none" => /\ job[j] = "none" /\ task'[j] = task[j]
                                               /\ browser'[j].state = browser[j].state
    PROVE  Family'
<1>0. RowTypes
  BY DEF Types
<1>1. AmendmentOfDone'
  <2> SUFFICES ASSUME NEW a \in Amendments, am'[a] # "none" PROVE task'[JobOf[a]] = "succeeded"
    BY DEF AmendmentOfDone
  <2>1. CASE am[a] # "none"
    <3>1. task[JobOf[a]] = "succeeded" /\ JobOf[a] \in Tasks
      BY <2>1, OfFacts DEF Family, AmendmentOfDone
    <3> QED  BY <1>0, <3>1, AfterFacts DEF TaskMoves, RowTypes
  <2> QED  BY <2>1
<1>2. OneAmendment'
  BY DEF Family, OneAmendment
<1>3. VerifiesAmendment'
  BY <1>0, OfFacts, AfterFacts DEF Family, VerifiesAmendment, TaskMoves, RowTypes
<1>4. NotCreated'
  BY DEF Family, NotCreated
<1> QED  BY <1>1, <1>2, <1>3, <1>4 DEF Family

LEMMA OneRowKept ==
    ASSUME outbox \in Seq(Row), OneRowEach, Continues(outbox, outbox')
    PROVE  OneRowEach'
<1> SUFFICES ASSUME NEW i \in DOMAIN outbox', NEW k \in DOMAIN outbox', outbox'[i].id = outbox'[k].id
             PROVE  i = k
  BY DEF OneRowEach
<1> QED  BY DEF Continues, OneRowEach

\* A new row of N agrees with its task.
Agrees(N) == \A id \in N : RowOfTask(id, task'[id.of])

LEMMA RowsKept ==
    ASSUME Types, RowsOfTasks, TaskMoves, NEW i, NEW N, Box(outbox, outbox', i, N), Agrees(N)
    PROVE  RowsOfTasks'
<1> SUFFICES ASSUME NEW k \in DOMAIN outbox'
             PROVE  RowOfTask(outbox'[k].id, task'[outbox'[k].id.of])
  BY DEF RowsOfTasks
<1>1. CASE k \in DOMAIN outbox
  <2>0. outbox[k] \in Row
    BY <1>1 DEF Types
  <2>1. outbox'[k].id = outbox[k].id /\ outbox[k].id.of \in Tasks
        /\ RowOfTask(outbox[k].id, task[outbox[k].id.of])
    BY <1>1, <2>0 DEF Box, Continues, RowsOfTasks, Row, ItemId
  <2>2. task[outbox[k].id.of] \in TaskState /\ task'[outbox[k].id.of] \in AfterTask(task[outbox[k].id.of])
    BY <2>1 DEF TaskMoves, Types, RowTypes
  <2> QED  BY <2>1, <2>2, AfterFacts DEF RowOfTask
<1>2. CASE k \notin DOMAIN outbox
  BY <1>2 DEF Box, Agrees
<1> QED  BY <1>1, <1>2

LEMMA IdleFacts ==
    /\ Idle \in Tick /\ Idle.at = "idle" /\ Idle.item = 0
    /\ Idle.at \notin Out /\ Idle.at \notin With
  BY DEF Idle, Tick, TickAt, Out, With, AnyTask, Lifecycle, AgentStatus

\* The tick rests: nothing is out.
Resting == tick' \in Tick /\ tick'.at \notin Out \cup With /\ tick'.item = 0 /\ Quiet(outbox')

LEMMA BaseKept ==
    ASSUME Base, RowTypes', BrowserTypes', WorldTypes', Family', OneHolder', TaskMoves,
           NEW i, NEW N, Box(outbox, outbox', i, N), Agrees(N), TickTypes', TickInv'
    PROVE  Base'
<1>1. outbox' \in Seq(Row)
  BY DEF Box, Continues
<1>2. OneRowEach' /\ RowsOfTasks'
  BY OneRowKept, RowsKept DEF Base, Types, Box
<1> QED  BY <1>1, <1>2 DEF Base, Types

\* A job whose tasks do not start and whose browser is not handed on keeps
\* what holds of it.
NoStart(j) == \A t \in TasksOf(j) : task'[t] = "running" => task[t] = "running"
BrowserRests(j) ==
    \/ browser'[j] = browser[j]
    \/ /\ browser'[j].seq = browser[j].seq /\ browser'[j].at = browser[j].at
       /\ Dead(j)'
       /\ \/ browser[j].state = "queued" /\ browser'[j].state = "cancelled"
          \/ browser[j].state = "acquiring" /\ browser'[j].state = "failed"
JobGoesOn(j) ==
    /\ Dead(j) => Dead(j)'
    /\ job'[j] # job[j] /\ job'[j] \in Ended \cup {"waiting_decision"} => ~HasRunningTask(j)'
    /\ job'[j] # job[j] /\ job'[j] = "waiting_decision" => WaitingOK(j)'
LeaseRests(j) ==
    \/ lease'.of \in {lease.of, NoJob}
    \/ browser[j].state # "active"
    \/ task[j] # "running" /\ \E k \in DOMAIN outbox : RowOf(k, j) /\ outbox[k].id.kind = "lease_create"
\* the row at i is settled, but not while it closes the session of a job that goes on
RowRests(i, j) ==
    RowOf(i, j) /\ outbox[i].id.kind \in Closing => Dead(j) \/ outbox'[i].status = "dispatching"
NewRowsOK(j) ==
    \A k \in DOMAIN outbox' \ DOMAIN outbox : Of(outbox'[k].id.of) = j =>
        /\ OpenRowOK(k, j)'
        /\ outbox'[k].id.kind = "lease_create" =>
              \A i \in DOMAIN outbox : RowOf(i, j) /\ outbox[i].id.kind \in Closing => Dead(j)

LEMMA OldRow ==
    ASSUME Base, NEW i, NEW N, Box(outbox, outbox', i, N), NEW k \in DOMAIN outbox, NEW j, RowOf(k, j)'
    PROVE  /\ RowOf(k, j) /\ outbox'[k].id = outbox[k].id /\ outbox[k] \in Row
           /\ k = i \/ Kept(outbox, outbox', k)
<1>1. outbox[k] \in Row
  BY DEF Base, Types
<1> QED  BY <1>1 DEF Box, Continues, RowOf, Open

LEMMA ParkingKept ==
    ASSUME Base, TaskMoves, NEW j \in Jobs, browser'[j] = browser[j], LeaseRests(j), NewRowsOK(j),
           NEW i, NEW N, Box(outbox, outbox', i, N), RowRests(i, j),
           NEW k \in DOMAIN outbox, RowOf(k, j), Parking(k, j), ~Dead(j)
    PROVE  RowOf(k, j)' /\ Parking(k, j)'
<1>0. outbox[k] \in Row /\ outbox[k].id.kind = "close_lease" /\ k \in DOMAIN outbox'
      /\ outbox'[k].id = outbox[k].id
  BY DEF Parking, Id, Base, Types, Box, Continues
<1>1. outbox'[k].status \in Unsettled /\ outbox'[k].status # "retryable_failed"
  <2>1. CASE k = i
    BY <1>0, <2>1 DEF RowRests, Closing, Unsettled
  <2>2. CASE k # i
    BY <1>0, <2>2 DEF Box, Kept, RowOf, Open, Parking, Unsettled, AtOnce
  <2> QED  BY <2>1, <2>2
<1>2. task'[j] = "succeeded"
  BY AfterFacts, OfFacts DEF TaskMoves, Parking, Base, Types, RowTypes
<1>3. lease'.of \in {NoJob, j}
  BY DEF LeaseRests, Parking
<1>4. ASSUME NEW m \in DOMAIN outbox', RowOf(m, j)' PROVE outbox'[m].id.kind # "lease_create"
  <2>1. CASE m \in DOMAIN outbox
    BY <1>4, <2>1, OldRow DEF Parking
  <2>2. CASE m \notin DOMAIN outbox
    BY <1>0, <1>4, <2>2 DEF NewRowsOK, RowOf, Closing
  <2> QED  BY <2>1, <2>2
<1> QED  BY <1>0, <1>1, <1>2, <1>3, <1>4 DEF RowOf, Open, Parking

LEMMA JobKept ==
    ASSUME Base, Base', TaskMoves, NEW j \in Jobs, JobWhole(j),
           NoStart(j), BrowserRests(j), JobGoesOn(j), LeaseRests(j), leaseLink \subseteq leaseLink',
           NEW i, NEW N, Box(outbox, outbox', i, N), RowRests(i, j), NewRowsOK(j)
    PROVE  JobWhole(j)'
<1>0. /\ RowTypes /\ RowTypes' /\ \A t \in TasksOf(j) : t \in Tasks /\ Of(t) = j
      /\ j \in TasksOf(j)
  BY OfFacts DEF Base, Types, TasksOf
<1>1. HasRunningTask(j)' => HasRunningTask(j)
  BY <1>0 DEF NoStart, HasRunningTask
<1>2. RunningOK(j)'
  <2>1. ASSUME NEW t \in TasksOf(j), task'[t] = "running"
        PROVE  /\ browser'[j].state = "active" /\ t \in leaseLink'
               /\ job'[j] \notin Ended \cup {"waiting_decision"}
    <3>1. task[t] = "running" /\ browser[j].state = "active" /\ t \in leaseLink
          /\ job[j] \notin Ended \cup {"waiting_decision"}
      BY <2>1 DEF NoStart, JobWhole, RunningOK
    <3>2. HasRunningTask(j)'
      BY <2>1 DEF HasRunningTask
    <3> QED  BY <3>1, <3>2 DEF BrowserRests, JobGoesOn
  <2>2. task'[j] = "running" => lease'.of \in {NoJob, j}
    <3> SUFFICES ASSUME task'[j] = "running" PROVE lease'.of \in {NoJob, j}
      OBVIOUS
    <3>1. task[j] = "running" /\ lease.of \in {NoJob, j} /\ browser[j].state = "active"
      BY <1>0 DEF NoStart, JobWhole, RunningOK
    <3> QED  BY <3>1 DEF LeaseRests
  <2> QED  BY <2>1, <2>2 DEF RunningOK
<1>3. WaitingOK(j)'
  <2> SUFFICES ASSUME job'[j] = "waiting_decision", job[j] = "waiting_decision"
               PROVE  browser'[j].state = "completed" \/ \E k \in DOMAIN outbox' : RowOf(k, j)' /\ Parking(k, j)'
    BY DEF WaitingOK, JobGoesOn
  <2>0. ~Dead(j) /\ ~Dead(j)'
    BY DEF Dead, Ended
  <2>1. CASE browser[j].state = "completed"
    BY <2>1 DEF BrowserRests
  <2>2. CASE browser[j].state # "completed"
    <3>1. PICK k \in DOMAIN outbox : RowOf(k, j) /\ Parking(k, j)
      BY <2>2 DEF JobWhole, WaitingOK
    <3>2. browser'[j] = browser[j]
      BY <2>0 DEF BrowserRests
    <3>3. RowOf(k, j)' /\ Parking(k, j)' /\ k \in DOMAIN outbox'
      BY <2>0, <3>1, <3>2, ParkingKept DEF Box, Continues
    <3> QED  BY <3>3
  <2> QED  BY <2>1, <2>2
<1>4. ASSUME NEW k \in DOMAIN outbox', RowOf(k, j)' PROVE OpenRowOK(k, j)'
  <2>1. CASE k \notin DOMAIN outbox
    BY <1>4, <2>1 DEF NewRowsOK, RowOf
  <2>2. CASE k \in DOMAIN outbox
    <3>1. RowOf(k, j) /\ outbox'[k].id = outbox[k].id /\ outbox[k] \in Row
      BY <1>4, <2>2, OldRow
    <3>2. OpenRowOK(k, j) /\ outbox[k].id.of \in TasksOf(j)
      BY <2>2, <3>1, OfFacts DEF JobWhole, Row, ItemId, RowOf
    <3>3. outbox[k].id.kind = "lease_create" => LeaseRowOK(k)'
      <4>1. task[outbox[k].id.of] \in {"ready", "blocked"}
               => task'[outbox[k].id.of] \in {"ready", "blocked"}
        BY <1>0, <3>2, AfterFacts DEF TaskMoves, RowTypes, NoStart
      <4> QED  BY <3>1, <3>2, <4>1 DEF OpenRowOK, LeaseRowOK
    <3>4. outbox[k].id.kind = "session_create" => SessionRowOK(k, j)'
      BY <3>1, <3>2 DEF OpenRowOK, SessionRowOK, BrowserRests, JobGoesOn
    <3>5. outbox[k].id.kind \in Closing => CloseRowOK(k, j)'
      <4> SUFFICES ASSUME outbox[k].id.kind \in Closing, ~Dead(j)' PROVE ~HasRunningTask(j)' /\ Parking(k, j)'
        BY <1>1, <3>2 DEF OpenRowOK, CloseRowOK
      <4>1. ~HasRunningTask(j) /\ ~Dead(j) /\ Parking(k, j)
        BY <3>2 DEF OpenRowOK, CloseRowOK, JobGoesOn
      <4>2. browser'[j] = browser[j]
        BY DEF BrowserRests
      <4> QED  BY <1>1, <2>2, <3>1, <4>1, <4>2, ParkingKept
    <3> QED  BY <3>1, <3>3, <3>4, <3>5 DEF OpenRowOK
  <2> QED  BY <2>1, <2>2
<1> QED  BY <1>2, <1>3, <1>4 DEF JobWhole

-----------------------------------------------------------------------------
(***************************************************************************)
(* How the invariant is carried over a step: the end of a tick, a step that *)
(* leaves the jobs alone, and one that does not.                            *)
(***************************************************************************)
More == count' \in [events : Nat, breaks : Nat, seq : Nat] /\ count'.breaks >= count.breaks

LEMMA CountFacts ==
    ASSUME WorldTypes
    PROVE  /\ (count' = count \/ Event \/ Break) => More
           /\ Break => count'.breaks # 0
           /\ (count' = count \/ Event) => count'.breaks = count.breaks
<1>1. count.events \in Nat /\ count.breaks \in Nat /\ count.seq \in Nat
      /\ count = [events |-> count.events, breaks |-> count.breaks, seq |-> count.seq]
  BY DEF WorldTypes
<1>2. Event => /\ count' = [events |-> count.events + 1, breaks |-> count.breaks, seq |-> count.seq]
  BY <1>1 DEF Event
<1>3. Break => /\ count' = [events |-> count.events + 1, breaks |-> count.breaks + 1, seq |-> count.seq]
  BY <1>1 DEF Break
<1> QED  BY <1>1, <1>2, <1>3 DEF More

LEMMA RestFacts ==
    ASSUME outbox' \in Seq(Row), Resting
    PROVE  TickTypes' /\ TickInv'
<1>1. Len(outbox') \in Nat
  OBVIOUS
<1> QED  BY <1>1 DEF Resting, TickTypes, TickInv, TickRow, TickLease, TickTask, Quiet, Out, With

\* The outbox is quiet between two calls, and when the row that is out is settled.
LEMMA QuietNow == ASSUME Base, tick.at \notin Out PROVE Quiet(outbox)
  BY DEF Base, TickInv, TickRow, Quiet

LEMMA QuietAfter ==
    ASSUME Base, NEW i \in DOMAIN outbox, NEW s \in ItemStatus \ {"dispatching"},
           tick.at \in Out \ {"revoking"} => i = tick.item
    PROVE  tick.at # "revoking" => Quiet(Settled(outbox, i, s))
<1> SUFFICES ASSUME tick.at # "revoking" PROVE Quiet(Settled(outbox, i, s))
  OBVIOUS
<1>1. outbox \in Seq(Row)
  BY DEF Base, Types
<1>2. \A k \in DOMAIN outbox : outbox[k].status = "dispatching" => tick.at \in Out /\ k = tick.item
  BY DEF Base, TickInv, TickRow
<1> DEFINE p == Settled(outbox, i, s)
<1>3. DOMAIN p = DOMAIN outbox /\ p[i] = [outbox[i] EXCEPT !.status = s]
      /\ \A k \in DOMAIN outbox \ {i} : p[k] = outbox[k]
  BY <1>1 DEF Settled
<1>4. p[i].status = s
  BY <1>1, <1>3 DEF Row
<1> HIDE DEF p
<1>5. Quiet(p)
  BY <1>2, <1>3, <1>4 DEF Quiet
<1> QED  BY <1>5 DEF p

LEMMA EndsBox ==
    ASSUME Base, NEW i \in Nat, NEW N, NEW complete \in BOOLEAN, NEW q, NEW cut, EndsOr(complete, q, cut),
           Box(outbox, q, i, N), Box(outbox, cut, i, N), Quiet(q), i \in DOMAIN outbox \cup {0}
    PROVE  /\ Box(outbox, outbox', i, N) /\ Resting /\ More /\ outbox' \in Seq(Row)
           /\ complete => outbox' = q /\ count' = count
           /\ ~complete => count'.breaks # 0
<1>1. outbox \in Seq(Row) /\ WorldTypes /\ q \in Seq(Row) /\ cut \in Seq(Row)
  BY DEF Base, Types, Box, Continues
<1>2. More /\ (~complete => count'.breaks # 0) /\ (complete => count' = count)
  BY <1>1, CountFacts DEF EndsOr
<1>3. CASE complete
  BY <1>1, <1>2, <1>3, IdleFacts DEF EndsOr, Resting
<1>4. CASE ~complete
  <2>1. i \in DOMAIN cut \cup {0}
    BY DEF Box, Continues
  <2>2. Box(cut, Recovered(cut), i, N) /\ Recovered(cut) \in Seq(Row) /\ Quiet(Recovered(cut))
    BY <1>1, BoxRecovered
  <2>3. Box(outbox, Recovered(cut), i, N)
    BY <1>1, <2>2, BoxThen
  <2> QED  BY <1>1, <1>2, <1>4, <2>2, <2>3, IdleFacts DEF EndsOr, Resting
<1> QED  BY <1>3, <1>4

\* A step that leaves the rows of the jobs, their tasks and the browser alone.
LEMMA StillRows ==
    ASSUME IInv, UNCHANGED <<job, task, am, browser>>, withdrawn' \subseteq Amendments,
           agentLink' \subseteq Tasks, leaseLink' = leaseLink,
           WorldTypes', TickTypes', TickInv', count'.breaks >= count.breaks,
           NEW i, NEW N, Box(outbox, outbox', i, N), Agrees(N),
           count'.breaks = 0 /\ Whole =>
               \A j \in Jobs : LeaseRests(j) /\ RowRests(i, j) /\ NewRowsOK(j)
    PROVE  IInv'
<1>1. /\ RowTypes' /\ BrowserTypes' /\ OneHolder' /\ Family' /\ TaskMoves
  BY SameMoves DEF IInv, Base, Types, RowTypes, BrowserTypes, OneHolder, Family, AmendmentOfDone,
       OneAmendment, VerifiesAmendment, NotCreated
<1>2. OneRowEach' /\ RowsOfTasks' /\ outbox' \in Seq(Row)
  BY <1>1, OneRowKept, RowsKept DEF IInv, Base, Types, Box, Continues
<1>3. Base'
  BY <1>1, <1>2 DEF Base, Types
<1>4. ASSUME count'.breaks = 0 PROVE Whole'
  <2>1. count.breaks = 0 /\ Whole
    BY <1>4 DEF IInv, Base, Types, WorldTypes
  <2>2. ASSUME NEW j \in Jobs PROVE JobWhole(j)'
    <3>1. NoStart(j) /\ BrowserRests(j) /\ JobGoesOn(j) /\ JobWhole(j)
      BY <2>1 DEF NoStart, BrowserRests, JobGoesOn, Whole, Dead
    <3> QED  BY <1>1, <1>3, <1>4, <2>1, <3>1, JobKept DEF IInv
  <2> QED  BY <2>2 DEF Whole
<1> QED  BY <1>3, <1>4 DEF IInv

\* A step that changes jobs: those of J are looked at one by one.
LEMMA Changed ==
    ASSUME IInv, RowTypes', BrowserTypes', WorldTypes', Family', OneHolder', TaskMoves,
           count'.breaks >= count.breaks, leaseLink \subseteq leaseLink',
           NEW i, NEW N, Box(outbox, outbox', i, N), Agrees(N), TickTypes', TickInv',
           NEW J \in SUBSET Jobs,
           count'.breaks = 0 /\ Whole =>
               \A j \in Jobs \ J : /\ NoStart(j) /\ BrowserRests(j) /\ JobGoesOn(j) /\ LeaseRests(j)
                                   /\ RowRests(i, j) /\ NewRowsOK(j),
           count'.breaks = 0 /\ Whole /\ Base' => \A j \in J : JobWhole(j)'
    PROVE  IInv'
<1>1. Base'
  BY BaseKept DEF IInv
<1>2. ASSUME count'.breaks = 0 PROVE Whole'
  <2>1. count.breaks = 0 /\ Whole
    BY <1>2 DEF IInv, Base, Types, WorldTypes
  <2>2. ASSUME NEW j \in Jobs \ J PROVE JobWhole(j)'
    BY <1>1, <1>2, <2>1, JobKept DEF IInv, Whole
  <2> QED  BY <1>1, <1>2, <2>1, <2>2 DEF Whole
<1> QED  BY <1>1, <1>2 DEF IInv

LEMMA Still ==
    ASSUME IInv, UNCHANGED <<job, task, am, browser, outbox, links>>, withdrawn' \subseteq Amendments,
           WorldTypes', TickTypes', TickInv', count'.breaks >= count.breaks,
           count'.breaks = 0 /\ Whole => \A j \in Jobs : LeaseRests(j)
    PROVE  IInv'
<1>1. outbox \in Seq(Row) /\ agentLink' \subseteq Tasks
  BY DEF IInv, Base, Types, RowTypes, links
<1>2. Box(outbox, outbox', 0, {}) /\ Agrees({})
  BY <1>1, BoxSame DEF Agrees
<1>3. ASSUME NEW j \in Jobs PROVE RowRests(0, j) /\ NewRowsOK(j)
  BY <1>1 DEF RowRests, RowOf, NewRowsOK
<1> QED  BY <1>1, <1>2, <1>3, StillRows DEF links

-----------------------------------------------------------------------------
(***************************************************************************)
(* The steps that leave the outbox alone.                                   *)
(***************************************************************************)
LEMMA CountStays == ASSUME WorldTypes, UNCHANGED count PROVE More
  BY CountFacts

LEMMA TickMoves ==
    ASSUME IInv, UNCHANGED <<rows, browser, outbox, links, count, world>>,
           tick' \in Tick, tick'.item = 0, tick.at \notin Out, tick'.at \notin Out,
           tick'.at \in With => tick'.of \in Tasks /\ task[tick'.of] = "running"
    PROVE  IInv'
<1>0. IInv /\ Types /\ Base /\ outbox \in Seq(Row)
  BY DEF IInv, Base, Types
<1>1. WorldTypes' /\ count'.breaks >= count.breaks /\ withdrawn' \subseteq Amendments
      /\ \A j \in Jobs : LeaseRests(j)
  BY <1>0 DEF Types, WorldTypes, RowTypes, world, rows, LeaseRests
<1>2. Len(outbox') \in Nat /\ Quiet(outbox')
  BY <1>0, QuietNow
<1>3. TickTypes'
  BY <1>0, <1>2 DEF TickTypes, rows
<1>4. TickInv'
  BY <1>2 DEF TickInv, TickRow, TickLease, TickTask, Quiet, Out, rows
<1> QED  BY <1>1, <1>3, <1>4, Still DEF rows

LEMMA BeginStep == ASSUME IInv, Begin PROVE IInv'
<1>1. tick' \in Tick /\ tick'.at = "begun" /\ tick'.item = 0
  BY IdleFacts DEF Begin, Tick, TickAt
<1> QED  BY <1>1, TickMoves, IdleFacts DEF Begin, Out, With

LEMMA AskAgentStep == ASSUME IInv, NEW t \in Tasks, AskAgent(t) PROVE IInv'
<1>0. tick \in Tick /\ tick.at = "begun" /\ RowTypes /\ Of(t) \in Jobs /\ job[Of(t)] \in Lifecycle
  BY OfFacts DEF AskAgent, Running, IInv, Base, Types, TickTypes, RowTypes
<1>1. task[t] = "running"
  BY <1>0, FoundFacts DEF AskAgent, Running
<1>2. tick' = [tick EXCEPT !.at = "reconciling", !.of = t, !.lifecycle = job[Of(t)]]
  BY DEF AskAgent
<1>3. tick' \in Tick /\ tick'.at = "reconciling" /\ tick'.item = tick.item /\ tick'.of = t
  BY <1>0, <1>2 DEF Tick, TickAt, With, AnyTask
<1>4. IInv /\ UNCHANGED <<rows, browser, outbox, links, count, world>>
  BY DEF AskAgent
<1>5. /\ WorldTypes' /\ count'.breaks >= count.breaks /\ withdrawn' \subseteq Amendments
      /\ TickTypes' /\ TickInv' /\ \A j \in Jobs : LeaseRests(j)
  BY <1>0, <1>1, <1>3, <1>4 DEF IInv, Base, Types, WorldTypes, RowTypes, world, rows, LeaseRests,
     TickTypes, TickInv, TickRow, TickLease, TickTask, Out, With
<1> QED  BY <1>4, <1>5, Still DEF rows

LEMMA CaptureEvidenceStep == ASSUME IInv, CaptureEvidence PROVE IInv'
<1>0. /\ tick \in Tick /\ tick.at = "reconciling" /\ tick.of \in Tasks /\ task[tick.of] = "running"
      /\ agent \in [Tasks -> [status : AgentStatus, version : Nat]]
  BY DEF CaptureEvidence, Reconciling, IInv, Base, Types, TickTypes, TickInv, TickTask, With, WorldTypes
<1>1. agent[tick.of].status \in AgentStatus
  BY <1>0
<1>2. tick' = [tick EXCEPT !.at = "capturing", !.seen = agent[tick.of].status]
  BY DEF CaptureEvidence
<1>3. tick' \in Tick /\ tick'.at = "capturing" /\ tick'.item = tick.item /\ tick'.of = tick.of
  BY <1>0, <1>1, <1>2 DEF Tick, TickAt, With
<1>4. IInv /\ UNCHANGED <<rows, browser, outbox, links, count, world>>
  BY DEF CaptureEvidence
<1>5. /\ WorldTypes' /\ count'.breaks >= count.breaks /\ withdrawn' \subseteq Amendments
      /\ TickTypes' /\ TickInv' /\ \A j \in Jobs : LeaseRests(j)
  BY <1>0, <1>3, <1>4 DEF IInv, Base, Types, WorldTypes, RowTypes, world, rows, LeaseRests,
     TickTypes, TickInv, TickRow, TickLease, TickTask, Out, With
<1> QED  BY <1>4, <1>5, Still DEF rows

LEMMA NothingToDoStep == ASSUME IInv, NothingToDo PROVE IInv'
<1>1. tick.at \notin Out /\ UNCHANGED <<rows, browser, outbox, links, count, world>> /\ tick' = Idle
  BY DEF NothingToDo, NothingDue, Claims, Out, EndOfTick, Rest, rows
<1> QED  BY <1>1, TickMoves, IdleFacts

LEMMA WithdrawStep == ASSUME IInv, NEW a \in Amendments, Withdraw(a) PROVE IInv'
<1>0. WorldTypes /\ Event /\ UNCHANGED <<job, task, am, browser, outbox, links, tick, world>>
      /\ withdrawn' = withdrawn \cup {a} /\ withdrawn \subseteq Amendments
  BY DEF IInv, Base, Types, RowTypes, Withdraw
<1>1. More
  BY <1>0, CountFacts
<1>2. /\ WorldTypes' /\ withdrawn' \subseteq Amendments /\ TickTypes' /\ TickInv'
      /\ \A j \in Jobs : LeaseRests(j)
  BY <1>0, <1>1 DEF More, IInv, Base, Types, WorldTypes, world, LeaseRests,
     TickTypes, TickInv, TickRow, TickLease, TickTask
<1> QED  BY <1>0, <1>1, <1>2, Still DEF More

\* A step of the other services.
LEMMA WorldMoves ==
    ASSUME IInv, UNCHANGED <<rows, browser, outbox, links, count>>, WorldTypes',
           tick' = tick \/ (tick.at = "calling" /\ tick' = [tick EXCEPT !.at = "answered"]),
           tick'.at = "answered" /\ outbox[tick.item].id.kind = "lease_create" =>
               lease'.of = outbox[tick.item].id.of,
           count.breaks = 0 /\ Whole => \A j \in Jobs : LeaseRests(j)
    PROVE  IInv'
<1>0. tick \in Tick /\ outbox' = outbox /\ task' = task /\ browser' = browser
      /\ TickTypes /\ TickInv /\ WorldTypes
  BY DEF IInv, Base, Types, TickTypes, rows
<1>1. /\ tick'.item = tick.item /\ tick'.of = tick.of /\ tick' \in Tick
      /\ tick'.at = tick.at \/ (tick'.at = "answered" /\ tick.at = "calling")
  BY <1>0 DEF Tick, TickAt, Out
<1>2. TickTypes'
  BY <1>0, <1>1 DEF TickTypes, Out, With
<1>3. TickRow'
  <2>2. CASE tick.at = "calling" /\ tick'.at = "answered"
    BY <2>2, <1>0, <1>1 DEF TickInv, TickRow, Out
  <2>3. CASE tick'.at = tick.at
    BY <2>3, <1>0, <1>1 DEF TickInv, TickRow, Out
  <2> QED  BY <1>1, <2>2, <2>3
<1>4. TickLease' /\ TickTask'
  BY <1>0, <1>1 DEF TickInv, TickLease, TickTask, Out, With
<1>5. count'.breaks >= count.breaks /\ withdrawn' \subseteq Amendments
  BY DEF IInv, Base, Types, RowTypes, WorldTypes, rows
<1> QED  BY <1>2, <1>3, <1>4, <1>5, Still DEF rows, TickInv

LEMMA RowFacts ==
    ASSUME Base, NEW i \in DOMAIN outbox
    PROVE  /\ outbox[i] \in Row /\ outbox[i].id.of \in Tasks /\ outbox[i].id.n \in Nat
           /\ outbox[i].id.kind \in Kind /\ outbox[i].id \in ItemId /\ Of(outbox[i].id.of) \in Jobs
           /\ RowOfTask(outbox[i].id, task[outbox[i].id.of])
<1>1. outbox[i] \in Row
  BY DEF Base, Types
<1> QED  BY <1>1, OfFacts DEF Row, ItemId, Base, RowsOfTasks

LEMMA CallingFacts ==
    ASSUME Base, tick.at \in Out
    PROVE  /\ tick.item \in DOMAIN outbox /\ tick.item \in Nat /\ Item = outbox[tick.item] /\ Open(tick.item)
           /\ Item.status = "dispatching"
  BY DEF Base, Types, TickTypes, Tick, TickInv, TickRow, Item, Open, Unsettled

LEMMA SessionOpensStep == ASSUME IInv, SessionOpens PROVE IInv'
<1>0. Base /\ WorldTypes /\ tick.at = "calling" /\ tick' = [tick EXCEPT !.at = "answered"]
      /\ UNCHANGED <<rows, browser, outbox, links, count, lease, agent>>
      /\ outbox[tick.item].id.kind = "session_create"
  BY DEF SessionOpens, Calling, Answers, IInv, Base, Types, Item
<1>1. WorldTypes'
  BY <1>0 DEF WorldTypes, SessionOpens
<1> QED  BY <1>0, <1>1, WorldMoves DEF LeaseRests

LEMMA LeaseIssuedStep == ASSUME IInv, LeaseIssued PROVE IInv'
<1> DEFINE t == Item.id.of
<1>0. Base /\ WorldTypes /\ tick.at = "calling" /\ tick' = [tick EXCEPT !.at = "answered"]
      /\ UNCHANGED <<rows, browser, outbox, links, count, session, agent>>
      /\ outbox[tick.item].id.kind = "lease_create" /\ lease' = LeaseFor(t) /\ tick.at \in Out
  BY DEF LeaseIssued, Calling, Answers, IInv, Base, Types, Item, Out
<1>1. /\ t = outbox[tick.item].id.of /\ t \in Tasks /\ Of(t) \in Jobs /\ tick.item \in DOMAIN outbox
      /\ Open(tick.item)
  BY <1>0, CallingFacts, RowFacts
<1>2. task[t] = "ready" /\ browser[Of(t)].state = "active"
  BY <1>0, <1>1 DEF Base, TickInv, TickLease
<1>3. browser[Of(t)].at \in Nat
  BY <1>1 DEF IInv, Base, Types, BrowserTypes, Browser
<1>4. lease' = [of |-> t, in |-> browser[Of(t)].at]
  BY <1>0 DEF LeaseFor
<1>5. WorldTypes'
  BY <1>0, <1>1, <1>3, <1>4, OfFacts DEF WorldTypes, AnyTask
<1>6. lease'.of = outbox[tick.item].id.of
  BY <1>1, <1>4
<1> HIDE DEF t
<1>7. ASSUME NEW j \in Jobs PROVE LeaseRests(j)
  <2>1. CASE j = Of(t)
    <3>1. RowOf(tick.item, j)
      BY <1>1, <2>1 DEF RowOf
    <3>2. task[j] # "running"
      <4> SUFFICES ASSUME task[j] = "running" PROVE FALSE
        OBVIOUS
      <4>1. j \in Tasks /\ Of(j) = Of(t)
        BY <2>1, OfFacts
      <4>2. j = t
        BY <1>0, <1>1, <1>2, <4>1, OneActive DEF Base
      <4> QED  BY <1>2, <4>2
    <3> QED  BY <1>0, <1>1, <3>1, <3>2 DEF LeaseRests
  <2>2. CASE j # Of(t)
    <3>1. browser[j].state # "active"
      BY <1>0, <1>1, <1>2, <2>2 DEF Base, OneHolder, Holding
    <3> QED  BY <3>1 DEF LeaseRests
  <2> QED  BY <2>1, <2>2
<1> QED  BY <1>0, <1>5, <1>6, <1>7, WorldMoves

LEMMA AgentCreatedStep == ASSUME IInv, AgentCreated PROVE IInv'
<1>0. Base /\ WorldTypes /\ tick.at = "calling" /\ tick' = [tick EXCEPT !.at = "answered"]
      /\ UNCHANGED <<rows, browser, outbox, links, count, session, lease>>
      /\ outbox[tick.item].id.kind = "agent_create" /\ Item.id.of \in Tasks
  BY CallingFacts, RowFacts DEF AgentCreated, Calling, Answers, IInv, Base, Types, Item, Out
<1>1. agent' = [agent EXCEPT ![Item.id.of] = IF @.status # "none" THEN @
                                     ELSE [status |-> "running", version |-> 1]]
  BY DEF AgentCreated
<1>2. "running" \in AgentStatus
  BY DEF AgentStatus
<1>3. agent' \in [Tasks -> [status : AgentStatus, version : Nat]]
  BY <1>0, <1>1, <1>2 DEF WorldTypes
<1>4. WorldTypes'
  BY <1>0, <1>3 DEF WorldTypes
<1> QED  BY <1>0, <1>4, WorldMoves DEF LeaseRests

LEMMA SessionClosesStep == ASSUME IInv, SessionCloses PROVE IInv'
<1>0. Base /\ WorldTypes /\ tick.at = "calling" /\ tick' = [tick EXCEPT !.at = "answered"]
      /\ UNCHANGED <<rows, browser, outbox, links, count, agent>> /\ lease' \in {lease, NoLease}
      /\ outbox[tick.item].id.kind # "lease_create"
  BY DEF SessionCloses, Calling, Answers, IInv, Base, Types, Item, Closing
<1>1. session' \in [1 .. MaxSeq -> {"none", "active", "closed"}]
  BY <1>0 DEF SessionCloses, WorldTypes
<1>2. lease'.of \in {lease.of, NoJob} /\ lease' \in [of : AnyTask, in : Nat]
      /\ (lease'.of = NoJob => lease' = NoLease)
  BY <1>0 DEF WorldTypes, NoLease, AnyTask
<1>3. WorldTypes'
  BY <1>0, <1>1, <1>2 DEF WorldTypes, NoLease
<1> QED  BY <1>0, <1>2, <1>3, WorldMoves DEF LeaseRests

LEMMA LeaseRevokedStep == ASSUME IInv, LeaseRevoked PROVE IInv'
<1>0. Base /\ WorldTypes /\ tick.at = "calling" /\ tick' = [tick EXCEPT !.at = "answered"]
      /\ UNCHANGED <<rows, browser, outbox, links, count, session, agent>> /\ lease' \in {lease, NoLease}
      /\ outbox[tick.item].id.kind # "lease_create"
  BY DEF LeaseRevoked, Calling, Answers, IInv, Base, Types, Item
<1>2. lease'.of \in {lease.of, NoJob} /\ lease' \in [of : AnyTask, in : Nat]
      /\ (lease'.of = NoJob => lease' = NoLease)
  BY <1>0 DEF WorldTypes, NoLease, AnyTask
<1>3. WorldTypes'
  BY <1>0, <1>2 DEF WorldTypes, NoLease
<1> QED  BY <1>0, <1>2, <1>3, WorldMoves DEF LeaseRests

LEMMA LeaseExpiresStep == ASSUME IInv, LeaseExpires PROVE IInv'
<1>0. Base /\ WorldTypes /\ tick.at # "answered" /\ tick' = tick
      /\ UNCHANGED <<rows, browser, outbox, links, count, session, agent>> /\ lease' = NoLease
  BY DEF LeaseExpires, IInv, Base, Types
<1>2. lease'.of = NoJob /\ lease' \in [of : AnyTask, in : Nat]
  BY <1>0 DEF NoLease, AnyTask
<1>3. WorldTypes'
  BY <1>0, <1>2 DEF WorldTypes, NoLease
<1> QED  BY <1>0, <1>2, <1>3, WorldMoves DEF LeaseRests

LEMMA AgentEndedStep == ASSUME IInv, NEW t \in Tasks, AgentEnded(t) PROVE IInv'
<1>0. /\ Base /\ WorldTypes /\ tick' = tick
      /\ UNCHANGED <<rows, browser, outbox, links, count, session, lease>>
  BY DEF AgentEnded, IInv, Base, Types
<1>1. PICK s \in AgentEnds :
         agent' = [agent EXCEPT ![t] = [status |-> s, version |-> @.version + 1]]
  BY DEF AgentEnded
<1>2. s \in AgentStatus
  BY AgentAssumption DEF AgentStatus
<1>3. agent' \in [Tasks -> [status : AgentStatus, version : Nat]]
  BY <1>0, <1>1, <1>2 DEF WorldTypes
<1>4. WorldTypes'
  BY <1>0, <1>3 DEF WorldTypes
<1>5. tick.at = "answered" /\ outbox[tick.item].id.kind = "lease_create"
        => lease.of = outbox[tick.item].id.of
  BY <1>0 DEF Base, TickInv, TickLease, Out
<1> QED  BY <1>0, <1>4, <1>5, WorldMoves DEF LeaseRests

-----------------------------------------------------------------------------
(***************************************************************************)
(* The steps that write the outbox only.                                    *)
(***************************************************************************)
LEMMA OutboxMoves ==
    ASSUME IInv, UNCHANGED <<rows, browser, leaseLink, world>>, agentLink' \subseteq Tasks, More,
           NEW i, NEW N, Box(outbox, outbox', i, N), Agrees(N), Resting,
           count'.breaks = 0 /\ Whole => \A j \in Jobs : RowRests(i, j) /\ NewRowsOK(j)
    PROVE  IInv'
<1>1. outbox' \in Seq(Row) /\ WorldTypes' /\ withdrawn' \subseteq Amendments
  BY DEF Box, Continues, IInv, Base, Types, RowTypes, WorldTypes, More, rows, world
<1>2. TickTypes' /\ TickInv'
  BY <1>1, RestFacts
<1>3. \A j \in Jobs : LeaseRests(j)
  BY DEF LeaseRests, world
<1> QED  BY <1>1, <1>2, <1>3, StillRows DEF More, rows

LEMMA NoNewRows == ASSUME DOMAIN outbox' = DOMAIN outbox, NEW j PROVE NewRowsOK(j)
  BY DEF NewRowsOK

\* A row is settled, and that is all.
LEMMA SettledOnly ==
    ASSUME IInv, UNCHANGED <<rows, browser, leaseLink, world>>, agentLink' \subseteq Tasks, More,
           NEW i \in DOMAIN outbox, NEW s \in ItemStatus \ {"dispatching"}, s \in Unsettled => Open(i),
           outbox' = Settled(outbox, i, s), tick' = Idle, tick.at # "revoking",
           tick.at \in Out => i = tick.item,
           count'.breaks = 0 /\ Whole => \A j \in Jobs : RowRests(i, j)
    PROVE  IInv'
<1>0. Base /\ outbox \in Seq(Row)
  BY DEF IInv, Base, Types
<1>1. Box(outbox, outbox', i, {}) /\ DOMAIN outbox' = DOMAIN outbox /\ Agrees({})
  BY <1>0, BoxSettled DEF Agrees, Open
<1>2. Resting
  BY <1>0, QuietAfter, IdleFacts DEF Resting
<1> QED  BY <1>1, <1>2, NoNewRows, OutboxMoves

LEMMA NotClosing ==
    ASSUME NEW i, outbox[i].id.kind \notin Closing PROVE \A j \in Jobs : RowRests(i, j)
  BY DEF RowRests

LEMMA DueFacts ==
    ASSUME Base, NEW i \in DOMAIN outbox, Due(i)
    PROVE  Open(i) /\ tick.at \notin Out /\ Quiet(outbox) /\ i \in Nat
<1>1. tick.at \notin Out
  BY DEF Due, Claims, Out
<1> QED  BY <1>1, QuietNow DEF Due, Open, Unsettled, AtOnce, Base, Types

LEMMA LinkTypes == ASSUME IInv PROVE agentLink \subseteq Tasks /\ leaseLink \subseteq Tasks /\ WorldTypes
  BY DEF IInv, Base, Types, RowTypes

LEMMA DispatchStaleStep == ASSUME IInv, NEW i \in DOMAIN outbox, DispatchStale(i) PROVE IInv'
<1>0. Base /\ agentLink' \subseteq Tasks /\ More
      /\ UNCHANGED <<rows, browser, leaseLink, world>>
  BY LinkTypes, CountStays DEF DispatchStale, IInv, links
<1>1. "cancelled" \in ItemStatus \ {"dispatching"} /\ "cancelled" \notin Unsettled
  BY DEF ItemStatus, Unsettled, AtOnce
<1>2. \A j \in Jobs : RowRests(i, j)
  BY NotClosing DEF DispatchStale, Closing
<1>3. tick.at \notin Out
  BY <1>0, DueFacts DEF DispatchStale
<1> QED  BY <1>0, <1>1, <1>2, <1>3, SettledOnly DEF DispatchStale, Out

LEMMA DispatchStep == ASSUME IInv, NEW i \in DOMAIN outbox, Dispatch(i) PROVE IInv'
<1>0. Base /\ outbox \in Seq(Row) /\ agentLink' \subseteq Tasks
      /\ UNCHANGED <<rows, browser, leaseLink, world, count>> /\ leaseLink' = leaseLink
      /\ tick' = [Idle EXCEPT !.at = "calling", !.item = i]
      /\ Open(i) /\ Quiet(outbox) /\ i \in Nat /\ WorldTypes
  BY LinkTypes, DueFacts DEF Dispatch, IInv, Base, Types, links
<1>1. "dispatching" \in ItemStatus
  BY DEF ItemStatus, Unsettled
<1>2. /\ Box(outbox, outbox', i, {}) /\ DOMAIN outbox' = DOMAIN outbox /\ Agrees({})
      /\ outbox'[i].status = "dispatching" /\ \A k \in DOMAIN outbox \ {i} : outbox'[k] = outbox[k]
      /\ outbox' \in Seq(Row) /\ outbox'[i].id = outbox[i].id
  <2>1. outbox' = Settled(outbox, i, "dispatching") /\ outbox[i].status \in Unsettled
    BY <1>0 DEF Dispatch, Open
  <2>2. /\ Box(outbox, outbox', i, {}) /\ DOMAIN outbox' = DOMAIN outbox /\ outbox' \in Seq(Row)
        /\ outbox'[i].status = "dispatching" /\ \A k \in DOMAIN outbox \ {i} : outbox'[k] = outbox[k]
    BY <1>0, <1>1, <2>1, BoxSettled
  <2> QED  BY <2>2 DEF Agrees, Box, Continues
<1>3. tick' \in Tick /\ tick'.at = "calling" /\ tick'.item = i
  BY <1>0, IdleFacts DEF Tick, TickAt, Out
<1>4. Len(outbox') \in Nat /\ DOMAIN outbox' = 1 .. Len(outbox')
  BY <1>2
<1>5. TickTypes'
  BY <1>2, <1>3, <1>4 DEF TickTypes, Out, With
<1>6. TickRow' /\ TickTask'
  BY <1>0, <1>2, <1>3 DEF TickRow, TickTask, Quiet, Out, With
<1>7. TickLease'
  <2> SUFFICES ASSUME outbox[i].id.kind = "lease_create"
               PROVE  task[outbox[i].id.of] = "ready" /\ browser[Of(outbox[i].id.of)].state = "active"
    BY <1>0, <1>2, <1>3 DEF TickLease, rows
  <2>1. outbox[i].id.of \in Found(Of(outbox[i].id.of), "ready") /\ Of(outbox[i].id.of) \in Jobs
    BY <1>0, RowFacts DEF Dispatch
  <2> QED  BY <2>1, FoundFacts
<1>8. WorldTypes' /\ withdrawn' \subseteq Amendments /\ count'.breaks >= count.breaks
      /\ UNCHANGED <<job, task, am, browser>>
  BY <1>0 DEF WorldTypes, IInv, Base, Types, RowTypes, rows, world
<1>9. ASSUME NEW j \in Jobs PROVE LeaseRests(j) /\ RowRests(i, j) /\ NewRowsOK(j)
  BY <1>0, <1>2, NoNewRows DEF LeaseRests, RowRests, world
<1> QED  BY <1>0, <1>2, <1>5, <1>6, <1>7, <1>8, <1>9, StillRows DEF TickInv

LEMMA MustWaitStep == ASSUME IInv, MustWait PROVE IInv'
<1>0. Base /\ agentLink' \subseteq Tasks /\ More /\ UNCHANGED <<rows, browser, leaseLink, world>>
      /\ tick' = Idle /\ outbox' = Settled(outbox, tick.item, "retryable_failed") /\ WorldTypes
      /\ tick.at = "calling" /\ Item.id.kind \in {"session_create", "lease_create"} \cup Closing
  BY LinkTypes, CountStays DEF MustWait, FailRetryable, IInv, links, rows, Calling
<1>1. tick.item \in DOMAIN outbox /\ Item = outbox[tick.item] /\ Open(tick.item)
  BY <1>0, CallingFacts DEF Out
<1>2. "retryable_failed" \in ItemStatus \ {"dispatching"}
  BY DEF ItemStatus, Unsettled, AtOnce
<1>3. ASSUME Whole, NEW j \in Jobs PROVE RowRests(tick.item, j)
  <2> SUFFICES ASSUME RowOf(tick.item, j), Item.id.kind \in Closing, ~Dead(j) PROVE FALSE
    BY <1>1 DEF RowRests
  <2>1. Parking(tick.item, j)
    BY <1>1, <1>3 DEF Whole, JobWhole, OpenRowOK, CloseRowOK
  <2>2. Item.id.kind = "close_lease" /\ Item.id.of = j /\ lease.of \in {NoJob, j}
    BY <1>1, <2>1 DEF Parking, Id
  <2>3. ~OwnLease
    BY DEF MustWait, Calling, Closing
  <2> QED  BY <1>0, <2>2, <2>3 DEF OwnLease, WorldTypes
<1> QED  BY <1>0, <1>1, <1>2, <1>3, SettledOnly DEF Out

\* A row may be recorded for a job that stays as it is.
MayRecord(id, j) ==
    /\ id.kind = "lease_create" =>
          /\ task[id.of] = "ready"
          /\ \A i \in DOMAIN outbox : RowOf(i, j) /\ outbox[i].id.kind \in Closing => Dead(j)
    /\ id.kind = "session_create" =>
          id.of = j /\ id.n = browser[j].seq /\ browser[j].state = "acquiring"
    /\ id.kind \in Closing => ~HasRunningTask(j) /\ Dead(j)

LEMMA RecordedOnly ==
    ASSUME IInv, UNCHANGED <<rows, browser, links, world, count>>, NEW id \in ItemId,
           RowOfTask(id, task[id.of]), outbox' = Enqueue(outbox, id), tick.at \notin Out,
           tick' \in Tick, tick'.at \notin Out \cup With, tick'.item = 0,
           count.breaks = 0 /\ Whole => MayRecord(id, Of(id.of))
    PROVE  IInv'
<1>0. Base /\ outbox \in Seq(Row) /\ agentLink' \subseteq Tasks /\ More /\ Quiet(outbox)
  BY LinkTypes, CountStays, QuietNow DEF IInv, Base, Types, links
<1>1. /\ Box(outbox, outbox', 0, {id}) /\ Quiet(outbox')
      /\ \A k \in DOMAIN outbox' \ DOMAIN outbox : outbox'[k].id = id
  BY <1>0, BoxEnqueued
<1>2. Agrees({id}) /\ Resting
  BY <1>1 DEF Agrees, Resting, rows
<1>3. ASSUME Whole, count.breaks = 0, NEW j \in Jobs PROVE RowRests(0, j) /\ NewRowsOK(j)
  <2>1. RowRests(0, j)
    BY <1>0 DEF RowRests, RowOf
  <2>2. ASSUME NEW k \in DOMAIN outbox' \ DOMAIN outbox, Of(outbox'[k].id.of) = j
        PROVE  /\ OpenRowOK(k, j)'
               /\ outbox'[k].id.kind = "lease_create" =>
                     \A i \in DOMAIN outbox : RowOf(i, j) /\ outbox[i].id.kind \in Closing => Dead(j)
    <3>1. outbox'[k].id = id /\ MayRecord(id, j)
      BY <1>1, <1>3, <2>2
    <3>2. HasRunningTask(j)' = HasRunningTask(j) /\ Dead(j)' = Dead(j)
      BY DEF HasRunningTask, Dead, rows
    <3> QED  BY <3>1, <3>2 DEF MayRecord, OpenRowOK, LeaseRowOK, SessionRowOK, CloseRowOK, rows
  <2> QED  BY <2>1, <2>2 DEF NewRowsOK
<1> QED  BY <1>0, <1>1, <1>2, <1>3, OutboxMoves DEF links

LEMMA IdFacts ==
    ASSUME NEW kind \in Kind, NEW t \in Tasks, NEW n \in Nat
    PROVE  /\ Id(kind, t, n) \in ItemId
           /\ Id(kind, t, n).kind = kind /\ Id(kind, t, n).of = t /\ Id(kind, t, n).n = n
  BY DEF Id, ItemId

LEMMA BrowserFacts ==
    ASSUME Base, NEW j \in Jobs
    PROVE  /\ browser[j].seq \in Nat /\ browser[j].at \in Nat /\ browser[j].state \in BrowserState
           /\ browser[j] \in Browser
  BY DEF Base, Types, BrowserTypes, Browser

LEMMA IdleTick ==
    ASSUME IInv, NothingDue
    PROVE  /\ Base /\ tick.at \notin Out /\ Idle \in Tick /\ Idle.at \notin Out \cup With /\ Idle.item = 0
           /\ \A i \in DOMAIN outbox : Open(i) => outbox[i].status = "retryable_failed"
<1>1. tick.at \notin Out
  BY DEF NothingDue, Claims, Out
<1>2. Quiet(outbox)
  BY <1>1, QuietNow DEF IInv
<1> QED  BY <1>1, <1>2, IdleFacts DEF IInv, NothingDue, Quiet, Open, Unsettled

LEMMA EnqueueSessionCreateStep == ASSUME IInv, NEW j \in Jobs, EnqueueSessionCreate(j) PROVE IInv'
<1> DEFINE id == Id("session_create", j, browser[j].seq)
<1>0. Base /\ NothingDue
  BY DEF EnqueueSessionCreate, IInv
<1>1. /\ UNCHANGED <<rows, browser, links, world, count>> /\ outbox' = Enqueue(outbox, id) /\ tick' = Idle
      /\ browser[j].state = "acquiring"
  BY DEF EnqueueSessionCreate, EndOfTick, Rest, rows
<1>2. id \in ItemId /\ id.kind = "session_create" /\ id.of = j /\ id.n = browser[j].seq
  BY <1>0, IdFacts, OfFacts, BrowserFacts DEF Kind
<1> HIDE DEF id
<1>3. RowOfTask(id, task[id.of]) /\ MayRecord(id, j) /\ Of(id.of) = j
  BY <1>1, <1>2, OfFacts DEF RowOfTask, MayRecord, Closing
<1> QED  BY <1>0, <1>1, <1>2, <1>3, IdleTick, RecordedOnly

LEMMA EnqueueSessionCloseStep == ASSUME IInv, NEW j \in Jobs, EnqueueSessionClose(j) PROVE IInv'
<1> DEFINE id == Id("close", j, browser[j].at)
<1>0. Base /\ NothingDue
  BY DEF EnqueueSessionClose, IInv
<1>1. /\ UNCHANGED <<rows, browser, links, world, count>> /\ outbox' = Enqueue(outbox, id) /\ tick' = Idle
      /\ browser[j].state = "active" /\ job[j] \in Ended \cup {"waiting_decision"}
  BY DEF EnqueueSessionClose, EndOfTick, Rest, rows
<1>2. id \in ItemId /\ id.kind = "close" /\ id.of = j
  BY <1>0, IdFacts, OfFacts, BrowserFacts DEF Kind
<1> HIDE DEF id
<1>3. RowOfTask(id, task[id.of]) /\ Of(id.of) = j
  BY <1>2, OfFacts DEF RowOfTask
<1>4. ASSUME Whole PROVE MayRecord(id, j)
  <2>1. ~HasRunningTask(j)
    BY <1>1, <1>4 DEF Whole, JobWhole, RunningOK, HasRunningTask
  <2>2. job[j] # "waiting_decision"
    <3> SUFFICES ASSUME job[j] = "waiting_decision" PROVE FALSE
      OBVIOUS
    <3>1. PICK i \in DOMAIN outbox : RowOf(i, j) /\ Parking(i, j)
      BY <1>1, <1>4 DEF Whole, JobWhole, WaitingOK
    <3> QED  BY <1>0, <3>1, IdleTick DEF Parking, RowOf
  <2> QED  BY <1>1, <1>2, <2>1, <2>2 DEF MayRecord, Dead
<1> QED  BY <1>0, <1>1, <1>2, <1>3, <1>4, IdleTick, RecordedOnly

LEMMA AgentWorksStep == ASSUME IInv, AgentWorks PROVE IInv'
<1> DEFINE command == DesiredAgentCommand(tick.lifecycle, agent[tick.of].status)
           id      == Id(command, tick.of, agent[tick.of].version)
<1>0. /\ IInv /\ Base /\ tick \in Tick /\ tick.at = "reconciling" /\ tick.of \in Tasks
      /\ agent[tick.of].version \in Nat
      /\ UNCHANGED <<rows, browser, links, world, count>> /\ tick.at \notin Out
  BY DEF AgentWorks, IInv, Base, Types, Reconciling, TickTypes, With, WorldTypes, Out
<1>1. tick' \in Tick /\ tick'.at \in {"idle", "claiming"} /\ tick'.item = 0
  <2>1. Idle \in Tick /\ Idle.at = "idle" /\ Idle.item = 0
    BY IdleFacts
  <2>2. [Idle EXCEPT !.at = "claiming"] \in Tick /\ [Idle EXCEPT !.at = "claiming"].at = "claiming"
        /\ [Idle EXCEPT !.at = "claiming"].item = 0
    BY <2>1 DEF Tick, TickAt
  <2> QED  BY <2>1, <2>2 DEF AgentWorks
<1>2. CASE command = "none"
  <2>1. outbox' = outbox
    BY <1>2 DEF AgentWorks
  <2> QED  BY <1>0, <1>1, <2>1, TickMoves DEF Out, With
<1>3. CASE command # "none"
  <2>1. command \in Commanding
    BY <1>3 DEF DesiredAgentCommand, Commanding
  <2>2. outbox' = Enqueue(outbox, id)
    BY <1>3 DEF AgentWorks
  <2>3. id \in ItemId /\ id.kind \in Commanding /\ id.of = tick.of
    <3> HIDE DEF command
    <3> QED  BY <1>0, <2>1, IdFacts DEF Kind, Commanding
  <2> HIDE DEF id
  <2>4. RowOfTask(id, task[id.of]) /\ MayRecord(id, Of(id.of))
    BY <2>3 DEF RowOfTask, MayRecord, Commanding, Closing
  <2> QED  BY <1>0, <1>1, <2>2, <2>3, <2>4, RecordedOnly DEF Out, With
<1> QED  BY <1>2, <1>3

LEMMA CrashStep == ASSUME IInv, Crash PROVE IInv'
<1>0. Base /\ outbox \in Seq(Row) /\ agentLink' \subseteq Tasks /\ Event /\ WorldTypes
      /\ UNCHANGED <<rows, browser, leaseLink, world>> /\ outbox' = Recovered(outbox) /\ tick' = Idle
  BY LinkTypes DEF Crash, IInv, Base, Types, links
<1>1. More
  BY <1>0, CountFacts
<1>2. Box(outbox, outbox', 0, {}) /\ Quiet(outbox') /\ DOMAIN outbox' = DOMAIN outbox
  BY <1>0, BoxRecovered
<1>3. Agrees({}) /\ Resting
  BY <1>0, <1>2, IdleFacts DEF Agrees, Resting
<1>4. \A j \in Jobs : RowRests(0, j)
  BY <1>0 DEF RowRests, RowOf
<1> QED  BY <1>0, <1>1, <1>2, <1>3, <1>4, NoNewRows, OutboxMoves

LEMMA AgentAnsweredStep == ASSUME IInv, NEW c \in BOOLEAN, AgentAnswered(c) PROVE IInv'
<1>0. /\ Base /\ outbox \in Seq(Row) /\ UNCHANGED <<rows, browser, leaseLink, world>>
      /\ tick.at = "answered" /\ Item.id.kind = "agent_create" /\ tick.at \in Out
      /\ EndsOr(c, Settled(outbox, tick.item, "confirmed"), outbox)
  BY DEF AgentAnswered, Answered, IInv, Base, Types, Ends, Out
<1>1. tick.item \in DOMAIN outbox /\ Item = outbox[tick.item] /\ Item.id.of \in Tasks /\ tick.item \in Nat
  BY <1>0, CallingFacts, RowFacts
<1>2. agentLink' \subseteq Tasks
  BY <1>1, LinkTypes DEF AgentAnswered
<1>3. "confirmed" \in ItemStatus \ {"dispatching"} /\ "confirmed" \notin Unsettled
  BY DEF ItemStatus, Unsettled, AtOnce
<1> DEFINE q == Settled(outbox, tick.item, "confirmed")
<1>4. Box(outbox, q, tick.item, {}) /\ Box(outbox, outbox, tick.item, {}) /\ Quiet(q)
      /\ DOMAIN q = DOMAIN outbox
  BY <1>0, <1>1, <1>3, BoxSettled, BoxSame, QuietAfter
<1> HIDE DEF q
<1>5. /\ Box(outbox, outbox', tick.item, {}) /\ Resting /\ More
      /\ count'.breaks = 0 => outbox' = q
  BY <1>0, <1>1, <1>4, EndsBox DEF q
<1>6. count'.breaks = 0 => \A j \in Jobs : RowRests(tick.item, j) /\ NewRowsOK(j)
  BY <1>0, <1>1, <1>4, <1>5, NotClosing, NoNewRows DEF Closing
<1> QED  BY <1>0, <1>2, <1>5, <1>6, OutboxMoves DEF Agrees

LEMMA CallAnsweredStep == ASSUME IInv, CallAnswered PROVE IInv'
<1>0. /\ Base /\ UNCHANGED <<rows, browser, leaseLink, world>> /\ agentLink' \subseteq Tasks /\ More
      /\ tick.at = "answered" /\ Item.id.kind \in Commanding \cup {"policy_revoke"} /\ tick.at \in Out
      /\ outbox' = Settled(outbox, tick.item, "confirmed") /\ tick' = Idle
  BY LinkTypes, CountStays DEF CallAnswered, Answered, IInv, Out, links
<1>1. tick.item \in DOMAIN outbox /\ Item = outbox[tick.item]
  BY <1>0, CallingFacts
<1>2. "confirmed" \in ItemStatus \ {"dispatching"} /\ "confirmed" \notin Unsettled
  BY DEF ItemStatus, Unsettled, AtOnce
<1>3. \A j \in Jobs : RowRests(tick.item, j)
  BY <1>0, <1>1, NotClosing DEF Closing, Commanding
<1> QED  BY <1>0, <1>1, <1>2, <1>3, SettledOnly

LEMMA LeaseRevalidationFailsStep == ASSUME IInv, LeaseRevalidationFails PROVE IInv'
<1> DEFINE id == Id("policy_revoke", Item.id.of, 0)
           q  == Enqueue(outbox, id)
           S  == {k \in DOMAIN q : q[k].id = id /\ q[k].status \in Unsettled}
<1>0. /\ Base /\ outbox \in Seq(Row) /\ UNCHANGED <<rows, browser, links, count, world>>
      /\ tick.at = "answered" /\ Item.id.kind = "lease_create" /\ tick.at \in Out
      /\ tick' = [tick EXCEPT !.at = "revoking"] /\ tick \in Tick /\ TickInv /\ Item.status = "dispatching"
  BY CallingFacts DEF LeaseRevalidationFails, Answered, IInv, Base, Types, TickTypes, Out
<1>1. /\ tick.item \in DOMAIN outbox /\ Item = outbox[tick.item] /\ Item.id.of \in Tasks /\ tick.item \in Nat
  BY <1>0, CallingFacts, RowFacts
<1>2. id \in ItemId /\ id.kind = "policy_revoke" /\ id.of \in Tasks
  BY <1>1, IdFacts DEF Kind
<1>3. outbox' = [k \in DOMAIN q |-> IF k \in S THEN [q[k] EXCEPT !.status = "dispatching"] ELSE q[k]]
  BY DEF LeaseRevalidationFails
<1> HIDE DEF id
<1>4. /\ Box(outbox, q, tick.item, {id}) /\ q \in Seq(Row)
      /\ \A k \in DOMAIN outbox : k \in DOMAIN q /\ q[k] = outbox[k]
      /\ \A k \in DOMAIN q \ DOMAIN outbox : q[k].id = id /\ q[k].status = "pending"
  BY <1>0, <1>2, BoxEnqueued
<1>5. /\ \A k \in S : k \in DOMAIN q /\ q[k].id = id /\ q[k].status \in Unsettled
      /\ \A k \in DOMAIN q : q[k].status = "pending" /\ q[k].id = id => k \in S
  BY DEF Unsettled, AtOnce
<1> HIDE DEF q, S
<1>6. "dispatching" \in ItemStatus /\ "dispatching" \in Unsettled
  BY DEF ItemStatus, Unsettled
<1>7. /\ outbox' \in Seq(Row) /\ DOMAIN outbox' = DOMAIN q
      /\ \A k \in DOMAIN q : /\ outbox'[k].id = q[k].id
                             /\ IF k \in S THEN outbox'[k].status = "dispatching" ELSE outbox'[k] = q[k]
  <2> DEFINE p == [k \in DOMAIN q |-> IF k \in S THEN [q[k] EXCEPT !.status = "dispatching"] ELSE q[k]]
  <2>1. /\ p \in Seq(Row) /\ DOMAIN p = DOMAIN q
        /\ \A k \in DOMAIN q : /\ p[k].id = q[k].id
                               /\ IF k \in S THEN p[k].status = "dispatching" ELSE p[k] = q[k]
    BY <1>4, <1>6, WrittenMany
  <2>2. outbox' = p
    BY <1>3
  <2> HIDE DEF p
  <2> QED  BY <2>1, <2>2
<1>8. Box(q, outbox', tick.item, {id})
  BY <1>2, <1>5, <1>6, <1>7 DEF Box, Continues, Kept
<1>9. Box(outbox, outbox', tick.item, {id})
  BY <1>0, <1>1, <1>4, <1>8, BoxThen
<1>10. /\ DOMAIN outbox \subseteq DOMAIN outbox' /\ outbox'[tick.item].id = outbox[tick.item].id
       /\ \A k \in DOMAIN outbox' \ DOMAIN outbox : outbox'[k].id = id
  BY <1>1, <1>9 DEF Box, Continues
<1>11. tick' \in Tick /\ tick'.at = "revoking" /\ tick'.item = tick.item
  BY <1>0 DEF Tick, TickAt, Out
<1>12. TickTypes'
  <2>1. Len(outbox') \in Nat /\ DOMAIN outbox' = 1 .. Len(outbox')
    BY <1>7
  <2> QED  BY <1>1, <1>10, <1>11, <2>1 DEF TickTypes, With
<1>13. TickRow'
  <2>1. tick.item \notin S /\ tick.item \in DOMAIN q
    BY <1>0, <1>1, <1>2, <1>4, <1>5
  <2>2. outbox'[tick.item] = outbox[tick.item]
    BY <1>1, <1>4, <1>7, <2>1
  <2>3. ASSUME NEW k \in DOMAIN outbox', outbox'[k].status = "dispatching"
        PROVE  k = tick.item \/ outbox'[k].id = id
    <3>1. CASE k \in S
      BY <1>2, <1>5, <1>7, <3>1
    <3>2. CASE k \notin S
      BY <1>0, <1>4, <1>7, <2>3, <3>2 DEF TickInv, TickRow
    <3> QED  BY <3>1, <3>2
  <2> QED  BY <1>0, <1>1, <1>11, <2>2, <2>3 DEF TickRow, Out, id
<1>14. TickLease' /\ TickTask'
  BY <1>0, <1>10, <1>11 DEF TickInv, TickLease, TickTask, With, Out, rows
<1>15. Agrees({id})
  BY <1>2 DEF Agrees, RowOfTask
<1>16. WorldTypes' /\ withdrawn' \subseteq Amendments /\ count'.breaks >= count.breaks
       /\ agentLink' \subseteq Tasks /\ leaseLink' = leaseLink
  BY <1>0, LinkTypes DEF IInv, Base, Types, RowTypes, WorldTypes, world, rows, links
<1>17. ASSUME NEW j \in Jobs PROVE LeaseRests(j) /\ RowRests(tick.item, j) /\ NewRowsOK(j)
  BY <1>0, <1>1, <1>2, <1>10 DEF LeaseRests, RowRests, NewRowsOK, OpenRowOK, Closing, world
<1> QED  BY <1>0, <1>1, <1>9, <1>12, <1>13, <1>14, <1>15, <1>16, <1>17, StillRows DEF TickInv, rows

LEMMA BoxDone ==
    ASSUME NEW q \in Seq(Row), NEW i \in DOMAIN q, NEW N
    PROVE  LET p == [q EXCEPT ![i].done = TRUE]
           IN  /\ Box(q, p, i, N) /\ p \in Seq(Row) /\ DOMAIN p = DOMAIN q
               /\ \A k \in DOMAIN q : p[k].status = q[k].status /\ p[k].id = q[k].id
<1>1. q[i] \in Row /\ DOMAIN q = 1 .. Len(q) /\ Len(q) \in Nat
  OBVIOUS
<1> DEFINE x == [q[i] EXCEPT !.done = TRUE]
           p == [q EXCEPT ![i] = x]
<1>2. x \in Row /\ x.id = q[i].id /\ x.status = q[i].status
  BY <1>1 DEF Row
<1> HIDE DEF x
<1>3. DOMAIN p = DOMAIN q /\ p[i] = x /\ \A k \in DOMAIN q \ {i} : p[k] = q[k]
  OBVIOUS
<1>4. p \in Seq(Row)
  BY <1>1, <1>2
<1>5. p = [q EXCEPT ![i].done = TRUE]
  BY DEF x
<1> HIDE DEF p
<1>6. /\ \A k \in DOMAIN q : p[k].status = q[k].status /\ p[k].id = q[k].id
      /\ Box(q, p, i, N)
  BY <1>2, <1>3, <1>4 DEF Box, Continues, Kept
<1> QED  BY <1>3, <1>4, <1>5, <1>6

LEMMA AgentCommandedStep == ASSUME IInv, AgentCommanded PROVE IInv'
<1> DEFINE id == Item.id
<1>0. /\ Base /\ outbox \in Seq(Row) /\ tick.at = "calling" /\ id.kind \in Commanding /\ tick.at \in Out
      /\ UNCHANGED <<withdrawn, links, count, session, lease>> /\ tick \in Tick /\ TickInv
      /\ WorldTypes
  BY DEF AgentCommanded, Calling, IInv, Base, Types, TickTypes, Out
<1>1. /\ tick.item \in DOMAIN outbox /\ Item = outbox[tick.item] /\ id.of \in Tasks /\ tick.item \in Nat
  BY <1>0, CallingFacts, RowFacts
<1>2. \A j \in Jobs : RowRests(tick.item, j)
  BY <1>0, <1>1, NotClosing DEF Closing, Commanding
<1>3. CASE Item.done \/ agent[id.of].version = id.n
  <2>1. /\ outbox' = [outbox EXCEPT ![tick.item].done = TRUE] /\ UNCHANGED <<job, task, am, browser>>
        /\ tick' = [tick EXCEPT !.at = "answered"]
    BY <1>3 DEF AgentCommanded, Answers
  <2>2. /\ Box(outbox, outbox', tick.item, {}) /\ DOMAIN outbox' = DOMAIN outbox /\ outbox' \in Seq(Row)
        /\ \A k \in DOMAIN outbox : outbox'[k].status = outbox[k].status /\ outbox'[k].id = outbox[k].id
    BY <1>0, <1>1, <2>1, BoxDone
  <2>3. tick' \in Tick /\ tick'.at = "answered" /\ tick'.item = tick.item
    BY <1>0, <2>1 DEF Tick, TickAt, Out
  <2>4. TickTypes' /\ TickInv'
    <3>1. Len(outbox') \in Nat /\ DOMAIN outbox' = 1 .. Len(outbox')
      BY <2>2
    <3>2. TickTypes'
      BY <1>1, <2>2, <2>3, <3>1 DEF TickTypes, With
    <3>3. TickRow' /\ TickTask'
      BY <1>0, <1>1, <2>2, <2>3 DEF TickInv, TickRow, TickTask, Out, With
    <3>4. TickLease'
      BY <1>0, <1>1, <2>2, <2>3 DEF TickLease, Commanding
    <3> QED  BY <3>2, <3>3, <3>4 DEF TickInv
  <2>5. agent' \in [Tasks -> [status : AgentStatus, version : Nat]]
    <3>1. agent[id.of].version \in Nat
      BY <1>0, <1>1 DEF WorldTypes
    <3>2. CASE Item.done
      BY <1>0, <3>2 DEF AgentCommanded, WorldTypes
    <3>3. CASE ~Item.done
      <4> DEFINE to == CASE id.kind = "agent_pause" -> "paused" [] id.kind = "agent_resume" -> "running"
                         [] id.kind = "agent_cancel" -> "cancelled"
      <4>1. to \in AgentStatus
        BY <1>0 DEF Commanding, AgentStatus, TERMINAL_AGENT_STATES
      <4>2. agent' = [agent EXCEPT ![id.of] = [status |-> to, version |-> @.version + 1]]
        BY <1>3, <3>3 DEF AgentCommanded
      <4> HIDE DEF to
      <4>3. [status |-> to, version |-> agent[id.of].version + 1] \in [status : AgentStatus, version : Nat]
        BY <3>1, <4>1
      <4>4. agent \in [Tasks -> [status : AgentStatus, version : Nat]]
        BY <1>0 DEF WorldTypes
      <4>5. agent' = [agent EXCEPT ![id.of] = [status |-> to, version |-> agent[id.of].version + 1]]
        BY <4>2
      <4> QED  BY <4>3, <4>4, <4>5
    <3> QED  BY <3>2, <3>3
  <2>6. WorldTypes' /\ withdrawn' \subseteq Amendments /\ count'.breaks >= count.breaks
        /\ agentLink' \subseteq Tasks /\ leaseLink' = leaseLink
    BY <1>0, <2>5, LinkTypes DEF IInv, Base, Types, RowTypes, WorldTypes, links
  <2>7. ASSUME NEW j \in Jobs PROVE LeaseRests(j) /\ NewRowsOK(j)
    BY <1>0, <2>2, NoNewRows DEF LeaseRests
  <2>8. Agrees({}) /\ Box(outbox, outbox', tick.item, {}) /\ TickTypes' /\ TickInv' /\ IInv
    BY <2>2, <2>4 DEF Agrees
  <2> QED  BY <1>2, <2>1, <2>6, <2>7, <2>8, StillRows
<1>4. CASE ~(Item.done \/ agent[id.of].version = id.n)
  <2>1. FailTerminal(tick.item) /\ UNCHANGED agent
    BY <1>4 DEF AgentCommanded
  <2>2. /\ outbox' = Settled(outbox, tick.item, "terminal_failed") /\ tick' = Idle
        /\ UNCHANGED <<job, task, am>>
        /\ browser' = [browser EXCEPT ![Of(id.of)].state = @]
    BY <1>0, <1>1, <2>1 DEF FailTerminal, Commanding
  <2>3. browser' = browser
    <3>1. browser \in [Jobs -> Browser] /\ Of(id.of) \in Jobs
      BY <1>0, <1>1, OfFacts DEF Base, Types, BrowserTypes
    <3>2. [browser[Of(id.of)] EXCEPT !.state = @] = browser[Of(id.of)]
      BY <3>1 DEF Browser
    <3> QED  BY <2>2, <3>1, <3>2
  <2>4. "terminal_failed" \in ItemStatus \ {"dispatching"} /\ "terminal_failed" \notin Unsettled
    BY DEF ItemStatus, Unsettled, AtOnce
  <2> QED  BY <1>0, <1>1, <1>2, <2>1, <2>2, <2>3, <2>4, LinkTypes, CountStays, SettledOnly
           DEF rows, links, world
<1> QED  BY <1>3, <1>4

-----------------------------------------------------------------------------
(***************************************************************************)
(* A job that is failed before its task started.                            *)
(***************************************************************************)
CloseOf(j) == {Id("close", j, browser[j].at)}

LEMMA UnstartedFails ==
    ASSUME Base, NEW j \in Jobs, NEW asked, NEW q, NEW i \in DOMAIN outbox \cup {0},
           \A a \in Amendments : a \in asked => am[a] # "none",
           Box(outbox, q, i, CloseOf(j)), Quiet(q), FailUnstarted(j, asked, q), UNCHANGED <<withdrawn, links>>
    PROVE  /\ RowTypes' /\ BrowserTypes' /\ Family' /\ OneHolder' /\ TaskMoves
           /\ Box(outbox, outbox', i, CloseOf(j)) /\ Quiet(outbox') /\ Agrees(CloseOf(j))
           /\ \A k \in Jobs : NoStart(k) /\ BrowserRests(k)
           /\ ~HasRunningTask(j) => \A k \in Jobs : JobGoesOn(k) /\ NewRowsOK(k)
<1> DEFINE id == Id("close", j, browser[j].at)
           ready == {a \in AmendmentsOf(j) : task[a] = "ready"}
           first == IF ready = {} THEN {} ELSE {Min(ready)}
           fails == job[j] \notin Ended \cup {"cancelling"}
           over  == IF ~fails THEN {} ELSE IF first # {} THEN first ELSE asked
<1>0. /\ outbox \in Seq(Row) /\ q \in Seq(Row) /\ Types /\ RowTypes /\ BrowserTypes /\ Family
      /\ j \in Tasks /\ Of(j) = j /\ OneHolder
  BY OfFacts DEF Base, Types, Box, Continues
<1>1. id \in ItemId /\ id.kind = "close" /\ id.of = j /\ CloseOf(j) = {id}
  BY <1>0, IdFacts, BrowserFacts DEF Kind, CloseOf
<1>2. first \subseteq AmendmentsOf(j) /\ \A a \in first : task[a] = "ready"
  <2>1. ready # {} => Min(ready) \in ready
    BY MinIn, OfFacts DEF AmendmentsOf
  <2> QED  BY <2>1
<1>3. /\ job' = [job EXCEPT ![j] = IF fails THEN "failed" ELSE @]
      /\ task' = [t \in Tasks |-> IF fails /\ t \in first THEN "blocked" ELSE task[t]]
      /\ am' = [a \in Amendments |-> IF a \in over /\ am[a] # "activated" THEN "closed" ELSE am[a]]
      /\ outbox' \in {q, Enqueue(q, id)}
      /\ \E s : /\ browser' = [browser EXCEPT ![j].state = s]
               /\ \/ s = browser[j].state
                  \/ s = "cancelled" /\ browser[j].state = "queued"
                  \/ s = "failed" /\ browser[j].state = "acquiring"
  BY DEF FailUnstarted
<1>4. \A a \in over : a \in Amendments => am[a] # "none"
  BY <1>0, <1>2 DEF Family, VerifiesAmendment, AmendmentsOf
<1> HIDE DEF first, over
<1>5. /\ job' \in [Jobs -> Lifecycle] /\ Dead(j)' /\ job'[j] # "none"
      /\ \A k \in Jobs \ {j} : job'[k] = job[k]
      /\ (Dead(j) => job'[j] = job[j]) /\ job'[j] # "waiting_decision"
  BY <1>0, <1>3 DEF RowTypes, Lifecycle, Dead, Ended
<1>6. /\ task' \in [Tasks -> TaskState] /\ TaskMoves
      /\ \A t \in Tasks : task'[t] # task[t] => task'[t] = "blocked" /\ task[t] = "ready"
  <2>1. \A t \in Tasks : task'[t] = task[t] \/ (task'[t] = "blocked" /\ task[t] = "ready")
    BY <1>2, <1>3
  <2>2. task' = [t \in Tasks |-> task'[t]]
    BY <1>3
  <2>3. \A t \in Tasks : task[t] \in TaskState
    BY <1>0 DEF RowTypes
  <2>4. \A t \in Tasks : task'[t] \in TaskState /\ task'[t] \in AfterTask(task[t])
    BY <2>1, <2>3 DEF TaskState, AfterTask
  <2> QED  BY <2>1, <2>2, <2>4 DEF TaskMoves
<1>7. /\ am' \in [Amendments -> AmState]
      /\ \A a \in Amendments : am[a] # "none" <=> am'[a] # "none"
  BY <1>0, <1>3, <1>4 DEF RowTypes, AmState
<1>8. RowTypes'
  BY <1>0, <1>5, <1>6, <1>7 DEF RowTypes, links
<1>9. PICK s : /\ browser' = [browser EXCEPT ![j].state = s]
               /\ \/ s = browser[j].state
                  \/ s = "cancelled" /\ browser[j].state = "queued"
                  \/ s = "failed" /\ browser[j].state = "acquiring"
  BY <1>3
<1>10. /\ s \in BrowserState /\ browser[j] \in Browser /\ browser \in [Jobs -> Browser]
  BY <1>0, <1>9, BrowserFacts DEF BrowserState, GivenBack, BrowserTypes
<1>11. /\ browser' \in [Jobs -> Browser] /\ browser'[j].state = s
       /\ browser'[j].seq = browser[j].seq /\ browser'[j].at = browser[j].at
       /\ \A k \in Jobs \ {j} : browser'[k] = browser[k]
  BY <1>9, <1>10 DEF Browser
<1>12. s = browser[j].state => browser' = browser
  BY <1>9, <1>10 DEF Browser
<1>13. BrowserTypes' /\ OneHolder'
  <2>1. \A k \in Jobs : browser'[k].state \in Holding => browser[k].state \in Holding
    BY <1>9, <1>11 DEF Holding
  <2> QED  BY <1>0, <1>11, <2>1 DEF BrowserTypes, OneHolder
<1>14. Family'
  <2>1. \A a \in Amendments : task[a] = "none" => task'[a] = "none"
    BY <1>6, OfFacts
  <2>2. ASSUME NEW k \in Jobs, job'[k] = "none"
        PROVE  job[k] = "none" /\ task'[k] = task[k] /\ browser'[k].state = browser[k].state
    <3>1. k # j
      BY <1>5, <2>2
    <3>2. job[k] = "none" /\ task[k] = "none" /\ k \in Tasks
      BY <1>0, <1>5, <2>2, <3>1, OfFacts DEF Family, NotCreated
    <3> QED  BY <1>6, <1>11, <3>1, <3>2
  <2> QED  BY <1>0, <1>6, <1>7, <2>1, <2>2, FamilyKept
<1>15. \A k \in Jobs : NoStart(k) /\ BrowserRests(k)
  BY <1>5, <1>6, <1>9, <1>11, <1>12, OfFacts DEF NoStart, BrowserRests
<1>16. /\ Box(outbox, outbox', i, CloseOf(j)) /\ Quiet(outbox')
  <2>1. Box(q, Enqueue(q, id), i, CloseOf(j)) /\ Quiet(Enqueue(q, id))
    BY <1>0, <1>1, BoxEnqueued
  <2>2. Box(outbox, Enqueue(q, id), i, CloseOf(j))
    BY <1>0, <2>1, BoxThen
  <2> QED  BY <1>3, <2>1, <2>2
<1>17. Agrees(CloseOf(j))
  BY <1>1 DEF Agrees, RowOfTask
<1>18. ASSUME ~HasRunningTask(j), NEW k \in Jobs PROVE JobGoesOn(k) /\ NewRowsOK(k)
  <2>1. ~HasRunningTask(j)'
    BY <1>6, <1>18, OfFacts DEF HasRunningTask
  <2>2. JobGoesOn(k)
    <3>1. JobGoesOn(j)
      BY <1>5, <2>1 DEF JobGoesOn
    <3>2. CASE k # j
      BY <1>5, <3>2 DEF JobGoesOn, Dead
    <3> QED  BY <3>1, <3>2
  <2>3. NewRowsOK(k)
    <3>1. \A m \in DOMAIN outbox' \ DOMAIN outbox : outbox'[m].id = id
      BY <1>1, <1>16 DEF Box
    <3> HIDE DEF id
    <3> QED  BY <1>0, <1>1, <1>5, <2>1, <3>1 DEF NewRowsOK, OpenRowOK, CloseRowOK
  <2> QED  BY <2>2, <2>3
<1> QED  BY <1>6, <1>8, <1>13, <1>14, <1>15, <1>16, <1>17, <1>18

LEMMA FailedUnstarted ==
    ASSUME IInv, NEW j \in Jobs, NEW asked, NEW q, NEW i \in DOMAIN outbox \cup {0},
           \A a \in Amendments : a \in asked => am[a] # "none",
           Box(outbox, q, i, CloseOf(j)), Quiet(q), FailUnstarted(j, asked, q), UNCHANGED <<withdrawn, links>>,
           More, WorldTypes', lease'.of \in {lease.of, NoJob},
           tick' \in Tick, tick'.at \notin Out \cup With, tick'.item = 0,
           count'.breaks = 0 /\ Whole => ~HasRunningTask(j) /\ \A k \in Jobs : RowRests(i, k)
    PROVE  IInv'
<1>1. /\ RowTypes' /\ BrowserTypes' /\ Family' /\ OneHolder' /\ TaskMoves
      /\ Box(outbox, outbox', i, CloseOf(j)) /\ Quiet(outbox') /\ Agrees(CloseOf(j))
      /\ \A k \in Jobs : NoStart(k) /\ BrowserRests(k)
      /\ ~HasRunningTask(j) => \A k \in Jobs : JobGoesOn(k) /\ NewRowsOK(k)
  BY UnstartedFails DEF IInv
<1>2. Resting /\ \A k \in Jobs : LeaseRests(k)
  BY <1>1 DEF Resting, LeaseRests
<1>3. count'.breaks >= count.breaks /\ leaseLink \subseteq leaseLink'
  BY DEF More, links
<1>4. count'.breaks = 0 /\ Whole =>
         \A k \in Jobs \ {} : /\ NoStart(k) /\ BrowserRests(k) /\ JobGoesOn(k) /\ LeaseRests(k)
                             /\ RowRests(i, k) /\ NewRowsOK(k)
  BY <1>1, <1>2
<1>5. count'.breaks = 0 /\ Whole /\ Base' => \A k \in {} : JobWhole(k)'
  OBVIOUS
<1>6. {} \in SUBSET Jobs
  OBVIOUS
<1>7. TickTypes' /\ TickInv'
  BY <1>1, <1>2, RestFacts DEF Box, Continues
<1> HIDE DEF IInv
<1> QED  BY <1>1, <1>2, <1>3, <1>4, <1>5, <1>6, <1>7, Changed

LEMMA ReadyNotRunning ==
    ASSUME Base, NEW t \in Tasks, task[t] = "ready"
    PROVE  ~HasRunningTask(Of(t))
<1> SUFFICES ASSUME NEW u \in TasksOf(Of(t)), task[u] = "running" PROVE FALSE
  BY DEF HasRunningTask
<1>1. u \in Tasks /\ Of(u) = Of(t)
  BY OfFacts
<1>2. u = t
  BY <1>1, OneActive DEF Base
<1> QED  BY <1>2

LEMMA ScheduleRefusedStep == ASSUME IInv, NEW a \in Amendments, ScheduleRefused(a) PROVE IInv'
<1> DEFINE j == JobOf[a]
<1>0. /\ Base /\ WorldTypes /\ j \in Jobs /\ outbox \in Seq(Row) /\ tick.at \notin Out /\ tick' = Idle
      /\ FailUnstarted(j, {a}, outbox) /\ UNCHANGED <<withdrawn, links, tick, count, world>>
      /\ ~HasRunningTask(j) /\ am[a] # "none"
  BY JobAssumption, IdleFacts DEF ScheduleRefused, IsFirst, ToSchedule, IInv, Base, Types
<1>1. Box(outbox, outbox, 0, CloseOf(j)) /\ Quiet(outbox)
  BY <1>0, BoxSame, QuietNow
<1>2. More /\ WorldTypes' /\ lease'.of = lease.of
  BY <1>0, CountStays DEF WorldTypes, world
<1>3. \A k \in Jobs : RowRests(0, k)
  BY <1>0 DEF RowRests, RowOf
<1> HIDE DEF j
<1> QED  BY <1>0, <1>1, <1>2, <1>3, FailedUnstarted, IdleFacts

LEMMA EnqueueLeaseCreateStep == ASSUME IInv, NEW j \in Jobs, EnqueueLeaseCreate(j) PROVE IInv'
<1>0. /\ Base /\ WorldTypes /\ outbox \in Seq(Row) /\ NothingDue /\ tick' = Idle
      /\ UNCHANGED <<withdrawn, links, count, world>>
  BY DEF EnqueueLeaseCreate, EndOfTick, Rest, IInv, Base, Types
<1>1. PICK t \in Found(j, "ready") :
          IF ExecutionAllowed(j, {t} \cap Amendments, FALSE)
          THEN /\ outbox' = Enqueue(outbox, Id("lease_create", t, 0))
               /\ UNCHANGED <<job, task, am, browser>>
          ELSE FailUnstarted(j, {}, outbox)
  BY DEF EnqueueLeaseCreate
<1>2. t \in Tasks /\ Of(t) = j /\ task[t] = "ready"
  BY FoundFacts
<1>3. CASE ExecutionAllowed(j, {t} \cap Amendments, FALSE)
  <2> DEFINE id == Id("lease_create", t, 0)
  <2>1. id \in ItemId /\ id.kind = "lease_create" /\ id.of = t /\ id.n = 0
    BY <1>2, IdFacts DEF Kind
  <2>2. outbox' = Enqueue(outbox, id) /\ UNCHANGED <<rows, browser>>
    BY <1>0, <1>1, <1>3 DEF rows
  <2> HIDE DEF id
  <2>3. RowOfTask(id, task[id.of])
    BY <1>2, <2>1 DEF RowOfTask
  <2>4. ASSUME Whole PROVE MayRecord(id, j)
    <3> SUFFICES ASSUME NEW i \in DOMAIN outbox, RowOf(i, j), outbox[i].id.kind \in Closing, ~Dead(j) PROVE FALSE
      BY <1>2, <2>1 DEF MayRecord, Closing
    <3>1. Parking(i, j)
      BY <2>4 DEF Whole, JobWhole, OpenRowOK, CloseRowOK
    <3> QED  BY <3>1, IdleTick, <1>0 DEF Parking, RowOf
  <2> QED  BY <1>0, <1>2, <2>1, <2>2, <2>3, <2>4, IdleTick, RecordedOnly
<1>4. CASE ~ExecutionAllowed(j, {t} \cap Amendments, FALSE)
  <2>1. FailUnstarted(j, {}, outbox)
    BY <1>1, <1>4
  <2>2. Box(outbox, outbox, 0, CloseOf(j)) /\ Quiet(outbox)
    BY <1>0, IdleTick, BoxSame, QuietNow
  <2>3. More /\ WorldTypes' /\ lease'.of = lease.of
    BY <1>0, CountStays DEF WorldTypes, world
  <2>4. \A k \in Jobs : RowRests(0, k)
    BY <1>0 DEF RowRests, RowOf
  <2>5. ~HasRunningTask(j)
    BY <1>0, <1>2, ReadyNotRunning
  <2> QED  BY <1>0, <2>1, <2>2, <2>3, <2>4, <2>5, FailedUnstarted, IdleFacts
<1> QED  BY <1>3, <1>4

\* A row that is being carried out is settled while its job is failed.
LEMMA RowFailsJob ==
    ASSUME IInv, NEW i \in DOMAIN outbox, Open(i), NEW s \in ItemStatus \ Unsettled,
           outbox[i].id.kind \in {"session_create", "lease_create"},
           tick.at # "revoking", tick.at \in Out => i = tick.item,
           FailUnstarted(Of(outbox[i].id.of), {}, Settled(outbox, i, s)), tick' = Idle,
           UNCHANGED <<withdrawn, links, world>>, More
    PROVE  IInv'
<1> DEFINE j == Of(outbox[i].id.of)
           q == Settled(outbox, i, s)
<1>0. Base /\ outbox \in Seq(Row) /\ WorldTypes /\ j \in Jobs /\ outbox[i].id.of \in Tasks
  BY RowFacts DEF IInv, Base, Types
<1>1. s \in ItemStatus \ {"dispatching"}
  BY DEF Unsettled
<1>2. Box(outbox, q, i, CloseOf(j)) /\ Quiet(q)
  BY <1>0, <1>1, BoxSettled, QuietAfter
<1>3. WorldTypes' /\ lease'.of = lease.of
  BY <1>0 DEF More, WorldTypes, world
<1>4. \A k \in Jobs : RowRests(i, k)
  BY NotClosing DEF Closing
<1>5. ASSUME Whole PROVE ~HasRunningTask(j)
  <2>1. RowOf(i, j) /\ JobWhole(j) /\ OpenRowOK(i, j)
    BY <1>0, <1>5 DEF RowOf, Whole, JobWhole
  <2>2. CASE outbox[i].id.kind = "session_create"
    <3>1. browser[j].state # "active"
      BY <2>1, <2>2 DEF OpenRowOK, SessionRowOK
    <3> QED  BY <2>1, <3>1 DEF JobWhole, RunningOK, HasRunningTask
  <2>3. CASE outbox[i].id.kind = "lease_create"
    <3>1. task[outbox[i].id.of] \in {"ready", "blocked"}
      BY <2>1, <2>3 DEF OpenRowOK, LeaseRowOK
    <3> SUFFICES ASSUME NEW u \in TasksOf(j), task[u] = "running" PROVE FALSE
      BY DEF HasRunningTask
    <3>2. u \in Tasks /\ Of(u) = j
      BY <1>0, OfFacts
    <3>3. u = outbox[i].id.of
      BY <1>0, <3>1, <3>2, OneActive DEF Base
    <3> QED  BY <3>1, <3>3
  <2> QED  BY <2>2, <2>3
<1>6. FailUnstarted(j, {}, q)
  OBVIOUS
<1> HIDE DEF j, q
<1> QED  BY <1>0, <1>2, <1>3, <1>4, <1>5, <1>6, FailedUnstarted, IdleFacts

-----------------------------------------------------------------------------
(***************************************************************************)
(* The users' commands.                                                     *)
(***************************************************************************)
LEMMA JobOnly ==
    ASSUME IInv, UNCHANGED <<task, am, withdrawn, browser, links, world>>, NEW j \in Jobs,
           NEW z \in Lifecycle \ {"none"}, job' = [job EXCEPT ![j] = z], job[j] # "none", More,
           NEW i, NEW N, Box(outbox, outbox', i, N), Agrees(N), TickTypes', TickInv',
           count'.breaks = 0 /\ Whole =>
              JobGoesOn(j) /\ \A k \in Jobs : RowRests(i, k) /\ NewRowsOK(k)
    PROVE  IInv'
<1>0. Types /\ RowTypes /\ Family /\ BrowserTypes /\ OneHolder /\ WorldTypes /\ Base
  BY DEF IInv, Base, Types
<1>1. job' \in [Jobs -> Lifecycle] /\ job'[j] = z /\ \A k \in Jobs \ {j} : job'[k] = job[k]
  BY <1>0 DEF RowTypes
<1>2. RowTypes' /\ BrowserTypes' /\ OneHolder' /\ WorldTypes' /\ TaskMoves
  BY <1>0, <1>1, SameMoves DEF RowTypes, BrowserTypes, OneHolder, WorldTypes, More, links, world
<1>3. Family'
  BY <1>0, <1>1, <1>2, FamilyKept
<1>4. \A k \in Jobs : NoStart(k) /\ BrowserRests(k) /\ LeaseRests(k)
  BY DEF NoStart, BrowserRests, LeaseRests, world
<1>5. \A k \in Jobs \ {j} : JobGoesOn(k)
  BY <1>1 DEF JobGoesOn, Dead
<1>6. count'.breaks = 0 /\ Whole =>
         \A k \in Jobs \ {} : /\ NoStart(k) /\ BrowserRests(k) /\ JobGoesOn(k) /\ LeaseRests(k)
                             /\ RowRests(i, k) /\ NewRowsOK(k)
  BY <1>4, <1>5
<1>7. {} \in SUBSET Jobs /\ (count'.breaks = 0 /\ Whole /\ Base' => \A k \in {} : JobWhole(k)')
  OBVIOUS
<1>8. count'.breaks >= count.breaks /\ leaseLink \subseteq leaseLink'
  BY DEF More, links
<1> HIDE DEF IInv
<1> QED  BY <1>2, <1>3, <1>6, <1>7, <1>8, Changed

LEMMA CommandKept ==
    ASSUME IInv, NEW j \in Jobs, NEW from, NEW to \in Lifecycle \ {"none"}, Command(j, from, to),
           "none" \notin from, to \notin Ended \cup {"waiting_decision"},
           Dead(j) => to = "cancelling", Event
    PROVE  IInv'
<1>0. /\ outbox \in Seq(Row) /\ WorldTypes /\ UNCHANGED <<task, am, withdrawn, browser, outbox, links, tick, world>>
      /\ job' = [job EXCEPT ![j] = to] /\ job[j] # "none" /\ RowTypes /\ TickTypes /\ TickInv
  BY DEF IInv, Base, Types, Command
<1>1. More
  BY <1>0, CountFacts
<1>2. Box(outbox, outbox', 0, {}) /\ Agrees({}) /\ DOMAIN outbox' = DOMAIN outbox
  BY <1>0, BoxSame DEF Agrees
<1>3. TickTypes' /\ TickInv'
  BY <1>0 DEF TickTypes, TickInv, TickRow, TickLease, TickTask, world
<1>4. JobGoesOn(j)
  BY <1>0 DEF JobGoesOn, Dead, RowTypes
<1>5. \A k \in Jobs : RowRests(0, k) /\ NewRowsOK(k)
  BY <1>0 DEF RowRests, RowOf, NewRowsOK
<1> QED  BY <1>0, <1>1, <1>2, <1>3, <1>4, <1>5, JobOnly

LEMMA CommandSteps == ASSUME IInv, NEW j \in Jobs, Pause(j) \/ Resume(j) \/ Cancel(j) PROVE IInv'
<1>1. CASE Pause(j)
  <2>1. Command(j, {"created", "running", "waiting_decision"}, "paused") /\ Event
    BY <1>1 DEF Pause
  <2>2. ~Dead(j)
    BY <2>1 DEF Command, Dead, Ended
  <2> QED  BY <2>1, <2>2, CommandKept DEF Lifecycle, Ended
<1>2. CASE Resume(j)
  <2>1. Command(j, {"paused"}, "running") /\ Event
    BY <1>2 DEF Resume
  <2>2. ~Dead(j)
    BY <2>1 DEF Command, Dead, Ended
  <2> QED  BY <2>1, <2>2, CommandKept DEF Lifecycle, Ended
<1>3. CASE Cancel(j)
  <2>1. Command(j, {"created", "running", "paused", "waiting_decision"}, "cancelling") /\ Event
    BY <1>3 DEF Cancel
  <2> QED  BY <2>1, CommandKept DEF Lifecycle, Ended
<1> QED  BY <1>1, <1>2, <1>3

LEMMA DecisionKept ==
    ASSUME IInv, NEW a \in Amendments, NEW from, NEW to \in AmState \ {"none"}, SetAmendment(a, from, to),
           "none" \notin from, count' = count \/ Event
    PROVE  IInv'
<1>0. /\ outbox \in Seq(Row) /\ UNCHANGED <<job, task, withdrawn, browser, outbox, links, tick, world>>
      /\ am' = [am EXCEPT ![a] = to] /\ am[a] # "none" /\ TickTypes /\ TickInv
      /\ Types /\ RowTypes /\ Family /\ BrowserTypes /\ OneHolder /\ WorldTypes
  BY DEF IInv, Base, Types, SetAmendment
<1>1. More
  BY <1>0, CountFacts
<1>2. Box(outbox, outbox', 0, {}) /\ Agrees({}) /\ DOMAIN outbox' = DOMAIN outbox
  BY <1>0, BoxSame DEF Agrees
<1>3. TickTypes' /\ TickInv'
  BY <1>0 DEF TickTypes, TickInv, TickRow, TickLease, TickTask, world
<1>4. am' \in [Amendments -> AmState] /\ \A b \in Amendments : am[b] = "none" <=> am'[b] = "none"
  BY <1>0 DEF RowTypes
<1>5. RowTypes' /\ BrowserTypes' /\ OneHolder' /\ WorldTypes' /\ TaskMoves
  BY <1>0, <1>1, <1>4, SameMoves DEF RowTypes, BrowserTypes, OneHolder, WorldTypes, More, links, world
<1>6. Family'
  BY <1>0, <1>4, <1>5, FamilyKept
<1>7. \A k \in Jobs : /\ NoStart(k) /\ BrowserRests(k) /\ LeaseRests(k) /\ JobGoesOn(k)
                      /\ RowRests(0, k) /\ NewRowsOK(k)
  BY <1>0 DEF NoStart, BrowserRests, LeaseRests, JobGoesOn, Dead, RowRests, RowOf, NewRowsOK, world
<1>8. \A k \in Jobs \ {} : /\ NoStart(k) /\ BrowserRests(k) /\ JobGoesOn(k) /\ LeaseRests(k)
                           /\ RowRests(0, k) /\ NewRowsOK(k)
  BY <1>7
<1>9. {} \in SUBSET Jobs /\ (count'.breaks = 0 /\ Whole /\ Base' => \A k \in {} : JobWhole(k)')
  OBVIOUS
<1>10. count'.breaks >= count.breaks /\ leaseLink \subseteq leaseLink'
  BY <1>0, <1>1 DEF More, links
<1> HIDE DEF IInv
<1> QED  BY <1>2, <1>3, <1>5, <1>6, <1>8, <1>9, <1>10, Changed

LEMMA DecisionSteps ==
    ASSUME IInv, NEW a \in Amendments, Approve(a) \/ Apply(a) \/ Reject(a)
    PROVE  IInv'
  BY DecisionKept DEF Approve, Apply, Reject, AmState

LEMMA SettleCancellationStep ==
    ASSUME IInv, NEW j \in Jobs, NEW c \in BOOLEAN, SettleCancellation(j, c)
    PROVE  IInv'
<1> DEFINE q == Enqueue(outbox, Id("close", j, browser[j].at))
<1>0. /\ Base /\ outbox \in Seq(Row) /\ NothingDue /\ job[j] = "cancelling" /\ ~HasRunningTask(j)
      /\ job' = [job EXCEPT ![j] = "cancelled"] /\ EndsOr(c, q, outbox)
      /\ UNCHANGED <<task, am, withdrawn, browser, links, world>>
  BY DEF SettleCancellation, Rest, Ends, IInv, Base, Types
<1>1. /\ Id("close", j, browser[j].at) \in ItemId /\ CloseOf(j) = {Id("close", j, browser[j].at)}
      /\ Id("close", j, browser[j].at).kind = "close" /\ Id("close", j, browser[j].at).of = j
  BY <1>0, IdFacts, OfFacts, BrowserFacts DEF Kind, CloseOf
<1>2. /\ Box(outbox, q, 0, CloseOf(j)) /\ Quiet(q) /\ Box(outbox, outbox, 0, CloseOf(j))
  BY <1>0, <1>1, BoxEnqueued, BoxSame, IdleTick, QuietNow
<1> HIDE DEF q
<1>3. Box(outbox, outbox', 0, CloseOf(j)) /\ Resting /\ More /\ outbox' \in Seq(Row)
  BY <1>0, <1>2, EndsBox
<1>4. Agrees(CloseOf(j)) /\ TickTypes' /\ TickInv'
  BY <1>1, <1>3, RestFacts DEF Agrees, RowOfTask
<1>5. job'[j] = "cancelled" /\ Dead(j)' /\ ~HasRunningTask(j)' /\ Of(j) = j
  BY <1>0, OfFacts DEF IInv, Base, Types, RowTypes, Dead, Ended, HasRunningTask
<1>6. JobGoesOn(j)
  BY <1>5 DEF JobGoesOn
<1>7. ASSUME NEW k \in Jobs PROVE RowRests(0, k) /\ NewRowsOK(k)
  <2>1. \A m \in DOMAIN outbox' \ DOMAIN outbox : outbox'[m].id.kind = "close" /\ outbox'[m].id.of = j
    BY <1>1, <1>3 DEF Box
  <2> QED  BY <1>0, <1>5, <2>1 DEF RowRests, RowOf, NewRowsOK, OpenRowOK, CloseRowOK
<1>8. "cancelled" \in Lifecycle \ {"none"} /\ job[j] # "none"
  BY <1>0 DEF Lifecycle
<1> QED  BY <1>0, <1>3, <1>4, <1>6, <1>7, <1>8, JobOnly

\* A job gets a place in the queue and has no row open that asks for more.
LEMMA QueuedWhole ==
    ASSUME NEW j \in Jobs, Base', job'[j] \notin Ended \cup {"waiting_decision"}, ~HasRunningTask(j)',
           \A i \in DOMAIN outbox' : RowOf(i, j)' =>
               /\ outbox'[i].id.kind \notin Closing \cup {"session_create"}
               /\ outbox'[i].id.kind = "lease_create" => LeaseRowOK(i)'
    PROVE  JobWhole(j)'
<1>1. ~HasRunningTask(j)' => \A t \in TasksOf(j) : task'[t] # "running"
  BY DEF HasRunningTask
<1>2. RunningOK(j)' /\ WaitingOK(j)'
  BY <1>1, OfFacts DEF RunningOK, WaitingOK, TasksOf
<1> QED  BY <1>2 DEF JobWhole, OpenRowOK

LEMMA CreateJobStep == ASSUME IInv, NEW j \in Jobs, CreateJob(j) PROVE IInv'
<1>0. /\ Base /\ outbox \in Seq(Row) /\ WorldTypes /\ RowTypes /\ BrowserTypes /\ Family /\ OneHolder
      /\ Types /\ TickTypes /\ TickInv /\ job[j] = "none" /\ j \in Tasks /\ RowsOfTasks
  BY OfFacts DEF CreateJob, IInv, Base, Types
<1>1. /\ job' = [job EXCEPT ![j] = "created"] /\ task' = [task EXCEPT ![j] = "ready"]
      /\ count' = [count EXCEPT !.seq = @ + 1]
      /\ browser' = [browser EXCEPT ![j] = QueuedAt(j, count.seq + 1)]
      /\ UNCHANGED <<am, withdrawn, outbox, links, tick, world>>
  BY DEF CreateJob
<1>2. task[j] = "none" /\ browser[j].state = "none"
  BY <1>0 DEF Family, NotCreated
<1>3. count.seq \in Nat /\ count' \in [events : Nat, breaks : Nat, seq : Nat]
      /\ count'.breaks = count.breaks /\ count.breaks \in Nat
  BY <1>0, <1>1 DEF WorldTypes
<1>4. /\ job' \in [Jobs -> Lifecycle] /\ job'[j] = "created" /\ \A k \in Jobs \ {j} : job'[k] = job[k]
  BY <1>0, <1>1 DEF RowTypes, Lifecycle
<1>5. /\ task' \in [Tasks -> TaskState] /\ task'[j] = "ready"
      /\ \A t \in Tasks \ {j} : task'[t] = task[t]
  BY <1>0, <1>1 DEF RowTypes, TaskState
<1>6. TaskMoves
  BY <1>0, <1>2, <1>5 DEF TaskMoves, AfterTask, RowTypes, TaskState
<1>7. QueuedAt(j, count.seq + 1) \in Browser /\ QueuedAt(j, count.seq + 1).state = "queued"
      /\ QueuedAt(j, count.seq + 1).at = 0
  BY <1>3 DEF QueuedAt, Browser, BrowserState
<1>8. /\ browser' \in [Jobs -> Browser] /\ browser'[j].state = "queued" /\ browser'[j].at = 0
      /\ \A k \in Jobs \ {j} : browser'[k] = browser[k]
  BY <1>0, <1>1, <1>7 DEF BrowserTypes
<1>9. RowTypes' /\ BrowserTypes' /\ OneHolder' /\ WorldTypes'
  BY <1>0, <1>1, <1>3, <1>4, <1>5, <1>8
     DEF RowTypes, BrowserTypes, OneHolder, WorldTypes, Holding, links, world
<1>10. Family'
  <2>1. \A a \in Amendments : task'[a] = task[a]
    BY <1>5, OfFacts
  <2>2. \A k \in Jobs : job'[k] = "none" => job[k] = "none" /\ task'[k] = task[k] /\ browser'[k].state = browser[k].state
    BY <1>4, <1>5, <1>8, OfFacts
  <2> QED  BY <1>0, <1>1, <1>6, <2>1, <2>2, FamilyKept
<1>11. Box(outbox, outbox', 0, {}) /\ Agrees({}) /\ DOMAIN outbox' = DOMAIN outbox
  BY <1>0, <1>1, BoxSame DEF Agrees
<1>12. TickTypes' /\ TickInv'
  <2>1. TickLease'
    <3> SUFFICES ASSUME tick.at \in Out, outbox[tick.item].id.kind = "lease_create"
                 PROVE  LET t == outbox[tick.item].id.of
                        IN  /\ task'[t] = "ready" /\ browser'[Of(t)].state = "active"
                            /\ tick.at = "answered" => lease'.of = t
      BY <1>1 DEF TickLease
    <3> DEFINE t == outbox[tick.item].id.of
    <3>1. /\ task[t] = "ready" /\ browser[Of(t)].state = "active" /\ (tick.at = "answered" => lease.of = t)
          /\ t \in Tasks /\ Of(t) \in Jobs
      BY <1>0, CallingFacts, RowFacts DEF TickInv, TickLease
    <3>2. t # j /\ Of(t) # j
      BY <1>2, <3>1
    <3> QED  BY <1>1, <1>5, <1>8, <3>1, <3>2 DEF world
  <2>2. TickTask'
    BY <1>0, <1>1, <1>2, <1>5 DEF TickInv, TickTask, TickTypes
  <2> QED  BY <1>0, <1>1, <2>1, <2>2 DEF TickTypes, TickInv, TickRow
<1>13. \A k \in Jobs \ {j} : /\ NoStart(k) /\ BrowserRests(k) /\ JobGoesOn(k) /\ LeaseRests(k)
                            /\ RowRests(0, k) /\ NewRowsOK(k)
  <2> SUFFICES ASSUME NEW k \in Jobs \ {j}
               PROVE  /\ NoStart(k) /\ BrowserRests(k) /\ JobGoesOn(k) /\ LeaseRests(k)
                      /\ RowRests(0, k) /\ NewRowsOK(k)
    OBVIOUS
  <2>1. NoStart(k)
    BY <1>5, OfFacts DEF NoStart
  <2> QED  BY <1>0, <1>1, <1>4, <1>8, <2>1
           DEF BrowserRests, LeaseRests, JobGoesOn, Dead, RowRests, RowOf, NewRowsOK, world
<1>14. ASSUME Whole, Base' PROVE JobWhole(j)'
  <2>1. \A t \in TasksOf(j) \ {j} : task[t] = "none" /\ t \in Tasks
    <3> SUFFICES ASSUME NEW t \in Amendments, JobOf[t] = j PROVE task[t] = "none"
      BY OfFacts DEF TasksOf, AmendmentsOf
    <3> QED  BY <1>0, <1>2, OfFacts DEF Family, VerifiesAmendment, AmendmentOfDone
  <2>2. ~HasRunningTask(j)'
    BY <1>5, <2>1 DEF HasRunningTask
  <2>3. ASSUME NEW i \in DOMAIN outbox', RowOf(i, j)'
        PROVE  outbox'[i].id.kind \notin Closing \cup {"session_create", "lease_create"}
    <3>1. RowOf(i, j) /\ OpenRowOK(i, j) /\ outbox' = outbox /\ i \in DOMAIN outbox
      BY <1>1, <1>14, <2>3 DEF RowOf, Open, Whole, JobWhole
    <3>2. outbox[i].id.kind \notin Closing
      BY <1>0, <1>2, <3>1 DEF OpenRowOK, CloseRowOK, Parking, Dead, Ended
    <3>3. outbox[i].id.kind # "session_create"
      BY <1>2, <3>1 DEF OpenRowOK, SessionRowOK
    <3>4. outbox[i].id.kind # "lease_create"
      <4>1. outbox[i].id.of \in TasksOf(j)
        BY <1>0, <3>1, RowFacts, OfFacts DEF RowOf
      <4> QED  BY <1>2, <2>1, <3>1, <4>1 DEF OpenRowOK, LeaseRowOK
    <3> QED  BY <3>1, <3>2, <3>3, <3>4
  <2>4. job'[j] \notin Ended \cup {"waiting_decision"}
    BY <1>4 DEF Ended
  <2> QED  BY <1>14, <2>2, <2>3, <2>4, QueuedWhole
<1>15. count'.breaks >= count.breaks /\ leaseLink \subseteq leaseLink' /\ {j} \in SUBSET Jobs
  BY <1>1, <1>3 DEF links
<1>16. count'.breaks = 0 /\ Whole /\ Base' => \A k \in {j} : JobWhole(k)'
  BY <1>14
<1> HIDE DEF IInv
<1> QED  BY <1>6, <1>9, <1>10, <1>11, <1>12, <1>13, <1>15, <1>16, Changed

LEMMA ScheduleVerificationStep ==
    ASSUME IInv, NEW a \in Amendments, NEW c \in BOOLEAN, ScheduleVerification(a, c)
    PROVE  IInv'
<1> DEFINE j     == JobOf[a]
           again == c /\ browser[j].state \in GivenBack
<1>0. /\ Base /\ outbox \in Seq(Row) /\ WorldTypes /\ RowTypes /\ BrowserTypes /\ Family /\ OneHolder
      /\ Types /\ j \in Jobs /\ a \in Tasks /\ Of(a) = j /\ tick.at \notin Out
  BY OfFacts, JobAssumption, IdleFacts DEF ScheduleVerification, IInv, Base, Types
<1>1. /\ task' = [task EXCEPT ![a] = IF @ = "none" THEN "ready" ELSE @]
      /\ job' = [job EXCEPT ![j] = IF c THEN "running" ELSE @]
      /\ browser' = IF again THEN [browser EXCEPT ![j] = QueuedAt(j, count.seq + 1)] ELSE browser
      /\ IF c THEN count' = [count EXCEPT !.seq = IF again THEN @ + 1 ELSE @] ELSE Break
      /\ tick' = Idle /\ outbox' = IF c THEN outbox ELSE Recovered(outbox)
      /\ UNCHANGED <<am, withdrawn, links, world>>
  BY DEF ScheduleVerification
<1>2. /\ am[a] = "verifying" /\ job[j] \notin Ended \cup {"cancelling"} /\ ~HasRunningTask(j)
  BY DEF ScheduleVerification, IsFirst, ToSchedule, AmendmentAuthorised
<1> HIDE DEF j
<1>3. More /\ (count'.breaks = 0 => c)
  <2>1. CASE c
    <3>1. count.seq \in Nat /\ count.events \in Nat /\ count.breaks \in Nat
          /\ count = [events |-> count.events, breaks |-> count.breaks, seq |-> count.seq]
      BY <1>0 DEF WorldTypes
    <3>2. count' = [events |-> count.events, breaks |-> count.breaks,
                    seq |-> IF again THEN count.seq + 1 ELSE count.seq]
      BY <1>1, <2>1, <3>1
    <3> QED  BY <2>1, <3>1, <3>2 DEF More
  <2>2. CASE ~c
    BY <1>0, <1>1, <2>2, CountFacts
  <2> QED  BY <2>1, <2>2
<1>4. /\ job' \in [Jobs -> Lifecycle] /\ job'[j] = (IF c THEN "running" ELSE job[j])
      /\ \A k \in Jobs \ {j} : job'[k] = job[k]
  BY <1>0, <1>1 DEF RowTypes, Lifecycle
<1>5. /\ task' \in [Tasks -> TaskState] /\ task'[a] = (IF task[a] = "none" THEN "ready" ELSE task[a])
      /\ \A t \in Tasks \ {a} : task'[t] = task[t]
  BY <1>0, <1>1 DEF RowTypes, TaskState
<1>6. TaskMoves
  BY <1>0, <1>5 DEF TaskMoves, AfterTask, RowTypes, TaskState
<1>7. count.seq + 1 \in Nat
  BY <1>0 DEF WorldTypes
<1>8. QueuedAt(j, count.seq + 1) \in Browser /\ QueuedAt(j, count.seq + 1).state = "queued"
      /\ QueuedAt(j, count.seq + 1).at = 0
  BY <1>7 DEF QueuedAt, Browser, BrowserState
<1>9. /\ browser' \in [Jobs -> Browser] /\ \A k \in Jobs \ {j} : browser'[k] = browser[k]
      /\ again => browser'[j].state = "queued" /\ browser'[j].at = 0
      /\ ~again => browser' = browser
  BY <1>0, <1>1, <1>8 DEF BrowserTypes
<1>10. RowTypes' /\ BrowserTypes' /\ OneHolder' /\ WorldTypes'
  <2>1. OneHolder'
    BY <1>0, <1>9 DEF OneHolder, Holding
  <2>2. BrowserTypes'
    BY <1>0, <1>9 DEF BrowserTypes
  <2> QED  BY <1>0, <1>1, <1>3, <1>4, <1>5, <2>1, <2>2 DEF RowTypes, WorldTypes, More, links, world
<1>11. Family'
  <2>1. \A b \in Amendments : task[b] = "none" /\ task'[b] # "none" => am[b] # "none"
    BY <1>2, <1>5, OfFacts
  <2>2. job[j] # "none"
    <3>1. task[j] = "succeeded"
      BY <1>0, <1>2 DEF Family, AmendmentOfDone, j
    <3> QED  BY <1>0, <3>1 DEF Family, NotCreated
  <2>3. \A k \in Jobs : job'[k] # "none" \/ (job[k] = "none" /\ k # j)
    BY <1>4, <2>2
  <2>4. \A k \in Jobs : job'[k] = "none" => job[k] = "none" /\ task'[k] = task[k] /\ browser'[k].state = browser[k].state
    BY <1>5, <1>9, <2>3, OfFacts
  <2> QED  BY <1>0, <1>1, <1>6, <2>1, <2>4, FamilyKept
<1>12. Box(outbox, outbox', 0, {}) /\ Agrees({}) /\ DOMAIN outbox' = DOMAIN outbox
       /\ Quiet(outbox') /\ outbox' \in Seq(Row)
  BY <1>0, <1>1, BoxSame, BoxRecovered, QuietNow DEF Agrees
<1>13. TickTypes' /\ TickInv'
  BY <1>1, <1>12, IdleFacts, RestFacts DEF Resting
<1>14. ~HasRunningTask(j)'
  BY <1>0, <1>2, <1>5, OfFacts DEF HasRunningTask
<1>15. \A k \in Jobs : /\ LeaseRests(k) /\ RowRests(0, k) /\ NewRowsOK(k)
  BY <1>0, <1>1, <1>12, NoNewRows DEF LeaseRests, RowRests, RowOf, world
<1>16. \A k \in Jobs : NoStart(k)
  <2>1. \A t \in Tasks : task'[t] = "running" => task[t] = "running"
    BY <1>5
  <2> QED  BY <2>1, OfFacts DEF NoStart
<1>17. \A k \in Jobs \ {j} : /\ NoStart(k) /\ BrowserRests(k) /\ JobGoesOn(k) /\ LeaseRests(k)
                            /\ RowRests(0, k) /\ NewRowsOK(k)
  BY <1>4, <1>9, <1>15, <1>16 DEF BrowserRests, JobGoesOn, Dead
<1>18. ASSUME count'.breaks = 0, Whole, Base' PROVE JobWhole(j)'
  <2>0. c /\ job'[j] = "running" /\ outbox' = outbox /\ ~Dead(j)
    BY <1>1, <1>2, <1>3, <1>4, <1>18 DEF Dead
  <2>1. CASE ~again
    <3>1. BrowserRests(j) /\ JobGoesOn(j)
      BY <1>9, <2>0, <2>1 DEF BrowserRests, JobGoesOn, Ended
    <3> QED  BY <1>0, <1>1, <1>6, <1>12, <1>15, <1>16, <1>18, <3>1, JobKept DEF Whole, links
  <2>2. CASE again
    <3>1. ASSUME NEW i \in DOMAIN outbox', RowOf(i, j)'
          PROVE  /\ outbox'[i].id.kind \notin Closing \cup {"session_create"}
                 /\ outbox'[i].id.kind = "lease_create" => LeaseRowOK(i)'
      <4>1. RowOf(i, j) /\ OpenRowOK(i, j) /\ i \in DOMAIN outbox
        BY <1>0, <1>18, <2>0, <3>1 DEF RowOf, Open, Whole, JobWhole
      <4>2. outbox[i].id.kind \notin Closing
        BY <2>0, <2>2, <4>1 DEF OpenRowOK, CloseRowOK, Parking, GivenBack
      <4>3. outbox[i].id.kind # "session_create"
        BY <2>0, <2>2, <4>1 DEF OpenRowOK, SessionRowOK, GivenBack
      <4>4. outbox[i].id.kind = "lease_create" => LeaseRowOK(i)'
        <5>1. outbox[i].id.of \in Tasks
          BY <1>0, <4>1, RowFacts
        <5> QED  BY <1>5, <2>0, <4>1, <5>1 DEF OpenRowOK, LeaseRowOK
      <4> QED  BY <2>0, <4>2, <4>3, <4>4
    <3>2. job'[j] \notin Ended \cup {"waiting_decision"}
      BY <2>0 DEF Ended
    <3> QED  BY <1>0, <1>14, <1>18, <3>1, <3>2, QueuedWhole
  <2> QED  BY <2>1, <2>2
<1>19. count'.breaks >= count.breaks /\ leaseLink \subseteq leaseLink' /\ {j} \in SUBSET Jobs
  BY <1>0, <1>1, <1>3 DEF links, More
<1>20. count'.breaks = 0 /\ Whole /\ Base' => \A k \in {j} : JobWhole(k)'
  BY <1>18
<1>21. count'.breaks = 0 /\ Whole => 
         \A k \in Jobs \ {j} : /\ NoStart(k) /\ BrowserRests(k) /\ JobGoesOn(k) /\ LeaseRests(k)
                            /\ RowRests(0, k) /\ NewRowsOK(k)
  BY <1>17
<1> HIDE DEF IInv
<1> QED  BY <1>6, <1>10, <1>11, <1>12, <1>13, <1>19, <1>20, <1>21, Changed

-----------------------------------------------------------------------------
(***************************************************************************)
(* The task that runs ends.                                                 *)
(***************************************************************************)
CloseLeaseOf(t) == Id("close_lease", t, browser[Of(t)].at)

\* What is open for a job whose task runs asks for nothing.
LEMMA RunningJobRows ==
    ASSUME Base, NEW j \in Jobs, JobWhole(j), NEW t \in TasksOf(j), task[t] = "running",
           NEW i \in DOMAIN outbox, RowOf(i, j)
    PROVE  outbox[i].id.kind \notin Closing \cup {"session_create", "lease_create"}
<1>0. OpenRowOK(i, j) /\ HasRunningTask(j) /\ browser[j].state = "active" /\ t \in Tasks /\ Of(t) = j
  BY OfFacts DEF JobWhole, HasRunningTask, RunningOK
<1>1. outbox[i].id.kind \notin Closing
  BY <1>0 DEF OpenRowOK, CloseRowOK
<1>2. outbox[i].id.kind # "session_create"
  BY <1>0 DEF OpenRowOK, SessionRowOK
<1>3. outbox[i].id.kind # "lease_create"
  <2> SUFFICES ASSUME outbox[i].id.kind = "lease_create" PROVE FALSE
    OBVIOUS
  <2>1. task[outbox[i].id.of] \in {"ready", "blocked"} /\ outbox[i].id.of \in Tasks /\ Of(outbox[i].id.of) = j
    BY <1>0, RowFacts DEF OpenRowOK, LeaseRowOK, RowOf
  <2>2. outbox[i].id.of = t
    BY <1>0, <2>1, OneActive DEF Base
  <2> QED  BY <2>1, <2>2
<1> QED  BY <1>1, <1>2, <1>3

LEMMA TaskEnded ==
    ASSUME Base, Base', NEW j \in Jobs, JobWhole(j), NEW t \in Tasks, Of(t) = j, task[t] = "running",
           NEW z \in TaskState \ {"none", "ready", "running"}, task' = [task EXCEPT ![t] = z],
           browser' = browser, lease' = lease,
           NEW i, Box(outbox, outbox', i, {CloseLeaseOf(t)}),
           \/ Dead(j)'
           \/ DOMAIN outbox' = DOMAIN outbox /\ job'[j] # "waiting_decision"
           \/ t = j /\ z = "succeeded" /\ outbox' = Enqueue(outbox, CloseLeaseOf(t))
    PROVE  JobWhole(j)'
<1> DEFINE id == CloseLeaseOf(t)
<1>0. /\ outbox \in Seq(Row) /\ RowTypes /\ t \in TasksOf(j) /\ OneRowEach
      /\ browser[j].state = "active" /\ t \in leaseLink
  BY OfFacts DEF Base, Types, JobWhole, RunningOK
<1>1. id \in ItemId /\ id.kind = "close_lease" /\ id.of = t /\ id = Id("close_lease", t, browser[j].at)
  BY IdFacts, BrowserFacts DEF CloseLeaseOf, Kind
<1>2. ~HasRunningTask(j)'
  <2> SUFFICES ASSUME NEW u \in TasksOf(j), task'[u] = "running" PROVE FALSE
    BY DEF HasRunningTask
  <2>1. u \in Tasks /\ Of(u) = j
    BY OfFacts
  <2>2. u # t /\ task[u] = "running"
    BY <1>0, <2>1 DEF RowTypes
  <2> QED  BY <2>1, <2>2, OneActive DEF Base
<1>3. \A u \in TasksOf(j) : task'[u] # "running"
  BY <1>2 DEF HasRunningTask
<1>4. RunningOK(j)'
  BY <1>3, OfFacts DEF RunningOK, TasksOf
<1> HIDE DEF id
<1>5. ASSUME NEW k \in DOMAIN outbox', RowOf(k, j)'
      PROVE  \/ outbox'[k].id.kind \notin Closing \cup {"session_create", "lease_create"}
             \/ k \in DOMAIN outbox' \ DOMAIN outbox /\ outbox'[k].id = id
  <2>1. CASE k \in DOMAIN outbox
    <3>1. RowOf(k, j) /\ outbox'[k].id = outbox[k].id
      BY <1>5, <2>1, OldRow
    <3> QED  BY <1>0, <2>1, <3>1, RunningJobRows
  <2>2. CASE k \notin DOMAIN outbox
    BY <2>2 DEF Box, id
  <2> QED  BY <2>1, <2>2
<1>6. CASE Dead(j)'
  <2>1. WaitingOK(j)'
    BY <1>6 DEF WaitingOK, Dead, Ended
  <2>2. ASSUME NEW k \in DOMAIN outbox', RowOf(k, j)' PROVE OpenRowOK(k, j)'
    BY <1>1, <1>2, <1>5, <1>6, <2>2 DEF OpenRowOK, CloseRowOK, Closing
  <2> QED  BY <1>4, <2>1, <2>2 DEF JobWhole
<1>7. CASE DOMAIN outbox' = DOMAIN outbox /\ job'[j] # "waiting_decision"
  <2>1. WaitingOK(j)'
    BY <1>7 DEF WaitingOK
  <2>2. ASSUME NEW k \in DOMAIN outbox', RowOf(k, j)' PROVE OpenRowOK(k, j)'
    BY <1>5, <1>7, <2>2 DEF OpenRowOK
  <2> QED  BY <1>4, <2>1, <2>2 DEF JobWhole
<1>8. CASE t = j /\ z = "succeeded" /\ outbox' = Enqueue(outbox, CloseLeaseOf(t))
  <2>1. PICK m \in DOMAIN outbox' : outbox'[m].id = id
    BY <1>0, <1>1, <1>8, BoxEnqueued DEF id
  <2>2. m \notin DOMAIN outbox
    <3> SUFFICES ASSUME m \in DOMAIN outbox PROVE FALSE
      OBVIOUS
    <3>1. outbox[m].id = id
      BY <2>1 DEF Box, Continues
    <3> QED  BY <1>1, <3>1, RowFacts DEF RowOfTask
  <2>3. outbox'[m].status = "pending"
    BY <1>0, <1>1, <1>8, <2>2, BoxEnqueued DEF id
  <2>4. RowOf(m, j)'
    BY <1>1, <2>1, <2>3, OfFacts DEF RowOf, Open, Unsettled, AtOnce
  <2>5. task'[j] = "succeeded" /\ lease.of \in {NoJob, j}
    BY <1>0, <1>8 DEF RowTypes, JobWhole, RunningOK
  <2>6. Parking(m, j)'
    <3>1. \A k \in DOMAIN outbox' : RowOf(k, j)' => outbox'[k].id.kind # "lease_create"
      BY <1>1, <1>5
    <3> QED  BY <1>0, <1>1, <1>8, <2>1, <2>3, <2>5, <3>1 DEF Parking
  <2>7. WaitingOK(j)'
    BY <2>4, <2>6 DEF WaitingOK
  <2>8. ASSUME NEW k \in DOMAIN outbox', RowOf(k, j)' PROVE OpenRowOK(k, j)'
    <3>1. CASE outbox'[k].id.kind \notin Closing \cup {"session_create", "lease_create"}
      BY <3>1 DEF OpenRowOK
    <3>2. CASE outbox'[k].id = id
      <4>1. k = m
        BY <2>1, <3>2 DEF Base, OneRowEach
      <4>2. OpenRowOK(m, j)'
        BY <1>1, <1>2, <2>1, <2>6 DEF OpenRowOK, CloseRowOK, Closing
      <4> QED  BY <4>1, <4>2
    <3> QED  BY <1>5, <2>8, <3>1, <3>2
  <2> QED  BY <1>4, <2>7, <2>8 DEF JobWhole
<1> QED  BY <1>6, <1>7, <1>8

LEMMA TaskEnds ==
    ASSUME IInv, NEW t \in Tasks, task[t] = "running",
           NEW z \in TaskState \ {"none", "ready", "running"}, task' = [task EXCEPT ![t] = z],
           NEW l \in Lifecycle \ {"none"}, job' = [job EXCEPT ![Of(t)] = l],
           am' \in [Amendments -> AmState],
           \A a \in Amendments : am[a] # "none" => am'[a] # "none",
           \A a \in Amendments : am[a] = "none" /\ am'[a] # "none" =>
               /\ task'[JobOf[a]] = "succeeded"
               /\ \A b \in Amendments \ {a} : JobOf[b] = JobOf[a] => am[b] = "none" /\ am'[b] = "none",
           UNCHANGED <<withdrawn, browser, links, world>>, More,
           NEW i, Box(outbox, outbox', i, {CloseLeaseOf(t)}), TickTypes', TickInv',
           count'.breaks = 0 /\ Whole =>
               /\ \/ l \in Ended \cup {"cancelling"}
                  \/ DOMAIN outbox' = DOMAIN outbox /\ l # "waiting_decision"
                  \/ t = Of(t) /\ z = "succeeded" /\ outbox' = Enqueue(outbox, CloseLeaseOf(t))
               /\ \A k \in Jobs \ {Of(t)} : RowRests(i, k)
    PROVE  IInv'
<1>0. /\ Base /\ outbox \in Seq(Row) /\ WorldTypes /\ RowTypes /\ BrowserTypes /\ Family /\ OneHolder
      /\ Types /\ Of(t) \in Jobs
  BY OfFacts DEF IInv, Base, Types
<1> DEFINE j == Of(t)
<1>1. /\ job' \in [Jobs -> Lifecycle] /\ job'[j] = l /\ \A k \in Jobs \ {j} : job'[k] = job[k]
  BY <1>0 DEF RowTypes
<1>2. /\ task' \in [Tasks -> TaskState] /\ task'[t] = z
      /\ \A u \in Tasks \ {t} : task'[u] = task[u]
  BY <1>0 DEF RowTypes
<1>3. TaskMoves
  BY <1>0, <1>2 DEF TaskMoves, AfterTask, RowTypes, TaskState
<1>4. RowTypes' /\ BrowserTypes' /\ OneHolder' /\ WorldTypes'
  BY <1>0, <1>1, <1>2 DEF RowTypes, BrowserTypes, OneHolder, WorldTypes, More, links, world
<1>5. Family'
  <2>1. \A b \in Amendments : task[b] = "none" /\ task'[b] # "none" => am[b] # "none"
    BY <1>2, OfFacts
  <2>2. \A k \in Jobs : job'[k] = "none" => job[k] = "none" /\ task'[k] = task[k] /\ browser'[k].state = browser[k].state
    BY <1>1, <1>2, OfFacts
  <2> QED  BY <1>0, <1>3, <2>1, <2>2, FamilyKept
<1>6. Agrees({CloseLeaseOf(t)})
  <2>1. CloseLeaseOf(t).kind = "close_lease" /\ CloseLeaseOf(t).of = t
    BY DEF CloseLeaseOf, Id
  <2> QED  BY <1>2, <2>1 DEF Agrees, RowOfTask
<1>7. \A k \in Jobs : NoStart(k) /\ BrowserRests(k) /\ LeaseRests(k)
  <2>1. \A u \in Tasks : task'[u] = "running" => task[u] = "running"
    BY <1>2
  <2> QED  BY <2>1, OfFacts DEF NoStart, BrowserRests, LeaseRests, world
<1>8. \A k \in Jobs \ {j} : JobGoesOn(k) /\ NewRowsOK(k)
  <2>1. \A m \in DOMAIN outbox' \ DOMAIN outbox : Of(outbox'[m].id.of) = j
    BY DEF Box, CloseLeaseOf, Id
  <2> QED  BY <1>1, <2>1 DEF JobGoesOn, Dead, NewRowsOK
<1>9. ASSUME count'.breaks = 0, Whole, Base' PROVE JobWhole(j)'
  <2>1. \/ Dead(j)'
        \/ DOMAIN outbox' = DOMAIN outbox /\ job'[j] # "waiting_decision"
        \/ t = j /\ z = "succeeded" /\ outbox' = Enqueue(outbox, CloseLeaseOf(t))
    BY <1>1, <1>9 DEF Dead
  <2>2. JobWhole(j) /\ lease' = lease
    BY <1>0, <1>9 DEF Whole, world
  <2> QED  BY <1>0, <1>9, <2>1, <2>2, TaskEnded
<1>10. count'.breaks >= count.breaks /\ leaseLink \subseteq leaseLink' /\ {j} \in SUBSET Jobs
  BY <1>0 DEF links, More
<1>11. count'.breaks = 0 /\ Whole /\ Base' => \A k \in {j} : JobWhole(k)'
  BY <1>9
<1>12. count'.breaks = 0 /\ Whole =>
         \A k \in Jobs \ {j} : /\ NoStart(k) /\ BrowserRests(k) /\ JobGoesOn(k) /\ LeaseRests(k)
                            /\ RowRests(i, k) /\ NewRowsOK(k)
  BY <1>7, <1>8
<1> HIDE DEF IInv, j
<1> QED  BY <1>3, <1>4, <1>5, <1>6, <1>10, <1>11, <1>12, Changed

\* What a tick writes when the task it asked for ended.
LEMMA ClosesWithLease ==
    ASSUME Base, NEW t \in Tasks, tick.at \notin Out, NEW c \in BOOLEAN, NEW q,
           q = outbox \/ q = CloseWithLease(outbox, t), Ends(c, q)
    PROVE  /\ Box(outbox, outbox', 0, {CloseLeaseOf(t)}) /\ TickTypes' /\ TickInv' /\ More
           /\ \A k \in Jobs : RowRests(0, k)
           /\ count'.breaks = 0 => outbox' = q
           /\ ~c => count'.breaks # 0
<1>0. outbox \in Seq(Row) /\ Quiet(outbox)
  BY QuietNow DEF Base, Types
<1>1. CloseLeaseOf(t) \in ItemId
  BY IdFacts, OfFacts, BrowserFacts DEF CloseLeaseOf, Kind
<1>2. q = outbox \/ q = Enqueue(outbox, CloseLeaseOf(t))
  BY DEF CloseWithLease, CloseLeaseOf
<1>3. /\ Box(outbox, outbox, 0, {CloseLeaseOf(t)}) /\ Box(outbox, q, 0, {CloseLeaseOf(t)}) /\ Quiet(q)
  BY <1>0, <1>1, <1>2, BoxSame, BoxEnqueued
<1>4. /\ Box(outbox, outbox', 0, {CloseLeaseOf(t)}) /\ Resting /\ More /\ outbox' \in Seq(Row)
      /\ count'.breaks = 0 => outbox' = q
      /\ ~c => count'.breaks # 0
  BY <1>0, <1>3, EndsBox DEF Ends
<1>5. \A k \in Jobs : RowRests(0, k)
  BY <1>0 DEF RowRests, RowOf
<1> QED  BY <1>4, <1>5, RestFacts

LEMMA InterruptTaskStep == ASSUME IInv, NEW t \in Tasks, NEW c \in BOOLEAN, InterruptTask(t, c) PROVE IInv'
<1>0. /\ Base /\ tick.at \notin Out /\ task[t] = "running" /\ RowTypes /\ Of(t) \in Jobs /\ t \in TasksOf(Of(t))
      /\ t \notin leaseLink
  BY OfFacts, FoundFacts DEF InterruptTask, Running, IInv, Base, Types, Out
<1>1. /\ Box(outbox, outbox', 0, {CloseLeaseOf(t)}) /\ TickTypes' /\ TickInv' /\ More
  BY <1>0, ClosesWithLease DEF InterruptTask
<1>2. Whole => FALSE
  BY <1>0 DEF Whole, JobWhole, RunningOK
<1> DEFINE l == IF c THEN "failed" ELSE job[Of(t)]
<1>3. /\ job' = [job EXCEPT ![Of(t)] = l] /\ l \in Lifecycle \ {"none"}
  <2>1. job[Of(t)] # "none"
    <3>1. task[Of(t)] # "none"
      BY <1>0, OfFacts DEF Base, Family, NotCreated, AmendmentOfDone, VerifiesAmendment, Tasks
    <3> QED  BY <1>0, <3>1 DEF Base, Family, NotCreated
  <2> QED  BY <1>0, <2>1 DEF InterruptTask, RowTypes, Lifecycle
<1>4. /\ task' = [task EXCEPT ![t] = "blocked"] /\ UNCHANGED <<am, withdrawn, browser, links, world>>
  BY DEF InterruptTask
<1>5. "blocked" \in TaskState \ {"none", "ready", "running"} /\ am' \in [Amendments -> AmState]
  BY <1>0, <1>4 DEF TaskState, RowTypes
<1> HIDE DEF l
<1> QED  BY <1>0, <1>1, <1>2, <1>3, <1>4, <1>5, TaskEnds

\* The job of a task that exists exists.
LEMMA JobOfTask ==
    ASSUME Base, NEW t \in Tasks, task[t] # "none"
    PROVE  job[Of(t)] # "none" /\ job[Of(t)] \in Lifecycle
<1>1. task[Of(t)] # "none" /\ Of(t) \in Jobs
  BY OfFacts DEF Base, Family, NotCreated, AmendmentOfDone, VerifiesAmendment, Tasks
<1> QED  BY <1>1 DEF Base, Family, NotCreated, Types, RowTypes

LEMMA TaskCancelledStep ==
    ASSUME IInv, NEW steps \in 1 .. 3, TaskCancelled(steps)
    PROVE  IInv'
<1> DEFINE t == tick.of
           refused == job[Of(t)] # "cancelling"
           q == IF refused THEN outbox ELSE CloseWithLease(outbox, t)
           l == IF steps >= 2 /\ ~refused THEN "cancelled" ELSE job[Of(t)]
<1>0. /\ Base /\ tick.at \notin Out /\ t \in Tasks /\ task[t] = "running" /\ RowTypes
      /\ Of(t) \in Jobs /\ t \in TasksOf(Of(t))
  BY OfFacts DEF TaskCancelled, Reconciling, IInv, Base, Types, TickTypes, TickInv, TickTask, With, Out
<1>1. /\ task' = [task EXCEPT ![t] = "cancelled"] /\ job' = [job EXCEPT ![Of(t)] = l]
      /\ Ends(steps = 3, q) /\ UNCHANGED <<am, withdrawn, browser, links, world>>
  BY DEF TaskCancelled
<1>2. l \in Lifecycle \ {"none"}
  BY <1>0, JobOfTask DEF Lifecycle
<1>3. "cancelled" \in TaskState \ {"none", "ready", "running"} /\ am' \in [Amendments -> AmState]
  BY <1>0, <1>1 DEF TaskState, RowTypes
<1>4. q = outbox \/ q = CloseWithLease(outbox, t)
  OBVIOUS
<1>5. ASSUME Whole PROVE job[Of(t)] # "waiting_decision"
  BY <1>0, <1>5 DEF Whole, JobWhole, RunningOK
<1>6. /\ ~refused => l \in Ended \cup {"cancelling"}
      /\ refused => q = outbox /\ l = job[Of(t)]
  BY DEF Ended
<1>7. (steps = 3) \in BOOLEAN
  OBVIOUS
<1> HIDE DEF t, q, l
<1>8. /\ Box(outbox, outbox', 0, {CloseLeaseOf(t)}) /\ TickTypes' /\ TickInv' /\ More
      /\ \A k \in Jobs : RowRests(0, k)
      /\ count'.breaks = 0 => outbox' = q
  BY <1>0, <1>1, <1>4, <1>7, ClosesWithLease
<1>9. count'.breaks = 0 /\ Whole =>
         /\ \/ l \in Ended \cup {"cancelling"}
            \/ DOMAIN outbox' = DOMAIN outbox /\ l # "waiting_decision"
            \/ t = Of(t) /\ "cancelled" = "succeeded" /\ outbox' = Enqueue(outbox, CloseLeaseOf(t))
         /\ \A k \in Jobs \ {Of(t)} : RowRests(0, k)
  BY <1>5, <1>6, <1>8
<1> HIDE DEF IInv
<1> QED  BY <1>0, <1>1, <1>2, <1>3, <1>8, <1>9, TaskEnds

LEMMA Apply3Kept ==
    ASSUME IInv, NEW t \in Tasks, task[t] = "running", tick.at \notin Out,
           NEW z \in TaskState \ {"none", "ready", "running"}, NEW l \in Lifecycle \ {"none"},
           NEW steps \in 1 .. 3, Apply3(t, z, l, steps),
           am' \in [Amendments -> AmState],
           \A a \in Amendments : am[a] # "none" => am'[a] # "none",
           \A a \in Amendments : am[a] = "none" /\ am'[a] # "none" =>
               /\ JobOf[a] = t /\ z = "succeeded"
               /\ \A b \in Amendments \ {a} : JobOf[b] = JobOf[a] => am'[b] = am[b],
           l \in Ended \/ (t \in Jobs /\ z = "succeeded")
    PROVE  IInv'
<1> DEFINE q == CloseWithLease(outbox, t)
           m == IF steps >= 2 THEN l ELSE job[Of(t)]
<1>0. /\ Base /\ RowTypes /\ Of(t) \in Jobs /\ t \in TasksOf(Of(t)) /\ Family
  BY OfFacts DEF IInv, Base, Types
<1>1. /\ task' = [task EXCEPT ![t] = z] /\ job' = [job EXCEPT ![Of(t)] = m]
      /\ Ends(steps = 3, q) /\ UNCHANGED <<withdrawn, browser, links, world>>
  BY DEF Apply3
<1>2. m \in Lifecycle \ {"none"}
  BY <1>0, JobOfTask
<1>3. (steps = 3) \in BOOLEAN /\ (steps = 3 => m = l)
  OBVIOUS
<1>4. t \in leaseLink => q = Enqueue(outbox, CloseLeaseOf(t))
  BY DEF CloseWithLease, CloseLeaseOf
<1> HIDE DEF m, q
<1>5. /\ Box(outbox, outbox', 0, {CloseLeaseOf(t)}) /\ TickTypes' /\ TickInv' /\ More
      /\ \A k \in Jobs : RowRests(0, k)
      /\ count'.breaks = 0 => outbox' = q
      /\ ~(steps = 3) => count'.breaks # 0
  BY <1>0, <1>1, <1>3, ClosesWithLease DEF q
<1>6. ASSUME Whole PROVE t \in leaseLink
  BY <1>0, <1>6 DEF Whole, JobWhole, RunningOK
<1>7. count'.breaks = 0 /\ Whole =>
         /\ \/ m \in Ended \cup {"cancelling"}
            \/ DOMAIN outbox' = DOMAIN outbox /\ m # "waiting_decision"
            \/ t = Of(t) /\ z = "succeeded" /\ outbox' = Enqueue(outbox, CloseLeaseOf(t))
         /\ \A k \in Jobs \ {Of(t)} : RowRests(0, k)
  BY <1>3, <1>4, <1>5, <1>6, OfFacts
<1>8. ASSUME NEW a \in Amendments, am[a] = "none", am'[a] # "none"
      PROVE  /\ task'[JobOf[a]] = "succeeded"
             /\ \A b \in Amendments \ {a} : JobOf[b] = JobOf[a] => am[b] = "none" /\ am'[b] = "none"
  BY <1>0, <1>1, <1>8 DEF RowTypes, Family, AmendmentOfDone
<1> HIDE DEF IInv
<1> QED  BY <1>1, <1>2, <1>5, <1>7, <1>8, TaskEnds

LEMMA CapturingFacts ==
    ASSUME IInv, tick.at = "capturing"
    PROVE  /\ tick.at \notin Out /\ tick.of \in Tasks /\ task[tick.of] = "running" /\ RowTypes
           /\ {"succeeded", "blocked", "failed"} \subseteq TaskState \ {"none", "ready", "running"}
           /\ {"waiting_decision", "paused", "completed", "failed"} \subseteq Lifecycle \ {"none"}
  BY DEF IInv, Base, Types, TickTypes, TickInv, TickTask, With, Out, TaskState, Lifecycle

LEMMA ProposeStep ==
    ASSUME IInv, NEW a \in Amendments, NEW s \in {"waiting_decision", "candidate_ready"},
           NEW steps \in 1 .. 3, Propose(a, s, steps)
    PROVE  IInv'
<1> DEFINE t == tick.of
           l == IF s = "waiting_decision" THEN "waiting_decision" ELSE "paused"
<1>0. /\ tick.at = "capturing" /\ t = JobOf[a] /\ t \in Jobs /\ am[a] = "none" /\ s \in AmState
      /\ am' = [am EXCEPT ![a] = s] /\ Apply3(t, "succeeded", l, steps)
  BY JobAssumption DEF Propose, AmState
<1>1. /\ tick.at \notin Out /\ t \in Tasks /\ task[t] = "running" /\ RowTypes
      /\ "succeeded" \in TaskState \ {"none", "ready", "running"} /\ l \in Lifecycle \ {"none"}
  BY <1>0, CapturingFacts
<1>2. /\ am' \in [Amendments -> AmState] /\ am'[a] = s /\ s # "none"
      /\ \A b \in Amendments \ {a} : am'[b] = am[b]
  BY <1>0, <1>1 DEF RowTypes
<1> HIDE DEF t, l, IInv
<1>3. \A b \in Amendments : am[b] # "none" => am'[b] # "none"
  BY <1>0, <1>2
<1>4. \A b \in Amendments : am[b] = "none" /\ am'[b] # "none" =>
         /\ JobOf[b] = t /\ "succeeded" = "succeeded"
         /\ \A d \in Amendments \ {b} : JobOf[d] = JobOf[b] => am'[d] = am[d]
  BY <1>0, <1>2
<1> QED  BY <1>0, <1>1, <1>2, <1>3, <1>4, Apply3Kept

LEMMA TaskAppliedStep ==
    ASSUME IInv, NEW r \in Results \cup {"invalid"}, NEW steps \in 1 .. 3, TaskApplied(r, steps)
    PROVE  IInv'
<1>0. /\ tick.at = "capturing" /\ tick.of \in Jobs /\ am' = am
      /\ r \in {"no_change", "blocked", "invalid"}
  BY JobAssumption DEF TaskApplied
<1>1. PICK z \in {"succeeded", "blocked", "failed"}, l \in {"completed", "failed"} :
         Apply3(tick.of, z, l, steps)
  BY <1>0 DEF TaskApplied
<1>2. l \in Ended /\ am' \in [Amendments -> AmState]
  BY <1>0, <1>1, CapturingFacts DEF Ended, RowTypes
<1> QED  BY <1>0, <1>1, <1>2, CapturingFacts, Apply3Kept

LEMMA VerificationAppliedStep ==
    ASSUME IInv, NEW ok \in BOOLEAN, NEW steps \in 1 .. 3, VerificationApplied(ok, steps)
    PROVE  IInv'
<1>0. /\ tick.at = "capturing" /\ tick.of \in Amendments /\ Family /\ Base
  BY DEF VerificationApplied, IInv, Base
<1>1. PICK s : /\ am' = [am EXCEPT ![tick.of] = s] /\ s \in {"activated", "closed", am[tick.of]}
  BY DEF VerificationApplied
<1>2. PICK z \in {"succeeded", "failed"}, l \in {"completed", "failed"} : Apply3(tick.of, z, l, steps)
  BY DEF VerificationApplied
<1>3. /\ am' \in [Amendments -> AmState]
      /\ \A b \in Amendments : am[b] # "none" <=> am'[b] # "none"
  <2>1. am[tick.of] # "none" /\ am \in [Amendments -> AmState]
    BY <1>0, CapturingFacts, OfFacts DEF Family, VerifiesAmendment, RowTypes
  <2> QED  BY <1>0, <1>1, <2>1 DEF AmState
<1>4. l \in Ended
  BY <1>2 DEF Ended
<1> QED  BY <1>0, <1>2, <1>3, <1>4, CapturingFacts, Apply3Kept

-----------------------------------------------------------------------------
(***************************************************************************)
(* A row that is refused, and a call that fails.                            *)
(***************************************************************************)
LEMMA RefusedKept ==
    ASSUME IInv, NEW i \in DOMAIN outbox, Open(i), ~Authorised(outbox[i].id), NEW c \in BOOLEAN,
           tick.at # "revoking", tick.at \in Out => i = tick.item,
           Refuse(i, c), UNCHANGED <<withdrawn, links, world>>
    PROVE  IInv'
<1> DEFINE id == outbox[i].id
           q  == Settled(outbox, i, "cancelled")
<1> PICK j \in Jobs : j = Of(id.of)
  BY RowFacts DEF IInv, Base
<1>0. /\ Base /\ outbox \in Seq(Row) /\ WorldTypes /\ RowTypes /\ id.of \in Tasks /\ j \in Jobs
      /\ i \in Nat /\ agentLink' \subseteq Tasks
      /\ id.kind \in {"session_create", "lease_create", "agent_create", "agent_resume"}
  <2>1. id.kind \in {"session_create", "lease_create", "agent_create", "agent_resume"}
    BY DEF Authorised
  <2>2. /\ Base /\ outbox \in Seq(Row) /\ WorldTypes /\ RowTypes /\ agentLink' \subseteq Tasks
    BY DEF IInv, Base, Types, RowTypes, links
  <2> QED  BY <2>1, <2>2, RowFacts
<1>1. /\ "cancelled" \in ItemStatus \ Unsettled /\ "cancelled" \in ItemStatus \ {"dispatching"}
  BY DEF ItemStatus, Unsettled, AtOnce
<1>2. Quiet(q) /\ q \in Seq(Row) /\ DOMAIN q = DOMAIN outbox /\ \A N : Box(outbox, q, i, N)
  BY <1>0, <1>1, BoxSettled, QuietAfter
<1>3. \A N : Box(outbox, outbox, i, N)
  BY <1>0, BoxSame
<1>4. \A k \in Jobs : RowRests(i, k)
  BY <1>0, NotClosing DEF Closing
<1>5. CASE id.kind \in {"session_create", "lease_create"} /\ browser[j].state \in Holding
  <2>1. FailUnstarted(j, {}, q) /\ tick' = Idle /\ UNCHANGED count
    BY <1>5 DEF Refuse
  <2>2. More
    BY <1>0, <2>1, CountStays
  <2> QED  BY <1>0, <1>1, <1>5, <2>1, <2>2, RowFailsJob
<1>6. CASE id.kind = "agent_create" /\ Found(j, "running") = {id.of}
  <2> DEFINE p == CloseWithLease(q, id.of)
             l == IF c THEN "failed" ELSE job[j]
  <2>1. /\ task' = [task EXCEPT ![id.of] = "blocked"] /\ job' = [job EXCEPT ![j] = l]
        /\ am' = [a \in Amendments |-> IF c /\ a = id.of /\ am[a] # "activated" THEN "closed" ELSE am[a]]
        /\ EndsOr(c, p, outbox) /\ UNCHANGED browser
    BY <1>6 DEF Refuse, Ends
  <2>2. task[id.of] = "running"
    <3>1. id.of \in Found(j, "running")
      BY <1>6
    <3> HIDE DEF id, p, q, l
    <3> QED  BY <3>1, FoundFacts
  <2>3. job[j] \in Lifecycle \ {"none"} /\ l \in Lifecycle \ {"none"}
        /\ "blocked" \in TaskState \ {"none", "ready", "running"}
    BY <1>0, <2>2, JobOfTask DEF Lifecycle, TaskState
  <2>4. /\ am' \in [Amendments -> AmState]
        /\ \A a \in Amendments : am[a] # "none" <=> am'[a] # "none"
    <3>1. id.of \in Amendments => am[id.of] # "none"
      BY <1>0, <2>2 DEF Base, Family, VerifiesAmendment
    <3> QED  BY <1>0, <2>1, <3>1 DEF RowTypes, AmState
  <2>5. CloseLeaseOf(id.of) \in ItemId
    BY <1>0, IdFacts, OfFacts, BrowserFacts DEF CloseLeaseOf, Kind
  <2>6. p = q \/ p = Enqueue(q, CloseLeaseOf(id.of))
    BY DEF CloseWithLease, CloseLeaseOf
  <2>7. c => l = "failed"
    OBVIOUS
  <2> HIDE DEF p, q, l
  <2>8. Box(q, p, i, {CloseLeaseOf(id.of)}) /\ Quiet(p)
    BY <1>2, <2>5, <2>6, BoxSame, BoxEnqueued
  <2>9. Box(outbox, p, i, {CloseLeaseOf(id.of)}) /\ Box(outbox, outbox, i, {CloseLeaseOf(id.of)})
    BY <1>0, <1>2, <1>3, <2>8, BoxThen
  <2>10. /\ Box(outbox, outbox', i, {CloseLeaseOf(id.of)}) /\ Resting /\ More /\ outbox' \in Seq(Row)
         /\ ~c => count'.breaks # 0
    <3> DEFINE N == {CloseLeaseOf(id.of)}
    <3>1. Box(outbox, p, i, N) /\ Box(outbox, outbox, i, N) /\ Quiet(p) /\ EndsOr(c, p, outbox)
          /\ i \in DOMAIN outbox \cup {0}
      BY <2>1, <2>8, <2>9
    <3> HIDE DEF N
    <3>2. /\ Box(outbox, outbox', i, N) /\ Resting /\ More /\ outbox' \in Seq(Row)
          /\ ~c => count'.breaks # 0
      BY <1>0, <3>1, EndsBox
    <3> QED  BY <3>2 DEF N
  <2>11. TickTypes' /\ TickInv'
    BY <2>10, RestFacts
  <2>12. count'.breaks = 0 /\ Whole =>
         /\ \/ l \in Ended \cup {"cancelling"}
            \/ DOMAIN outbox' = DOMAIN outbox /\ l # "waiting_decision"
            \/ id.of = Of(id.of) /\ "blocked" = "succeeded" /\ outbox' = Enqueue(outbox, CloseLeaseOf(id.of))
         /\ \A k \in Jobs \ {Of(id.of)} : RowRests(i, k)
    BY <1>4, <2>7, <2>10 DEF Ended
  <2>13. \A a \in Amendments : am[a] = "none" /\ am'[a] # "none" =>
               /\ task'[JobOf[a]] = "succeeded"
               /\ \A b \in Amendments \ {a} : JobOf[b] = JobOf[a] => am[b] = "none" /\ am'[b] = "none"
    BY <2>4
  <2>14. UNCHANGED <<withdrawn, browser, links, world>> /\ job' = [job EXCEPT ![Of(id.of)] = l]
         /\ \A a \in Amendments : am[a] # "none" => am'[a] # "none"
    BY <2>1, <2>4
  <2> HIDE DEF IInv, id
  <2> QED  BY <1>0, <2>1, <2>2, <2>3, <2>4, <2>10, <2>11, <2>12, <2>13, <2>14, TaskEnds
<1>7. CASE id.kind = "agent_resume" /\ Found(j, "running") # {}
  <2> DEFINE l == IF job[j] = "running" THEN "paused" ELSE job[j]
  <2>1. /\ job' = [job EXCEPT ![j] = l] /\ EndsOr(c, q, outbox) /\ UNCHANGED <<task, am, browser>>
    BY <1>7 DEF Refuse, Ends
  <2>2. PICK t \in Found(j, "running") : t \in Tasks /\ Of(t) = j /\ task[t] = "running"
    BY <1>0, <1>7, FoundFacts
  <2>3. l \in Lifecycle \ {"none"} /\ job[j] # "none"
    BY <1>0, <2>2, JobOfTask DEF Lifecycle
  <2>4. /\ Box(outbox, outbox', i, {}) /\ Resting /\ More /\ outbox' \in Seq(Row)
        /\ c => outbox' = q
        /\ ~c => count'.breaks # 0
    BY <1>0, <1>2, <1>3, <2>1, EndsBox
  <2>5. TickTypes' /\ TickInv' /\ Agrees({})
    BY <2>4, RestFacts DEF Agrees
  <2>6. JobGoesOn(j)
    <3>1. job'[j] = l
      BY <1>0, <2>1 DEF RowTypes
    <3>2. Dead(j) => Dead(j)'
      BY <3>1 DEF Dead, Ended
    <3>3. job'[j] # job[j] => job'[j] = "paused"
      BY <3>1
    <3> QED  BY <3>2, <3>3 DEF JobGoesOn, Ended
  <2> HIDE DEF q
  <2>7. count'.breaks = 0 => \A k \in Jobs : RowRests(i, k) /\ NewRowsOK(k)
    BY <1>2, <1>4, <2>4, NoNewRows
  <2> HIDE DEF l
  <2> QED  BY <1>0, <2>1, <2>3, <2>4, <2>5, <2>6, <2>7, JobOnly
<1>8. CASE /\ ~(id.kind \in {"session_create", "lease_create"} /\ browser[j].state \in Holding)
           /\ ~(id.kind = "agent_create" /\ Found(j, "running") = {id.of})
           /\ ~(id.kind = "agent_resume" /\ Found(j, "running") # {})
  <2>1. outbox' = q /\ tick' = Idle /\ UNCHANGED <<count, job, task, am, browser>>
    BY <1>8 DEF Refuse, Ends, EndsOr
  <2>2. More
    BY <1>0, <2>1, CountStays
  <2> QED  BY <1>0, <1>1, <1>4, <2>1, <2>2, SettledOnly DEF links, rows
<1> QED  BY <1>5, <1>6, <1>7, <1>8

LEMMA DispatchRefusedStep ==
    ASSUME IInv, NEW i \in DOMAIN outbox, NEW c \in BOOLEAN, DispatchRefused(i, c)
    PROVE  IInv'
<1>1. Open(i) /\ tick.at \notin Out
  BY DueFacts DEF DispatchRefused, IInv
<1> QED  BY <1>1, RefusedKept DEF DispatchRefused, Out

LEMMA LeaseRefusedStep == ASSUME IInv, NEW c \in BOOLEAN, LeaseRefused(c) PROVE IInv'
<1>0. tick.at = "calling" /\ tick.at \in Out
  BY DEF LeaseRefused, Calling, Out
<1>1. tick.item \in DOMAIN outbox /\ Item = outbox[tick.item] /\ Open(tick.item)
  BY <1>0, CallingFacts DEF IInv
<1> QED  BY <1>0, <1>1, RefusedKept DEF LeaseRefused

LEMMA FailTerminalKept ==
    ASSUME IInv, NEW i \in DOMAIN outbox, Open(i), tick.at # "revoking", tick.at \in Out => i = tick.item,
           FailTerminal(i), UNCHANGED <<withdrawn, links, world>>, More,
           count'.breaks = 0 /\ Whole =>
              /\ outbox[i].id.kind = "session_create" => browser[Of(outbox[i].id.of)].state # "acquiring"
              /\ \A k \in Jobs : RowRests(i, k)
    PROVE  IInv'
<1> DEFINE id == outbox[i].id
           q  == Settled(outbox, i, "terminal_failed")
<1> PICK j \in Jobs : j = Of(id.of)
  BY RowFacts DEF IInv, Base
<1>0. /\ Base /\ outbox \in Seq(Row) /\ WorldTypes /\ RowTypes /\ BrowserTypes /\ OneHolder /\ Family /\ Types
  BY DEF IInv, Base, Types
<1>1. /\ "terminal_failed" \in ItemStatus \ Unsettled /\ "terminal_failed" \in ItemStatus \ {"dispatching"}
  BY DEF ItemStatus, Unsettled, AtOnce
<1>2. CASE id.kind = "lease_create" /\ browser[j].state \in Holding
  <2>1. FailUnstarted(j, {}, q) /\ tick' = Idle
    BY <1>2 DEF FailTerminal
  <2> QED  BY <1>1, <1>2, <2>1, RowFailsJob
<1>3. CASE ~(id.kind = "lease_create" /\ browser[j].state \in Holding)
  <2> DEFINE s == IF id.kind = "session_create" /\ browser[j].state = "acquiring" THEN "failed"
                  ELSE browser[j].state
  <2>1. /\ outbox' = q /\ tick' = Idle /\ UNCHANGED <<job, task, am>>
        /\ browser' = [browser EXCEPT ![j].state = s]
    BY <1>3 DEF FailTerminal
  <2>2. Quiet(q) /\ q \in Seq(Row) /\ DOMAIN q = DOMAIN outbox /\ Box(outbox, q, i, {})
    BY <1>0, <1>1, BoxSettled, QuietAfter
  <2>3. TickTypes' /\ TickInv'
    BY <2>1, <2>2, IdleFacts, RestFacts DEF Resting
  <2>4. browser[j] \in Browser /\ browser \in [Jobs -> Browser] /\ "failed" \in BrowserState
    BY <1>0, BrowserFacts DEF BrowserTypes, BrowserState, GivenBack
  <2>5. /\ browser' \in [Jobs -> Browser]
        /\ browser'[j].seq = browser[j].seq /\ browser'[j].at = browser[j].at /\ browser'[j].state = s
        /\ \A k \in Jobs \ {j} : browser'[k] = browser[k]
        /\ s = browser[j].state => browser' = browser
    BY <2>1, <2>4 DEF Browser
  <2>6. BrowserTypes' /\ OneHolder'
    <3>1. \A k \in Jobs : browser'[k].state \in Holding => browser[k].state \in Holding
      BY <2>5 DEF Holding
    <3> QED  BY <1>0, <2>5, <3>1 DEF BrowserTypes, OneHolder
  <2>7. RowTypes' /\ WorldTypes' /\ TaskMoves
    BY <1>0, <2>1, SameMoves DEF RowTypes, WorldTypes, More, links, world
  <2>8. Family'
    <3>1. ASSUME NEW k \in Jobs, job'[k] = "none"
          PROVE  job[k] = "none" /\ task'[k] = task[k] /\ browser'[k].state = browser[k].state
      BY <1>0, <2>1, <2>5, <3>1 DEF Family, NotCreated
    <3> QED  BY <1>0, <2>1, <2>7, <3>1, FamilyKept
  <2>9. ASSUME count'.breaks = 0, Whole
        PROVE  \A k \in Jobs \ {} : /\ NoStart(k) /\ BrowserRests(k) /\ JobGoesOn(k) /\ LeaseRests(k)
                                   /\ RowRests(i, k) /\ NewRowsOK(k)
    <3>1. browser' = browser
      BY <2>5, <2>9
    <3> QED  BY <2>1, <2>2, <2>9, <3>1, NoNewRows
             DEF NoStart, BrowserRests, JobGoesOn, Dead, LeaseRests, world
  <2>10. {} \in SUBSET Jobs /\ (count'.breaks = 0 /\ Whole /\ Base' => \A k \in {} : JobWhole(k)')
         /\ count'.breaks >= count.breaks /\ leaseLink \subseteq leaseLink' /\ Agrees({})
    BY DEF More, links, Agrees
  <2>11. Box(outbox, outbox', i, {})
    BY <2>1, <2>2
  <2> HIDE DEF IInv
  <2> QED  BY <2>3, <2>6, <2>7, <2>8, <2>9, <2>10, <2>11, Changed
<1> QED  BY <1>2, <1>3

LEMMA CallFailsStep == ASSUME IInv, CallFails PROVE IInv'
<1>0. /\ Base /\ Types /\ WorldTypes /\ Break /\ UNCHANGED <<withdrawn, links, world>> /\ agentLink \subseteq Tasks
      /\ tick.at \in {"calling", "answered", "reconciling"}
  BY DEF CallFails, IInv, Base, Types, RowTypes
<1>1. More /\ count'.breaks # 0
  BY <1>0, CountFacts
<1>2. CASE tick.at = "reconciling"
  <2>1. tick' = Idle /\ UNCHANGED <<job, task, am, browser, outbox>> /\ outbox \in Seq(Row)
    BY <1>0, <1>2 DEF CallFails, Types
  <2>2. Quiet(outbox)
    BY <1>0, <1>2, QuietNow DEF Out
  <2>3. Box(outbox, outbox', 0, {}) /\ Agrees({}) /\ Resting
    BY <2>1, <2>2, BoxSame, IdleFacts DEF Agrees, Resting
  <2> QED  BY <1>0, <1>1, <2>1, <2>3, OutboxMoves DEF rows, links
<1>3. CASE tick.at \in {"calling", "answered"}
  <2>1. FailRetryable(tick.item) \/ FailTerminal(tick.item)
    BY <1>3 DEF CallFails
  <2>2. tick.item \in DOMAIN outbox /\ Open(tick.item)
    BY <1>0, <1>3, CallingFacts DEF Out
  <2>3. CASE FailRetryable(tick.item)
    <3>1. "retryable_failed" \in ItemStatus \ {"dispatching"}
      BY DEF ItemStatus, Unsettled
    <3> QED  BY <1>0, <1>1, <1>3, <2>2, <2>3, <3>1, SettledOnly DEF FailRetryable, rows, links
  <2>4. CASE FailTerminal(tick.item)
    BY <1>0, <1>1, <1>3, <2>2, <2>4, FailTerminalKept
  <2> QED  BY <2>1, <2>3, <2>4
<1> QED  BY <1>0, <1>2, <1>3

LEMMA RevalidationRevokesStep == ASSUME IInv, NEW ok \in BOOLEAN, RevalidationRevokes(ok) PROVE IInv'
<1> DEFINE id == Id("policy_revoke", Item.id.of, 0)
           S  == {k \in DOMAIN outbox : outbox[k].id = id /\ outbox[k].status = "dispatching"}
           s  == IF ok THEN "confirmed" ELSE "retryable_failed"
           q  == [k \in DOMAIN outbox |-> IF outbox[k].id = id /\ outbox[k].status = "dispatching"
                     THEN [outbox[k] EXCEPT !.status = IF ok THEN "confirmed" ELSE "retryable_failed"]
                     ELSE outbox[k]]
           p  == Settled(q, tick.item, "cancelled")
<1>0. /\ Base /\ outbox \in Seq(Row) /\ WorldTypes /\ tick.at = "revoking" /\ tick.at \in Out
      /\ tick' = Idle /\ UNCHANGED <<withdrawn, links, session, agent>> /\ agentLink' \subseteq Tasks
      /\ lease' = (IF ok /\ lease.of = Item.id.of THEN NoLease ELSE lease) /\ TickInv
      /\ (IF ok THEN UNCHANGED count ELSE Break)
  BY DEF RevalidationRevokes, IInv, Base, Types, RowTypes, links, Out
<1>1. /\ tick.item \in DOMAIN outbox /\ Item = outbox[tick.item] /\ tick.item \in Nat /\ Item.id.of \in Tasks
      /\ Item.id.kind = "lease_create" /\ task[Item.id.of] = "ready"
  BY <1>0, CallingFacts, RowFacts DEF TickInv, TickRow, TickLease
<1> PICK j \in Jobs : j = Of(Item.id.of)
  BY <1>1, OfFacts
<1>2. IF browser[j].state \in Holding THEN FailUnstarted(j, {}, p)
      ELSE outbox' = p /\ UNCHANGED <<job, task, am, browser>>
  BY DEF RevalidationRevokes
<1>3. More
  BY <1>0, CountFacts
<1>4. /\ lease'.of \in {lease.of, NoJob} /\ WorldTypes'
  <2>1. lease' \in {lease, NoLease} /\ NoLease \in [of : AnyTask, in : Nat] /\ NoLease.of = NoJob
    BY <1>0 DEF NoLease, AnyTask
  <2> QED  BY <1>0, <1>3, <2>1 DEF WorldTypes, More
<1>5. id.kind = "policy_revoke" /\ s \in ItemStatus /\ s # "dispatching"
      /\ "cancelled" \in ItemStatus \ Unsettled /\ "dispatching" \in Unsettled
  BY DEF Id, ItemStatus, Unsettled, AtOnce
<1>6. /\ \A k \in S : k \in DOMAIN outbox /\ outbox[k].id.kind = "policy_revoke"
                     /\ outbox[k].status = "dispatching"
      /\ \A k \in DOMAIN outbox \ S : outbox[k].status = "dispatching" => k = tick.item
      /\ q = [k \in DOMAIN outbox |-> IF k \in S THEN [outbox[k] EXCEPT !.status = s] ELSE outbox[k]]
  BY <1>0, <1>1, <1>5 DEF TickInv, TickRow
<1> HIDE DEF S, s, q
<1>7. /\ q \in Seq(Row) /\ DOMAIN q = DOMAIN outbox
      /\ \A k \in DOMAIN outbox : /\ q[k].id = outbox[k].id
                                  /\ IF k \in S THEN q[k].status = s ELSE q[k] = outbox[k]
  <2> DEFINE r == [k \in DOMAIN outbox |-> IF k \in S THEN [outbox[k] EXCEPT !.status = s] ELSE outbox[k]]
  <2>1. /\ r \in Seq(Row) /\ DOMAIN r = DOMAIN outbox
        /\ \A k \in DOMAIN outbox : /\ r[k].id = outbox[k].id
                                    /\ IF k \in S THEN r[k].status = s ELSE r[k] = outbox[k]
    BY <1>0, <1>5, WrittenMany
  <2>2. q = r
    BY <1>6
  <2> HIDE DEF r
  <2> QED  BY <2>1, <2>2
<1>8. Box(outbox, q, tick.item, CloseOf(j))
  BY <1>5, <1>6, <1>7 DEF Box, Continues, Kept
<1>9. /\ Box(q, p, tick.item, CloseOf(j)) /\ p \in Seq(Row) /\ DOMAIN p = DOMAIN q
      /\ p[tick.item].status = "cancelled" /\ \A k \in DOMAIN q \ {tick.item} : p[k] = q[k]
  BY <1>1, <1>5, <1>7, BoxSettled
<1> HIDE DEF p
<1>10. Box(outbox, p, tick.item, CloseOf(j))
  BY <1>0, <1>1, <1>8, <1>9, BoxThen
<1>11. Quiet(p)
  BY <1>1, <1>5, <1>6, <1>7, <1>9 DEF Quiet
<1>12. \A k \in Jobs : RowRests(tick.item, k)
  BY <1>1, NotClosing DEF Closing
<1>13. ~HasRunningTask(j)
  BY <1>0, <1>1, ReadyNotRunning
<1>14. CASE browser[j].state \in Holding
  <2>1. FailUnstarted(j, {}, p)
    BY <1>2, <1>14
  <2> QED  BY <1>0, <1>1, <1>3, <1>4, <1>10, <1>11, <1>12, <1>13, <2>1, FailedUnstarted, IdleFacts
<1>15. CASE browser[j].state \notin Holding
  <2>1. outbox' = p /\ UNCHANGED <<job, task, am, browser>>
    BY <1>2, <1>15
  <2>2. Resting /\ TickTypes' /\ TickInv'
    BY <1>0, <1>9, <1>11, <2>1, IdleFacts, RestFacts DEF Resting
  <2>3. Box(outbox, outbox', tick.item, CloseOf(j)) /\ Agrees(CloseOf(j))
    BY <1>10, <2>1 DEF Agrees, CloseOf, Id, RowOfTask
  <2>4. \A k \in Jobs : LeaseRests(k) /\ RowRests(tick.item, k) /\ NewRowsOK(k)
    BY <1>4, <1>7, <1>9, <1>12, <2>1, NoNewRows DEF LeaseRests
  <2>5. withdrawn' \subseteq Amendments /\ leaseLink' = leaseLink /\ count'.breaks >= count.breaks
    BY <1>0, <1>3 DEF More, links, IInv, Base, Types, RowTypes
  <2> QED  BY <1>0, <1>4, <2>1, <2>2, <2>3, <2>4, <2>5, StillRows
<1> QED  BY <1>14, <1>15

-----------------------------------------------------------------------------
(***************************************************************************)
(* The browser is taken, got, and given back.                               *)
(***************************************************************************)
LEMMA BrowserOnly ==
    ASSUME IInv, UNCHANGED <<job, task, am, withdrawn, links, world>>, NEW j \in Jobs, NEW b \in Browser,
           browser' = [browser EXCEPT ![j] = b], b.at \in {0, b.seq},
           b.state # browser[j].state => job[j] # "none",
           b.state \in Holding => browser[j].state \in Holding \/ NobodyHolds,
           More, NEW i, NEW N, Box(outbox, outbox', i, N), Agrees(N), Resting,
           count'.breaks = 0 /\ Whole => \A k \in Jobs \ {j} : RowRests(i, k) /\ NewRowsOK(k),
           count'.breaks = 0 /\ Whole /\ Base' => JobWhole(j)'
    PROVE  IInv'
<1>0. /\ Base /\ outbox \in Seq(Row) /\ WorldTypes /\ RowTypes /\ BrowserTypes /\ OneHolder /\ Family /\ Types
  BY DEF IInv, Base, Types
<1>1. /\ browser' \in [Jobs -> Browser] /\ browser'[j] = b /\ \A k \in Jobs \ {j} : browser'[k] = browser[k]
  BY <1>0 DEF BrowserTypes
<1>2. BrowserTypes'
  BY <1>0, <1>1 DEF BrowserTypes
<1>3. OneHolder'
  BY <1>0, <1>1 DEF OneHolder, NobodyHolds
<1>4. RowTypes' /\ WorldTypes' /\ TaskMoves
  BY <1>0, SameMoves DEF RowTypes, WorldTypes, More, links, world
<1>5. Family'
  <2>1. ASSUME NEW k \in Jobs, job'[k] = "none"
        PROVE  job[k] = "none" /\ task'[k] = task[k] /\ browser'[k].state = browser[k].state
    BY <1>1, <2>1
  <2> QED  BY <1>0, <1>4, <2>1, FamilyKept
<1>6. TickTypes' /\ TickInv'
  BY RestFacts DEF Box, Continues
<1>7. \A k \in Jobs \ {j} : NoStart(k) /\ BrowserRests(k) /\ JobGoesOn(k) /\ LeaseRests(k)
  BY <1>1 DEF NoStart, BrowserRests, JobGoesOn, Dead, LeaseRests, world
<1>8. count'.breaks = 0 /\ Whole =>
         \A k \in Jobs \ {j} : /\ NoStart(k) /\ BrowserRests(k) /\ JobGoesOn(k) /\ LeaseRests(k)
                            /\ RowRests(i, k) /\ NewRowsOK(k)
  BY <1>7
<1>9. {j} \in SUBSET Jobs /\ (count'.breaks = 0 /\ Whole /\ Base' => \A k \in {j} : JobWhole(k)')
      /\ count'.breaks >= count.breaks /\ leaseLink \subseteq leaseLink'
  BY DEF More, links
<1> HIDE DEF IInv
<1> QED  BY <1>2, <1>3, <1>4, <1>5, <1>6, <1>8, <1>9, Changed

LEMMA ClaimBrowserJobStep ==
    ASSUME IInv, NEW j \in Jobs, NEW c \in BOOLEAN, ClaimBrowserJob(j, c)
    PROVE  IInv'
<1> DEFINE id == Id("session_create", j, browser[j].seq)
           q  == Enqueue(outbox, id)
           b  == [browser[j] EXCEPT !.state = "acquiring"]
<1>0. /\ Base /\ outbox \in Seq(Row) /\ NothingDue /\ NobodyHolds /\ browser[j].state = "queued"
      /\ job[j] \in {"created", "running"} /\ EndsOr(c, q, outbox)
      /\ browser' = [browser EXCEPT ![j].state = "acquiring"]
      /\ UNCHANGED <<job, task, am, withdrawn, links, world>>
  BY DEF ClaimBrowserJob, Claimable, Rest, Ends, IInv, Base, Types
<1>1. id \in ItemId /\ id.kind = "session_create" /\ id.of = j /\ id.n = browser[j].seq /\ Of(j) = j
  BY <1>0, IdFacts, OfFacts, BrowserFacts DEF Kind
<1>2. browser[j] \in Browser /\ browser[j].at \in {0, browser[j].seq}
  BY <1>0, BrowserFacts DEF Base, Types, BrowserTypes
<1>3. /\ b \in Browser /\ b.state = "acquiring" /\ b.seq = browser[j].seq /\ b.at = browser[j].at
      /\ browser' = [browser EXCEPT ![j] = b]
  BY <1>0, <1>2 DEF Browser, BrowserState, Holding
<1> HIDE DEF id, b
<1>4. Box(outbox, q, 0, {id}) /\ Box(outbox, outbox, 0, {id}) /\ Quiet(q)
  BY <1>0, <1>1, BoxEnqueued, BoxSame, IdleTick, QuietNow
<1> HIDE DEF q
<1>5. /\ Box(outbox, outbox', 0, {id}) /\ Resting /\ More /\ outbox' \in Seq(Row)
      /\ count'.breaks = 0 => c
  BY <1>0, <1>4, EndsBox
<1>6. Agrees({id})
  BY <1>1 DEF Agrees, RowOfTask
<1>7. \A m \in DOMAIN outbox' \ DOMAIN outbox : outbox'[m].id = id
  BY <1>5 DEF Box
<1>8. \A k \in Jobs \ {j} : RowRests(0, k) /\ NewRowsOK(k)
  BY <1>0, <1>1, <1>7 DEF RowRests, RowOf, NewRowsOK
<1>9. ASSUME Whole, Base' PROVE JobWhole(j)'
  <2>0. browser'[j] = b /\ task' = task /\ job' = job /\ JobWhole(j) /\ ~Dead(j) /\ job[j] # "waiting_decision"
    BY <1>0, <1>3, <1>9 DEF Base, Types, BrowserTypes, Whole, Dead, Ended
  <2>1. \A t \in TasksOf(j) : task'[t] # "running"
    BY <1>0, <2>0 DEF JobWhole, RunningOK
  <2>2. RunningOK(j)' /\ WaitingOK(j)'
    BY <2>0, <2>1, OfFacts DEF RunningOK, WaitingOK, TasksOf
  <2>3. ASSUME NEW k \in DOMAIN outbox', RowOf(k, j)' PROVE OpenRowOK(k, j)'
    <3>1. CASE k \notin DOMAIN outbox
      BY <1>1, <1>3, <1>7, <2>0, <3>1 DEF OpenRowOK, SessionRowOK, Closing
    <3>2. CASE k \in DOMAIN outbox
      <4>1. RowOf(k, j) /\ outbox'[k].id = outbox[k].id /\ OpenRowOK(k, j)
        BY <1>0, <1>5, <2>0, <2>3, <3>2, OldRow DEF JobWhole
      <4>2. outbox[k].id.kind \notin Closing
        BY <1>0, <2>0, <4>1 DEF OpenRowOK, CloseRowOK, Parking
      <4>3. outbox[k].id.kind # "session_create"
        BY <1>0, <4>1 DEF OpenRowOK, SessionRowOK
      <4> QED  BY <2>0, <4>1, <4>2, <4>3 DEF OpenRowOK, LeaseRowOK
    <3> QED  BY <3>1, <3>2
  <2> QED  BY <2>2, <2>3 DEF JobWhole
<1>10. b.state # browser[j].state => job[j] # "none"
  BY <1>0
<1>11. b.at \in {0, b.seq}
  BY <1>2, <1>3
<1> HIDE DEF IInv
<1> QED  BY <1>0, <1>3, <1>5, <1>6, <1>8, <1>9, <1>10, <1>11, BrowserOnly

LEMMA SessionAnsweredStep == ASSUME IInv, NEW c \in BOOLEAN, SessionAnswered(c) PROVE IInv'
<1>0. /\ Base /\ outbox \in Seq(Row) /\ tick.at = "answered" /\ tick.at \in Out /\ WorldTypes
      /\ Item.id.kind = "session_create" /\ UNCHANGED <<withdrawn, links, world>>
  BY DEF SessionAnswered, Answered, IInv, Base, Types, Out
<1>1. /\ tick.item \in DOMAIN outbox /\ Item = outbox[tick.item] /\ tick.item \in Nat /\ Item.id.of \in Jobs
      /\ Open(tick.item)
  BY <1>0, CallingFacts, RowFacts DEF RowOfTask
<1> PICK j \in Jobs : j = Item.id.of
  BY <1>1
<1>2. Of(Item.id.of) = j /\ Of(j) = j
  BY OfFacts
<1>3. ASSUME Whole PROVE RowOf(tick.item, j) /\ OpenRowOK(tick.item, j) /\ SessionRowOK(tick.item, j)
  BY <1>0, <1>1, <1>2, <1>3 DEF RowOf, Whole, JobWhole, OpenRowOK
<1>4. \A k \in Jobs : RowRests(tick.item, k)
  BY <1>0, <1>1, NotClosing DEF Closing
<1>5. CASE browser[j].state = "acquiring" /\ browser[j].seq = Item.id.n
  <2> DEFINE q == Settled(outbox, tick.item, "confirmed")
             b == [browser[j] EXCEPT !.state = "active", !.at = Item.id.n]
  <2>1. /\ browser' = [browser EXCEPT ![j].state = "active", ![j].at = Item.id.n]
        /\ EndsOr(c, q, outbox) /\ UNCHANGED <<job, task, am>>
    BY <1>5 DEF SessionAnswered, Ends
  <2>2. browser[j] \in Browser /\ Item.id.n \in Nat
    BY <1>0, <1>1, BrowserFacts, RowFacts
  <2>3. /\ b \in Browser /\ b.state = "active" /\ b.seq = browser[j].seq /\ b.at = browser[j].seq
        /\ browser' = [browser EXCEPT ![j] = b]
    BY <1>5, <2>1, <2>2 DEF Browser, BrowserState, Holding
  <2>4. "confirmed" \in ItemStatus \ {"dispatching"} /\ "confirmed" \notin Unsettled
    BY DEF ItemStatus, Unsettled, AtOnce
  <2>5. /\ Box(outbox, q, tick.item, {}) /\ Box(outbox, outbox, tick.item, {}) /\ Quiet(q)
        /\ DOMAIN q = DOMAIN outbox /\ q[tick.item].status = "confirmed"
    BY <1>0, <1>1, <2>4, BoxSettled, BoxSame, QuietAfter
  <2> HIDE DEF q, b
  <2>6. /\ Box(outbox, outbox', tick.item, {}) /\ Resting /\ More /\ outbox' \in Seq(Row)
        /\ count'.breaks = 0 => outbox' = q
    BY <1>0, <1>1, <2>1, <2>5, EndsBox
  <2>7. count'.breaks = 0 => \A k \in Jobs \ {j} : RowRests(tick.item, k) /\ NewRowsOK(k)
    BY <1>4, <2>5, <2>6, NoNewRows
  <2>8. ASSUME count'.breaks = 0, Whole, Base' PROVE JobWhole(j)'
    <3>0. browser'[j] = b /\ task' = task /\ job' = job /\ JobWhole(j) /\ outbox' = q
      BY <1>0, <2>1, <2>3, <2>6, <2>8 DEF Base, Types, BrowserTypes, Whole
    <3>1. \A t \in TasksOf(j) : task'[t] # "running"
      BY <1>5, <3>0 DEF JobWhole, RunningOK
    <3>2. job[j] # "waiting_decision"
      BY <1>5, <3>0 DEF JobWhole, WaitingOK, Parking
    <3>3. RunningOK(j)' /\ WaitingOK(j)'
      BY <3>0, <3>1, <3>2, OfFacts DEF RunningOK, WaitingOK, TasksOf
    <3>4. ASSUME NEW k \in DOMAIN outbox', RowOf(k, j)' PROVE OpenRowOK(k, j)'
      <4>1. k \in DOMAIN outbox /\ RowOf(k, j) /\ outbox'[k].id = outbox[k].id /\ OpenRowOK(k, j)
            /\ outbox[k] \in Row /\ k # tick.item
        BY <1>0, <2>4, <2>5, <2>6, <3>0, <3>4, OldRow DEF JobWhole, RowOf, Open
      <4>2. outbox[k].id.kind # "session_create"
        <5> SUFFICES ASSUME outbox[k].id.kind = "session_create" PROVE FALSE
          OBVIOUS
        <5>1. outbox[k].id = outbox[tick.item].id
          <6>1. outbox[k].id \in ItemId /\ outbox[tick.item].id \in ItemId
            BY <1>0, <1>1, <4>1, RowFacts
          <6>2. SessionRowOK(k, j) /\ SessionRowOK(tick.item, j)
            BY <1>3, <2>8, <4>1 DEF OpenRowOK
          <6> QED  BY <1>0, <1>1, <6>1, <6>2 DEF SessionRowOK, ItemId
        <5> QED  BY <1>0, <1>1, <4>1, <5>1 DEF Base, OneRowEach
      <4>3. outbox[k].id.kind \in Closing => Dead(j) /\ ~HasRunningTask(j)
        BY <1>5, <4>1 DEF OpenRowOK, CloseRowOK, Parking
      <4>4. Dead(j)' = Dead(j) /\ HasRunningTask(j)' = HasRunningTask(j)
        BY <3>0 DEF Dead, HasRunningTask
      <4> QED  BY <3>0, <4>1, <4>2, <4>3, <4>4 DEF OpenRowOK, LeaseRowOK, CloseRowOK
    <3> QED  BY <3>3, <3>4 DEF JobWhole
  <2>9. b.state # browser[j].state => job[j] # "none"
    BY <1>0, <1>5 DEF Base, Family, NotCreated
  <2>10. b.at \in {0, b.seq} /\ browser[j].state \in Holding /\ Agrees({})
    BY <1>5, <2>3 DEF Holding, Agrees
  <2> HIDE DEF IInv
  <2> QED  BY <1>0, <2>1, <2>3, <2>6, <2>7, <2>8, <2>9, <2>10, BrowserOnly
<1>6. CASE ~(browser[j].state = "acquiring" /\ browser[j].seq = Item.id.n)
  <2>1. FailTerminal(tick.item) /\ UNCHANGED count
    BY <1>6 DEF SessionAnswered
  <2>2. Whole => browser[Of(outbox[tick.item].id.of)].state # "acquiring"
    BY <1>1, <1>2, <1>3, <1>6 DEF SessionRowOK
  <2>3. More
    BY <1>0, <2>1, CountStays
  <2> QED  BY <1>0, <1>1, <1>4, <2>1, <2>2, <2>3, FailTerminalKept
<1> QED  BY <1>5, <1>6

LEMMA CloseAnsweredStep == ASSUME IInv, NEW steps \in 1 .. 3, CloseAnswered(steps) PROVE IInv'
<1>0. /\ Base /\ outbox \in Seq(Row) /\ tick.at = "answered" /\ tick.at \in Out /\ WorldTypes
      /\ Item.id.kind \in Closing /\ UNCHANGED <<withdrawn, links, world>>
  BY DEF CloseAnswered, Answered, IInv, Base, Types, Out
<1>1. /\ tick.item \in DOMAIN outbox /\ Item = outbox[tick.item] /\ tick.item \in Nat /\ Of(Item.id.of) \in Jobs
      /\ Open(tick.item) /\ Item.id.kind # "session_create"
  BY <1>0, CallingFacts, RowFacts DEF Closing
<1> PICK j \in Jobs : j = Of(Item.id.of)
  BY <1>1
<1>2. ASSUME Whole
      PROVE  JobWhole(j) /\ RowOf(tick.item, j) /\ ~HasRunningTask(j) /\ (Dead(j) \/ Parking(tick.item, j))
  BY <1>0, <1>1, <1>2 DEF RowOf, Whole, JobWhole, OpenRowOK, CloseRowOK
<1>3. CASE browser[j].state = "acquiring"
  <2>1. FailTerminal(tick.item) /\ UNCHANGED count
    BY <1>3 DEF CloseAnswered
  <2>2. More
    BY <1>0, <2>1, CountStays
  <2>3. ASSUME Whole, NEW k \in Jobs PROVE RowRests(tick.item, k)
    <3>1. Dead(j)
      BY <1>2, <1>3, <2>3 DEF Parking
    <3> QED  BY <1>1, <3>1 DEF RowRests, RowOf
  <2> QED  BY <1>0, <1>1, <2>1, <2>2, <2>3, FailTerminalKept
<1>4. CASE browser[j].state # "acquiring"
  <2> DEFINE q == Settled(outbox, tick.item, "confirmed")
             s == IF browser[j].state \notin Holding THEN browser[j].state
                  ELSE IF steps = 1 THEN "releasing" ELSE "completed"
             b == [browser[j] EXCEPT !.state = s]
  <2>1. /\ browser' = [browser EXCEPT ![j].state = s]
        /\ EndsOr(steps = 3, q, outbox) /\ UNCHANGED <<job, task, am>>
    BY <1>4 DEF CloseAnswered, Ends
  <2>2. browser[j] \in Browser /\ browser[j].at \in {0, browser[j].seq}
    BY <1>0, BrowserFacts DEF Base, Types, BrowserTypes
  <2>3. /\ b \in Browser /\ b.state = s /\ b.seq = browser[j].seq /\ b.at = browser[j].at
        /\ browser' = [browser EXCEPT ![j] = b]
    BY <2>1, <2>2 DEF Browser, BrowserState, Holding, GivenBack
  <2>4. "confirmed" \in ItemStatus \ {"dispatching"} /\ "confirmed" \notin Unsettled
    BY DEF ItemStatus, Unsettled, AtOnce
  <2>5. /\ Box(outbox, q, tick.item, {}) /\ Box(outbox, outbox, tick.item, {}) /\ Quiet(q)
        /\ DOMAIN q = DOMAIN outbox /\ q[tick.item].status = "confirmed"
    BY <1>0, <1>1, <2>4, BoxSettled, BoxSame, QuietAfter
  <2>6. (steps = 3) \in BOOLEAN /\ (browser[j].state \in Holding /\ steps = 3 => s = "completed")
        /\ (browser[j].state \notin Holding => s = browser[j].state)
        /\ (s \in Holding => browser[j].state \in Holding)
    OBVIOUS
  <2> HIDE DEF q, b, s
  <2>7. /\ Box(outbox, outbox', tick.item, {}) /\ Resting /\ More /\ outbox' \in Seq(Row)
        /\ count'.breaks = 0 => outbox' = q /\ steps = 3
    BY <1>0, <1>1, <2>1, <2>5, <2>6, EndsBox
  <2>8. count'.breaks = 0 => \A k \in Jobs \ {j} : RowRests(tick.item, k) /\ NewRowsOK(k)
    BY <1>1, <2>5, <2>7, NoNewRows DEF RowRests, RowOf
  <2>9. ASSUME count'.breaks = 0, Whole, Base' PROVE JobWhole(j)'
    <3>0. /\ browser'[j] = b /\ task' = task /\ job' = job /\ outbox' = q /\ steps = 3
          /\ JobWhole(j) /\ ~HasRunningTask(j) /\ (Dead(j) \/ Parking(tick.item, j))
      BY <1>0, <1>2, <2>1, <2>3, <2>7, <2>9 DEF Base, Types, BrowserTypes
    <3>1. \A t \in TasksOf(j) : task'[t] # "running"
      BY <3>0 DEF HasRunningTask
    <3>2. RunningOK(j)'
      BY <3>1, OfFacts DEF RunningOK, TasksOf
    <3>3. WaitingOK(j)'
      <4> SUFFICES ASSUME job[j] = "waiting_decision" PROVE b.state = "completed"
        BY <3>0 DEF WaitingOK
      <4>1. browser[j].state = "completed" \/ browser[j].state = "active"
        BY <3>0 DEF JobWhole, WaitingOK, Parking
      <4> QED  BY <2>3, <2>6, <3>0, <4>1 DEF Holding
    <3>4. ASSUME NEW k \in DOMAIN outbox', RowOf(k, j)' PROVE OpenRowOK(k, j)'
      <4>1. k \in DOMAIN outbox /\ RowOf(k, j) /\ outbox'[k].id = outbox[k].id /\ OpenRowOK(k, j)
            /\ outbox[k] \in Row /\ k # tick.item
        BY <1>0, <2>4, <2>5, <2>7, <3>0, <3>4, OldRow DEF JobWhole, RowOf, Open
      <4>2. Dead(j)' = Dead(j) /\ HasRunningTask(j)' = HasRunningTask(j)
        BY <3>0 DEF Dead, HasRunningTask
      <4>3. outbox[k].id.kind = "session_create" => SessionRowOK(k, j)'
        <5> SUFFICES ASSUME outbox[k].id.kind = "session_create" PROVE SessionRowOK(k, j)'
          OBVIOUS
        <5>1. SessionRowOK(k, j) /\ browser[j].state = "failed"
          BY <1>4, <4>1 DEF OpenRowOK, SessionRowOK
        <5>2. b.state = "failed"
          BY <2>3, <2>6, <5>1 DEF Holding
        <5> QED  BY <2>3, <3>0, <4>1, <4>2, <5>1, <5>2 DEF SessionRowOK
      <4>4. outbox[k].id.kind \in Closing => Dead(j)
        <5> SUFFICES ASSUME outbox[k].id.kind \in Closing, ~Dead(j) PROVE FALSE
          OBVIOUS
        <5>1. Parking(k, j) /\ Parking(tick.item, j)
          BY <3>0, <4>1 DEF OpenRowOK, CloseRowOK
        <5>2. outbox[k].id = outbox[tick.item].id
          BY <5>1 DEF Parking
        <5> QED  BY <1>0, <1>1, <4>1, <5>2 DEF Base, OneRowEach
      <4> QED  BY <3>0, <4>1, <4>2, <4>3, <4>4 DEF OpenRowOK, LeaseRowOK, CloseRowOK
    <3> QED  BY <3>2, <3>3, <3>4 DEF JobWhole
  <2>10. b.state # browser[j].state => job[j] # "none"
    <3>1. job[j] = "none" => browser[j].state = "none"
      BY <1>0 DEF Base, Family, NotCreated
    <3> QED  BY <2>3, <2>6, <3>1 DEF Holding
  <2>11. b.at \in {0, b.seq} /\ (b.state \in Holding => browser[j].state \in Holding) /\ Agrees({})
    BY <2>2, <2>3, <2>6 DEF Agrees
  <2> HIDE DEF IInv
  <2> QED  BY <1>0, <2>1, <2>3, <2>7, <2>8, <2>9, <2>10, <2>11, BrowserOnly
<1> QED  BY <1>3, <1>4

LEMMA LeaseAnsweredStep == ASSUME IInv, NEW steps \in 1 .. 4, LeaseAnswered(steps) PROVE IInv'
<1>0. /\ Base /\ outbox \in Seq(Row) /\ tick.at = "answered" /\ tick.at \in Out /\ WorldTypes /\ RowTypes
      /\ Item.id.kind = "lease_create" /\ Authorised(Item.id) /\ task[Item.id.of] = "ready"
      /\ BrowserTypes /\ OneHolder /\ Family /\ Types /\ TickInv
  BY DEF LeaseAnswered, Answered, IInv, Base, Types, Out
<1>1. /\ tick.item \in DOMAIN outbox /\ Item = outbox[tick.item] /\ tick.item \in Nat /\ Item.id.of \in Tasks
      /\ Open(tick.item) /\ Item.id.n = 0
  BY <1>0, CallingFacts, RowFacts DEF RowOfTask
<1> PICK t \in Tasks : t = Item.id.of
  BY <1>1
<1> DEFINE j  == Of(t)
           id == Id("agent_create", t, 0)
           q  == IF steps >= 3 THEN Enqueue(outbox, id) ELSE outbox
           p  == Settled(q, tick.item, "confirmed")
<1>2. /\ task' = [task EXCEPT ![t] = "running"] /\ job' = [job EXCEPT ![j] = "running"]
      /\ leaseLink' = (IF steps >= 2 THEN leaseLink \cup {t} ELSE leaseLink)
      /\ EndsOr(steps = 4, p, q) /\ UNCHANGED <<am, withdrawn, browser, agentLink, world>>
  BY DEF LeaseAnswered
<1>3. /\ j \in Jobs /\ t \in TasksOf(j) /\ browser[j].state = "active" /\ lease.of = t /\ task[t] = "ready"
      /\ job[j] \notin Ended \cup {"cancelling", "waiting_decision", "none"}
  <2>1. ExecutionAllowed(j, Found(j, "ready") \cap Amendments, FALSE)
    BY <1>0 DEF Authorised
  <2>2. job[j] \notin Ended \cup {"cancelling", "waiting_decision", "none"}
    BY <2>1 DEF ExecutionAllowed
  <2>3. browser[j].state = "active" /\ lease.of = t /\ task[t] = "ready"
    BY <1>0, <1>1 DEF TickInv, TickLease
  <2> QED  BY <2>2, <2>3, OfFacts
<1>4. id \in ItemId /\ id.kind = "agent_create" /\ id.of = t
  BY IdFacts DEF Kind
<1>5. "confirmed" \in ItemStatus \ {"dispatching"} /\ "confirmed" \notin Unsettled
  BY DEF ItemStatus, Unsettled, AtOnce
<1> HIDE DEF j, id
<1>6. Box(outbox, q, tick.item, {id}) /\ q \in Seq(Row) /\ (\A k \in DOMAIN outbox : k \in DOMAIN q /\ q[k] = outbox[k])
      /\ \A k \in DOMAIN q \ DOMAIN outbox : q[k].status = "pending"
  <2>1. CASE steps >= 3
    <3>1. q = Enqueue(outbox, id)
      BY <2>1
    <3> HIDE DEF q
    <3>2. id \in {id} /\ outbox \in Seq(Row)
      BY <1>0
    <3> DEFINE e == Enqueue(outbox, id)
               N == {id}
    <3>3. id \in N
      OBVIOUS
    <3> HIDE DEF N
    <3>4. /\ Box(outbox, e, tick.item, N) /\ e \in Seq(Row)
          /\ \A k \in DOMAIN outbox : k \in DOMAIN e /\ e[k] = outbox[k]
          /\ \A k \in DOMAIN e \ DOMAIN outbox : e[k].status = "pending"
      BY <1>4, <3>2, <3>3, BoxEnqueued
    <3> QED  BY <3>1, <3>4 DEF N
  <2>2. CASE ~(steps >= 3)
    BY <1>0, <2>2, BoxSame
  <2> QED  BY <2>1, <2>2
<1> HIDE DEF q
<1>7. /\ Box(q, p, tick.item, {id}) /\ p \in Seq(Row) /\ DOMAIN p = DOMAIN q
      /\ p[tick.item].status = "confirmed" /\ \A k \in DOMAIN q \ {tick.item} : p[k] = q[k]
  BY <1>1, <1>5, <1>6, BoxSettled
<1> HIDE DEF p
<1>8. Box(outbox, p, tick.item, {id})
  BY <1>0, <1>1, <1>6, <1>7, BoxThen
<1>9. Quiet(p)
  <2> SUFFICES ASSUME NEW k \in DOMAIN p, p[k].status = "dispatching" PROVE FALSE
    BY DEF Quiet
  <2>1. k # tick.item /\ k \in DOMAIN q /\ q[k].status = "dispatching"
    BY <1>5, <1>7
  <2>2. k \in DOMAIN outbox /\ outbox[k].status = "dispatching"
    BY <1>6, <2>1
  <2> QED  BY <1>0, <2>1, <2>2 DEF TickInv, TickRow
<1>10. /\ Box(outbox, outbox', tick.item, {id}) /\ Resting /\ More /\ outbox' \in Seq(Row)
       /\ count'.breaks = 0 => outbox' = p /\ steps = 4
  BY <1>0, <1>1, <1>2, <1>6, <1>8, <1>9, EndsBox
<1>11. /\ job' \in [Jobs -> Lifecycle] /\ job'[j] = "running" /\ \A k \in Jobs \ {j} : job'[k] = job[k]
  BY <1>0, <1>2, <1>3 DEF RowTypes, Lifecycle
<1>12. /\ task' \in [Tasks -> TaskState] /\ task'[t] = "running"
       /\ \A u \in Tasks \ {t} : task'[u] = task[u]
  BY <1>0, <1>2 DEF RowTypes, TaskState
<1>13. TaskMoves
  BY <1>0, <1>3, <1>12 DEF TaskMoves, AfterTask, RowTypes, TaskState
<1>14. RowTypes' /\ BrowserTypes' /\ OneHolder' /\ WorldTypes' /\ leaseLink \subseteq leaseLink'
  BY <1>0, <1>2, <1>10, <1>11, <1>12 DEF RowTypes, BrowserTypes, OneHolder, WorldTypes, More, world
<1>15. Family'
  <2>1. \A b \in Amendments : task[b] = "none" /\ task'[b] # "none" => am[b] # "none"
    BY <1>3, <1>12, OfFacts
  <2>2. ASSUME NEW k \in Jobs, job'[k] = "none"
        PROVE  job[k] = "none" /\ task'[k] = task[k] /\ browser'[k].state = browser[k].state
    <3>1. k # j /\ job[k] = "none"
      BY <1>11, <2>2
    <3>2. k # t
      BY <3>1, OfFacts DEF j
    <3> QED  BY <1>2, <1>12, <3>1, <3>2, OfFacts
  <2> QED  BY <1>0, <1>2, <1>13, <2>1, <2>2, FamilyKept
<1>16. TickTypes' /\ TickInv' /\ Agrees({id})
  BY <1>4, <1>10, RestFacts DEF Agrees, RowOfTask
<1>17. \A k \in Jobs \ {j} : NoStart(k) /\ BrowserRests(k) /\ JobGoesOn(k) /\ LeaseRests(k)
  <2>1. \A k \in Jobs \ {j} : NoStart(k)
    BY <1>12, OfFacts DEF NoStart, j
  <2> QED  BY <1>2, <1>11, <2>1 DEF BrowserRests, JobGoesOn, Dead, LeaseRests, world
<1>18. \A k \in Jobs \ {j} : RowRests(tick.item, k) /\ NewRowsOK(k)
  <2>1. \A m \in DOMAIN outbox' \ DOMAIN outbox : outbox'[m].id = id
    BY <1>10 DEF Box
  <2> QED  BY <1>0, <1>1, <1>4, <2>1 DEF RowRests, RowOf, NewRowsOK, OpenRowOK, Closing, j
<1>19. ASSUME count'.breaks = 0, Whole, Base' PROVE JobWhole(j)'
  <2>0. /\ JobWhole(j) /\ outbox' = p /\ t \in leaseLink' /\ Of(t) = j /\ ~Dead(j)
    BY <1>2, <1>3, <1>10, <1>19 DEF Whole, Dead, j
  <2>1. \A u \in TasksOf(j) : u \in Tasks /\ Of(u) = j
    BY <1>3, OfFacts
  <2>2. \A u \in TasksOf(j) : task[u] \notin {"none", "succeeded"} => u = t
    BY <1>0, <1>3, <2>0, <2>1, OneActive
  <2>3. \A u \in TasksOf(j) : task'[u] = "running" => u = t
    BY <1>12, <2>1, <2>2
  <2>4. RunningOK(j)'
    <3>1. j \in TasksOf(j)
      BY DEF TasksOf
    <3> QED  BY <1>2, <1>3, <1>11, <2>0, <2>3, <3>1 DEF RunningOK, Ended, world
  <2>5. WaitingOK(j)'
    BY <1>11 DEF WaitingOK
  <2>6. ASSUME NEW k \in DOMAIN outbox', RowOf(k, j)' PROVE OpenRowOK(k, j)'
    <3>1. CASE k \notin DOMAIN outbox
      BY <1>4, <1>10, <3>1 DEF OpenRowOK, Closing, Box
    <3>2. CASE k \in DOMAIN outbox
      <4>1. RowOf(k, j) /\ outbox'[k].id = outbox[k].id /\ OpenRowOK(k, j) /\ k # tick.item
        BY <1>0, <1>5, <1>7, <1>10, <2>0, <2>6, <3>2, OldRow DEF JobWhole, RowOf, Open
      <4>2. outbox[k].id.kind # "session_create"
        BY <1>3, <4>1 DEF OpenRowOK, SessionRowOK
      <4>3. outbox[k].id.kind \notin Closing
        <5> SUFFICES ASSUME outbox[k].id.kind \in Closing PROVE FALSE
          OBVIOUS
        <5>1. Parking(k, j)
          BY <2>0, <4>1 DEF OpenRowOK, CloseRowOK
        <5>2. RowOf(tick.item, j)
          BY <1>1, <2>0 DEF RowOf
        <5> QED  BY <1>0, <1>1, <5>1, <5>2 DEF Parking
      <4>4. outbox[k].id.kind # "lease_create"
        <5> SUFFICES ASSUME outbox[k].id.kind = "lease_create" PROVE FALSE
          OBVIOUS
        <5>1. /\ outbox[k].id.of \in TasksOf(j) /\ outbox[k].id \in ItemId /\ outbox[k].id.n = 0
              /\ outbox[tick.item].id \in ItemId
          BY <1>0, <1>1, <3>2, <4>1, RowFacts, OfFacts DEF RowOf, RowOfTask
        <5>2. outbox[k].id.of = t
          BY <2>2, <4>1, <5>1 DEF OpenRowOK, LeaseRowOK
        <5>3. outbox[k].id = outbox[tick.item].id
          BY <1>0, <1>1, <5>1, <5>2 DEF ItemId
        <5> QED  BY <1>0, <1>1, <3>2, <4>1, <5>3 DEF Base, OneRowEach
      <4> QED  BY <4>1, <4>2, <4>3, <4>4 DEF OpenRowOK
    <3> QED  BY <3>1, <3>2
  <2> QED  BY <2>4, <2>5, <2>6 DEF JobWhole
<1>20. count'.breaks >= count.breaks /\ {j} \in SUBSET Jobs
  BY <1>3, <1>10 DEF More
<1>21. count'.breaks = 0 /\ Whole /\ Base' => \A k \in {j} : JobWhole(k)'
  BY <1>19
<1>22. count'.breaks = 0 /\ Whole =>
         \A k \in Jobs \ {j} : /\ NoStart(k) /\ BrowserRests(k) /\ JobGoesOn(k) /\ LeaseRests(k)
                            /\ RowRests(tick.item, k) /\ NewRowsOK(k)
  BY <1>17, <1>18
<1> HIDE DEF IInv
<1> QED  BY <1>10, <1>13, <1>14, <1>15, <1>16, <1>20, <1>21, <1>22, Changed

-----------------------------------------------------------------------------
(***************************************************************************)
(* The invariant holds.                                                     *)
(***************************************************************************)
LEMMA InitIInv == Init => IInv
<1> SUFFICES ASSUME Init PROVE IInv
  OBVIOUS
<1> USE DEF Init
<1>1. Types
  <2>1. RowTypes
    BY DEF RowTypes, Lifecycle, TaskState, AmState
  <2>2. BrowserTypes
    BY DEF BrowserTypes, Browser, BrowserState
  <2>3. TickTypes
    BY IdleFacts DEF TickTypes
  <2>4. WorldTypes
    BY DEF WorldTypes, NoLease, AnyTask, AgentStatus
  <2>5. outbox \in Seq(Row)
    OBVIOUS
  <2> QED  BY <2>1, <2>2, <2>3, <2>4, <2>5 DEF Types
<1>2. Family
  BY OfFacts DEF Family, AmendmentOfDone, OneAmendment, VerifiesAmendment, NotCreated
<1>3. OneHolder /\ OneRowEach /\ TickInv /\ RowsOfTasks
  BY IdleFacts DEF OneHolder, Holding, OneRowEach, TickInv, TickRow, TickLease, TickTask, RowsOfTasks
<1>4. Whole
  BY OfFacts DEF Whole, JobWhole, RunningOK, WaitingOK, RowOf, TasksOf
<1> QED  BY <1>1, <1>2, <1>3, <1>4 DEF IInv, Base

LEMMA StutterIInv == ASSUME IInv, UNCHANGED vars PROVE IInv'
<1>1. /\ UNCHANGED <<job, task, am, withdrawn, browser, outbox, links, tick, count, session, lease, agent>>
  BY DEF vars, rows, world
<1>2. /\ WorldTypes' /\ withdrawn' \subseteq Amendments /\ TickTypes' /\ TickInv' /\ count'.breaks >= count.breaks
      /\ \A j \in Jobs : LeaseRests(j)
  BY <1>1 DEF IInv, Base, Types, RowTypes, WorldTypes, TickTypes, TickInv, TickRow, TickLease, TickTask, LeaseRests
<1> QED  BY <1>1, <1>2, Still

LEMMA UsersIInv == ASSUME IInv, Users PROVE IInv'
<1>1. CASE \E j \in Jobs : CreateJob(j) \/ Pause(j) \/ Resume(j) \/ Cancel(j)
  BY <1>1, CreateJobStep, CommandSteps
<1>2. CASE \E a \in Amendments : Approve(a) \/ Apply(a) \/ Reject(a) \/ Withdraw(a)
  BY <1>2, DecisionSteps, WithdrawStep
<1> QED  BY <1>1, <1>2 DEF Users

LEMMA ReconcileIInv == ASSUME IInv, Reconcile PROVE IInv'
<1>1. CASE \E t \in Tasks : AskAgent(t) \/ \E c \in BOOLEAN : InterruptTask(t, c)
  BY <1>1, AskAgentStep, InterruptTaskStep
<1>2. CASE AgentWorks \/ CaptureEvidence
  BY <1>2, AgentWorksStep, CaptureEvidenceStep
<1>3. ASSUME NEW steps \in 1 .. 3,
             \/ TaskCancelled(steps)
             \/ \E a \in Amendments, s \in {"waiting_decision", "candidate_ready"} : Propose(a, s, steps)
             \/ \E r \in Results \cup {"invalid"} : TaskApplied(r, steps)
             \/ \E ok \in BOOLEAN : VerificationApplied(ok, steps)
      PROVE  IInv'
  BY <1>3, TaskCancelledStep, ProposeStep, TaskAppliedStep, VerificationAppliedStep
<1> QED  BY <1>1, <1>2, <1>3 DEF Reconcile

LEMMA CoordinateIInv == ASSUME IInv, Coordinate PROVE IInv'
<1>1. CASE Prepare
  <2>1. CASE \E a \in Amendments : ScheduleRefused(a) \/ \E c \in BOOLEAN : ScheduleVerification(a, c)
    BY <2>1, ScheduleRefusedStep, ScheduleVerificationStep
  <2>2. CASE Begin \/ Reconcile
    BY <2>2, BeginStep, ReconcileIInv
  <2>3. CASE \E i \in DOMAIN outbox :
                DispatchStale(i) \/ Dispatch(i) \/ \E c \in BOOLEAN : DispatchRefused(i, c)
    BY <2>3, DispatchStaleStep, DispatchStep, DispatchRefusedStep
  <2> QED  BY <1>1, <2>1, <2>2, <2>3 DEF Prepare
<1>2. CASE Serve
  BY <1>2, SessionOpensStep, LeaseIssuedStep, AgentCreatedStep, AgentCommandedStep, SessionClosesStep,
     LeaseRevokedStep, MustWaitStep, LeaseRefusedStep DEF Serve
<1>3. CASE Conclude
  BY <1>3, LeaseRevalidationFailsStep, CallAnsweredStep, SessionAnsweredStep, AgentAnsweredStep,
     RevalidationRevokesStep, LeaseAnsweredStep, CloseAnsweredStep DEF Conclude
<1>4. CASE HandOn
  BY <1>4, NothingToDoStep, EnqueueSessionCreateStep, EnqueueSessionCloseStep, EnqueueLeaseCreateStep,
     ClaimBrowserJobStep, SettleCancellationStep DEF HandOn
<1> QED  BY <1>1, <1>2, <1>3, <1>4 DEF Coordinate

LEMMA NextIInv == IInv /\ [Next]_vars => IInv'
<1> SUFFICES ASSUME IInv, [Next]_vars PROVE IInv'
  OBVIOUS
<1>1. CASE UNCHANGED vars
  BY <1>1, StutterIInv
<1>2. CASE Next
  BY <1>2, UsersIInv, CoordinateIInv, CallFailsStep, CrashStep, LeaseExpiresStep, AgentEndedStep DEF Next
<1> QED  BY <1>1, <1>2

LEMMA InvariantHolds == Spec => []IInv
<1> QED  BY InitIInv, NextIInv, PTL DEF Spec

\* The rows, the tick and the states of the other services are of their types.
THEOREM TypesHold == Spec => []TypeOK
<1>1. IInv => TypeOK
  <2> SUFFICES ASSUME IInv PROVE TypeOK
    OBVIOUS
  <2>1. \A i \in DOMAIN outbox : outbox[i].id.kind \in Kind /\ outbox[i].id.of \in Tasks
    BY RowFacts DEF IInv
  <2>2. tick.item \in 0 .. Len(outbox)
    <3>1. tick.item \in Nat /\ tick.item <= Len(outbox) /\ Len(outbox) \in Nat
      BY DEF IInv, Base, Types, TickTypes, Tick
    <3> QED  BY <3>1
  <2>3. \A t \in Tasks : agent[t].version \in Nat
    BY DEF IInv, Base, Types, WorldTypes
  <2> QED  BY <2>1, <2>2, <2>3 DEF TypeOK, IInv, Base, Types, RowTypes, BrowserTypes
<1> QED  BY <1>1, InvariantHolds, PTL

\* No two tasks of a job run; and unless a call failed or a death fell between
\* the transactions of a tick, a task that runs has the browser of its job
\* (getAuthoringTask, createAuthoringBrowserLease, closeBrowserSession).
THEOREM RunningTaskHasBrowserHolds == Spec => []RunningTaskHasBrowser
<1>1. IInv => RunningTaskHasBrowser
  <2> SUFFICES ASSUME IInv, NEW j \in Jobs
               PROVE  /\ \A t, u \in TasksOf(j) : task[t] = "running" /\ task[u] = "running" => t = u
                      /\ (\E t \in TasksOf(j) : task[t] = "running") /\ count.breaks = 0
                            => browser[j].state = "active"
    BY DEF RunningTaskHasBrowser
  <2>1. \A t, u \in TasksOf(j) : task[t] = "running" /\ task[u] = "running" => t = u
    BY OneActive, OfFacts DEF IInv, Base
  <2>2. ASSUME NEW t \in TasksOf(j), task[t] = "running", count.breaks = 0 PROVE browser[j].state = "active"
    BY <2>2 DEF IInv, Whole, JobWhole, RunningOK
  <2> QED  BY <2>1, <2>2
<1> QED  BY <1>1, InvariantHolds, PTL

\* The browser is with one job at a time, whatever fails (claimNextBrowserJob).
THEOREM OneHolderHolds == Spec => []OneHolder
<1>1. IInv => OneHolder
  BY DEF IInv, Base
<1> QED  BY <1>1, InvariantHolds, PTL

-----------------------------------------------------------------------------
(***************************************************************************)
(* What a step never does: it activates no amendment for a job that was     *)
(* cancelled, and changes no job that is over.                              *)
(***************************************************************************)
ActivatesRightly ==
    \A a \in Amendments : am[a] # "activated" /\ am'[a] = "activated"
        => task[a] = "running" /\ job[JobOf[a]] \notin Ended \cup {"cancelling"}
Rightly == ActivatesRightly /\ (count.breaks = 0 => EndedStays)

LEMMA StillRightly == ASSUME UNCHANGED <<job, am>> PROVE Rightly
  BY DEF Rightly, ActivatesRightly, EndedStays

LEMMA NotEnded ==
    ASSUME IInv, NEW t \in Tasks, task[t] = "running", count.breaks = 0
    PROVE  job[Of(t)] \notin Ended
<1>1. Of(t) \in Jobs /\ t \in TasksOf(Of(t))
  BY OfFacts
<1> QED  BY <1>1 DEF IInv, Whole, JobWhole, RunningOK

\* One job changes, and it is not over.
LEMMA ChangesOne ==
    ASSUME IInv, NEW j, NEW s, job' = [job EXCEPT ![j] = s], ActivatesRightly,
           count.breaks = 0 /\ job[j] \in Ended => s = job[j]
    PROVE  Rightly
<1>1. job \in [Jobs -> Lifecycle]
  BY DEF IInv, Base, Types, RowTypes
<1>2. ASSUME count.breaks = 0, NEW k \in Jobs, job[k] \in Ended PROVE job'[k] = job[k]
  BY <1>1, <1>2
<1> QED  BY <1>2 DEF Rightly, EndedStays

LEMMA UnstartedRightly ==
    ASSUME IInv, NEW j \in Jobs, NEW asked, NEW q, FailUnstarted(j, asked, q)
    PROVE  Rightly
<1>1. job' = [job EXCEPT ![j] = IF job[j] \notin Ended \cup {"cancelling"} THEN "failed" ELSE job[j]]
  BY DEF FailUnstarted
<1>2. \E S : am' = [a \in Amendments |-> IF a \in S /\ am[a] # "activated" THEN "closed" ELSE am[a]]
  BY DEF FailUnstarted
<1>3. ActivatesRightly
  BY <1>2 DEF ActivatesRightly
<1> QED  BY <1>1, <1>3, ChangesOne

LEMMA RefusedRightly ==
    ASSUME IInv, NEW i \in DOMAIN outbox, NEW c \in BOOLEAN, Refuse(i, c)
    PROVE  Rightly
<1> DEFINE id == outbox[i].id
           j  == Of(id.of)
           q  == Settled(outbox, i, "cancelled")
<1>1. id.of \in Tasks /\ j \in Jobs
  BY RowFacts, OfFacts DEF IInv
<1>2. CASE FailUnstarted(j, {}, q)
  BY <1>1, <1>2, UnstartedRightly
<1>3. CASE UNCHANGED <<job, task, am, browser>>
  BY <1>3, StillRightly
<1>4. CASE /\ Found(j, "running") = {id.of}
           /\ am' = [a \in Amendments |-> IF c /\ a = id.of /\ am[a] # "activated" THEN "closed" ELSE am[a]]
           /\ job' = [job EXCEPT ![j] = IF c THEN "failed" ELSE @]
  <2>1. task[id.of] = "running"
    BY <1>1, <1>4, FoundFacts
  <2>2. count.breaks = 0 => job[j] \notin Ended
    BY <1>1, <2>1, NotEnded
  <2>3. ActivatesRightly
    BY <1>4 DEF ActivatesRightly
  <2> QED  BY <1>4, <2>2, <2>3, ChangesOne
<1>5. CASE job' = [job EXCEPT ![j] = IF @ = "running" THEN "paused" ELSE @] /\ am' = am
  <2>1. ActivatesRightly
    BY <1>5 DEF ActivatesRightly
  <2> QED  BY <1>5, <2>1, ChangesOne DEF Ended
<1>6. \/ FailUnstarted(j, {}, q) \/ UNCHANGED <<job, task, am, browser>>
      \/ /\ Found(j, "running") = {id.of}
         /\ am' = [a \in Amendments |-> IF c /\ a = id.of /\ am[a] # "activated" THEN "closed" ELSE am[a]]
         /\ job' = [job EXCEPT ![j] = IF c THEN "failed" ELSE @]
      \/ job' = [job EXCEPT ![j] = IF @ = "running" THEN "paused" ELSE @] /\ am' = am
  BY DEF Refuse
<1> QED  BY <1>2, <1>3, <1>4, <1>5, <1>6

LEMMA FailedRightly ==
    ASSUME IInv, NEW i \in DOMAIN outbox, FailTerminal(i)
    PROVE  Rightly
<1>1. Of(outbox[i].id.of) \in Jobs
  BY RowFacts, OfFacts DEF IInv
<1>2. \/ FailUnstarted(Of(outbox[i].id.of), {}, Settled(outbox, i, "terminal_failed"))
      \/ UNCHANGED <<job, am>>
  BY DEF FailTerminal
<1> QED  BY <1>1, <1>2, UnstartedRightly, StillRightly

\* The task that ran ends: whoever activates its amendment has checked it.
LEMMA AppliedRightly ==
    ASSUME IInv, NEW t \in Tasks, task[t] = "running", NEW z, NEW l, NEW steps,
           Apply3(t, z, l, steps), ActivatesRightly
    PROVE  Rightly
<1>1. job' = [job EXCEPT ![Of(t)] = IF steps >= 2 THEN l ELSE @]
  BY DEF Apply3
<1>2. count.breaks = 0 => job[Of(t)] \notin Ended
  BY NotEnded
<1> QED  BY <1>1, <1>2, ChangesOne

LEMMA ReconcileRightly == ASSUME IInv, Reconcile PROVE Rightly
<1>1. ASSUME NEW t \in Tasks, NEW c \in BOOLEAN, InterruptTask(t, c) PROVE Rightly
  <2>1. task[t] = "running" /\ job' = [job EXCEPT ![Of(t)] = IF c THEN "failed" ELSE @] /\ am' = am
    BY <1>1, OfFacts, FoundFacts DEF InterruptTask, Running
  <2>2. ActivatesRightly
    BY <2>1 DEF ActivatesRightly
  <2> QED  BY <2>1, <2>2, NotEnded, ChangesOne
<1>2. CASE AgentWorks \/ CaptureEvidence \/ \E t \in Tasks : AskAgent(t)
  BY <1>2, StillRightly DEF AgentWorks, CaptureEvidence, AskAgent, rows
<1>3. ASSUME NEW steps \in 1 .. 3, TaskCancelled(steps) PROVE Rightly
  <2>1. /\ am' = am
        /\ job' = [job EXCEPT ![Of(tick.of)] =
                      IF steps >= 2 /\ ~(job[Of(tick.of)] # "cancelling") THEN "cancelled" ELSE @]
    BY <1>3 DEF TaskCancelled
  <2>2. ActivatesRightly
    BY <2>1 DEF ActivatesRightly
  <2> QED  BY <2>1, <2>2, ChangesOne DEF Ended
<1>4. ASSUME NEW steps \in 1 .. 3, NEW a \in Amendments, NEW s \in {"waiting_decision", "candidate_ready"},
             Propose(a, s, steps)
      PROVE  Rightly
  <2>1. tick.of \in Tasks /\ task[tick.of] = "running" /\ RowTypes
    BY <1>4, CapturingFacts DEF Propose
  <2>2. am' = [am EXCEPT ![a] = s]
    BY <1>4 DEF Propose
  <2>3. ActivatesRightly
    BY <2>1, <2>2 DEF ActivatesRightly, RowTypes
  <2>4. \E z, l : Apply3(tick.of, z, l, steps)
    BY <1>4 DEF Propose
  <2> QED  BY <2>1, <2>3, <2>4, AppliedRightly
<1>5. ASSUME NEW steps \in 1 .. 3, NEW r \in Results \cup {"invalid"}, TaskApplied(r, steps) PROVE Rightly
  <2>1. tick.of \in Tasks /\ task[tick.of] = "running" /\ am' = am
    BY <1>5, CapturingFacts DEF TaskApplied
  <2>2. r \in {"no_change", "blocked", "invalid"}
    BY <1>5, JobAssumption DEF TaskApplied
  <2>3. ActivatesRightly
    BY <2>1 DEF ActivatesRightly
  <2>4. \E z, l : Apply3(tick.of, z, l, steps)
    BY <1>5, <2>2 DEF TaskApplied
  <2> QED  BY <2>1, <2>3, <2>4, AppliedRightly
<1>6. ASSUME NEW steps \in 1 .. 3, NEW ok \in BOOLEAN, VerificationApplied(ok, steps) PROVE Rightly
  <2>1. tick.of \in Amendments /\ task[tick.of] = "running" /\ RowTypes /\ tick.of \in Tasks
    BY <1>6, CapturingFacts DEF VerificationApplied
  <2>2. PICK s : /\ am' = [am EXCEPT ![tick.of] = s]
                 /\ s \in {"activated", "closed", am[tick.of]}
                 /\ s = "activated" => am[tick.of] = "activated" \/ AmendmentAuthorised(tick.of)
    BY <1>6 DEF VerificationApplied
  <2>3. ActivatesRightly
    BY <2>1, <2>2 DEF ActivatesRightly, AmendmentAuthorised, RowTypes
  <2>4. \E z, l : Apply3(tick.of, z, l, steps)
    BY <1>6 DEF VerificationApplied
  <2> QED  BY <2>1, <2>3, <2>4, AppliedRightly
<1> QED  BY <1>1, <1>2, <1>3, <1>4, <1>5, <1>6 DEF Reconcile

LEMMA PrepareRightly == ASSUME IInv, Prepare PROVE Rightly
<1>1. ASSUME NEW a \in Amendments, ScheduleRefused(a) PROVE Rightly
  BY <1>1, JobAssumption, UnstartedRightly DEF ScheduleRefused
<1>2. ASSUME NEW a \in Amendments, NEW c \in BOOLEAN, ScheduleVerification(a, c) PROVE Rightly
  <2>1. job[JobOf[a]] \notin Ended
    BY <1>2 DEF ScheduleVerification, IsFirst, ToSchedule
  <2>2. job' = [job EXCEPT ![JobOf[a]] = IF c THEN "running" ELSE @] /\ am' = am
    BY <1>2 DEF ScheduleVerification
  <2>3. ActivatesRightly
    BY <2>2 DEF ActivatesRightly
  <2> QED  BY <2>1, <2>2, <2>3, ChangesOne
<1>3. CASE Begin
  BY <1>3, StillRightly DEF Begin, rows
<1>4. ASSUME NEW i \in DOMAIN outbox, DispatchStale(i) \/ Dispatch(i) PROVE Rightly
  BY <1>4, StillRightly DEF DispatchStale, Dispatch, rows
<1>5. ASSUME NEW i \in DOMAIN outbox, NEW c \in BOOLEAN, DispatchRefused(i, c) PROVE Rightly
  BY <1>5, RefusedRightly DEF DispatchRefused
<1> QED  BY <1>1, <1>2, <1>3, <1>4, <1>5, ReconcileRightly DEF Prepare

LEMMA ServeRightly == ASSUME IInv, Serve PROVE Rightly
<1>1. CASE SessionOpens \/ LeaseIssued \/ AgentCreated \/ SessionCloses \/ LeaseRevoked
  BY <1>1, StillRightly DEF SessionOpens, LeaseIssued, AgentCreated, SessionCloses, LeaseRevoked, rows
<1>2. CASE MustWait
  BY <1>2, StillRightly DEF MustWait, FailRetryable
<1>3. CASE AgentCommanded
  <2>1. tick.item \in DOMAIN outbox
    BY <1>3, CallingFacts DEF AgentCommanded, Calling, IInv, Out
  <2>2. UNCHANGED <<job, am>> \/ FailTerminal(tick.item)
    BY <1>3 DEF AgentCommanded
  <2> QED  BY <2>1, <2>2, StillRightly, FailedRightly
<1>4. ASSUME NEW c \in BOOLEAN, LeaseRefused(c) PROVE Rightly
  <2>1. tick.item \in DOMAIN outbox /\ Refuse(tick.item, c)
    BY <1>4, CallingFacts DEF LeaseRefused, Calling, IInv, Out
  <2> QED  BY <2>1, RefusedRightly
<1> QED  BY <1>1, <1>2, <1>3, <1>4 DEF Serve

LEMMA ConcludeRightly == ASSUME IInv, Conclude PROVE Rightly
<1>1. CASE LeaseRevalidationFails \/ CallAnswered \/ \E c \in BOOLEAN : AgentAnswered(c)
  BY <1>1, StillRightly DEF LeaseRevalidationFails, CallAnswered, AgentAnswered, rows
<1>2. ASSUME NEW c \in BOOLEAN, SessionAnswered(c) PROVE Rightly
  <2>1. tick.item \in DOMAIN outbox
    BY <1>2, CallingFacts DEF SessionAnswered, Answered, IInv, Out
  <2>2. UNCHANGED <<job, am>> \/ FailTerminal(tick.item)
    BY <1>2 DEF SessionAnswered
  <2> QED  BY <2>1, <2>2, StillRightly, FailedRightly
<1>3. ASSUME NEW c \in BOOLEAN, RevalidationRevokes(c) PROVE Rightly
  <2>1. Of(Item.id.of) \in Jobs
    BY <1>3, CallingFacts, RowFacts, OfFacts DEF RevalidationRevokes, IInv, Out
  <2>2. UNCHANGED <<job, am>> \/ \E q : FailUnstarted(Of(Item.id.of), {}, q)
    BY <1>3 DEF RevalidationRevokes
  <2> QED  BY <2>1, <2>2, StillRightly, UnstartedRightly
<1>4. ASSUME NEW steps \in 1 .. 4, LeaseAnswered(steps) PROVE Rightly
  <2>1. job' = [job EXCEPT ![Of(Item.id.of)] = "running"] /\ am' = am
    BY <1>4 DEF LeaseAnswered
  <2>2. job[Of(Item.id.of)] \notin Ended
    BY <1>4 DEF LeaseAnswered, Answered, Authorised, ExecutionAllowed
  <2>3. ActivatesRightly
    BY <2>1 DEF ActivatesRightly
  <2> QED  BY <2>1, <2>2, <2>3, ChangesOne
<1>5. ASSUME NEW steps \in 1 .. 3, CloseAnswered(steps) PROVE Rightly
  <2>1. tick.item \in DOMAIN outbox
    BY <1>5, CallingFacts DEF CloseAnswered, Answered, IInv, Out
  <2>2. UNCHANGED <<job, am>> \/ FailTerminal(tick.item)
    BY <1>5 DEF CloseAnswered
  <2> QED  BY <2>1, <2>2, StillRightly, FailedRightly
<1> QED  BY <1>1, <1>2, <1>3, <1>4, <1>5 DEF Conclude

LEMMA HandOnRightly == ASSUME IInv, HandOn PROVE Rightly
<1>1. ASSUME NEW j \in Jobs, EnqueueSessionCreate(j) \/ EnqueueSessionClose(j) PROVE Rightly
  BY <1>1, StillRightly DEF EnqueueSessionCreate, EnqueueSessionClose
<1>2. CASE NothingToDo \/ \E j \in Jobs, c \in BOOLEAN : ClaimBrowserJob(j, c)
  BY <1>2, StillRightly DEF NothingToDo, ClaimBrowserJob
<1>3. ASSUME NEW j \in Jobs, EnqueueLeaseCreate(j) PROVE Rightly
  <2>1. UNCHANGED <<job, am>> \/ FailUnstarted(j, {}, outbox)
    BY <1>3 DEF EnqueueLeaseCreate
  <2> QED  BY <2>1, StillRightly, UnstartedRightly
<1>4. ASSUME NEW j \in Jobs, NEW c \in BOOLEAN, SettleCancellation(j, c) PROVE Rightly
  <2>1. job' = [job EXCEPT ![j] = "cancelled"] /\ am' = am /\ job[j] \notin Ended
    BY <1>4 DEF SettleCancellation, Ended
  <2>2. ActivatesRightly
    BY <2>1 DEF ActivatesRightly
  <2> QED  BY <2>1, <2>2, ChangesOne
<1> QED  BY <1>1, <1>2, <1>3, <1>4 DEF HandOn

LEMMA UsersRightly == ASSUME IInv, Users PROVE Rightly
<1>1. ASSUME NEW j \in Jobs, CreateJob(j) \/ Pause(j) \/ Resume(j) \/ Cancel(j) PROVE Rightly
  <2>1. PICK s : job' = [job EXCEPT ![j] = s] /\ am' = am /\ job[j] \notin Ended
    BY <1>1 DEF CreateJob, Pause, Resume, Cancel, Command, Ended
  <2>2. ActivatesRightly
    BY <2>1 DEF ActivatesRightly
  <2> QED  BY <2>1, <2>2, ChangesOne
<1>2. ASSUME NEW a \in Amendments, Approve(a) \/ Apply(a) \/ Reject(a) PROVE Rightly
  <2>1. PICK s \in {"candidate_ready", "verifying", "closed"} : am' = [am EXCEPT ![a] = s] /\ job' = job
    BY <1>2 DEF Approve, Apply, Reject, SetAmendment
  <2>2. ActivatesRightly
    BY <2>1 DEF ActivatesRightly, IInv, Base, Types, RowTypes
  <2> QED  BY <2>1, <2>2 DEF Rightly, EndedStays
<1>3. ASSUME NEW a \in Amendments, Withdraw(a) PROVE Rightly
  BY <1>3, StillRightly DEF Withdraw
<1> QED  BY <1>1, <1>2, <1>3 DEF Users

LEMMA NextRightly == IInv /\ [Next]_vars => Rightly
<1> SUFFICES ASSUME IInv, [Next]_vars PROVE Rightly
  OBVIOUS
<1>1. CASE UNCHANGED vars
  BY <1>1, StillRightly DEF vars, rows
<1>2. CASE Coordinate
  BY <1>2, PrepareRightly, ServeRightly, ConcludeRightly, HandOnRightly DEF Coordinate
<1>3. CASE CallFails
  <2>1. CASE UNCHANGED <<job, am>>
    BY <2>1, StillRightly
  <2>2. CASE ~ UNCHANGED <<job, am>>
    <3>1. FailTerminal(tick.item) /\ tick.at \in {"calling", "answered"}
      BY <1>3, <2>2 DEF CallFails, FailRetryable
    <3>2. tick.item \in DOMAIN outbox
      BY <3>1, CallingFacts DEF IInv, Out
    <3> QED  BY <3>1, <3>2, FailedRightly
  <2> QED  BY <2>1, <2>2
<1>4. CASE Crash \/ LeaseExpires \/ \E t \in Tasks : AgentEnded(t)
  BY <1>4, StillRightly DEF Crash, LeaseExpires, AgentEnded, rows
<1> QED  BY <1>1, <1>2, <1>3, <1>4, UsersRightly DEF Next

\* An amendment is activated by the verification that runs, for a job that
\* nobody cancelled, however late the cancellation was (applyVerificationOutput,
\* requireAuthoringAuthorization).
THEOREM CancelActivatesNothingHolds == Spec => CancelActivatesNothing
<1>1. IInv /\ [Next]_vars => ActivatesRightly
  BY NextRightly DEF Rightly
<1>2. [][ActivatesRightly]_vars => CancelActivatesNothing
  BY PTL DEF CancelActivatesNothing, ActivatesRightly
<1>3. Spec => [][ActivatesRightly]_vars
  BY <1>1, InvariantHolds, PTL DEF Spec
<1> QED  BY <1>2, <1>3

\* As long as no call failed and no death fell between the transactions of a
\* tick, what is over stays over (settleAuthoringJob, interruptAuthoringTask,
\* settlePolicyDispatchFailure).
THEOREM EndedStaysUnlessBroken == Spec => [][count.breaks = 0 => EndedStays]_vars
<1>1. IInv /\ [Next]_vars => (count.breaks = 0 => EndedStays)
  BY NextRightly DEF Rightly
<1> QED  BY <1>1, InvariantHolds, PTL DEF Spec

=============================================================================
