------------------------- MODULE RunSchedulerProofs -------------------------
(***************************************************************************)
(* Proofs about RunScheduler, for any runs and any limits.  The permits    *)
(* are counted with FiniteSetTheorems, so the invariant says that the sets *)
(* counted are finite; the order of promotion needs the queue numbers of   *)
(* queued runs to be distinct.                                             *)
(***************************************************************************)
EXTENDS RunScheduler, FiniteSetTheorems, TLAPS

Outcomes == {"completed", "cancelled"}

\* The inductive invariant.
SchedulerInv ==
    /\ SchedulerTypeOK
    /\ IsFiniteSet(Active) /\ IsFiniteSet(Queued)
    /\ PermitBound /\ NoIdlePermit
    /\ \A r \in Runs : queueSeq[r] < nextQueueSeq
    /\ \A q, r \in Queued : queueSeq[q] = queueSeq[r] => q = r

\* The types of what finish writes.
LEMMA FinishType ==
    ASSUME NEW r \in Runs, NEW outcome \in Outcomes, SchedulerTypeOK, Finish(r, outcome)
    PROVE  SchedulerTypeOK'
  BY DEF SchedulerTypeOK, Finish, RunStatus, Outcomes, Queued

\* The types of what enqueue writes.
LEMMA EnqueueType ==
    ASSUME NEW r \in Runs, SchedulerTypeOK, Enqueue(r)
    PROVE  SchedulerTypeOK'
  BY DEF SchedulerTypeOK, Enqueue, RunStatus

\* Taking back every permit keeps the types.
LEMMA CancelAllType ==
    ASSUME SchedulerTypeOK, CancelAll
    PROVE  SchedulerTypeOK'
  BY DEF SchedulerTypeOK, CancelAll, RunStatus

-----------------------------------------------------------------------------
\* What enqueue does to the two sets: a free permit is taken, or the run waits.
LEMMA EnqueueSets ==
    ASSUME SchedulerTypeOK, NEW r \in Runs, Enqueue(r)
    PROVE  /\ r \notin Active /\ r \notin Queued
           /\ \/ /\ Cardinality(Active) < MaxActive
                 /\ Active' = Active \cup {r} /\ Queued' = Queued
              \/ /\ ~(Cardinality(Active) < MaxActive)
                 /\ Active' = Active /\ Queued' = Queued \cup {r}
<1>1. CASE Cardinality(Active) < MaxActive
  <2>1. runStatus' = [runStatus EXCEPT ![r] = "active"]
    BY <1>1 DEF Enqueue
  <2>2. Active' = Active \cup {r} /\ Queued' = Queued
    BY <2>1 DEF Enqueue, SchedulerTypeOK, Active, Queued
  <2> QED  BY <1>1, <2>2 DEF Enqueue
<1>2. CASE ~(Cardinality(Active) < MaxActive)
  <2>1. runStatus' = [runStatus EXCEPT ![r] = "queued"]
    BY <1>2 DEF Enqueue
  <2>2. Active' = Active /\ Queued' = Queued \cup {r}
    BY <2>1 DEF Enqueue, SchedulerTypeOK, Active, Queued
  <2> QED  BY <1>2, <2>2 DEF Enqueue
<1> QED  BY <1>1, <1>2

\* What finish does to the two sets: the permit is passed on, the run leaves
\* the queue, the permit is returned, or nothing changes.
LEMMA FinishSets ==
    ASSUME SchedulerTypeOK, NEW r \in Runs, NEW outcome \in Outcomes, Finish(r, outcome)
    PROVE  \/ \E q \in Queued : /\ r \in Active /\ Oldest(q)
                                /\ Active' = (Active \ {r}) \cup {q}
                                /\ Queued' = Queued \ {q}
           \/ r \in Queued /\ Active' = Active /\ Queued' = Queued \ {r}
           \/ r \in Active /\ Queued = {} /\ Active' = Active \ {r} /\ Queued' = {}
           \/ Active' = Active /\ Queued' = Queued
<1>1. CASE r \in Active /\ \E q \in Queued : Oldest(q)
              /\ runStatus' = [runStatus EXCEPT ![r] = outcome, ![q] = "active"]
  <2>1. PICK q \in Queued : Oldest(q)
              /\ runStatus' = [runStatus EXCEPT ![r] = outcome, ![q] = "active"]
    BY <1>1
  <2>2. q \in Runs /\ q # r
    BY <1>1, <2>1 DEF Active, Queued
  <2>3. Active' = (Active \ {r}) \cup {q} /\ Queued' = Queued \ {q}
    BY <1>1, <2>1, <2>2 DEF SchedulerTypeOK, Active, Queued, Outcomes
  <2> QED  BY <1>1, <2>1, <2>3
<1>2. CASE r \in Queued /\ runStatus' = [runStatus EXCEPT ![r] = outcome]
  <2>1. Active' = Active /\ Queued' = Queued \ {r}
    BY <1>2 DEF SchedulerTypeOK, Active, Queued, Outcomes
  <2> QED  BY <1>2, <2>1
<1>3. CASE r \in Active /\ Queued = {} /\ runStatus' = [runStatus EXCEPT ![r] = outcome]
  <2>1. Active' = Active \ {r} /\ Queued' = {}
    BY <1>3 DEF SchedulerTypeOK, Active, Queued, Outcomes
  <2> QED  BY <1>3, <2>1
<1>4. CASE UNCHANGED runStatus
  BY <1>4 DEF Active, Queued
<1> QED  BY <1>1, <1>2, <1>3, <1>4 DEF Finish

\* A new run keeps the count of permits and of numbers.
LEMMA EnqueueInv ==
    ASSUME SchedulerInv, NEW r \in Runs, Enqueue(r)
    PROVE  SchedulerInv'
<1> USE SchedulerAssumption
<1>1. SchedulerTypeOK'
  BY DEF SchedulerInv, SchedulerTypeOK, Enqueue, RunStatus
<1>2. /\ r \notin Active /\ r \notin Queued
      /\ \/ /\ Cardinality(Active) < MaxActive
            /\ Active' = Active \cup {r} /\ Queued' = Queued
         \/ /\ ~(Cardinality(Active) < MaxActive)
            /\ Active' = Active /\ Queued' = Queued \cup {r}
  BY EnqueueSets DEF SchedulerInv
<1>3. Cardinality(Active) \in Nat
  BY FS_CardinalityType DEF SchedulerInv
<1>4. /\ IsFiniteSet(Active \cup {r}) /\ IsFiniteSet(Queued \cup {r})
      /\ Cardinality(Active \cup {r}) = Cardinality(Active) + 1
  BY <1>2, FS_AddElement DEF SchedulerInv
<1>5. IsFiniteSet(Active)' /\ IsFiniteSet(Queued)'
  BY <1>2, <1>4 DEF SchedulerInv
<1>6. PermitBound' /\ NoIdlePermit'
  <2>1. CASE Cardinality(Active) < MaxActive /\ Active' = Active \cup {r} /\ Queued' = Queued
    BY <2>1, <1>3, <1>4 DEF SchedulerInv, PermitBound, NoIdlePermit
  <2>2. CASE ~(Cardinality(Active) < MaxActive) /\ Active' = Active
    BY <2>2, <1>3 DEF SchedulerInv, PermitBound, NoIdlePermit
  <2> QED  BY <1>2, <2>1, <2>2
<1>7. \A p \in Runs : queueSeq'[p] < nextQueueSeq'
  BY DEF SchedulerInv, SchedulerTypeOK, Enqueue
<1>8. \A p, q \in Queued' : queueSeq'[p] = queueSeq'[q] => p = q
  <2>1. SUFFICES ASSUME NEW p \in Queued', NEW q \in Queued', queueSeq'[p] = queueSeq'[q]
                 PROVE  p = q
    OBVIOUS
  <2>2. p \in Queued \cup {r} /\ q \in Queued \cup {r} /\ p \in Runs /\ q \in Runs
    BY <1>2 DEF Queued
  <2>3. queueSeq' = [queueSeq EXCEPT ![r] = nextQueueSeq]
    BY DEF Enqueue
  <2> QED  BY <2>1, <2>2, <2>3 DEF SchedulerInv, SchedulerTypeOK
<1> QED  BY <1>1, <1>5, <1>6, <1>7, <1>8 DEF SchedulerInv

\* The end of a run keeps them too: a permit changes hands or is returned.
LEMMA FinishInv ==
    ASSUME SchedulerInv, NEW r \in Runs, NEW outcome \in Outcomes, Finish(r, outcome)
    PROVE  SchedulerInv'
<1> USE SchedulerAssumption
<1>1. SchedulerTypeOK'
  BY DEF SchedulerInv, SchedulerTypeOK, Finish, RunStatus, Outcomes, Queued
<1>2. Cardinality(Active) \in Nat
  BY FS_CardinalityType DEF SchedulerInv
<1>3. Queued' \subseteq Queued
  BY FinishSets DEF SchedulerInv
<1>4. IsFiniteSet(Queued)'
  BY <1>3, FS_Subset DEF SchedulerInv
<1>5. IsFiniteSet(Active)' /\ PermitBound' /\ NoIdlePermit'
  <2>1. CASE \E q \in Queued : /\ r \in Active
                               /\ Active' = (Active \ {r}) \cup {q}
    <3>1. PICK q \in Queued : r \in Active /\ Active' = (Active \ {r}) \cup {q}
      BY <2>1
    <3>2. IsFiniteSet(Active \ {r}) /\ Cardinality(Active \ {r}) = Cardinality(Active) - 1
      BY <3>1, FS_RemoveElement DEF SchedulerInv
    <3>3. q \notin Active \ {r}
      BY <3>1 DEF Active, Queued
    <3>4. IsFiniteSet(Active') /\ Cardinality(Active') = Cardinality(Active)
      <4> DEFINE rest == Active \ {r}
      <4>1. Active' = rest \cup {q}
        BY <3>1
      <4>2. IsFiniteSet(rest \cup {q}) /\ Cardinality(rest \cup {q}) = Cardinality(rest) + 1
        BY <3>2, <3>3, FS_AddElement
      <4>3. Cardinality(rest) + 1 = Cardinality(Active)
        BY <1>2, <3>2
      <4> QED  BY <4>1, <4>2, <4>3
    <3> QED  BY <1>2, <3>1, <3>4 DEF SchedulerInv, PermitBound, NoIdlePermit
  <2>2. CASE Active' = Active
    BY <2>2, <1>3 DEF SchedulerInv, PermitBound, NoIdlePermit
  <2>3. CASE r \in Active /\ Queued' = {} /\ Active' = Active \ {r}
    <3>1. IsFiniteSet(Active \ {r}) /\ Cardinality(Active \ {r}) = Cardinality(Active) - 1
      BY <2>3, FS_RemoveElement DEF SchedulerInv
    <3> QED  BY <1>2, <2>3, <3>1 DEF SchedulerInv, PermitBound, NoIdlePermit
  <2> QED  BY <2>1, <2>2, <2>3, FinishSets DEF SchedulerInv
<1>6. UNCHANGED <<queueSeq, nextQueueSeq>>
  BY DEF Finish
<1> QED  BY <1>1, <1>3, <1>4, <1>5, <1>6 DEF SchedulerInv

\* Every step of the scheduler, and every step that leaves it alone.
LEMMA SchedulerInvStep == SchedulerInv /\ [SchedulerNext]_schedulerVars => SchedulerInv'
<1> SUFFICES ASSUME SchedulerInv, [SchedulerNext]_schedulerVars  PROVE SchedulerInv'
  OBVIOUS
<1>1. ASSUME NEW r \in Runs, Enqueue(r)  PROVE SchedulerInv'
  BY <1>1, EnqueueInv
<1>2. ASSUME NEW r \in Runs, Finish(r, "completed") \/ Finish(r, "cancelled")
      PROVE  SchedulerInv'
  BY <1>2, FinishInv DEF Outcomes
<1>3. CASE CancelAll
  <2>1. SchedulerTypeOK'
    BY <1>3 DEF CancelAll, SchedulerInv, SchedulerTypeOK, RunStatus
  <2>2. Active' = {} /\ Queued' = {}
    BY <1>3 DEF CancelAll, Active, Queued
  <2>3. IsFiniteSet({}) /\ Cardinality({}) = 0
    BY FS_EmptySet
  <2>4. IsFiniteSet(Active)' /\ IsFiniteSet(Queued)' /\ PermitBound' /\ NoIdlePermit'
    BY <2>2, <2>3, SchedulerAssumption DEF PermitBound, NoIdlePermit
  <2> QED  BY <1>3, <2>1, <2>2, <2>4 DEF CancelAll, SchedulerInv
<1>4. CASE UNCHANGED schedulerVars
  BY <1>4 DEF schedulerVars, SchedulerInv, SchedulerTypeOK, Active, Queued, PermitBound,
              NoIdlePermit
<1> QED  BY <1>1, <1>2, <1>3, <1>4 DEF SchedulerNext

\* The invariant of the scheduler holds in every behaviour.
LEMMA SchedulerInvariant == SchedulerSpec => []SchedulerInv
<1>1. SchedulerInit => SchedulerInv
  <2> SUFFICES ASSUME SchedulerInit  PROVE SchedulerInv
    OBVIOUS
  <2>1. SchedulerTypeOK /\ \A r \in Runs : queueSeq[r] < nextQueueSeq
    BY DEF SchedulerInit, SchedulerTypeOK, RunStatus
  <2>2. Active = {} /\ Queued = {}
    BY DEF SchedulerInit, Active, Queued
  <2>3. IsFiniteSet({}) /\ Cardinality({}) = 0
    BY FS_EmptySet
  <2> QED  BY <2>1, <2>2, <2>3, SchedulerAssumption DEF SchedulerInv, PermitBound, NoIdlePermit
<1> QED  BY <1>1, SchedulerInvStep, PTL DEF SchedulerSpec

-----------------------------------------------------------------------------
\* No more runs are active than there are permits (run-scheduler.ts, enqueue
\* and finish), for any number of runs and any limits.
THEOREM PermitsBounded == SchedulerSpec => []PermitBound
<1>1. SchedulerInv => PermitBound
  BY DEF SchedulerInv
<1> QED  BY <1>1, SchedulerInvariant, PTL

\* A run waits only while every permit is out (finish promotes in the same
\* transaction that frees the permit).
THEOREM NoPermitIdle == SchedulerSpec => []NoIdlePermit
<1>1. SchedulerInv => NoIdlePermit
  BY DEF SchedulerInv
<1> QED  BY <1>1, SchedulerInvariant, PTL

\* No queued run is promoted past one that came earlier (finish takes the
\* smallest queue_seq, and enqueue numbers runs in the order they come).
THEOREM PromotedInOrder == SchedulerSpec => FirstComeFirstServed
<1> DEFINE InOrder == \A q, r \in Runs :
         /\ runStatus[q] = "queued" /\ runStatus'[q] = "active"
         /\ runStatus[r] = "queued" /\ runStatus'[r] = "queued"
         => queueSeq[q] < queueSeq[r]
<1>1. SchedulerInv /\ [SchedulerNext]_schedulerVars => [InOrder]_schedulerVars
  <2> SUFFICES ASSUME SchedulerInv, [SchedulerNext]_schedulerVars,
                      NEW q \in Runs, NEW r \in Runs,
                      runStatus[q] = "queued", runStatus'[q] = "active",
                      runStatus[r] = "queued", runStatus'[r] = "queued"
               PROVE  queueSeq[q] < queueSeq[r]
    OBVIOUS
  <2>1. q # r /\ q \in Queued /\ r \in Queued /\ q \in Active' /\ q \notin Active
    BY DEF Queued, Active
  <2>2. ASSUME NEW p \in Runs, Enqueue(p)  PROVE FALSE
    BY <2>1, <2>2, EnqueueSets DEF SchedulerInv
  <2>3. ASSUME NEW p \in Runs, Finish(p, "completed") \/ Finish(p, "cancelled")
        PROVE  queueSeq[q] < queueSeq[r]
    <3>1. Oldest(q)
      BY <2>1, <2>3, FinishSets DEF SchedulerInv, Outcomes
    <3> QED  BY <2>1, <3>1 DEF Oldest, SchedulerInv, SchedulerTypeOK
  <2>4. CASE CancelAll
    BY <2>1, <2>4 DEF CancelAll, Queued, Active
  <2>5. CASE UNCHANGED schedulerVars
    BY <2>5 DEF schedulerVars
  <2> QED  BY <2>2, <2>3, <2>4, <2>5 DEF SchedulerNext
<1>2. SchedulerSpec => [][SchedulerNext]_schedulerVars
  BY DEF SchedulerSpec
<1> QED  BY <1>1, <1>2, SchedulerInvariant, PTL DEF FirstComeFirstServed

=============================================================================
