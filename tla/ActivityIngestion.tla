-------------------------- MODULE ActivityIngestion --------------------------
(***************************************************************************)
(* How ai-e2e copies the activity of an agent task into the activity log of *)
(* a run or an authoring job: AgentActivityIngester reads the durable       *)
(* activity-log of ai-chat page by page, then its snapshot-first stream,    *)
(* with the log read once more after the snapshot, and again after every    *)
(* lost connection; AgentActivityRepository.append numbers what is new; the *)
(* coordinator starts and stops the ingestion whenever it reconciles the    *)
(* task.  SnapshotFeed models the writer of the stream, SemanticCoordinator *)
(* the rest of the coordinator.                                             *)
(*                                                                         *)
(* The source is the sequence of the task's events, each of a kind that     *)
(* projectAgentTaskEvent turns into none, one or two activity events; an     *)
(* activity event is its number, 4 * i + k for the k-th of the i-th.        *)
(***************************************************************************)
EXTENDS Naturals, Sequences, SequencesExt, FiniteSets, FiniteSetsExt, Functions

CONSTANTS Batch,       \* ACTIVITY_BATCH_SIZE, 500
          Window,      \* source events listActivity reads at once, 1000
          Kinds,       \* bound: the kinds of event the task produces
          MaxTaskEvents,   \* bound: events of the task
          MaxSilent,   \* bound: events that project to nothing
          MaxRetries, \* bound: requests and streams that fail and are retried
          MaxRefusals, \* bound: answers that end the ingestion, 4xx or malformed
          MaxRestarts  \* bound: deaths of the process

ASSUME IngestionAssumption ==
    /\ Batch \in Nat \ {0} /\ Window \in Nat \ {0}
    /\ Kinds \subseteq {"silent", "step", "halted", "ended"}
    /\ \A n \in {MaxTaskEvents, MaxSilent, MaxRetries, MaxRefusals, MaxRestarts} : n \in Nat

VARIABLES source,   \* the kinds of the task's events
          ingested, \* the activity events of the context's log, in its order
          ing,      \* the ingestion
          tick,     \* the coordinator's reconciliation
          settled,  \* the page task or authoring task has its result
          closed,   \* the coordinator is closed
          allowance    \* what the bounds leave

ingestionVars == <<source, ingested, ing, tick, settled, closed, allowance>>

Allow(what) == allowance[what] > 0 /\ allowance' = [allowance EXCEPT ![what] = @ - 1]

-----------------------------------------------------------------------------
\* The source.

\* projectAgentTaskEvent: a change of state gives an activity and a stream.state
Projected(i) == CASE source[i] = "silent" -> <<>>
                  [] source[i] = "step"   -> <<4 * i>>
                  [] OTHER                -> <<4 * i, 4 * i + 1>>
Activity == FlattenSeq([i \in 1 .. Len(source) |-> Projected(i)])

\* isTerminalEvent: completed, failed or cancelled; not interrupted or blocked
IsTerminal(s) == s % 4 = 1 /\ source[s \div 4] = "ended"
StreamEnded == \E i \in 1 .. Len(source) : source[i] = "ended"
\* TERMINAL_AGENT_STATES of the coordinator
TaskOver == \E i \in 1 .. Len(source) : source[i] \in {"ended", "halted"}

\* the source event listActivity reads after: a page may have ended within one
SourceAfter(after) == IF after \div 4 = 0 THEN 0 ELSE (after \div 4) - 1

\* listActivity: the numbers after this one of the events it reads
InWindow(after, s) ==
    s > after /\ s \div 4 \in (SourceAfter(after) + 1) .. (SourceAfter(after) + Window)

ListActivity(after) ==
    LET keep(kept, s) == IF InWindow(after, s) THEN Append(kept, s) ELSE kept
        page == FoldLeft(keep, <<>>, Activity)
    IN  SubSeq(page, 1, Min({Batch, Len(page)}))

ActivitySnapshot == [kind |-> "snapshot", seq |-> 0, over |-> StreamEnded]
ActivityFrame(s) == [kind |-> "event", seq |-> s, over |-> FALSE]

\* The task commits an event; the stream, if there is one, carries what it projects to.
\* A cancelled task's run may still report a step.
Emit(kind) ==
    /\ Len(source) < MaxTaskEvents
    /\ kind = "silent" => Cardinality({i \in 1 .. Len(source) : source[i] = "silent"}) < MaxSilent
    /\ TaskOver => kind = "step"
    /\ source' = Append(source, kind)
    /\ LET new == CASE kind = "silent" -> <<>>
                    [] kind = "step"   -> <<4 * (Len(source) + 1)>>
                    [] OTHER -> <<4 * (Len(source) + 1), 4 * (Len(source) + 1) + 1>>
       IN  ing' = IF ing.connected
                  THEN [ing EXCEPT !.wire = @ \o [k \in 1 .. Len(new) |-> ActivityFrame(new[k])]]
                  ELSE ing
    /\ UNCHANGED <<ingested, tick, settled, closed, allowance>>

-----------------------------------------------------------------------------
\* AgentActivityRepository.

\* Fault: what is already there is appended again
AppendAgain(l, s) == Append(l, s)

\* append: an event whose source number is there is left alone
AppendActivity(l, s) == IF s \in Range(l) THEN l ELSE Append(l, s)

Cursor(l) == IF l = <<>> THEN 0 ELSE Max(Range(l))

-----------------------------------------------------------------------------
\* AgentActivityIngester.  In phase 'catch-up' an ingestion is catching, in 'stream'
\* connecting or reading, in 'retry' waiting.

At == {"off", "catching", "connecting", "reading", "waiting"}

Off == [at |-> "off", bridging |-> FALSE, answered |-> FALSE, page |-> <<>>, after |-> 0,
        over |-> FALSE, stopAfterCatchUp |-> FALSE, aborted |-> FALSE,
        connected |-> FALSE, wire |-> <<>>]

\* catchUp, up to its first request
CatchingUp(i) == [i EXCEPT !.at = "catching", !.answered = FALSE, !.page = <<>>,
                           !.after = Cursor(ingested)]

Disconnected(i) == [i EXCEPT !.connected = FALSE, !.wire = <<>>, !.bridging = FALSE]

\* start, and stop of one task
StartedTask == IF ing.at = "off" THEN CatchingUp(Off) ELSE ing
StoppedTask(i) == IF i.at = "catching" THEN [i EXCEPT !.stopAfterCatchUp = TRUE]
                  ELSE IF i.at = "off" THEN i ELSE [i EXCEPT !.aborted = TRUE]

\* the activity-log answers
ListTaskActivity ==
    /\ ing.at = "catching" /\ ~ing.answered
    /\ ing' = [ing EXCEPT !.answered = TRUE, !.page = ListActivity(ing.after)]
    /\ UNCHANGED <<source, ingested, tick, settled, closed, allowance>>

\* the page up to its first terminal event
Taken(page) ==
    LET ends == {k \in 1 .. Len(page) : IsTerminal(page[k])}
    IN  IF ends = {} THEN page ELSE SubSeq(page, 1, Min(ends))

\* a full page is followed by another request
AnotherPage(page) == Len(page) = Batch

\* the page is appended; then the next page, or the stream, or the end
TakePage ==
    /\ ing.at = "catching" /\ ing.answered /\ ~ing.aborted
    /\ LET taken  == Taken(ing.page)
           caught == taken # <<>> /\ IsTerminal(Last(taken))
           done   == caught \/ ing.stopAfterCatchUp \/ (ing.bridging /\ ing.over)
       IN  /\ ingested' = FoldLeft(AppendActivity, ingested, taken)
           /\ ing' = IF ~caught /\ AnotherPage(ing.page)
                     THEN [ing EXCEPT !.answered = FALSE, !.page = <<>>, !.after = Last(taken)]
                     ELSE IF done THEN Off
                     ELSE [ing EXCEPT !.at = IF ing.bridging THEN "reading" ELSE "connecting",
                                      !.bridging = FALSE, !.answered = FALSE, !.page = <<>>]
    /\ UNCHANGED <<source, tick, settled, closed, allowance>>

\* streamTaskActivity: the stream begins with a snapshot
StreamTaskActivity ==
    /\ ing.at = "connecting" /\ ~ing.aborted
    /\ ing' = [ing EXCEPT !.at = "reading", !.connected = TRUE, !.wire = <<ActivitySnapshot>>]
    /\ UNCHANGED <<source, ingested, tick, settled, closed, allowance>>

\* Fault: the stream is followed from the snapshot on, without reading the log again
FollowAtOnce(frame) == [ing EXCEPT !.wire = Tail(@)]

\* onSnapshot reads the log again; the frames that follow wait
OnSnapshot(frame) ==
    [CatchingUp(ing) EXCEPT !.bridging = TRUE, !.over = frame.over, !.wire = Tail(@)]

\* A frame is dispatched; when the ingestion was aborted meanwhile it is the last one.
DispatchFrame ==
    /\ ing.at = "reading" /\ ing.wire # <<>>
    /\ LET frame == Head(ing.wire)
       IN  \/ /\ frame.kind = "snapshot"
              /\ ing' = IF ing.aborted THEN Off ELSE OnSnapshot(frame)
              /\ UNCHANGED ingested
           \/ /\ frame.kind = "event"
              /\ ingested' = AppendActivity(ingested, frame.seq)
              /\ ing' = IF ing.aborted \/ IsTerminal(frame.seq) THEN Off
                        ELSE [ing EXCEPT !.wire = Tail(@)]
    /\ UNCHANGED <<source, tick, settled, closed, allowance>>

\* a request or the stream fails, or the stream ends, and a retry is scheduled
RequestFails ==
    /\ ing.at \in {"catching", "connecting", "reading"} /\ ~ing.aborted /\ Allow("failures")
    /\ ing' = [Disconnected(ing) EXCEPT !.at = "waiting", !.answered = FALSE, !.page = <<>>]
    /\ UNCHANGED <<source, ingested, tick, settled, closed>>

\* an error that is not retryable
RequestRefused ==
    /\ ing.at \in {"catching", "connecting", "reading"} /\ ~ing.aborted /\ Allow("refusals")
    /\ ing' = Off
    /\ UNCHANGED <<source, ingested, tick, settled, closed>>

\* the delay is over
RetryIngestion ==
    /\ ing.at = "waiting" /\ ~ing.aborted
    /\ ing' = CatchingUp(ing)
    /\ UNCHANGED <<source, ingested, tick, settled, closed, allowance>>

\* the abort reaches whatever the ingestion awaits
AbortEnds ==
    /\ ing.aborted /\ ing' = Off
    /\ UNCHANGED <<source, ingested, tick, settled, closed, allowance>>

-----------------------------------------------------------------------------
\* The coordinator.

Tick == {"idle", "asked", "live", "over", "settling"}

\* reconcileAgentTask asks for the task
AskTask ==
    /\ tick = "idle" /\ ~settled /\ ~closed
    /\ tick' = "asked"
    /\ UNCHANGED <<source, ingested, ing, settled, closed, allowance>>

TaskAnswers ==
    /\ tick = "asked"
    /\ tick' = IF TaskOver THEN "over" ELSE "live"
    /\ UNCHANGED <<source, ingested, ing, settled, closed, allowance>>

\* the call of the ingester: started, and stopped when the task is over
CallIngester(over) ==
    IF closed THEN StoppedTask(ing) ELSE IF over THEN StoppedTask(StartedTask) ELSE StartedTask

Reconcile ==
    /\ tick \in {"live", "over"}
    /\ ing' = CallIngester(tick = "over")
    /\ tick' = IF tick = "over" THEN "settling" ELSE "idle"
    /\ UNCHANGED <<source, ingested, settled, closed, allowance>>

\* the evidence is captured and the attempt completed, or a later tick comes back
Settle ==
    /\ tick = "settling" /\ tick' = "idle"
    /\ \/ settled' = TRUE /\ UNCHANGED allowance
       \/ Allow("failures") /\ UNCHANGED settled
    /\ UNCHANGED <<source, ingested, ing, closed>>

\* close: stop without a task aborts every ingestion
Close ==
    /\ ~closed /\ closed' = TRUE
    /\ ing' = IF ing.at = "off" THEN ing ELSE [ing EXCEPT !.aborted = TRUE]
    /\ UNCHANGED <<source, ingested, tick, settled, allowance>>

\* the process dies, or ends after close, and another one starts
Restart ==
    /\ Allow("restarts")
    /\ ing' = Off /\ tick' = "idle" /\ closed' = FALSE
    /\ UNCHANGED <<source, ingested, settled>>

-----------------------------------------------------------------------------
IngestionInit ==
    /\ source = <<>> /\ ingested = <<>> /\ ing = Off /\ tick = "idle"
    /\ settled = FALSE /\ closed = FALSE
    /\ allowance = [failures |-> MaxRetries, refusals |-> MaxRefusals, restarts |-> MaxRestarts]

IngesterStep == ListTaskActivity \/ TakePage \/ StreamTaskActivity \/ DispatchFrame
                \/ RetryIngestion \/ AbortEnds
CoordinatorStep == AskTask \/ TaskAnswers \/ Reconcile \/ Settle

IngestionNext ==
    \/ \E kind \in Kinds : Emit(kind)
    \/ ListTaskActivity \/ TakePage \/ StreamTaskActivity \/ DispatchFrame
    \/ RequestFails \/ RequestRefused \/ RetryIngestion \/ AbortEnds
    \/ AskTask \/ TaskAnswers \/ Reconcile \/ Settle \/ Close \/ Restart

IngestionSpec == IngestionInit /\ [][IngestionNext]_ingestionVars

\* Requests are answered or fail, frames arrive, timers fire, the ticks go on.
LiveIngestion == IngestionSpec /\ WF_ingestionVars(IngesterStep) /\ WF_ingestionVars(CoordinatorStep)

-----------------------------------------------------------------------------
IngestionTypeOK ==
    /\ source \in Seq(Kinds) /\ ingested \in Seq(Nat) /\ tick \in Tick
    /\ settled \in BOOLEAN /\ closed \in BOOLEAN
    /\ ing.at \in At /\ ing.after \in Nat /\ ing.page \in Seq(Nat)
    /\ (ing.at = "off" => ing = Off)
    /\ (ing.bridging => ing.at = "catching" /\ ing.connected)
    /\ (ing.stopAfterCatchUp => ing.at \in {"catching", "waiting"})
    /\ \A what \in DOMAIN allowance : allowance[what] \in Nat

\* Whenever a task that is not over pauses, the context's log comes to have all it
\* reported, unless the service closes for good.
ActivityArrives == []<>(Len(ingested) >= Len(Activity) \/ TaskOver \/ closed)

-----------------------------------------------------------------------------
\* The context's log is a reader of the task's activity.
SourcePromise == INSTANCE LogReader
    WITH MaxEvents <- 2 * MaxTaskEvents, log <- Len(Activity),
         seen <- [k \in 1 .. Len(ingested) |-> CHOOSE n \in 1 .. Len(Activity) :
                                                    Activity[n] = ingested[k]]

IngestionImplementsReader == SourcePromise!ReaderSpec

=============================================================================
