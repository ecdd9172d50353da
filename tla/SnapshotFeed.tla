---------------------------- MODULE SnapshotFeed ----------------------------
(***************************************************************************)
(* A snapshot-first stream from the durable event log of one entity to one  *)
(* client: SnapshotFirstSseWriter (libs/shared/utils/snapshot-first-sse.ts),*)
(* the snapshot its routes give it, useConnectionCore of                    *)
(* libs/agent-stream-client and reduceAgentStream.                          *)
(*                                                                         *)
(* An event is its sequence number; a view of the entity is the sequence of *)
(* the events it has taken in, so the view of a client that missed nothing  *)
(* and counted nothing twice is 1 .. n.  A commit and the publication of    *)
(* its events to the subscribed writers are one step, as in the services.   *)
(* A connection is an attempt of the client with its writer on the server   *)
(* and the frames under way between them, which arrive in order.            *)
(*                                                                         *)
(* SplitSnapshot is TRUE for the sessions of the proxy-adapter, whose       *)
(* snapshot reads the session, awaits the tabs of the browser, and only     *)
(* then reads the sequence number.  ReplayLimit is the number of events a        *)
(* snapshot replays: 10000 for a chat, no limit elsewhere.                  *)
(***************************************************************************)
EXTENDS Naturals, Sequences, SequencesExt

CONSTANTS MaxEvents,        \* bound: events committed
          MaxBatch,         \* bound: events of one commit
          MaxBuffered,      \* maxBufferedEvents of the writer
          ReplayLimit,
          SplitSnapshot,
          MaxConnections,   \* bound: connections the client opens
          MaxFaults         \* bound: connections lost, timeouts, restarts, disconnects

ASSUME FeedAssumption ==
    /\ MaxEvents \in Nat /\ MaxBatch \in Nat /\ MaxBuffered \in Nat /\ ReplayLimit \in Nat
    /\ SplitSnapshot \in BOOLEAN /\ MaxConnections \in Nat \ {0} /\ MaxFaults \in Nat

VARIABLES committed,   \* events in the log
          conns,       \* connection |-> its writer and the frames under way
          opened,      \* connections opened so far; the last one is the client's
          attached,    \* the client has a transport
          hasSnapshot, \* the transport delivered a snapshot
          pending,     \* events waiting for the next animation frame
          view,        \* the events the host has taken in
          viewSeq,     \* the sequence number of its snapshot
          faults

feedVars == <<committed, conns, opened, attached, hasSnapshot, pending, view, viewSeq, faults>>
clientVars == <<opened, attached, hasSnapshot, pending, view, viewSeq>>

Connections == 1 .. MaxConnections
Phase == {"unused", "requested", "subscribed", "read", "live", "closed"}

UpTo(n) == [i \in 1 .. n |-> i]
Between(m, n) == [i \in 1 .. (n - m) |-> m + i]        \* m+1 .. n
Least(m, n) == IF m < n THEN m ELSE n

SnapshotFrame(content, s) == [kind |-> "snapshot", content |-> content, seq |-> s]
EventFrame(s)             == [kind |-> "event", content |-> 0, seq |-> s]
EndFrame                  == [kind |-> "end", content |-> 0, seq |-> 0]
Frame == {SnapshotFrame(c, s) : c \in 0 .. MaxEvents, s \in 0 .. MaxEvents}
         \cup {EventFrame(s) : s \in 1 .. MaxEvents} \cup {EndFrame}

Unused == [phase |-> "unused", content |-> 0, buffered |-> <<>>, lastSeq |-> 0, wire |-> <<>>]

-----------------------------------------------------------------------------
\* The writer.

\* Fault: an overflow drops the buffer and goes on
Dropped(w) == [w EXCEPT !.buffered = <<>>]

\* close(true): the writer leaves the feed and ends the response
Closed(w) == [w EXCEPT !.phase = "closed", !.buffered = <<>>, !.wire = Append(@, EndFrame)]

\* writeEvent, with deduplication by the sequence number
WriteEvent(w, s) ==
    IF s <= w.lastSeq THEN w
    ELSE [w EXCEPT !.wire = Append(@, EventFrame(s)), !.lastSeq = s]

\* publish: buffered while the snapshot is being made, which may overflow
PublishTo(w, s) ==
    IF w.phase \in {"subscribed", "read"}
    THEN IF Len(w.buffered) >= MaxBuffered THEN Closed(w) ELSE [w EXCEPT !.buffered = Append(@, s)]
    ELSE IF w.phase = "live" THEN WriteEvent(w, s) ELSE w

\* start, after getSnapshot: the snapshot, its sequence number, the buffered events
Started(w, content, s) ==
    LET begun == [w EXCEPT !.phase = "live", !.wire = Append(@, SnapshotFrame(content, s)),
                           !.lastSeq = s, !.buffered = <<>>]
    IN  FoldLeft(WriteEvent, begun, w.buffered)

-----------------------------------------------------------------------------
FeedInit ==
    /\ committed = 0
    /\ conns = [c \in Connections |-> IF c = 1 THEN [Unused EXCEPT !.phase = "requested"] ELSE Unused]
    /\ opened = 1 /\ attached = TRUE /\ hasSnapshot = FALSE
    /\ pending = <<>> /\ view = <<>> /\ viewSeq = 0 /\ faults = 0

\* A transaction commits events, which are then published to every subscribed writer.
Commit(n) ==
    /\ committed + n <= MaxEvents
    /\ committed' = committed + n
    /\ conns' = [c \in Connections |->
                   FoldLeft(PublishTo, conns[c], Between(committed, committed + n))]
    /\ UNCHANGED <<clientVars, faults>>

\* The route's handler: the writer subscribes and sends the headers.
Subscribe(c) ==
    /\ conns[c].phase = "requested"
    /\ conns' = [conns EXCEPT ![c].phase = "subscribed"]
    /\ UNCHANGED <<committed, clientVars, faults>>

\* getSnapshot reads the entity; what it makes of it is awaited.
ReadEntity(c) ==
    /\ conns[c].phase = "subscribed"
    /\ conns' = [conns EXCEPT ![c].phase = "read", ![c].content = Least(committed, ReplayLimit)]
    /\ UNCHANGED <<committed, clientVars, faults>>

\* getSnapshot answers, with the number of the last event it says it covers.
WriteSnapshot(c) ==
    /\ conns[c].phase = "read"
    /\ conns' = [conns EXCEPT ![c] = Started(@, @.content, IF SplitSnapshot THEN committed
                                                                         ELSE @.content)]
    /\ UNCHANGED <<committed, clientVars, faults>>

Fault == /\ faults < MaxFaults /\ faults' = faults + 1

\* getSnapshot throws, the writer's timeout fires, or the request's socket fails.
WriterEnds(c) ==
    /\ Fault /\ conns[c].phase \in {"subscribed", "read", "live"}
    /\ conns' = [conns EXCEPT ![c] = Closed(@)]
    /\ UNCHANGED <<committed, clientVars>>

\* The server restarts: every connection is cut, what was under way is lost.
ServerRestarts ==
    /\ Fault
    /\ conns' = [c \in Connections |->
                   IF conns[c].phase \in {"unused", "closed"} THEN conns[c]
                   ELSE [Unused EXCEPT !.phase = "closed", !.wire = <<EndFrame>>]]
    /\ UNCHANGED <<committed, clientVars>>

-----------------------------------------------------------------------------
\* The client.

\* Fault: the transport's end is not noticed
StopForgets == /\ attached' = attached /\ hasSnapshot' = FALSE /\ pending' = <<>>

\* stop: the generation ends, the batch is cleared, the transport is closed.
Stop == /\ attached' = FALSE /\ hasSnapshot' = FALSE /\ pending' = <<>>

\* connect, at the end of the retry's delay or on the user's demand
Connect ==
    /\ opened < MaxConnections
    /\ \/ ~attached /\ UNCHANGED faults
       \/ attached /\ Fault                   \* the user reconnects
    /\ opened' = opened + 1 /\ attached' = TRUE /\ hasSnapshot' = FALSE /\ pending' = <<>>
    /\ conns' = [conns EXCEPT ![opened + 1].phase = "requested"]
    /\ UNCHANGED <<committed, view, viewSeq>>

\* The transport whose frames the client takes.
Current(c) == attached /\ c = opened

\* reduceAgentStream, on the host's snapshot
Reduce(v, s) == IF s <= v.seq THEN v ELSE [events |-> Append(v.events, s), seq |-> s]

\* handleFrame and onError
Receive(c) ==
    /\ conns[c].wire # <<>>
    /\ conns' = [conns EXCEPT ![c].wire = Tail(@)]
    /\ LET frame == Head(conns[c].wire)
       IN  IF ~Current(c) THEN UNCHANGED clientVars
           ELSE \/ /\ frame.kind = "end"
                   /\ Stop /\ UNCHANGED <<opened, view, viewSeq>>
                \/ /\ frame.kind = "snapshot"
                   /\ hasSnapshot' = TRUE /\ pending' = <<>>
                   /\ view' = UpTo(frame.content) /\ viewSeq' = frame.seq
                   /\ UNCHANGED <<opened, attached>>
                \/ /\ frame.kind = "event"
                   /\ pending' = IF hasSnapshot THEN Append(pending, frame.seq) ELSE pending
                   /\ UNCHANGED <<opened, attached, hasSnapshot, view, viewSeq>>
    /\ UNCHANGED <<committed, faults>>

\* the animation frame hands the batch to the host
AnimationFrame ==
    /\ pending # <<>>
    /\ LET host == FoldLeft(Reduce, [events |-> view, seq |-> viewSeq], pending)
       IN  view' = host.events /\ viewSeq' = host.seq
    /\ pending' = <<>>
    /\ UNCHANGED <<committed, conns, opened, attached, hasSnapshot, faults>>

-----------------------------------------------------------------------------
FeedNext ==
    \/ \E n \in 1 .. MaxBatch : Commit(n)
    \/ \E c \in Connections :
          \/ Subscribe(c) \/ ReadEntity(c) \/ WriteSnapshot(c) \/ WriterEnds(c) \/ Receive(c)
    \/ ServerRestarts \/ Connect \/ AnimationFrame

FeedSpec == FeedInit /\ [][FeedNext]_feedVars

\* The handlers run, the frames arrive, the timers of the client fire.
ConnectionStep(c) == Subscribe(c) \/ ReadEntity(c) \/ WriteSnapshot(c) \/ Receive(c)
TimerStep == (~attached /\ Connect) \/ AnimationFrame

LiveFeed == /\ FeedSpec /\ WF_feedVars(TimerStep)
            /\ \A c \in Connections : WF_feedVars(ConnectionStep(c))

-----------------------------------------------------------------------------
FeedTypeOK ==
    /\ committed \in 0 .. MaxEvents /\ opened \in Connections /\ faults \in 0 .. MaxFaults
    /\ attached \in BOOLEAN /\ hasSnapshot \in BOOLEAN /\ (hasSnapshot => attached)
    /\ \A c \in Connections :
          /\ conns[c].phase \in Phase /\ conns[c].lastSeq \in 0 .. committed
          /\ conns[c].content \in 0 .. committed
          /\ conns[c].buffered \in Seq(1 .. MaxEvents) /\ conns[c].wire \in Seq(Frame)
    /\ pending \in Seq(1 .. MaxEvents) /\ view \in Seq(1 .. MaxEvents)
    /\ viewSeq \in 0 .. committed

\* Whenever the events pause, the client comes to show all of them.
FeedConverges == []<>(viewSeq >= committed)

-----------------------------------------------------------------------------
\* What a stream promises: at any time the reader may learn more of the log, in order.
Promise == INSTANCE LogReader WITH log <- committed, seen <- view

FeedImplementsReader == Promise!ReaderSpec

=============================================================================
