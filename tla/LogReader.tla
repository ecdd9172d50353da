----------------------------- MODULE LogReader ------------------------------
(***************************************************************************)
(* What a reader of a durable, numbered log is promised, whatever carries   *)
(* it: it knows the log up to some number, and that number only grows.      *)
(* SnapshotFeed and ActivityIngestion implement it.                         *)
(***************************************************************************)
EXTENDS Naturals, Sequences

CONSTANT MaxEvents   \* bound: events in the log

VARIABLES log,    \* how many events the log has
          seen    \* the events the reader has taken in, in its order

Prefix(n) == [i \in 1 .. n |-> i]

ReaderInit == log = 0 /\ seen = <<>>

Grow  == /\ log' \in (log + 1) .. MaxEvents /\ UNCHANGED seen
Learn == /\ \E n \in (Len(seen) + 1) .. log : seen' = Prefix(n)
         /\ UNCHANGED log

ReaderNext == Grow \/ Learn
ReaderSpec == ReaderInit /\ [][ReaderNext]_<<log, seen>>

=============================================================================
