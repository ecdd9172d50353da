----------------------------- MODULE MCChatRuns -----------------------------
(***************************************************************************)
(* Instances of ChatRuns for TLC.                                          *)
(***************************************************************************)
EXTENDS ChatRuns

CONSTANTS s1, j1, j2, j3, u1

\* Everything happens in s1.
MCOneSession == [r \in Runs |-> s1]

=============================================================================
