------------------------- MODULE MCBrowserExecution -------------------------
(***************************************************************************)
(* Instances of BrowserExecution for TLC.  Sessions, leases and operations *)
(* are drawn in no particular order: the identifiers of one kind can be    *)
(* exchanged.                                                              *)
(***************************************************************************)
EXTENDS BrowserExecution, TLC

CONSTANTS s1, s2, c1, c2, v1, o1, o2, o3

Symmetry ==
    Permutations(Sessions) \cup Permutations(ControlLeases)
    \cup Permutations(ActOps) \cup Permutations(Ops \ ActOps)

=============================================================================
