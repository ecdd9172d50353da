------------------------- MODULE MCBrowserArtifacts -------------------------
(* The operations of one caller are interchangeable, and so are the contents. *)
EXTENDS BrowserArtifacts, TLC

Symmetry == Permutations(Operations) \cup Permutations(Contents)

=============================================================================
