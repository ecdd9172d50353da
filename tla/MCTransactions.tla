---------------------------- MODULE MCTransactions ----------------------------
(***************************************************************************)
(* Formal runs and amendments in one run of TLC.  The modules share no      *)
(* variable: the first state says which of them moves, so that each is      *)
(* explored completely and their products are not.                          *)
(*                                                                         *)
(* Formal runs: one run of four TODOs, of which t2 and t3 need the success   *)
(* of t1, t4 needs the success of t2 and the end of t3.                     *)
(*                                                                         *)
(* Amendments: an asset published as x0, of which x1 and x2 are revisions;  *)
(* one job in two contexts with a scope decision, or two successive jobs in *)
(* one context and a death of the process.                                  *)
(***************************************************************************)
EXTENDS SemanticRuns, Amendments, TLC

CONSTANTS r1, t1, t2, t3, t4, a1, a2, j1, j2, s1, s2

VARIABLE system

OneRun     == {r1}
FourTodos  == {t1, t2, t3, t4}
Success    == [t \in FourTodos |-> IF t \in {t2, t3} THEN {t1} ELSE IF t = t4 THEN {t2} ELSE {}]
End        == [t \in FourTodos |-> IF t = t4 THEN {t3} ELSE {}]

OneAsset   == {"x0", "x1", "x2"}
AssetsOf   == [r \in OneAsset |-> "x"]
Bases      == [r \in OneAsset |-> "x0"]

TransactionsInit == system \in {"runs", "amendments"} /\ RunsInit /\ Init
TransactionsNext ==
    \/ system = "runs" /\ RunsNext /\ UNCHANGED <<system, vars>>
    \/ system = "amendments" /\ Next /\ UNCHANGED <<system, run>>
TransactionsSpec == TransactionsInit /\ [][TransactionsNext]_<<system, run, vars>>

OneJob == Cardinality({j \in Jobs : job[j] # "none"}) <= 1
OneContext ==
    /\ Cardinality({s \in Scopes : \E j \in Jobs : thread[j][s] # "none"}) <= 1
    /\ \A e \in Amendments, k \in Kinds : am[e].dec[k] = "none"
SmallInstance == (OneJob /\ crashes = 0) \/ OneContext

TransactionsTypeOK == RunsTypeOK /\ TypeOK

Symmetric == Permutations({a1, a2}) \cup Permutations({s1, s2}) \cup Permutations({j1, j2})

=============================================================================
