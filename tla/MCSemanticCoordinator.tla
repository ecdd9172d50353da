------------------------ MODULE MCSemanticCoordinator ------------------------
\* Instances of SemanticCoordinator: runs r1 and r2 in the order of the queue,
\* TODOs todo1 and todo2 without dependencies.
EXTENDS SemanticCoordinator

CONSTANTS r1, r2, todo1, todo2

NoUpstreams == [t \in Todos |-> {}]
FirstR1     == [r \in TestRuns |-> IF r = r1 THEN 1 ELSE 2]
FirstA      == [t \in Todos |-> IF t = todo1 THEN 1 ELSE 2]

=============================================================================
