SPECIFICATION TransactionsSpec
CONSTANTS
    r1 = r1  t1 = t1  t2 = t2  t3 = t3  t4 = t4
    TestRuns <- OneRun
    Todos <- FourTodos
    NeedsSuccess <- Success
    NeedsEnd <- End
    NoTodo = NoTodo
    MaxTries = 2
    j1 = j1  j2 = j2  s1 = s1  s2 = s2  a1 = a1  a2 = a2
    NoAmendment = NoAmendment
    Jobs = {j1, j2}
    Scopes = {s1, s2}
    Amendments = {a1, a2}
    Revisions <- OneAsset
    AssetOf <- AssetsOf
    BaseOf <- Bases
    Published = {"x0"}
    Kinds = {"cross_url"}
    MaxCrashes = 1
CONSTRAINT SmallInstance
CHECK_DEADLOCK FALSE
SYMMETRY Symmetric
INVARIANTS
    DependenciesRespected
    NeedsAnswerHasDecision
    RunningIsAuthorised
    DecisionsFollow
PROPERTIES
    NothingIsOverwritten
    ActivationIsGranted
