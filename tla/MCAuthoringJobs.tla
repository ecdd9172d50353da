--------------------------- MODULE MCAuthoringJobs ---------------------------
\* An instance of AuthoringJobs: j1, whose amendment is 1, and j2.
EXTENDS AuthoringJobs

CONSTANTS j1, j2, v1, v2

OfFirst     == [a \in Amendments |-> j1]
TwoVersions == [j \in Jobs |-> IF j = j1 THEN v1 ELSE v2]

\* Two events in the life of one job, one when there are two jobs.
FewEvents == job[j2] # "none" => count.events <= 1

=============================================================================
