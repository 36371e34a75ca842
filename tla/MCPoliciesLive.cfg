SPECIFICATION FairSpec
CONSTANTS
    Policy = {p1}
    N = 2
    Plugin = {1, 2}
    Response <- NoRequeue
    MaxRevision = 1
    MaxTime = 1
    MaxDisruptions = 2
INVARIANTS
    QuietMeansCurrent
PROPERTIES
    StatusConverges
\* A quiet controller with no user left to write a policy has nothing to do.
CHECK_DEADLOCK FALSE
