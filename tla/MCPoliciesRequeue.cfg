SPECIFICATION Spec
CONSTANTS
    Policy = {p1}
    N = 2
    Plugin = {}
    Response <- AnyRequeue
    MaxRevision = 1
    MaxTime = 0
    MaxDisruptions = 0
INVARIANTS
    RequeuedInTime
\* A quiet controller with no user left to write a policy has nothing to do.
CHECK_DEADLOCK FALSE
