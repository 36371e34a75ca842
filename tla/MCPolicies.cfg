SPECIFICATION Spec
CONSTANTS
    Policy = {p1}
    N = 2
    Plugin = {1}
    Response <- NoRequeue
    MaxRevision = 2
    MaxTime = 0
    MaxDisruptions = 2
INVARIANTS
    TypeOK
    ReadyJustified
    IInv
    QuietMeansCurrent
    WakeUpInv
PROPERTIES
    NoStatusRollback
    ImplementsPolicyStatus
\* A quiet controller with no user left to write a policy has nothing to do.
CHECK_DEADLOCK FALSE
