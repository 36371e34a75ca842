SPECIFICATION Spec
CONSTANTS
    MaxRotations = 1
    MaxMoments = 1
    MaxFailures = 0
INVARIANTS
    ServesCurrentCA
CHECK_DEADLOCK FALSE
