SPECIFICATION FairCommandSpec
CONSTANTS
    MaxRotations = 1
    MaxMoments = 1
    MaxFailures = 2
    PluginName = {"allowed", "plugin"}
    Plugins = 2
INVARIANTS
    TypeOK
    NeverPanics
    NewMeansServable
    RenewalScheduled
    IInv
PROPERTIES
    StartUpEnds
    RenewsOnlyWhenDue
    RenewedWhenDue
    SendCompletes
    AuthorityEndEndsProcess
    StopsUnlessSendBlocks
\* A process that has ended and is not restarted has nothing to do.
CHECK_DEADLOCK FALSE
