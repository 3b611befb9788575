\* Two connections, up to three signals, every configuration.  The process
\* ends: that is no deadlock.
CONSTANTS
    Conns = {c1, c2}
    MaxSignals = 3
SPECIFICATION FairSpec
CHECK_DEADLOCK FALSE
INVARIANTS
    ReleasedOnce
    ResourcesOutliveHandlers
    ZeroMeansDrained
    FirstSignalDrains
PROPERTY
    EventuallyExits
