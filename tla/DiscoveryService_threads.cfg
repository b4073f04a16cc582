\* Two starts under any strategy, stops and a cleanup at any time; nothing this
\* node sends to itself is lost, unless its socket is full.
\* After the cleanup the service is gone: no deadlock check.
SPECIFICATION FairSpec
CONSTANTS
    Strategies <- AllStrategies
    INITIAL_DISCOVERY_REQS = 1
    lossy = FALSE
    InboxSize = 2
    MaxStarts = 2
    MaxTime = 3
    NULL = NULL
INVARIANTS TypeOK LifeInv LockNotOrphaned NothingFreedInUse UpdateTimesAgree
PROPERTY StopReturns
CHECK_DEADLOCK FALSE
