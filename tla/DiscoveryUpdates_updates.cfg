\* Two nodes under any strategies, with stops and restarts, until nothing new
\* happens; MaxTime lies beyond that.
SPECIFICATION Spec
CONSTANTS
    Nodes = {n1, n2}
    Strategies <- AllStrategies
    Interval = 2
    interval <- MCinterval
    INITIAL_DISCOVERY_REQS = 1
    MaxDelay = 0
    MaxLate = 1
    MaxTime = 200
    Horizon = 8
VIEW RelativeTime
SYMMETRY Symmetry
INVARIANTS TypeOK UpdateInv LiveInv SleepsEnd LivePeersActive SilentPeersInactive
