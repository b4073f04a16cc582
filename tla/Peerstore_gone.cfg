\* Does every lookup return?  With two addresses a freed one is used again soon.
SPECIFICATION Spec
CONSTANTS
    Guids = {g1, g2}
    bob = bob
    bobby = bobby
    long = long
    Names = {bob}
    Hosts = {h1, h2}
    begins_with <- MCbegins_with
    prefix <- MCprefix
    discovery_interval <- MCinterval
    uint32 = 4
    periodic = TRUE
    Addrs = {a1, a2}
    MaxTime = 3
    NULL = NULL
    Garbage = Garbage
SYMMETRY Symmetry
INVARIANT LookupsReturn
CHECK_DEADLOCK FALSE
