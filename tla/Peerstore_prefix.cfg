\* Is a peer stored under the name it announced last?
SPECIFICATION Spec
CONSTANTS
    Guids = {g1, g2}
    bob = bob
    bobby = bobby
    long = long
    Names = {bob, bobby}
    Hosts = {h1, h2}
    begins_with <- MCbegins_with
    prefix <- MCprefix
    discovery_interval <- MCinterval
    uint32 = 4
    periodic = FALSE
    Addrs = {a1, a2, a3}
    MaxTime = 0
    NULL = NULL
    Garbage = Garbage
SYMMETRY Symmetry
PROPERTY NameFollows
CHECK_DEADLOCK FALSE
