\* Three peers of one name fall silent, return and are looked up; the interval of
\* one, doubled, is 0 in the width it is computed in.
\* The destroyed store does nothing more: no deadlock check.
SPECIFICATION Spec
CONSTANTS
    Guids = {g1, g2, long}
    bob = bob
    bobby = bobby
    long = long
    Names = {bob}
    Hosts = {h1, h2}
    begins_with <- MCbegins_with
    prefix <- MCprefix
    discovery_interval <- MCinterval
    uint32 = 4
    periodic = TRUE
    Addrs = {a1, a2, a3, a4}
    MaxTime = 3
    NULL = NULL
    Garbage = Garbage
SYMMETRY Symmetry
INVARIANT StoreInv
PROPERTY RecordsKept
CHECK_DEADLOCK FALSE
