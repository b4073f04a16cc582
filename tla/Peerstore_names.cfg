\* Two peers, whose guids begin with the same four characters, that share, change
\* and reclaim user names; nobody expires.
\* The destroyed store does nothing more: no deadlock check.
SPECIFICATION Spec
CONSTANTS
    Guids = {g1, g2}
    bob = bob
    bobby = bobby
    long = long
    Names = {bob, bobby}
    Hosts = {h1, h2}
    begins_with <- MCbegins_with
    prefix <- MCprefix_shared
    discovery_interval <- MCinterval
    uint32 = 4
    periodic = FALSE
    Addrs = {a1, a2, a3, a4}
    MaxTime = 0
    NULL = NULL
    Garbage = Garbage
SYMMETRY Symmetry
INVARIANTS TypeOK StoredPeersFound
CHECK_DEADLOCK FALSE
