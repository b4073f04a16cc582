\* Two connections between two nodes that know each other, opened by either side,
\* at once or in turn, in one session or in two.
\* Both processes may end, so that nothing is enabled: no deadlock check.
SPECIFICATION SystemSpec
CONSTANTS
    Nodes = {n1, n2}
    ConnIds = {c1, c2}
    Secrets = {s1, s2}
    Texts = {t1}
    OKAY = OKAY
    NULL = NULL
    Garbled = Garbled
    MaySendFail = FALSE
    MayRemove = FALSE
    MayDestroy = FALSE
CHECK_DEADLOCK FALSE
SYMMETRY Symmetry
CONSTRAINT Discovered
INVARIANTS TypeOK KeyAgreement DecryptableInFlight MessageIntegrity TextsStayInSession SystemInv
