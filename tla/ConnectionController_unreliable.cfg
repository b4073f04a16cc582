\* One connection and texts on it; sends fail and connections are removed.
\* Both processes may end, so that nothing is enabled: no deadlock check.
SPECIFICATION Spec
CONSTANTS
    Nodes = {n1, n2}
    ConnIds = {c1}
    Secrets = {s1, s2}
    Texts = {t1}
    OKAY = OKAY
    NULL = NULL
    Garbled = Garbled
    MaySendFail = TRUE
    MayRemove = TRUE
CHECK_DEADLOCK FALSE
SYMMETRY Symmetry
INVARIANTS CompletionOrder ExitsExplained HandshakeInv
PROPERTIES NoRegression ImplementsSecureChannel
