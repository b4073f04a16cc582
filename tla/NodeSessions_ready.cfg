\* One connection, a session for it at each end, a text; session controllers are
\* destroyed and created again.  Processes may end: no deadlock check.
SPECIFICATION FairSystemSpec
CONSTANTS
    Nodes = {n1, n2}
    ConnIds = {c1}
    Secrets = {s1}
    Texts = {t1}
    OKAY = OKAY
    NULL = NULL
    Garbled = Garbled
    MaySendFail = FALSE
    MayRemove = FALSE
    MayDestroy = TRUE
    Self = n1
CHECK_DEADLOCK FALSE
INVARIANTS SystemExitsExplained SystemInv
PROPERTIES HandshakeCompletes SessionsBecomeReady TextsArrive ImplementsSessionController
