\* Is the completion callback called for every complete connection?
SPECIFICATION Spec
CONSTANTS
    Nodes = {n1, n2}
    ConnIds = {c1}
    Secrets = {s1, s2}
    Texts = {t1}
    OKAY = OKAY
    NULL = NULL
    Garbled = Garbled
    MaySendFail = FALSE
    MayRemove = FALSE
CHECK_DEADLOCK FALSE
INVARIANT CompletionNotified
