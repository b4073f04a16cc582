\* Is a text notified for its own connection only?
SPECIFICATION Spec
CONSTANTS
    Sessions = {s1}
    ConnIds = {c1, c2}
    Texts = {t1}
SYMMETRY Symmetry
INVARIANT NotifiedForItsConnection
CHECK_DEADLOCK FALSE
