\* Two sessions, two connections, two texts.
\* The process may end, in a check or on a freed request: no deadlock check.
SPECIFICATION Spec
CONSTANTS
    Sessions = {s1, s2}
    ConnIds = {c1, c2}
    Texts = {t1, t2}
SYMMETRY Symmetry
INVARIANTS TypeOK OneSessionEach ServedInOrder
PROPERTIES RightSession NoGaps
CHECK_DEADLOCK FALSE
