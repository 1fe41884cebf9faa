CONSTANTS
    s1 = s1  s2 = s2  a1 = a1  a2 = a2
    NoSession = NoSession
    Sessions = {s1, s2}
    Apps = {a1, a2}
SPECIFICATION Spec
INVARIANTS
    SeesItsApp
    TargetIsBuilt
    OneApp
SYMMETRY Symmetric
CHECK_DEADLOCK FALSE
