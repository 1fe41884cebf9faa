CONSTANTS
    s1 = s1  s2 = s2  a1 = a1  a2 = a2
    NoSession = NoSession
    Sessions = {s1}
    Apps = {a1}
SPECIFICATION FairSpec
PROPERTIES
    DebuggerLeaves
    CommandEnds
CHECK_DEADLOCK FALSE
