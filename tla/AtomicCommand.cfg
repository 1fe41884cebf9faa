CONSTANTS
    u1 = u1  u2 = u2  w1 = w1  s1 = s1
    NoOp = NoOp
    NoScope = NoScope
    Users = {u1, u2}
    TaskUsers = {u1}
    Watchers = {w1}
    Scopes = {s1}
SPECIFICATION FairSpec
INVARIANTS
    AbandonedClosureIsTold
PROPERTIES
    KeepsPromise
    UserCommandStarts
