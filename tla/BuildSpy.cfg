SPECIFICATION Spec
CONSTANTS
    lib = lib
    libTests = libTests
    p1 = p1
    p2 = p2
    Targets <- TwoTargets
    Covers <- FirstAllThenLib
    Prefix <- Eclipse
    Pollers = {p1, p2}
    MaxBuilds = 2
SYMMETRY AnyPoller
CHECK_DEADLOCK FALSE
INVARIANTS
    WrittenSincePrepare
    CleanSpyIsComplete
    VerdictHasCause
