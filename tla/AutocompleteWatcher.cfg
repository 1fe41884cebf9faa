SPECIFICATION Spec
CONSTANTS
    app = app
    lib = lib
    appFile = appFile
    libFile = libFile
    Targets <- TwoTargets
    Files <- OneFile
    TargetsOf <- InLib
    Deps <- NoDeps
    Hidden <- AppNeedsLib
    Graphs <- WithOrWithoutApp
    MaxTime = 3
    MaxWatches = 2
    MaxEdits = 1
    SchemeTargets <- TwoTargets
    Scopes <- NoScope
CHECK_DEADLOCK FALSE
INVARIANTS
    JudgedByLaterBuild
PROPERTIES
    FailureIsNotOverruled
    FinishedBuildReports
