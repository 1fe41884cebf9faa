SPECIFICATION Spec
CONSTANTS
    Files = {"source", "log"}
    LogFile = "log"
    Problems = {"type", "macro", "link"}
    Macros = {"macro"}
    Builds = {"first", "second"}
    FileOf <- MCFileOf
    Text <- MCText
INVARIANTS
    OnlyItsOwnProblems
    ProblemsAreShown
CHECK_DEADLOCK FALSE
