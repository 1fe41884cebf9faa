SPECIFICATION RunSpec
CONSTANTS
    Tests = {"a", "b", "c", "d"}
    Unparsed = {"d"}
    Plan <- MCPlan
    NameSays <- MCNameSays
    Repeated = {"a"}
INVARIANTS
    TestsAreAnswered
    PassedIsTrue
PROPERTIES
    OnlyFailuresFollow
    RunEndsOrWaits
    ParentIsTold
CHECK_DEADLOCK FALSE
