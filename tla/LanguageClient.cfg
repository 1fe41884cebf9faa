CONSTANTS
    Fetchers = {"p", "q"}
    Restarts = {"r"}
    Texts = {"one", "other"}
    NoText = "none"
    MaxClients = 2
    MaxRestartCount = 0
SPECIFICATION Spec
INVARIANTS
    OneServer
PROPERTIES
    AnswersAreOwn
    FetchesEnd
