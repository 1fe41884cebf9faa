SPECIFICATION Spec
CONSTANT MaxBuilds = 2
CHECK_DEADLOCK FALSE
INVARIANTS
    OneServerEach
    MessagesReachTheirClient
    SilenceHasCause
PROPERTIES
    WaitingEnds
    OvertakenClientLeaves
