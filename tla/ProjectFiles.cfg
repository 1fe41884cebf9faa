SPECIFICATION Spec
SYMMETRY EditSymmetry
CONSTANTS
    Edits = {e1, e2}
    Touches = {t1}
    Loader = loader
    Free = free
    MaxChanges = 1
    MaxTroubles = 1
CHECK_DEADLOCK FALSE
INVARIANTS
    StaleListHasCause
    StaleWorkspaceHasCause
    EditReachesDisk
PROPERTIES
    NewerIsNotOverwritten
    SavesOwnEdits
