SPECIFICATION XcodeSpec
CONSTANTS
    printer = printer  tee = tee  NoProc = NoProc
    Procs = {printer, tee}
    Wayward = {printer}
    PipeOf <- MCPipeOf
INVARIANTS SuccessHasLog StrangersAreSpared
PROPERTIES
    CancelEndsProcesses
    ResultsSettle
CHECK_DEADLOCK FALSE
