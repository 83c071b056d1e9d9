SPECIFICATION Spec
CONSTANTS
    MAX_PROCESSES = 5
    NULL = NULL
    Status <- MCStatus
    ExecBeforeShells = FALSE
INVARIANTS
    TypeOK
    SlotsMatchLists
    RunningIsForeground
    WaitingFrameIsLive
PROPERTIES
    HaltReturnsToParent
    EveryTerminalRuns
    ImplementsTaskStacks
