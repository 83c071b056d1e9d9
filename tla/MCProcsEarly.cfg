SPECIFICATION Spec
CONSTANTS
    MAX_PROCESSES = 4
    NULL = NULL
    Status <- MCStatus
    ExecBeforeShells = TRUE
CHECK_DEADLOCK FALSE
INVARIANTS
    RunningUnlessLaunchFailed
