SPECIFICATION Spec
CONSTANTS
    MAX_TERM_N = 2
    NUM_ROWS = 2
    NUM_COLS = 1
    KB_SIZE = 2
    PAGE = 2
    Blank = Blank
    PutcInterrupted = FALSE
    Preempted = TRUE
    MaxCalls = 2
    TypeAhead = TRUE
    VidmapHidden = TRUE
    VidTasks = {0, 1}
    VidCells = {0}
VIEW TableView
INVARIANTS
    MappingFollowsSwitch
