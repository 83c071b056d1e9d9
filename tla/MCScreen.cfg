SPECIFICATION Spec
CONSTANTS
    MAX_TERM_N = 2
    NUM_ROWS = 2
    NUM_COLS = 2
    KB_SIZE = 4
    PAGE = 4
    Blank = Blank
    PutcInterrupted = FALSE
    Preempted = FALSE
    MaxCalls = 1
    TypeAhead = FALSE
    VidmapHidden = FALSE
    VidTasks = {1}
    VidCells = {3}
INVARIANTS
    TypeOK
    EchoInPage
PROPERTIES
    ImplementsTermScreens
