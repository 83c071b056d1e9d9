SPECIFICATION Spec
CONSTANTS
    Frames <- MCFrames
    NL = "nl"
    SPACE = " "
    NUM_COLS = 3
    SIZE = 7
    LOCATIONS = 8
    OFFSET = 1
    EXTRA = 5
    FRAME_LENGTH = 3
    ON_LENGTH = 2
    OFF_LENGTH = 3
    WAIT = 4
INVARIANTS
    ListMatchesPool
    FramesComplete
    ReadsOpenFile
    ShowsStatus
    Lockstep
PROPERTIES
    FishEnds
