SPECIFICATION Spec
CONSTANTS
    Procs = {p, q}
    Names <- MCNames
    NoName = ""
    Cut <- MCCut
    dirEntries = 6
    dentries <- MCdentries
    inodes <- MCinodes
    MAX_D_ENTRIES = 5
    NBytes <- MCNBytes
    BLK_SZ = 4
    WORD = 64
    BYTE = 8
    OneLister = TRUE
INVARIANTS
    ReadsNextBytes
    OverrunIsBounded
    ListingComplete
PROPERTIES
    ReadingEnds
