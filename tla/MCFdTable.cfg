SPECIFICATION Spec
CONSTANTS
    Slots = {s1, s2, s3, s4}
    NULL = NULL
    MAX_FILES = 4
    Kinds = {"file"}
    Words = {"w"}
    MaxPos = 1
    MaxOpens = 3
INVARIANTS
    TypeOK
    TablesInPlace
    ArgIsOwn
PROPERTIES
    WaitingKeepsDescriptors
    OpenFilesKept
SYMMETRY SlotSymmetry
