SPECIFICATION Spec
CONSTANTS
    MAX_TERM_N = 2
    Codes <- MCCodes
    MaxPresses = 2
INVARIANTS
    EoiOwed
    GateReady
    KeysAgree
PROPERTIES
    IrqServed
