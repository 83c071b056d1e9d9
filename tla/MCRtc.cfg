SPECIFICATION Spec
CONSTANTS
    MAX_TERM_N = 2
    INIT_RATE = 2
    Rates = {2, 3}
    MaxOwed = 2
    MaxNested = 1
INVARIANTS
    NoInterruptCountedTwice
PROPERTIES
    ReadReturns
    RateIsWritten
