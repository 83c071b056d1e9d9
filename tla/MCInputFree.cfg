SPECIFICATION Spec
CONSTANTS
    MAX_TERM_N = 2
    KB_SIZE = 3
    NUL = NUL
    NL = NL
    SOH = SOH
    Letters = {"a"}
    Typists = {0, 1}
    NBytes = {3}
    Preempted = FALSE
    MaxTodo = 0
    OneLine = FALSE
INVARIANTS
    ReadsOwnTerminal
