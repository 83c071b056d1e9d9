SPECIFICATION Spec
CONSTANTS
    MAX_TERM_N = 2
    KB_SIZE = 2
    NUL = NUL
    NL = NL
    SOH = SOH
    Letters = {"a"}
    Typists = {1}
    NBytes = {1}
    Preempted = FALSE
    MaxTodo = 0
    OneLine = FALSE
PROPERTIES
    EnterIsAnswered
