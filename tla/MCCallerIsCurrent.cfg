SPECIFICATION PSpec
CONSTANTS
    MAX_PROCESSES = 4
    MAX_TERMINALS = 2
    FD_MAX_IDX = 2
    Programs = {"shell", "prog"}
    WORD = 8
    StackReach <- AllFit
    SwitchPoints <- AtUser
    CtrlCPoints <- NoPoints
PROPERTY CallerIsCurrent
CHECK_DEADLOCK FALSE
