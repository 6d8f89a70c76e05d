SPECIFICATION PSpec
CONSTANTS
    MAX_PROCESSES = 5
    MAX_TERMINALS = 1
    FD_MAX_IDX = 2
    Programs = {"shell", "prog"}
    WORD = 8
    StackReach <- FishBig
    SwitchPoints <- SafeSwitchPoints
    CtrlCPoints <- PCs
INVARIANTS OwnPages RegistersOfCurrent SavedFramesIntact
