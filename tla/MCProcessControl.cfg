SPECIFICATION FairSpec
CONSTANTS
    MAX_PROCESSES = 4
    MAX_TERMINALS = 2
    FD_MAX_IDX = 2
    Programs = {"shell", "prog"}
    WORD = 8
    StackReach <- AllFit
    SwitchPoints <- SafeSwitchPoints
    CtrlCPoints <- PCs
INVARIANTS
    
    
    AddressSpaceMatches
    SavedFramesIntact
    HaltResumesParent
    ClosedOnExit
    KeyboardAlive
    NoProcessOnlyWhenFull
PROPERTIES
    
    
    KernelReturns
