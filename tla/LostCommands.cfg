CONSTANTS
    NumWorkers = 1
    NumCommands = 3
    None = None
    SendErrors = {}
    SemaFiles <- MCSemaFiles
    MainFile <- MCMainFile
    Skipped = {}
    NoSemaTasks = {}
    Faults = {}
SPECIFICATION Spec
INVARIANTS
    LoopEndsAfterLastCommand
