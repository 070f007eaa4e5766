CONSTANTS
    NumWorkers = 1
    NumCommands = 2
    None = None
    SendErrors = {"EmitIndex"}
    SemaFiles <- MCSemaFiles
    MainFile <- MCMainFile
    Skipped = {}
    NoSemaTasks = {}
    Faults = {}
SPECIFICATION Spec
INVARIANTS
    NoEnforceFails
