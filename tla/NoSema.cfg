CONSTANTS
    NumWorkers = 1
    NumCommands = 2
    None = None
    SendErrors = {}
    SemaFiles <- MCSemaFiles
    MainFile <- MCMainFile
    Skipped = {}
    NoSemaTasks = {0}
    Faults = {"timeout", "crash", "driverTimeout"}
SPECIFICATION Spec
INVARIANTS
    NoEnforceFails
