CONSTANTS
    NumWorkers = 1
    NumCommands = 2
    None = None
    SendErrors = {}
    SemaFiles <- MCSemaFiles
    MainFile <- MCMainFile
    Skipped = {}
    NoSemaTasks = {}
    Faults = {"timeout", "startup"}
SPECIFICATION FairSpec
PROPERTIES
    DriverTerminates
CHECK_DEADLOCK FALSE
