CONSTANTS
    NumWorkers = 2
    NumCommands = 2
    None = None
    SendErrors = {"SemanticAnalysis", "EmitIndex"}
    SemaFiles <- MCSemaFiles
    MainFile <- MCMainFile
    Skipped = {}
    NoSemaTasks = {}
    Faults = {"timeout", "crash", "driverTimeout", "driverCrash"}
SPECIFICATION FairSpec
INVARIANTS
    SystemInv
PROPERTIES
    DriverTerminates
    WorkersNoticeDriverExit
