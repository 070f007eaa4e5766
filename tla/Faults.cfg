CONSTANTS
    NumWorkers = 2
    NumCommands = 3
    None = None
    SendErrors = {}
    SemaFiles <- MCSemaFiles
    MainFile <- MCMainFile
    Skipped = {}
    NoSemaTasks = {}
    Faults = {"timeout", "crash", "driverTimeout"}
SPECIFICATION Spec
INVARIANTS
    SystemTypeOK
    NoEnforceFails
    OneCopyPerJob
    EmitSendNeverWaits
    ShardsAreOnDisk
    FilesIndexedOnce
    LostFilesWereAssigned
PROPERTIES
    ImplementsScheduler
