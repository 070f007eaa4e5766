CONSTANTS
    NumWorkers = 2
    NumCommands = 6
    None = None
    SendErrors = {}
    SemaFiles <- MCSemaFiles
    MainFile <- MCMainFile
    Skipped = {0}
    NoSemaTasks = {2}
    Faults = {}
SPECIFICATION FairWorkersSpec
PROPERTIES
    CompleteIndexIsWritten
