CONSTANTS
    NumWorkers = 3
    NumCommands = 3
    None = None
    SendErrors = {}
SPECIFICATION SchedSpec
INVARIANTS
    TypeOK
    IndInv
    NoEnforceFails
    JobsMatchWorkers
    QueuesMatchStatus
    StoppedWorkersNotNeeded
    TimeoutClearsPool
PROPERTIES
    ImplementsLifecycle
