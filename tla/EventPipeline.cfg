CONSTANTS
    e1 = e1
    e2 = e2
    Job <- Events
    NoJob = NoJob
    MaxCrash = 2
SPECIFICATION EventSpec
INVARIANTS EventOfCommittedAct
PROPERTIES PunishedIsRecorded ImplementsJobQueue
CHECK_DEADLOCK FALSE
