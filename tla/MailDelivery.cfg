CONSTANTS
    m1 = m1
    m2 = m2
    Job <- Mails
    NoJob = NoJob
    MaxCrash = 2
SPECIFICATION Spec
INVARIANTS CompletedWasSent SuccessIsQueued
PROPERTIES EveryRequestEnds ImplementsJobQueue
CHECK_DEADLOCK FALSE
