SPECIFICATION FairSpec
CONSTANTS
    Turns <- MCTurns
    MaxTurns = 1
    Results <- MCResults
    Allowed = {"html"}
    PipeSize = 1
    MaxFaults = 1
    MaxNewer = 1
    MaxOddities = 1
INVARIANTS
    TypeOK
    AcceptedIsProven
    WorkerBelieved
    CancelStops
PROPERTIES
    ExecutionEnds
CHECK_DEADLOCK FALSE
