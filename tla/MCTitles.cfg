SPECIFICATION Spec
CONSTANTS
    Turns = {}
    MaxTurns = 0
    Results <- MCLabelled
    Allowed = {"html"}
    PipeSize = 1
    MaxFaults = 0
    MaxNewer = 0
    MaxOddities = 0
INVARIANTS
    SummaryCarried
CHECK_DEADLOCK FALSE
