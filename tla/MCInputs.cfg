SPECIFICATION Spec
CONSTANTS
    Runs = {1}
    Conversations = {c1}
    NoConversation = NoConversation
    Project = p
    Inputs = {i1}
    Backslashed = {}
    MaxArtifacts = 1
    MaxFiles = 2
    MaxFaults = 0
    MaxStops = 0
    MaxLosses = 1
    MaxFailures = 1
INVARIANTS
    InputsComplete
CHECK_DEADLOCK FALSE
