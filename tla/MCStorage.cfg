SPECIFICATION Spec
CONSTANTS
    Runs = {1, 2}
    Conversations = {c1, c2}
    NoConversation = NoConversation
    Project = p
    Inputs = {i1}
    Backslashed = {}
    MaxArtifacts = 1
    MaxFiles = 1
    MaxFaults = 1
    MaxStops = 1
    MaxLosses = 1
    MaxFailures = 1
INVARIANTS
    TypeOK
    ArtifactsIntact
    InputsKept
PROPERTIES
    RowsLast
CHECK_DEADLOCK FALSE
