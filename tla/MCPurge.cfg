SPECIFICATION FairSpec
CONSTANTS
    Runs = {1, 2}
    Conversations = {c1, c2}
    NoConversation = NoConversation
    Project = p
    Inputs = {}
    Backslashed = {}
    MaxArtifacts = 1
    MaxFiles = 1
    MaxFaults = 1
    MaxStops = 0
    MaxLosses = 0
    MaxFailures = 1
PROPERTIES
    DeletedArePurged
    OrphansCollected
CHECK_DEADLOCK FALSE
