SPECIFICATION FairSpec
CONSTANTS
    Runs = {1}
    Conversations = {c1}
    NoConversation = NoConversation
    Project = p
    Inputs = {i1}
    Backslashed = {i1}
    MaxArtifacts = 1
    MaxFiles = 2
    MaxFaults = 0
    MaxStops = 0
    MaxLosses = 0
    MaxFailures = 0
PROPERTIES
    DeletedArePurged
CHECK_DEADLOCK FALSE
