SPECIFICATION Spec
CONSTANTS
    Runs = {1}
    Conversations = {c1}
    NoConversation = NoConversation
    Provider = "docker"
    LateDelivery = TRUE
    MaxFaults = 0
    MaxCrashes = 0
    MaxFailures = 0
INVARIANTS
    SettledIsClean
