SPECIFICATION Spec
CONSTANTS
    Runs = {1, 2}
    Conversations = {c1, c2}
    NoConversation = NoConversation
    Provider = "fake"
    LateDelivery = FALSE
    MaxFaults = 1
    MaxCrashes = 1
    MaxFailures = 2
SYMMETRY ConversationSymmetry
INVARIANTS
    SettledIsClean
    NoStrandedRun
    NeverPaused
PROPERTIES
    ImplementsStore
