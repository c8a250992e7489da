SPECIFICATION Spec
CONSTANTS
    Runs = {1}
    Conversations = {c1}
    NoConversation = NoConversation
    Watched = 1
    Readers = {reader}
    Artifacts = {a1}
    MaxRuntime = 2
    MaxDrops = 1
INVARIANTS
    TypeOK
    LogGapless
    LogTellsOutcome
PROPERTIES
    ImplementsFeed
CHECK_DEADLOCK FALSE
