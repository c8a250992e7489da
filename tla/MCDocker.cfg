SPECIFICATION Spec
CONSTANTS
    Runs = {1, 2}
    Conversations = {c1}
    NoConversation = NoConversation
    Provider = "docker"
    LateDelivery = FALSE
    MaxFaults = 1
    MaxCrashes = 1
    MaxFailures = 2
INVARIANTS
    TypeOK
    HeadSessionKept
    ExecuteAdmitted
    StaleViewSafe
    DecisionAgreement
    SettledIsClean
    CommitAccepted
    NoOrphanSession
    NoStrandedRun
    NeverPaused
