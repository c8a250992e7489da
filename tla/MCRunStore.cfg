SPECIFICATION StoreSpec
CONSTANTS
    Runs = {1, 2}
    Conversations = {c1, c2}
    NoConversation = NoConversation
INVARIANTS
    StoreTypeOK
    RowShape
    SingleSlot
    LinearHistory
    HeadSucceeded
    PromotedUntilSettled
    DeletedQuiescent
PROPERTIES
    OutcomeImmutable
CHECK_DEADLOCK FALSE
