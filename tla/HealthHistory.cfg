SPECIFICATION Spec
CONSTANTS
    Component = {"wled", "capture"}
    Place <- MCPlace
    Offered <- MCOffered
    Cooldown = 3
    MaxCounter = 3
    LedgerCapacity = 2
    Heartbeat = 2
    Retention = 4
    RowBudget = 3
    MaxSequence = 7
    Failing <- MCFailing
    MaxEvents = 1
INVARIANTS TrustKept AnswersTruth ConfirmedIsAlerted EventsTellLifecycle BaselineIsCurrent
PROPERTY ImplementsReference
CHECK_DEADLOCK FALSE
