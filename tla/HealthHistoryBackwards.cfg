SPECIFICATION Spec
CONSTANTS
    Component = {"wled", "capture"}
    Place <- MCPlace
    Offered <- MCBackwards
    Cooldown = 3
    MaxCounter = 3
    LedgerCapacity = 2
    Heartbeat = 2
    Retention = 4
    RowBudget = 3
    Failing = {}
    MaxSequence = 6
    MaxEvents = 0
INVARIANT AlertsReadable
CHECK_DEADLOCK FALSE
