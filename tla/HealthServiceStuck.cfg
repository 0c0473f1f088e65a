SPECIFICATION ServiceSpec
CONSTANTS
    Process = {p1, p2}
    Creators = {p1}
    Nobody = Nobody
    MaxAttempts = 1
    MaxTroubles = 1
    Interval = 2
    MaxPending = 2
    DueFrames = 2
    HardFrames = 2
    HardSlots = 3
    MaintenanceEvery = 3
    MaintenanceRows = 2
    MaxWrite = 2
    MaxClock = 4
    MaxFaults = 1
    MaxStarts = 2
INVARIANT CheckpointRecovers
CHECK_DEADLOCK FALSE
