CONSTANTS
    t1 = t1
    t2 = t2
    Thread <- TwoThreads
    NoThread = NoThread
    Offered <- Contention
    AllowedCommand <- Everything
    AllowedAmbient = {"ambient_on", "ambient_off"}
    Level = {}
    MaximumBrightness = 1
    Limit <- OneEach
    MaxLate = 1
    Outside <- OthersEnableLED
SPECIFICATION ControlSpec
SYMMETRY Symmetry
INVARIANTS
    SerializedMutations
    AmbientUninterrupted
    HonestAggregate
    SafetyBoundary
    VerifiedMeansApplied
