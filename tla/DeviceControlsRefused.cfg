CONSTANTS
    t1 = t1
    t2 = t2
    Thread <- TwoThreads
    NoThread = NoThread
    Offered <- Refusals
    AllowedCommand <- WithoutGrabber
    AllowedAmbient = {"ambient_on", "ambient_off"}
    Level = {1, 2}
    MaximumBrightness = 1
    Limit <- OneEach
    MaxLate = 0
    Outside = {}
SPECIFICATION FairControlSpec
INVARIANTS
    ChildNotRefused
PROPERTIES
    EveryRequestAnswered
