CONSTANTS
    t1 = t1
    r1 = r1
    Thread <- OneThread
    NoThread = NoThread
    Offered <- AnyOperation
    AllowedCommand <- Everything
    AllowedAmbient = {"ambient_on", "ambient_off"}
    Level = {}
    MaximumBrightness = 1
    Limit <- OneEach
    MaxLate = 0
    Outside <- OthersUseWLED
    Reader <- OneReader
    NoReader = NoReader
    NoReport = NoReport
    MaxVersion = 2
    MaxInvalidation = 3
    MaxRequest = 1
SPECIFICATION PlaneSpec
PROPERTIES
    PageShowsMutation

