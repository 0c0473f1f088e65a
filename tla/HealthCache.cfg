CONSTANTS
    r1 = r1
    r2 = r2
    wled = wled
    hyperhdr = hyperhdr
    Reader <- TwoReaders
    NoReader = NoReader
    Component <- TwoComponents
    NoReport = NoReport
    MaxVersion = 1
    MaxInvalidation = 1
SPECIFICATION FairHealthSpec
PROPERTIES
    KeepsPromise
    SweepEnds
INVARIANTS CacheNeverStale
