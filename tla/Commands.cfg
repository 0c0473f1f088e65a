SPECIFICATION CommandSpec
CONSTANTS
  i1 = i1  i2 = i2  alice = alice  bob = bob  carol = carol
  NoToken = NoToken  NoRequest = NoRequest
  Threads <- TwoThreads
  Clients <- ThreeClients
  Lifetime = 2
  MaximumSessions = 2
  Window = 2
  AttemptLimit = 2
  GlobalLimit = 3
  MaximumClients = 2
  MaxTime = 3
  MaxRequests = 4
  MaxDatagrams = 2
  MaxAttempts = 4
  MaxInterrupts = 3
  ReadIoctls = 4
  StreamIoctls = 14
  MaxPolls = 2
  N = 3
  MaxCalls = 4
  PageSizes = {1, 2}
  Keep = 1
  MaxUtc = 2
  MaxId = 4
  MaxWrites = 7
SYMMETRY Symmetry
CHECK_DEADLOCK FALSE
INVARIANTS NeverRetried GoodReportMeansBlackout CleansUp
INVARIANTS CleanMeansClean OneDescriptor FrameAccounted
INVARIANTS AllOrNothing NoSilentLeak StopTellsTruth
INVARIANT EveryRowOnce
INVARIANTS OverIsOver LimitsHold
PROPERTY EvictsOnlyTheOldest
