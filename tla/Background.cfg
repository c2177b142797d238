CONSTANTS
  Artist = {1, 2}
  Caller = {c1, c2}
  NoArtist = NoArtist
  Capacity = 2
  BatchSize = 2
  Faults = {"store", "slow"}
  Requested = {1, 2, 3}
  Requester = {1}
  NoRequest = 0
  RetryCapacity = 2
  MaxRetryAge = 1
  Reader = {1, 2}
  Ttl = 2
  Timeout = 1
SPECIFICATION BackgroundSpec
INVARIANT
  ScanningIsRecent
PROPERTIES
  OnlyHandledAreRemoved
  RetriesEnd
  StreamsEnd
  StaleLeaves
  QueuedIsTried
  ShutdownEnds
  ImplementsJobs
