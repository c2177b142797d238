CONSTANTS
  Task = {t1, t2, t3}
  Quota = 4
  kMinRemaining = 2
  MaxFaults = 1
  Key = {"cookie", "apikey"}
  Max <- OneOrTwo
  Window <- ShortOrLong
  MaxClock = 7
  MaxForgotten = 1
  MaxFailures = 1
  Artist = {1, 2}
  Song = {"s", "t"}
  CreditsOf <- OneSongShared
  ImagesOf <- NoPhotos
  NoImage = "none"
  NoColour = "null"
  NoArtist = 0
  Ttl = 1
  BatchSize = 1
  Asked = {1}
  MaxTime = 2
  Node = {1, 2, 3, 4, 5}
  Src = 1
  Dst = 2
  NoNode = 0
  Caller = {1, 2}
  Kind <- SongListAndSong
  Lane = {"fg"}
  LaneOf <- BothForeground
  Refill <- TwoTicks
  Burst <- OneOfIt
  Concurrent <- OneOfIt
  MaxAttempts = 2
  MaxTicks = 5
  ApiSong = {"s", "t"}
  Routes = {"graph", "edge", "deepen", "path", "search", "artist", "layout"}
  Callers = {"key", "bad key", "user", "stale user", "guest", "nobody"}
  MaxWrites = 2
  Person = {1, 2, 3, 4, 5, 6, 7}
  From = 1
  To = 2
  Worlds <- FourGraphs
  Omitted <- SomeOrAll
  Caches <- SomeStored
  MaxChanges = 1
  Rounds = 1
  Frontier = 2
  Musician = {1, 2, 3, 4, 5}
  FromId = 1
  ToId = 2
  Graphs <- GraphsOfFive
  Growth <- ThreeSongs
  MaxShown = 2
  CallsFail = TRUE
  kIdealFinderMaxDepth = 3
  kIdealFinderMaxFrontier = 2
  Collaborator = {1, 2}
  Seed = 0
  Track = {"s", "t", "u"}
  TitleOf <- OneTitleTwice
  Catalogues <- AllCredits
  Nameless = {2}
  Mask = {"featured", "writer", "producer"}
  Token <- Tokens
  Name <- Names
  Secret = {"k", "l"}
  SessionTtl = 1
  MaxWall = 2
  MaxRestarts = 2
SPECIFICATION ServicesSpec
INVARIANT TypesOK
INVARIANT FullIsComplete ReadsAreNotTorn ColourIsOfImage
INVARIANT LimitHolds
INVARIANT ShortestIsFound AnswersAreTrue
INVARIANT ScannedWasAsked CachedIsServed AggregationIsExact
INVARIANT RequestsFit
INVARIANT LoadIsBounded
INVARIANT IdealIsShortest
INVARIANT SessionsReadBack
CHECK_DEADLOCK FALSE
