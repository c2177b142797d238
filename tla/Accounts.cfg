CONSTANTS
  Player = {p1}
  Challenge = {c1, c2}
  Submission = {s1, s2}
  Publisher = {q1, q2}
  NoOne = NoOne
  Hops = {1, 2}
  Elapsed = {14000, 20000}
  Delta <- Deltas
  StartElo = 2
  kMinRating = 1
  kEloMasterThreshold = 4
  kVeteranGames = 2
  Author = {1, 2, 3}
  KindOf <- TaskAdminPlayer
  Pair = {1, 2}
  PathLengths = {0, 1, 2}
  MinPathLen = 2
  Tries = 2
  SeasonLen = 1
  MaxSeasonTime = 1
  MaxRuns = 1
  Owner = {1, 2, 3}
  Score = {0, 1}
  Reader = {1, 2}
  Patient = {1}
  Limit = 1
  CacheTtl = 1
  Boards = {"challenge", "season", "list"}
  Firsts <- FirstRows
  MaxRows = 4
  MaxChanges = 1
  MaxBoardTime = 1
  Flow = {1, 2}
  Account = {"ann", "bob"}
  NoFlow = 0
  Nobody = "nobody"
  Unnamed = "unnamed"
  PkceEnabled = TRUE
  Slot = {1, 2}
  IdemKey = {"k"}
  NoKey = "none"
  Tier = {"default"}
  Garbage = "garbage"
  KeyTtl = 1
  MaxKeys = 2
  MaxBodies = 3
  MaxKeyTime = 1
SPECIFICATION AccountsSpec
SYMMETRY Interchangeable
INVARIANTS
  RatingsAddUp
  RatedTwiceOnlyIfOverlapping
  OneIdealPerChallenge
  AwardsAreExact
  RepeatsAreAccountedFor
  LoginsCarryTheirVerifier
  LinkStaysWithItsUser
  DailyIsPlayable
  StableRowsAreShownOnce
CHECK_DEADLOCK FALSE
