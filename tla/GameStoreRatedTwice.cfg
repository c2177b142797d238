CONSTANTS
  Player = {p1}
  Challenge = {c1, c2}
  Submission = {s1, s2}
  Publisher = {q1, q2}
  NoOne = NoOne
  Hops = {1, 2}
  Elapsed = {14000, 20000}
  Delta <- Deltas
  StartElo = 2
  kMinRating = 1
  kEloMasterThreshold = 4
  kVeteranGames = 2
SPECIFICATION Spec
SYMMETRY Interchangeable
INVARIANT
  RatedOncePerChallenge
CHECK_DEADLOCK FALSE
