CONSTANTS
  Artist = {1, 2, 3}
  Caller = {c1, c2}
  NoArtist = NoArtist
  Capacity = 2
  BatchSize = 1
  Faults = {"store", "replica", "slow", "kill"}
SPECIFICATION Spec
SYMMETRY CallerSymmetry
INVARIANTS
  PendingIsAccountedFor
  OneJobPerArtist
PROPERTY
  RecoveryIsComplete
