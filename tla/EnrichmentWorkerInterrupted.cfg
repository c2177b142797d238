CONSTANTS
  Artist = {1, 2}
  Caller = {c1}
  NoArtist = NoArtist
  Capacity = 3
  BatchSize = 2
  Faults = {"slow"}
SPECIFICATION InterruptedSpec
PROPERTY
  InterruptedScansAreRecovered
