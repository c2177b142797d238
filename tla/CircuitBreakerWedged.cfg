CONSTANTS
  Task = {t1, t2}
  NoTask = NoTask
  FailureThreshold = 1
  OpenDuration = 1
  Outcomes = {"success", "failure", "unrecorded"}
SPECIFICATION FairSpec
PROPERTY
  HalfOpenIsDecided
