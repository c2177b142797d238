CONSTANTS
  Task = {t1, t2, t3}
  NoTask = NoTask
  FailureThreshold = 2
  OpenDuration = 1
  Outcomes = {"success", "failure", "unrecorded"}
  Caller = {t1, t2, t3}
  Cooldown = {1, 2}
  Horizon = 1
  Spurious = TRUE
SPECIFICATION ResilienceSpec
INVARIANTS
  FewRequestsPerTrip
  HalfOpenIsOwned
PROPERTIES
  HalfOpenIsDecidedIfRecorded
  WaitsItsDeadline
  OpensOnTimeUnlessCancelled
  WaitersLeave
