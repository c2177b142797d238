CONSTANTS
  Caller = {t1, t2}
  Cooldown = {2}
  Horizon = 2
  Spurious = FALSE
SPECIFICATION GateSpec
PROPERTY
  PausedForCooldown
