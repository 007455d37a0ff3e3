SPECIFICATION Spec
CONSTANTS
  Launch = {l1, l2}
  Direct = {}
  None = None
  Versions = {v1, b}
  Broken = {b}
  Torn = Torn
  RestartLimit = 1
  MaxHealth = 2
  MaxFaults = 1
  OutsideKills = FALSE
  EarlyTimeouts = FALSE
CHECK_DEADLOCK FALSE
INVARIANTS PublishedStarted
