SPECIFICATION FairSpec
CONSTANTS
  Launch = {l1, l2}
  Direct = {l2}
  None = None
  Versions = {v1, v2, b}
  Broken = {b}
  Torn = Torn
  RestartLimit = 1
  MaxHealth = 3
  MaxFaults = 2
  OutsideKills = TRUE
  EarlyTimeouts = FALSE
CHECK_DEADLOCK FALSE
INVARIANTS TypeOK OneMutator KnownIsRunning KnownWasHealthy
PROPERTIES ReleaseSettled HandshakeEnds LocksAreReleased
