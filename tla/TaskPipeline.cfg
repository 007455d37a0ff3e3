SPECIFICATION FairSpec
CONSTANTS
  N = 3
  Histories <- MCHistories
  Facts <- MCFacts
  Contents = {c1, c2}
  Unread = Unread
  None = None
  MaxPasses = 3
  MaxFaults = 1
CHECK_DEADLOCK FALSE
INVARIANTS TypeOK ReportIsTrue GroupIsGone NoMissedTask MarkersAreExact
PROPERTIES StartsAreAllowed RunEnds
