SPECIFICATION Spec
CONSTANTS
  N = 1
  Histories <- MCRootHistories
  Facts <- MCFacts
  Contents = {c1}
  Unread = Unread
  None = None
  MaxPasses = 3
  MaxFaults = 0
CHECK_DEADLOCK FALSE
INVARIANTS GroupIsGone
