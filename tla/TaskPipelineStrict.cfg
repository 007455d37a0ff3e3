SPECIFICATION Spec
CONSTANTS
  N = 2
  Histories <- MCStrictHistories
  Facts <- MCFacts
  Contents = {c1}
  Unread = Unread
  None = None
  MaxPasses = 3
  MaxFaults = 1
CHECK_DEADLOCK FALSE
INVARIANTS NothingAfterFailure
