SPECIFICATION FairSpec
CONSTANTS
  Id = {i1, i2, i3}
  Limit = 1
  Room = 1
  MaxPhrases = 2
  MaxGen = 2
  MaxStarts = 2
  MaxFaults = 1
  None = None
INVARIANTS
  TypeOK
  SlotsAreFreed
  CompleteIsComplete
  ReleasedWhenIdle
PROPERTIES
  SessionEnds
