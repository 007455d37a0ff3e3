SPECIFICATION FairSpec
CONSTANTS
  N = 2
  Segments = 2
  MaxQueue = 1
  Prefetch = 1
  MaxControls = 1
  None = None
INVARIANTS
  TypeOK
  EndReported
  OneWorker
  ConsumerIsFed
  FreshConfig
PROPERTIES
  StoppedIsSilent
  ShutdownEnds
