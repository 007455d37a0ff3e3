SPECIFICATION FairSpec
CONSTANTS
  Members <- MCMembers
  Optional <- MCOptional
  Contents = {c1}
  Absent = Absent
  Irregular = {odd}
  NoDir = NoDir
  Damaged = Damaged
  MaxFaults = 1
  RacingEdits = FALSE
PROPERTIES RollbackCompletes
