SPECIFICATION Spec
CONSTANTS
  Members <- MCMembers
  Optional <- MCOptional
  Contents = {c1, c2}
  Absent = Absent
  Irregular = {}
  NoDir = NoDir
  Damaged = Damaged
  MaxFaults = 2
  RacingEdits = FALSE
SYMMETRY MCSymmetry
INVARIANTS TypeOK GenerationSurvives RollbackIsResumable
PROPERTIES DisplacedIsPreserved ImplementsGeneration
