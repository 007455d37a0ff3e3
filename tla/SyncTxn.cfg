SPECIFICATION Spec
CONSTANTS
  Paths = {p1, p2}
  Dev = {d1, d2}
  User = {u1, u2}
  Absent = Absent
  None = None
  NoRepo = NoRepo
  Unborn = Unborn
  Starts = {1, Unborn}
  MaxCommits = 2
  MaxRuns = 2
  MaxEdits = 2
  MaxStages = 1
  MaxFaults = 2
  Habits = {}
CHECK_DEADLOCK FALSE
SYMMETRY MCSymmetry
INVARIANTS TypeOK NothingLost HalfResetIsBlocked
PROPERTIES ConflictChart BlockedIsFrozen UntouchedIsInstalled
