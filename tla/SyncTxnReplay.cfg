SPECIFICATION Spec
CONSTANTS
  Paths = {p1, p2}
  Dev = {d1, d2}
  User = {u1, u2}
  Absent = Absent
  None = None
  NoRepo = NoRepo
  Unborn = Unborn
  Starts = {1}
  MaxCommits = 2
  MaxRuns = 2
  MaxEdits = 3
  MaxStages = 0
  MaxFaults = 0
  Habits = {"inattentive"}
CHECK_DEADLOCK FALSE
SYMMETRY MCSymmetry
INVARIANTS NothingLost
