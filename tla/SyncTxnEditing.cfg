SPECIFICATION FairSpec
CONSTANTS
  Paths = {p1, p2}
  Dev = {d1, d2}
  User = {u1}
  Absent = Absent
  None = None
  NoRepo = NoRepo
  Unborn = Unborn
  Starts = {1, NoRepo}
  MaxCommits = 2
  MaxRuns = 2
  MaxEdits = 2
  MaxStages = 1
  MaxFaults = 0
  Habits = {"edits tracked"}
CHECK_DEADLOCK FALSE
INVARIANTS NothingLost
PROPERTIES RunEnds
