CONSTANTS
  own = own
  old = old
  s1 = s1
  s2 = s2
  w1 = w1
  w2 = w2
  Timeout = 3
  Waiters = {w1, w2}
  FileTime = 1
  Worktrees = {own, old}
  Scanners = {s1, s2}
  MaxKills = 1
  Own = own
SPECIFICATION MCSpec
INVARIANTS TypeOK ElapsedIsActive BudgetHolds LogTellsOfTheRun ScansAreReliable
PROPERTIES StoppedOnlyWhenSpent StoppedRunIsSurfaced
