\* A scan while a run is alive.
CONSTANTS
  Runs = {r1}
  Paths = {p}
  Contents = {c1, c2}
  Absent = Absent
  MaxMoves = 0
  CommitsDuringPreparation = FALSE
SPECIFICATION SafeSpec
INVARIANT FinishedRunsAreNotListed
