\* The developer commits while the worktree is being prepared.
CONSTANTS
  Runs = {r1}
  Paths = {p}
  Contents = {c1, c2}
  Absent = Absent
  MaxMoves = 2
  CommitsDuringPreparation = TRUE
SPECIFICATION SafeSpec
PROPERTY ChecksWhatTheAgentSaw
