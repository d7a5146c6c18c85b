\* Two runs that touch the same file, the developer and cleanup.
CONSTANTS
  Runs = {r1, r2}
  Paths = {p}
  Contents = {c1, c2}
  Absent = Absent
  MaxMoves = 1
  CommitsDuringPreparation = FALSE
SPECIFICATION MCSafeSpec
SYMMETRY Symmetry
PROPERTIES
  ChecksWhatTheAgentSaw
  OnlyUntrackedFilesAreLost
  ListedUntilRemoved
