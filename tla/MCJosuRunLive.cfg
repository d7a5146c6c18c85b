\* One run that touches two files, with cleanup fair.
CONSTANTS
  Runs = {r1}
  Paths = {p, q}
  Contents = {c1, c2}
  Absent = Absent
  MaxMoves = 1
  CommitsDuringPreparation = FALSE
SPECIFICATION MCSpec
INVARIANTS
  TypeOK
  AbortsWriteNothing
PROPERTY LeftoversAreListed
