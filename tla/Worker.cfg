CONSTANTS
  Branches = {b1, b2}
  Commits = {c1, c2}
  B1 = b1
  C1 = c1
  Absent = Absent
  Detached = Detached
  Paths = {1, 2}
  Contents = {edited}
  Clean = Clean
  Unreadable = Unreadable
  None = None
  Requests <- Cases
  MaxForeign = 1
SPECIFICATION FairSpec
INVARIANTS TypeOK ValidatedIsExact ValidatedIsTested ResidueIsReported
PROPERTIES PreparationKeepsWork WorkerRunEnds ImplementsWork
