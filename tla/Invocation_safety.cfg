CONSTANTS
  Nobody = Nobody
  NoInode = NoInode
  Invocations = {p1, p2, p3}
  Inodes = {n1}
  Careful = TRUE
  FreshInodes = FALSE
  Faults <- AllFaults
SPECIFICATION Spec
SYMMETRY Interchangeable
INVARIANTS TypeOK MutualExclusion ReliableMeansQuiet CleanReportLeavesNoEntry ResultIsSupplied
PROPERTIES NeverStolen
VIEW Remembered
CHECK_DEADLOCK FALSE
