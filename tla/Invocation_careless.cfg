CONSTANTS
  Nobody = Nobody
  NoInode = NoInode
  Invocations = {p1, p2}
  Inodes = {n1, n2, n3}
  Careful = FALSE
  FreshInodes = TRUE
  Faults <- NoFaults
SPECIFICATION Spec
PROPERTIES RemovesOwnEntry
CHECK_DEADLOCK FALSE
