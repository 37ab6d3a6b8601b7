CONSTANTS
  Nobody = Nobody
  NoInode = NoInode
  Invocations = {p1, p2}
  Inodes = {n1}
  Careful = TRUE
  FreshInodes = FALSE
  Faults <- AllFaults
SPECIFICATION OperatorSpec
PROPERTIES ImplementsMutex EveryInvocationEnds RepositoryFreedAgain
CHECK_DEADLOCK FALSE
