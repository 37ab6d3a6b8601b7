SPECIFICATION FairSpec
CONSTANTS
  Helpers = {h1, h2}
  None = None
INVARIANTS TypeOK AttestedIsOver ResultIsTheChecks
PROPERTY EveryCallEnds
CHECK_DEADLOCK FALSE
