CONSTANTS
  Absent = Absent
  Sources <- Plain
  Callers <- Fine
  MaxComments = 2
  MaxForeign = 0
  MaxFaults = 0
SPECIFICATION Spec
INVARIANTS LaterDecisionInvalidates
