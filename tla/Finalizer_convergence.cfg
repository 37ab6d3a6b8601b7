CONSTANTS
  Absent = Absent
  Sources <- Plain
  Callers <- Fine
  MaxComments = 1
  MaxForeign = 0
  MaxFaults = 1
SPECIFICATION FairSpec
PROPERTIES RepeatAttemptsConverge
