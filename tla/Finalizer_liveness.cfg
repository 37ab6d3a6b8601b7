CONSTANTS
  Absent = Absent
  Sources <- AllSources
  Callers <- Fine
  MaxComments = 2
  MaxForeign = 0
  MaxFaults = 0
SPECIFICATION FairSpec
PROPERTIES ApprovedWorkIsMerged
