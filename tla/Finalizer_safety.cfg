CONSTANTS
  Absent = Absent
  Sources <- AllSources
  Callers <- FineAndOthers
  MaxComments = 2
  MaxForeign = 1
  MaxFaults = 1
SPECIFICATION Spec
INVARIANTS TypeOK MergeWasApproved NoFinalizationIsHarmless MergedCheckpointIsClosed MergedIsReviewed FailureIsLocal PublishedIsExact
VIEW Told
