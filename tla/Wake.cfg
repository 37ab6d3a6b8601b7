SPECIFICATION FairSpec
CONSTANTS
  Wakes = {w1, w2}
  Checkpoints = {c1, c2}
  Nobody = Nobody
  Left = Left
  MaxFaults = 3
INVARIANTS TypeOK ReportIsHonest
PROPERTIES ImplementsLife PublishesOwnWork CheckpointsAreMerged
ACTION_CONSTRAINT ReportsFirst
