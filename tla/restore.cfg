SPECIFICATION FairSpec
CONSTANTS
  x = x
  y = y
  Records <- MCRecords
  Scenarios <- MCScenarios
INVARIANTS NothingLost DeletedStaysGone
PROPERTIES BackupEnds
CHECK_DEADLOCK FALSE
