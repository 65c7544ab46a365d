SPECIFICATION ImportFairSpec
CONSTANTS
  p = p
  q = q
  Payloads <- MCPayloads
  Width <- MCWidth
  Budget = 1
  Scenarios <- MCScenarios
INVARIANTS ArchiveFaithful ImportAdmissible
PROPERTIES RevokedStaysOut ImportEnds
CHECK_DEADLOCK FALSE
