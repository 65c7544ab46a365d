SPECIFICATION FairSpec
CONSTANTS
  Creates = {"c", "d"}
  Replaces = {"x"}
  Merges = {"m"}
  Atoms = {"a", "b"}
  TargetOf <- MCTargetOf
  Merged <- MCMerged
  Copies <- MCCopies
  Payloads = {1, 2}
  Callers = {"k", "l"}
  Scenarios <- MCScenarios
INVARIANTS DecisionsApplied
PROPERTIES AckOnlySettled RequestEnds
CHECK_DEADLOCK FALSE
