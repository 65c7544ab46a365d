SPECIFICATION FairSpec
CONSTANTS
    Hot <- MCHot
    Cold <- MCCold
    MaxEdits = 2
    MaxFaults = 2
    MaxCues = 1
INVARIANTS AppliedAgrees
PROPERTIES CuesNeverUndone Converges
CHECK_DEADLOCK FALSE
