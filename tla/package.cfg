SPECIFICATION InstallSpec
CONSTANTS
  s1 = s1
  s2 = s2
  Sessions <- MCSessions
  Layouts = {"empty", "flat", "legacy", "current"}
  Kinds = {"install", "uninstall", "check", "upgrade"}
  MaxRuns = 3
  MaxEdits = 2
  MaxFaults = 3
INVARIANTS InstalledAgrees FailuresUndone
CHECK_DEADLOCK FALSE
