SPECIFICATION FairSpec
CONSTANTS
  Closures <- MCClosures
  Captures <- MCCaptures
  Usages <- MCUsages
  Projections <- MCProjections
  Artifacts <- MCArtifacts
  Configs = {"A", "B"}
  Scenarios <- MCScenarios
INVARIANTS SchedulerInv
PROPERTIES ResultsHonest WorkSettles
