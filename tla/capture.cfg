SPECIFICATION FairSpec
CONSTANTS
  r1 = r1
  r2 = r2
  r3 = r3
  r4 = r4
  b1 = b1
  b2 = b2
  repoA = repoA
  repoB = repoB
  Records <- MCRecords
  Blobs <- MCBlobs
  Repos <- MCRepos
  Digest <- MCDigest
  RepoOf <- MCRepoOf
  EmergencySlots = 1
  PageFrames = 1
  PageBytes = 4
  PurgeBatch = 1
  Scenarios <- MCScenarios
INVARIANTS EvidenceKept WithinLimits
PROPERTIES ImplementsLifecycle FramesLeaveAccounted FramesDrain
CHECK_DEADLOCK FALSE
