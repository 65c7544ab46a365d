SPECIFICATION LifecycleSpec
CONSTANTS
  r1 = r1
  r2 = r2
  r3 = r3
  b1 = b1
  b2 = b2
  repoA = repoA
  repoB = repoB
  Records <- MCRecords
  Ingesters = {ingest}
  Blobs = {b1, b2}
  Repos = {repoA, repoB}
  Digest <- MCDigest
  RepoOf <- MCRepoOf
INVARIANTS LifecycleInv NeededKept
