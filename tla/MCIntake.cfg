SPECIFICATION Spec
CONSTANTS
  fa = fa
  fb = fb
  fc = fc
  File = {fa, fb, fc}
  PRs <- Lists
  Patches <- SomePatches
  PerPage = 2
  MaxChunkTokens = 2
  MaxChunks = 2
  MaxBatchTokens = 5
  MaxPushes = 1
INVARIANTS ListedExactly HunksPartitioned ChunkBound BatchBound
CHECK_DEADLOCK FALSE
