SPECIFICATION BatchSpec
CONSTANTS
  p1 = p1
  p2 = p2
  q1 = q1
  q2 = q2
  hub = hub
  aihub = aihub
  Apps <- McApps
  DefaultApp = aihub
  About <- McAbout
  RoleSets <- McRoleSets
  FailClosed = TRUE
  Batches <- McBatches
  NoQuestion = NoQuestion
  Procs <- McProcs
  Questions <- McQuestions
  Volatile <- McVolatile
  CacheEnabled = TRUE
  CacheTTL = 1
  MaxEntries = 1
  IAMCanFail = TRUE
  Latency = 1
  MaxTime = 1
SYMMETRY McSymmetry
INVARIANTS DenyFailsClosed
