SPECIFICATION Spec
CONSTANTS
  Parts = {"reads", "lifecycle", "layers", "broker"}
  ReadSpellings <- MCSpellings
  ReadSelections <- MCSelections
  ReadGrants <- MCReadGrants
  ReadMaxWrites = 4
  LifeServers = {"s1", "s2"}
  LifeKeys = {"k1", "k2"}
  LifeRows = {"r1", "r2"}
  LifeTexts = {"t1", "t2"}
  LayJobs <- MCJobs
  LayPaths <- MCLayPaths
  LayTexts = {"t3"}
  LayFirst <- MCFirstStore
  LayGrant <- pA
  queue_depth = 1
  LayMaxTokens = 2
  LayMaxChanges = 2
  GateEnvs <- MCEnvs
  GateBodies <- MCBodies
  GateTargets = {"/secrets"}
  GateChanges <- MCChanges
  NOT_NEWER_THAN = 1
  NOT_OLDER_THAN = 1
  GateMaxTime = 2
  GateMaxRequests = 2
INVARIANTS
  RepliesAreFaithful
  ServersRevealWhatWasWritten
  ReadsAreExplained
  RefusalsAreFresh
  OnlySignedRequestsAreResolved
  LayersIdentifyTheRepository
CHECK_DEADLOCK FALSE
