SPECIFICATION Spec
CONSTANTS
  ann = ann
  bot = bot
  NoName = NoName
  NoPath = NoPath
  NoFilter = NoFilter
  AuditActs <- MCActs
  AuditQueries <- MCQueries
  AuditGrants <- MCAuditGrants
  AuditWindow = 2
  AuditRetention = 0
  AuditPageSize = 1
  AuditMaxTime = 2
  AuditMaxCalls = 3
  AuditMaxPending = 2
  PipeCalls = {"c1", "c2"}
  PipeRequests <- MCRequests
  PipeServed = {"v4"}
  PipeOffers <- MCOffers
  CLIENT_LIST_LIMIT = 2
  CLIENT_VERSION_LENGTH = 2
  PipeKids = {"k1"}
  MIN_REFRESH_INTERVAL = 1
  PipeMaxTime = 1
  PipeMaxRotations = 2
  PipeMaxCalls = 2
INVARIANTS
  WindowsCountTheirAccesses
  ScrollsAreComplete
  UnknownKeysAreNewUnlessDropped
  CallsAreRecordedOnce
PROPERTIES
  PagesRespectGrants
  ExpiredRowsAreSwept
  RemovedKeysAreForgotten
CHECK_DEADLOCK FALSE
