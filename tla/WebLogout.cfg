SPECIFICATION Spec
CONSTANTS
  Parts = {"web"}
  SessCalls = {"c1", "c2"}
  SessDeployments <- MCDeployments
  SessFirst <- MCFirst
  SessMaxDeploys = 4
  NatPids = {1, 2}
  NatCodeLife = 3
  SLOW_DOWN = 1
  NatUrls <- MCUrls
  NatBegun <- MCBegun
  NatMaxCommands = 3
  NatMaxTokens = 3
  WebTasks = {"t1", "t2"}
  WebMaxLogins = 2
  WebMaxTokens = 3
  WebMaxActions = 4
  PageTasks = {"t1", "t2"}
  PagePaths = {"/a", "/b"}
  PageFirst = {"/a", "connections"}
  PageMaxActions = 2
  PageMaxRefreshes = 1
  FeedForms <- MCForms
  FeedPages = 2
  FeedMaxRestarts = 3
  TelSizes = {1, 2, 5}
  MAX_BUFFERED_ITEMS = 3
  MAX_BUFFERED_BYTES = 4
  MAX_BATCH_ITEMS = 2
  MAX_BATCH_BYTES = 3
  MAX_UNLOAD_BATCH_BYTES = 2
  MAX_RETRIES = 1
  MAX_ABANDONED_BATCHES = 2
  MAX_CALLS_PER_ACTION = 1
  TelMaxItems = 3
  McpLines <- MCLines
  McpMaxLines = 2
  McpMaxSecrets = 2
INVARIANTS
  LogoutNeedsANewLogin
CHECK_DEADLOCK FALSE
