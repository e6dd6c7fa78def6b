SPECIFICATION AccountsSpec
CONSTANTS
  p1 = p1
  p2 = p2
  p3 = p3
  c1 = c1
  c2 = c2
  Calls <- MCCalls3
  Conns <- MCConns
  NoConn = NoConn
  MaxKey = 3
  Faults <- AccountFaults
  Parts = {"adapter"}
  RepairServers = {"s1", "s2"}
  RepairAccounts = {"a1"}
  TokenLifetime = 1
  ClockLeeway = 0
  TRAIL_REPAIR_DELAY = 2
  RepairMaxTime = 3
  RepairMaxTokens = 1
  RepairMaxRows = 1
  AdpUsernames = {u1, u2}
  AdpNames = {"n1"}
  AdpMaxCalls = 3
PROPERTY
  AdapterKeepsTheContract
CHECK_DEADLOCK FALSE
