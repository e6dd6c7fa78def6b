SPECIFICATION Spec
CONSTANTS
  p1 = p1
  p2 = p2
  p3 = p3
  c1 = c1
  c2 = c2
  Calls <- MCCalls
  Conns <- MCConns
  NoConn = NoConn
  MaxKey = 3
  Faults <- NoFaults
SYMMETRY CallSymmetry
INVARIANTS
  ActiveUrlsWork
CHECK_DEADLOCK FALSE
