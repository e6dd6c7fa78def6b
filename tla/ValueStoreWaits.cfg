SPECIFICATION FairSpec
CONSTANTS
  t1 = t1
  t2 = t2
  t3 = t3
  v1 = v1
  v2 = v2
  mask = mask
  Txs <- MCTxs2
  Values <- MCValues
  MaskedSecret = mask
  Requests <- WaitRequests
  InitialStores <- WaitStores
  MaxId = 4
  EventCap = 2
PROPERTIES
  EveryCallEnds
