SPECIFICATION Spec
CONSTANTS
  t1 = t1
  t2 = t2
  t3 = t3
  v1 = v1
  v2 = v2
  mask = mask
  Txs <- MCTxs2
  Values <- MCValues
  MaskedSecret = mask
  Requests <- NestingRequests
  InitialStores <- NestingStores
  MaxId = 4
  EventCap = 2
SYMMETRY TxSymmetry
INVARIANTS
  ValuesAreLeaves
