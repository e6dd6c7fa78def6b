SPECIFICATION MutationsSpec
CONSTANTS
  t1 = t1
  t2 = t2
  t3 = t3
  v1 = v1
  v2 = v2
  mask = mask
  Txs <- MCTxs2
  Values <- MCValues
  MaskedSecret = mask
  Requests <- MutationRequests
  InitialStores <- MutationStores
  MaxId = 7
  EventCap = 1
SYMMETRY TxSymmetry
INVARIANTS
  TypeOK
  NoOrphanContents
  OnlyNamedPathsAreDeleted
  OverlappingMutationsSerialize
  SecretsAreSealedToTheirRow
  NoDeadlockOncePathsAreLocked
PROPERTIES
  OnlyUnsharedValuesAreReclassified
  ReplacementLeavesSecretsAlone
  ReplacementIsExact
  CreatedPathsAreLeaves
  CommittedChangesAreRecorded
