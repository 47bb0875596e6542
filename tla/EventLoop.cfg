\* The loop may end: after a shutdown nothing is left to do.
SPECIFICATION FairSpec
CONSTANTS
  route = route
  slice = slice
  Keys <- MCKeys
  KindOf <- MCKindOf
  MaxVer = 2
INVARIANTS TypeOK NoStuckBatch NoChangeLost UpdatesDescribeStore
PROPERTIES BatchIsolation StoreMonotonic ImplementsBatchDiff Converges ShutdownCompletes
CHECK_DEADLOCK FALSE
