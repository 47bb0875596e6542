\* The loop may end: after a shutdown nothing is left to do.
SPECIFICATION Spec
CONSTANTS
  route = route
  slice = slice
  Keys <- MCKeys
  KindOf <- MCKindOf
  MaxVer = 2
INVARIANT DeletedWasKnown
CHECK_DEADLOCK FALSE
