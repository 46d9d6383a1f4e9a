CONSTANTS
  BlockMin = 4
  BlockMax = 8
  Keys = {1, 2, 3, 4, 5}
  Vals <- MCVals
  Defaults <- MCDefaults
  Zero = 0
  Hash <- MCHash
  Size <- MCSize
  Strings = {TRUE}
  B = 4
  StalePuts = FALSE
  MaxBorrowed = 4
  MaxStrings = 3
SPECIFICATION Spec
INVARIANTS IndexMatchesEntries ProbesEnd KeysOwnedOnce IsMap
