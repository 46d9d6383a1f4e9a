CONSTANTS
  Width = 2
  Vals = {1, 2, 3}
  Wild = Wild
  MaxSize = 6
  MaxCapacity = 8
  Matches <- MCMatches
SPECIFICATION Spec
INVARIANTS IsSequence PagesInUse
