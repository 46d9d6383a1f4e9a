CONSTANTS
  Nodes <- MCNodes
  Elements <- MCElements
  Dangling = 99
  Others <- MCOthers
  Matches <- MCMatches
SPECIFICATION Spec
INVARIANTS RedBlack InOrder NodesOwned
