\* Three nodes, two priorities, a plain Ord type, with eviction, without total;
\* requests for no permits at all are accepted too.
SPECIFICATION Spec
CONSTANTS
  n1 = n1
  n2 = n2
  n3 = n3
  Nodes <- ThreeNodes
  NoNode = NoNode
  Priorities <- Levels
  Compare <- HighestFirst
  CompareNew <- HighestFirst
  Evict = TRUE
  Total = FALSE
  UsizeMax = 7
  Counts = {0, 1, 2}
  MaxSupply = 3
SYMMETRY Symmetry
INVARIANTS
  TypeOK
  QueueInOrder
  AlwaysAPlace
  Conservation
  WorkConserving
PROPERTIES
  GrantsInOrder
  OnlySplitsAreUnasked
