\* Three nodes, two priorities, a plain Ord type, with eviction and total.
SPECIFICATION Spec
CONSTANTS
  n1 = n1
  n2 = n2
  n3 = n3
  Nodes <- ThreeNodes
  NoNode = NoNode
  Priorities <- Levels
  Compare <- HighestFirst
  CompareNew <- HighestFirst
  Evict = TRUE
  Total = TRUE
  UsizeMax = 7
  Counts = {1, 2}
  MaxSupply = 3
SYMMETRY Symmetry
INVARIANTS
  Conservation
  WorkConserving
  NoLostWakeup
  OversizedAreRefused
