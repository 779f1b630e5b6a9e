\* A permit split off another is not asked to leave.
SPECIFICATION Spec
CONSTANTS
  n1 = n1
  n2 = n2
  n3 = n3
  Nodes <- ThreeNodes
  NoNode = NoNode
  Priorities <- Levels
  Compare <- HighestFirst
  CompareNew <- HighestFirst
  Evict = TRUE
  Total = FALSE
  UsizeMax = 7
  Counts = {1, 2}
  MaxSupply = 2
SYMMETRY Symmetry
INVARIANTS
  OutrankedAreAsked
