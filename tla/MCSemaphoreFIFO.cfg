\* FIFO<O>: a later request of the same priority is served first.
SPECIFICATION Spec
CONSTANTS
  n1 = n1
  n2 = n2
  n3 = n3
  Nodes <- ThreeNodes
  NoNode = NoNode
  Priorities <- OneLevel
  Compare <- HighestFirst
  CompareNew <- FIFONew
  Evict = FALSE
  Total = FALSE
  UsizeMax = 7
  Counts = {1, 2}
  MaxSupply = 2
SYMMETRY Symmetry
PROPERTIES
  GrantsFIFO
