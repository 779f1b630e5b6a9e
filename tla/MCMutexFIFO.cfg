\* Four clients, three priorities, FIFO<LowestFirst<O>>, with eviction.
SPECIFICATION Spec
CONSTANTS
  c1 = c1
  c2 = c2
  c3 = c3
  c4 = c4
  NoClient = NoClient
  Clients <- FourClients
  Priorities <- ThreeLevels
  Compare <- LowestFirst
  CompareNew <- FIFOLowestNew
  Evict = TRUE
SYMMETRY Symmetry
INVARIANTS
  TypeOK
  MutualExclusion
  HeadHasLock
  WaitersInOrder
  AlwaysAPlace
  NoLostWakeup
  OutrankedIsAsked
PROPERTIES
  NoOvertaking
  ImplementsPriorityLock
