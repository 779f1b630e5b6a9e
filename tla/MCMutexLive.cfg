\* Three clients, two priorities, LIFO<O>, with eviction.
SPECIFICATION FairSpec
CONSTANTS
  c1 = c1
  c2 = c2
  c3 = c3
  c4 = c4
  NoClient = NoClient
  Clients <- ThreeClients
  Priorities <- Levels
  Compare <- HighestFirst
  CompareNew <- LIFONew
  Evict = TRUE
PROPERTIES
  NewestFirst
  InversionsEnd
  GrantsArrive
