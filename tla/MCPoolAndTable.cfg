SPECIFICATION MCSpec
CONSTANTS
  Threads = {t1, t2, t3}
  Nodes = {n1, n2}
  None = None
  Calls = 3
  u1 = u1
  u2 = u2
  u3 = u3
  TokenHolders = {k1}
  InitialCapacities = {1, 4}
  Empty = Empty
  Gone = Gone
  Lookups = 4
INVARIANTS
  ReferencesExact
  RoomInEveryTable
  SameProducer
PROPERTIES
  ImplementsNodePool
  ProducersArePool
  EveryCallReturns
CHECK_DEADLOCK FALSE
