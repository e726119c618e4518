SPECIFICATION AllSpec
CONSTANTS
  Capacity = 3
  Values = {1, 2}
  Nothing = Nothing
  MaxItems = 5
  Threads = {t1, t2, t3}
  SIZE = 3
  WORD = 8
  MaxPushes = 9
  CAPACITY = 2
  NumItems = 7
  Queues <- OnlyRigtorp
  Nil = Nil
INVARIANTS DataRaceFree LifetimeOK
PROPERTIES ContainersImplementFifos LockedImplementsFifo TicketCallsReturn ImplementsBoundedFifo
