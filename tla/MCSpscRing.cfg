SPECIFICATION FairSpec
CONSTANTS
  SIZE = 2
  NumItems = 5
  Variants <- SpscQueues
  Nil = Nil
INVARIANTS TypeOK DataRaceFree LifetimeOK SizeAssertion
PROPERTIES EmptyReliable ImplementsBoundedFifo AllDelivered
