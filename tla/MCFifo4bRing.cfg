SPECIFICATION Spec
CONSTANTS
  CAPACITY = 2
  NumItems = 5
  Queues <- OnlyFifo4b
  Nil = Nil
INVARIANT InsideRing
