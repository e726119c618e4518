SPECIFICATION MCSpec
CONSTANTS
  SIZE = 2
  WORD = 16
  Producers = {p1, p2}
  Consumers = {c1, c2}
  NumItems = 1
  Classes <- MpmcQueues
  NIL = NIL
  prod = prod
  cons = cons
  OneSize = 3
  OneWord = 8
  OneItems = 9
SYMMETRY Symmetry
INVARIANTS ElementsExclusive ItemsArriveOnce
PROPERTY OneToOneFifo
