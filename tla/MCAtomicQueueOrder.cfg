SPECIFICATION Spec
CONSTANTS
  SIZE = 2
  WORD = 16
  Producers = {p1, p2}
  Consumers = {c1}
  NumItems = 3
  Classes <- Optimist
  NIL = NIL
  prod = prod
  cons = cons
  OneSize = 3
  OneWord = 8
  OneItems = 9
INVARIANT ProducerOrder
CHECK_DEADLOCK FALSE
