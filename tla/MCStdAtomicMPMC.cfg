SPECIFICATION Spec
CONSTANTS
  SIZE = 2
  Producers = {p1, p2}
  Consumers = {c1, c2}
  NumItems = 1
  LoadOrder = "acquire"
  StoreOrder = "release"
  Nil = Nil
INVARIANTS DataRaceFree TicketItem
PROPERTY ImplementsBoundedFifo
