SPECIFICATION FairSpec
CONSTANTS
  Producers = {p1, p2}
  Consumers = {c1, c2}
  NumItems = 1
  Capacity = 2
  Kinds <- AllKinds
INVARIANTS StartTogether DurationSane TotalSum
PROPERTY AllJoined
