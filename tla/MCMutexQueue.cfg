SPECIFICATION FairSpec
CONSTANTS
  Producers = {p1, p2}
  Consumers = {c1, c2}
  NumItems = 2
  Capacity = 2
INVARIANT NoLostWakeup
PROPERTY AllJoined
