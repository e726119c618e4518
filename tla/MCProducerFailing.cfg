SPECIFICATION Spec
CONSTANTS
  Consumers = {c1}
  Blocks = {1, 2, 3, 4, 5}
  None = None
  Pooled = {1, 2}
  BlockSize = 2
  InitialIndexSize = 2
  Kinds = {TRUE}
  Enqueues <- FailingCalls
  ExplicitEnqueues <- FailingCalls
  MaxDequeue = 2
  MaxTail = 7
  Spurious = 0
INVARIANTS RightItem
VIEW View
CHECK_DEADLOCK FALSE
