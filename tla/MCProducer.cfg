SPECIFICATION Spec
CONSTANTS
  Consumers = {c1, c2}
  Blocks = {1, 2, 3, 4}
  None = None
  Pooled = {1}
  BlockSize = 2
  InitialIndexSize = 2
  Kinds = {TRUE, FALSE}
  Enqueues <- FailingCalls
  ExplicitEnqueues <- Calls
  MaxDequeue = 2
  MaxTail = 5
  Spurious = 1
INVARIANTS ClaimsBacked ItemsVisible RightItem ItemsIntact BlockOwnedOnce DestroysRest
VIEW View
CHECK_DEADLOCK FALSE
