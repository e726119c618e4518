SPECIFICATION BlockingSpec
CONSTANTS
  Waiters = {w1, w2}
  Signallers = {s1, s2}
  Initial = 0
  MaxPermits = 2
  Rounds = 1
  Timeouts = {"forever", "timed", "poll"}
INVARIANT ItemForEveryPermit
PROPERTIES ImplementsSemaphore EveryoneReturns
CHECK_DEADLOCK FALSE
