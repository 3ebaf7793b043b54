\* One peer with three events of motion and text, under the fairness of the
\* goroutines: motion merges in order, and nothing waits for ever.
SPECIFICATION FairSpec
CONSTANTS
  o1 = o1
  Owners = {o1}
  Keys = {}
  Buttons = {}
  Kinds <- MotionAndText
  Classes <- BothClasses
  Enabled = TRUE
  Locking = TRUE
  QueueSize = 2
  MaxLeases = 2
  MaxCalls = 2
  MaxEvents = 3
  MaxResets = 1
CHECK_DEADLOCK FALSE
INVARIANTS QueueConsistent
PROPERTIES ImplementsTable EventsSettle CloseReturns ResetEndsLeases
