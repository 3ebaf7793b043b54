\* Two peers share input without locking: held codes are counted.
SPECIFICATION Spec
CONSTANTS
  o1 = o1
  o2 = o2
  k1 = k1
  Owners = {o1, o2}
  Keys = {k1}
  Buttons = {}
  Kinds = {}
  Classes <- KeyboardOnly
  Enabled = TRUE
  Locking = FALSE
  QueueSize = 2
  MaxLeases = 3
  MaxCalls = 3
  MaxEvents = 3
  MaxResets = 1
SYMMETRY OwnerSymmetry
CHECK_DEADLOCK FALSE
INVARIANTS QueueConsistent HeldConsistent NoTransitionDropped ResetsSeen
PROPERTIES PressesAreOwn LeaseEndIsReported
