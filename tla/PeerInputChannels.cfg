\* A replaced control channel and a replaced input channel, two requests.
SPECIFICATION Spec
CONSTANTS
  Peer = Peer
  MaxControl = 2
  MaxInput = 2
  MaxMotion = 1
  MaxRequests = 2
  MaxEvents = 0
  MaxEnds = 1
CHECK_DEADLOCK FALSE
INVARIANTS LeaseNeedsChannels
PROPERTIES RevocationHitsNoLease
