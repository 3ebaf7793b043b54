\* One channel of each kind, one of which may end, one request, one target event.
SPECIFICATION FairSpec
CONSTANTS
  Peer = Peer
  MaxControl = 1
  MaxInput = 1
  MaxMotion = 1
  MaxRequests = 1
  MaxEvents = 1
  MaxEnds = 1
CHECK_DEADLOCK FALSE
PROPERTIES ClosedPeerHoldsNothing EndedChannelReleases
