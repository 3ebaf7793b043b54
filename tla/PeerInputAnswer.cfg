\* One channel of each kind, one request, one target event.
SPECIFICATION Spec
CONSTANTS
  Peer = Peer
  MaxControl = 1
  MaxInput = 1
  MaxMotion = 1
  MaxRequests = 1
  MaxEvents = 1
  MaxEnds = 0
CHECK_DEADLOCK FALSE
PROPERTIES AnswerIsTrue
