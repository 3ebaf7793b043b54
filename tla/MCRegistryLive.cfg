\* Replacement mode: two connections for the one place, Close, and an update
\* that holds qualityChangeMu and may fail half-way.
SPECIFICATION FairSpec
CONSTANTS
  Conns = {c1, c2}
  Closers = {k1}
  Updaters = {u1}
  Codecs = {h264}
  FirstCodec = h264
  None = None
  MaxPeers = 1
  Replace = TRUE
  BitrateMayFail = TRUE
  MaxOwned = 0
  MaxUpdates = 1
CHECK_DEADLOCK FALSE
INVARIANTS ReservationsCounted
PROPERTIES ClosingEnds AdmissionDecided
