\* Two peers, calls of Close, two updates between two codecs.
SPECIFICATION Spec
CONSTANTS
  Conns = {c1, c2}
  Closers = {k1}
  Updaters = {u1, u2}
  Codecs = {h264, hevc}
  FirstCodec = h264
  None = None
  MaxPeers = 2
  Replace = FALSE
  BitrateMayFail = FALSE
  MaxOwned = 1
  MaxUpdates = 2
SYMMETRY RegistrySymmetry
CHECK_DEADLOCK FALSE
INVARIANTS ActiveMatchesPeers CloseDoneExact NothingOwnedAfterWait
  StalePeersClose
