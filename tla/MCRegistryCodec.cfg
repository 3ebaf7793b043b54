\* One peer, one update, and an encoder that may refuse a bitrate.
SPECIFICATION FairSpec
CONSTANTS
  Conns = {c1}
  Closers = {}
  Updaters = {u1}
  Codecs = {h264, hevc}
  FirstCodec = h264
  None = None
  MaxPeers = 1
  Replace = FALSE
  BitrateMayFail = TRUE
  MaxOwned = 0
  MaxUpdates = 1
CHECK_DEADLOCK FALSE
PROPERTIES StalePeersLeave
