\* Two channels, one of which may replace the other; transfers of one empty
\* format and of three formats, the middle one empty; a content that needs the
\* send buffer to drain.
SPECIFICATION Spec
CONSTANTS
  a = a
  b = b
  Channels = {a, b}
  Declared <- Sizes
  ChunkBytes = 2
  MaxHeaders = 2
  MaxSends = 1
SYMMETRY ChannelSymmetry
VIEW Relevant
CHECK_DEADLOCK FALSE
INVARIANTS AnsweredOnce FormatsExact WriterReleased
