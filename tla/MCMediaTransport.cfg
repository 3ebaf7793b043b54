\* One peer that connects once, selects a target once, asks for a keyframe once and gets
\* three frames.
SPECIFICATION Spec
CONSTANTS
  ClockRate = 3
  Second = 7
  MaxTicks = 8
  ProducedAt <- ShortGaps
  Duration <- NoDurations
  AudioCapacity = 2
  MaxSamples = 3
  MaxConnects = 1
  MaxSelects = 1
  MaxAsks = 1
CHECK_DEADLOCK FALSE
INVARIANTS WakeupKept RequestKept
PROPERTIES GateHolds TimestampsExact
