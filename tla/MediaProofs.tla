---------------------------- MODULE MediaProofs ----------------------------
(***************************************************************************)
(* The media transport of a peer keeps its promises for any clock, any     *)
(* sample times and any number of samples, connections, targets and        *)
(* requests.  IInv is inductive: there is one lemma per action.            *)
(***************************************************************************)
EXTENDS MediaTransport, TLAPS

USE TrackAssumption, BoundsAssumption
USE DEF Targets, sourceVars, loopVars, connVars, selectVars, gateVars, videoVars, audioVars,
        trackVars

-----------------------------------------------------------------------------
(* The clock of a track.                                                   *)

\* Division with remainder.
LEMMA Division ==
  ASSUME NEW n \in Nat, NEW d \in Nat \ {0}
  PROVE  n \div d \in Nat /\ n % d \in 0 .. d - 1 /\ n - (n % d) = (n \div d) * d
  OBVIOUS

\* Products: they are numbers, distribute, grow with a factor, and cancel.
LEMMA Product == \A m, n \in Nat : m * n \in Nat
  OBVIOUS

LEMMA Distribute == \A m, n, f \in Nat : (m + n) * f = m * f + n * f
  OBVIOUS

LEMMA Swap == \A m, n, f \in Nat : (m * n) * f = (m * f) * n
  OBVIOUS

LEMMA Monotone == \A m, n, f \in Nat : m <= n => m * f <= n * f
  OBVIOUS

LEMMA Cancel == \A m, n, f \in Nat : m * f < n * f => m < n
  OBVIOUS

\* A remainder is carried from one sum to the next.
LEMMA Carry ==
  \A m, n, p, q, x, y \in Nat : m + x = p /\ n + y = q + x => (m + n) + y = p + q
  OBVIOUS

\* One tick is the least time that lasts a tick, and MaximumGap is below half
\* of the range of the timestamp.
LEMMA TickBounds ==
  /\ MinimumTick \in Nat /\ MinimumTick > 0 /\ MaximumGap \in Nat
  /\ MinimumTick * ClockRate >= Second /\ MinimumTick * ClockRate <= Second + ClockRate - 1
  /\ MaximumGap * ClockRate <= (MaxTicks \div 2) * Second
  <1> DEFINE n == Second + ClockRate - 1
             h == (MaxTicks \div 2) * Second
  <1>1. n \in Nat
    OBVIOUS
  <1>2. MaxTicks \div 2 \in Nat /\ h \in Nat
    BY Product
  <1>3. /\ n \div ClockRate \in Nat /\ n % ClockRate \in 0 .. ClockRate - 1
        /\ n - (n % ClockRate) = (n \div ClockRate) * ClockRate
    BY <1>1, Division
  <1>4. /\ h \div ClockRate \in Nat /\ h % ClockRate \in 0 .. ClockRate - 1
        /\ h - (h % ClockRate) = (h \div ClockRate) * ClockRate
    BY <1>2, Division
  <1>5. /\ MinimumTick \in Nat /\ MinimumTick * ClockRate >= Second
        /\ MinimumTick * ClockRate <= Second + ClockRate - 1
    <2>1. MinimumTick = n \div ClockRate
      BY DEF MinimumTick
    <2>2. MinimumTick * ClockRate = n - (n % ClockRate)
      BY <1>1, <1>3, <2>1
    <2> QED BY <1>3, <2>1, <2>2
  <1>6. MaximumGap \in Nat /\ MaximumGap * ClockRate <= h
    <2>1. MaximumGap = h \div ClockRate
      BY DEF MaximumGap
    <2> HIDE DEF h
    <2>2. MaximumGap * ClockRate = h - (h % ClockRate)
      BY <1>2, <1>4, <2>1
    <2> QED BY <1>2, <1>4, <2>1, <2>2
  <1>7. MinimumTick > 0
    BY <1>5
  <1> QED BY <1>5, <1>6, <1>7

\* A sample of the source moves the timestamp by a time that fits.
LEMMA AdvanceFits ==
  ASSUME SourceTypes, TrackTypes, NEW s \in Samples, track.last # 0
  PROVE  /\ TimestampAdvance(s) \in Nat
         /\ TimestampAdvance(s) >= MinimumTick
         /\ TimestampAdvance(s) <= MaximumGap \/ TimestampAdvance(s) = MinimumTick
  <1>1. /\ ProducedAt[s.n] \in Nat /\ ProducedAt[track.last] \in Nat
        /\ Duration[s.n] \in 0 .. MaximumGap
        /\ Duration[s.n] = 0 \/ Duration[s.n] >= MinimumTick
    <2>1. s.n \in 1 .. MaxSamples
      BY DEF Samples
    <2>2. track.last \in 1 .. MaxSamples
      BY DEF TrackTypes
    <2>3. ProducedAt[s.n] \in Nat /\ ProducedAt[track.last] \in Nat
      BY <2>1, <2>2
    <2>4. Duration[s.n] \in 0 .. MaximumGap /\ (Duration[s.n] = 0 \/ Duration[s.n] >= MinimumTick)
      BY <2>1
    <2> QED BY <2>3, <2>4
  <1>2. /\ positiveDiscontinuityDuration(Duration[s.n]) \in Nat
        /\ positiveDiscontinuityDuration(Duration[s.n]) >= MinimumTick
        /\ \/ positiveDiscontinuityDuration(Duration[s.n]) <= MaximumGap
           \/ positiveDiscontinuityDuration(Duration[s.n]) = MinimumTick
    BY <1>1, TickBounds DEF positiveDiscontinuityDuration
  <1> QED BY <1>1, <1>2, TickBounds DEF TimestampAdvance

\* durationToTicks loses nothing: ticks and remainder make up the duration and
\* the remainder before, the timestamp moves, and it does not run over.
LEMMA TicksExact ==
  ASSUME NEW r \in 0 .. Second - 1, NEW d \in Nat, d = 0 \/ d >= MinimumTick,
         d <= MaximumGap \/ d = MinimumTick
  PROVE  /\ durationToTicks(r, d) = [ticks |-> durationToTicks(r, d).ticks,
                                     remainder |-> durationToTicks(r, d).remainder]
         /\ durationToTicks(r, d).ticks \in 0 .. MaxTicks
         /\ durationToTicks(r, d).remainder \in 0 .. Second - 1
         /\ durationToTicks(r, d).ticks * Second + durationToTicks(r, d).remainder
              = d * ClockRate + r
         /\ d # 0 => durationToTicks(r, d).ticks > 0
  <1> DEFINE q == d \div Second
             m == d % Second
             f == m * ClockRate + r
             t == q * ClockRate + (f \div Second)
             h == MaxTicks \div 2
  <1>1. q \in Nat /\ m \in 0 .. Second - 1 /\ d = q * Second + m /\ q * Second \in Nat
    <2>1. d - m = q * Second /\ q \in Nat /\ m \in 0 .. Second - 1
      BY Division
    <2>2. q * Second \in Nat
      BY <2>1, Product
    <2> HIDE DEF q, m
    <2> QED BY <2>1, <2>2
  <1>2. f \in Nat /\ q * ClockRate \in Nat /\ m * ClockRate \in Nat
    <2>1. q * ClockRate \in Nat /\ m * ClockRate \in Nat
      <3> HIDE DEF q, m
      <3> QED BY <1>1, Product
    <2>2. r \in Nat /\ f = m * ClockRate + r
      OBVIOUS
    <2> HIDE DEF q, m, f
    <2> QED BY <2>1, <2>2
  <1>3. /\ f \div Second \in Nat /\ f % Second \in 0 .. Second - 1
        /\ f - (f % Second) = (f \div Second) * Second
    BY <1>2, Division
  <1>4. t \in Nat /\ t * Second + (f % Second) = d * ClockRate + r
    <2>1. t \in Nat
      BY <1>2, <1>3
    <2>2. d * ClockRate = (q * Second) * ClockRate + m * ClockRate
      <3> HIDE DEF q, m
      <3>1. m \in Nat /\ ClockRate \in Nat /\ d = q * Second + m
        BY <1>1
      <3>2. (q * Second + m) * ClockRate = (q * Second) * ClockRate + m * ClockRate
        BY <1>1, <3>1, Distribute
      <3> QED BY <3>1, <3>2
    <2>3. t * Second = (q * ClockRate) * Second + (f \div Second) * Second
      BY <1>2, <1>3, Distribute
    <2>4. (q * ClockRate) * Second = (q * Second) * ClockRate
      BY <1>1, Swap
    <2>5. (q * ClockRate) * Second \in Nat
      BY <1>2, Product
    <2>6. f = m * ClockRate + r
      OBVIOUS
    <2> HIDE DEF q, m, f, t
    <2>7. t * Second = (q * Second) * ClockRate + (f - (f % Second))
      BY <1>3, <2>3, <2>4
    <2>8. (q * Second) * ClockRate \in Nat
      BY <2>4, <2>5
    <2> DEFINE A == (q * Second) * ClockRate
               B == m * ClockRate
               D == d * ClockRate
               T == t * Second
    <2>9. A \in Nat /\ B \in Nat /\ D \in Nat /\ T \in Nat /\ D = A + B /\ f = B + r /\ T = A + (f - (f % Second))
      BY <1>2, <2>1, <2>2, <2>6, <2>7, <2>8, Product
    <2> HIDE DEF A, B, D, T
    <2>10. r \in Nat /\ f % Second \in Nat
      BY <1>3
    <2>11. T + (f % Second) = D + r
      <3> DEFINE x == f % Second
      <3>1. /\ A \in Nat /\ B \in Nat /\ D \in Nat /\ T \in Nat /\ r \in Nat /\ x \in Nat
            /\ D = A + B /\ f = B + r /\ T = A + (f - x)
        BY <2>9, <2>10
      <3> HIDE DEF x
      <3>2. T + x = D + r
        BY ONLY <3>1
      <3> QED BY <3>2 DEF x
    <2> QED BY <2>1, <2>11 DEF T, D
  <1>5. h \in Nat /\ h < MaxTicks /\ 2 < MaxTicks
    OBVIOUS
  <1>6. t < MaxTicks
    <2> HIDE DEF q, m, f, t, h
    <2>1. t * Second <= d * ClockRate + r
      <3>1. t * Second \in Nat
        BY <1>4, Product
      <3> QED BY <1>3, <1>4, <3>1
    <2>2. CASE d <= MaximumGap
      <3>1. d * ClockRate <= h * Second
        <4>1. d * ClockRate <= MaximumGap * ClockRate
          BY <2>2, TickBounds, Monotone
        <4>2. /\ d * ClockRate \in Nat /\ MaximumGap * ClockRate \in Nat
              /\ h * Second \in Nat
          BY <1>5, TickBounds, Product
        <4>3. MaximumGap * ClockRate <= h * Second
          BY TickBounds DEF h
        <4> QED BY <4>1, <4>2, <4>3
      <3>2. (h + 1) * Second = h * Second + Second
        BY <1>5, Distribute
      <3>3. t * Second < (h + 1) * Second
        <4>1. t * Second \in Nat /\ d * ClockRate \in Nat /\ h * Second \in Nat
          BY <1>4, <1>5, Product
        <4> QED BY <2>1, <3>1, <3>2, <4>1
      <3>4. t < h + 1
        BY <3>3, <1>4, <1>5, Cancel
      <3> QED BY <3>4, <1>4, <1>5
    <2>3. CASE d = MinimumTick
      <3>1. d * ClockRate <= Second + ClockRate - 1 /\ d * ClockRate \in Nat
        BY <2>3, TickBounds, Product
      <3>2. t * Second < 3 * Second
        <4>1. t * Second \in Nat
          BY <1>4, Product
        <4> QED BY <2>1, <3>1, <4>1
      <3>3. t < 3
        BY <3>2, <1>4, Cancel
      <3> QED BY <3>3, <1>4, <1>5
    <2> QED BY <2>2, <2>3
  <1>7. durationToTicks(r, d) = [ticks |-> t, remainder |-> f % Second]
    <2>1. q * ClockRate <= t /\ t <= MaxTicks /\ q * ClockRate < MaxTicks
      <3>1. t = q * ClockRate + (f \div Second)
        OBVIOUS
      <3> HIDE DEF q, m, f, t, h
      <3>2. t \in Nat /\ f \div Second \in Nat /\ q * ClockRate \in Nat
        BY <1>2, <1>3, <1>4
      <3> QED BY <1>6, <3>1, <3>2
    <2> QED BY <2>1, <1>2, <1>4 DEF durationToTicks
  <1>8. d # 0 => t > 0
    <2> HIDE DEF q, m, f, t, h
    <2>1. SUFFICES ASSUME d # 0, t = 0 PROVE FALSE
      BY <1>4
    <2>2. d * ClockRate >= MinimumTick * ClockRate
      BY <2>1, TickBounds, Monotone
    <2>3. t * Second = 0
      BY <2>1
    <2>4. d * ClockRate \in Nat /\ MinimumTick * ClockRate \in Nat
      BY TickBounds, Product
    <2>5. d * ClockRate >= Second
      BY <2>2, <2>4, TickBounds
    <2>6. (f % Second) = d * ClockRate + r
      BY <1>3, <1>4, <2>3, <2>4
    <2> QED BY <1>3, <2>4, <2>5, <2>6
  <1> QED
    <2> HIDE DEF q, m, f, t, h
    <2>1. /\ durationToTicks(r, d).ticks = t
          /\ durationToTicks(r, d).remainder = f % Second
      BY <1>7
    <2>2. t \in 0 .. MaxTicks
      BY <1>4, <1>6
    <2> QED BY <1>3, <1>4, <1>7, <1>8, <2>1, <2>2

-----------------------------------------------------------------------------
(* Every step preserves the invariant.                                     *)

LEMMA ConnectGateInv ==
  ASSUME IInv, ConnectGate
  PROVE  IInv'
  <1> USE DEF ConnectGate, GateCloses, IInv, TypeOK, Samples, NoSample
  <1>1. SourceTypes' /\ LoopTypes' /\ ConnTypes' /\ SelectTypes'
    BY DEF SourceTypes, LoopTypes, ConnTypes, SelectTypes
  <1>2. VideoTypes' /\ AudioTypes' /\ TrackTypes'
    BY DEF VideoTypes, AudioTypes, TrackTypes, LoopTypes, SelectTypes, SourceTypes
  <1>3. WakeupKept' /\ TokenReturned' /\ RequestKept'
    BY DEF LoopTypes, VideoTypes, AudioTypes, WakeupKept, TokenReturned, RequestKept
  <1>4. TimeKept'
    BY DEF TrackTypes, TimeKept
  <1>5. GateSound' /\ FramesFollow' /\ GatedFirst'
    <2>1. epoch' \in Nat /\ epoch' # 0 /\ needsKey'
      BY DEF SelectTypes
    <2>2. epoch' \in raced' \/ loop'.at = "select"
      BY DEF SelectTypes
    <2>3. raced \subseteq raced' /\ pending' \subseteq pending /\ Delivered' = Delivered
      BY DEF Delivered, PassOf
    <2>4. GateSound'
      BY <2>1, <2>2 DEF GateSound
    <2>5. FramesFollow' /\ GatedFirst'
      BY <2>1, <2>3 DEF FramesFollow, GatedFirst, PassOf
    <2> QED BY <2>4, <2>5
  <1> QED BY <1>1, <1>2, <1>3, <1>4, <1>5

LEMMA ConnectOpenInv ==
  ASSUME IInv, ConnectOpen
  PROVE  IInv'
  <1> USE DEF ConnectOpen, RequestKeyframe, IInv, TypeOK, Samples, NoSample
  <1>1. SourceTypes' /\ LoopTypes' /\ ConnTypes' /\ SelectTypes'
    <2>1. SourceTypes' /\ SelectTypes'
      BY DEF SourceTypes, SelectTypes
    <2>2. LoopTypes'
      BY DEF LoopTypes, SourceTypes
    <2>3. ConnTypes'
      BY DEF ConnTypes
    <2> QED BY <2>1, <2>2, <2>3
  <1>2. VideoTypes' /\ AudioTypes' /\ TrackTypes'
    BY DEF VideoTypes, AudioTypes, TrackTypes, LoopTypes, SelectTypes, SourceTypes
  <1>3. WakeupKept' /\ TokenReturned' /\ RequestKept'
    BY DEF LoopTypes, VideoTypes, AudioTypes, WakeupKept, TokenReturned, RequestKept
  <1>4. TimeKept'
    BY DEF TrackTypes, TimeKept
  <1>5. GateSound' /\ FramesFollow' /\ GatedFirst'
    BY DEF LoopTypes, SelectTypes, VideoTypes, SourceTypes, ConnTypes, GateSound, FramesFollow, GatedFirst, Granted, Delivered, PassOf, Pass
  <1> QED BY <1>1, <1>2, <1>3, <1>4, <1>5

LEMMA AskKeyframeInv ==
  ASSUME IInv, NEW who \in {"own", "other"}, AskKeyframe(who)
  PROVE  IInv'
  <1> USE DEF AskKeyframe, RequestKeyframe, IInv, TypeOK, Samples, NoSample
  <1>1. SourceTypes' /\ LoopTypes' /\ ConnTypes' /\ SelectTypes'
    BY DEF SourceTypes, LoopTypes, ConnTypes, SelectTypes
  <1>2. VideoTypes' /\ AudioTypes' /\ TrackTypes'
    BY DEF VideoTypes, AudioTypes, TrackTypes, LoopTypes, SelectTypes, SourceTypes
  <1>3. WakeupKept' /\ TokenReturned' /\ RequestKept'
    BY DEF LoopTypes, VideoTypes, AudioTypes, WakeupKept, TokenReturned, RequestKept
  <1>4. TimeKept'
    BY DEF TrackTypes, TimeKept
  <1>5. GateSound' /\ FramesFollow' /\ GatedFirst'
    BY DEF LoopTypes, SelectTypes, VideoTypes, SourceTypes, ConnTypes, GateSound, FramesFollow, GatedFirst, Granted, Delivered, PassOf, Pass
  <1> QED BY <1>1, <1>2, <1>3, <1>4, <1>5

LEMMA CloseInv ==
  ASSUME IInv, Close
  PROVE  IInv'
  <1> USE DEF Close, IInv, TypeOK, Samples, NoSample
  <1>1. SourceTypes' /\ LoopTypes' /\ ConnTypes' /\ SelectTypes'
    <2>1. SourceTypes' /\ SelectTypes'
      BY DEF SourceTypes, SelectTypes
    <2>2. LoopTypes'
      BY DEF LoopTypes, SourceTypes
    <2>3. ConnTypes'
      BY DEF ConnTypes
    <2> QED BY <2>1, <2>2, <2>3
  <1>2. VideoTypes' /\ AudioTypes' /\ TrackTypes'
    BY DEF VideoTypes, AudioTypes, TrackTypes, LoopTypes, SelectTypes, SourceTypes
  <1>3. WakeupKept' /\ TokenReturned' /\ RequestKept'
    BY DEF LoopTypes, VideoTypes, AudioTypes, WakeupKept, TokenReturned, RequestKept
  <1>4. TimeKept'
    BY DEF TrackTypes, TimeKept
  <1>5. GateSound' /\ FramesFollow' /\ GatedFirst'
    BY DEF LoopTypes, SelectTypes, VideoTypes, SourceTypes, ConnTypes, GateSound, FramesFollow, GatedFirst, Granted, Delivered, PassOf, Pass
  <1> QED BY <1>1, <1>2, <1>3, <1>4, <1>5

LEMMA SelectGateInv ==
  ASSUME IInv, SelectGate
  PROVE  IInv'
  <1> USE DEF SelectGate, GateCloses, IInv, TypeOK, Samples, NoSample
  <1>1. SourceTypes' /\ LoopTypes' /\ ConnTypes' /\ SelectTypes'
    BY DEF SourceTypes, LoopTypes, ConnTypes, SelectTypes
  <1>2. VideoTypes' /\ AudioTypes' /\ TrackTypes'
    BY DEF VideoTypes, AudioTypes, TrackTypes, LoopTypes, SelectTypes, SourceTypes
  <1>3. WakeupKept' /\ TokenReturned' /\ RequestKept'
    BY DEF LoopTypes, VideoTypes, AudioTypes, WakeupKept, TokenReturned, RequestKept
  <1>4. TimeKept'
    BY DEF TrackTypes, TimeKept
  <1>5. GateSound' /\ FramesFollow' /\ GatedFirst'
    <2>1. epoch' \in Nat /\ epoch' # 0 /\ needsKey'
      BY DEF SelectTypes
    <2>2. epoch' \in raced' \/ loop'.at = "select"
      BY DEF SelectTypes
    <2>3. raced \subseteq raced' /\ pending' \subseteq pending /\ Delivered' = Delivered
      BY DEF Delivered, PassOf
    <2>4. GateSound'
      BY <2>1, <2>2 DEF GateSound
    <2>5. FramesFollow' /\ GatedFirst'
      BY <2>1, <2>3 DEF FramesFollow, GatedFirst, PassOf
    <2> QED BY <2>4, <2>5
  <1> QED BY <1>1, <1>2, <1>3, <1>4, <1>5

LEMMA SelectClearInv ==
  ASSUME IInv, SelectClear
  PROVE  IInv'
  <1> USE DEF SelectClear, IInv, TypeOK, Samples, NoSample
  <1>1. SourceTypes' /\ LoopTypes' /\ ConnTypes' /\ SelectTypes'
    BY DEF SourceTypes, LoopTypes, ConnTypes, SelectTypes
  <1>2. VideoTypes' /\ AudioTypes' /\ TrackTypes'
    BY DEF VideoTypes, AudioTypes, TrackTypes, LoopTypes, SelectTypes, SourceTypes
  <1>3. WakeupKept' /\ TokenReturned' /\ RequestKept'
    BY DEF LoopTypes, VideoTypes, AudioTypes, WakeupKept, TokenReturned, RequestKept
  <1>4. TimeKept'
    BY DEF TrackTypes, TimeKept
  <1>5. GateSound' /\ FramesFollow' /\ GatedFirst'
    BY DEF LoopTypes, SelectTypes, VideoTypes, SourceTypes, ConnTypes, GateSound, FramesFollow, GatedFirst, Granted, Delivered, PassOf, Pass
  <1> QED BY <1>1, <1>2, <1>3, <1>4, <1>5

LEMMA SelectSourceInv ==
  ASSUME IInv, SelectSource
  PROVE  IInv'
  <1> USE DEF SelectSource, IInv, TypeOK, Samples, NoSample
  <1>1. SourceTypes' /\ LoopTypes' /\ ConnTypes' /\ SelectTypes'
    BY DEF SourceTypes, LoopTypes, ConnTypes, SelectTypes
  <1>2. VideoTypes' /\ AudioTypes' /\ TrackTypes'
    BY DEF VideoTypes, AudioTypes, TrackTypes, LoopTypes, SelectTypes, SourceTypes
  <1>3. WakeupKept' /\ TokenReturned' /\ RequestKept'
    BY DEF LoopTypes, VideoTypes, AudioTypes, WakeupKept, TokenReturned, RequestKept
  <1>4. TimeKept'
    BY DEF TrackTypes, TimeKept
  <1>5. GateSound' /\ FramesFollow' /\ GatedFirst'
    BY DEF LoopTypes, SelectTypes, VideoTypes, SourceTypes, ConnTypes, GateSound, FramesFollow, GatedFirst, Granted, Delivered, PassOf, Pass
  <1> QED BY <1>1, <1>2, <1>3, <1>4, <1>5

LEMMA ReceiveVideoInv ==
  ASSUME IInv, NEW key \in BOOLEAN, ReceiveVideo(key)
  PROVE  IInv'
  <1> USE DEF ReceiveVideo, IInv, TypeOK, Samples, NoSample
  <1>1. SourceTypes' /\ LoopTypes' /\ ConnTypes' /\ SelectTypes'
    <2>1. SourceTypes' /\ SelectTypes'
      BY DEF SourceTypes, SelectTypes
    <2>2. LoopTypes'
      BY DEF LoopTypes, SourceTypes
    <2>3. ConnTypes'
      BY DEF ConnTypes
    <2> QED BY <2>1, <2>2, <2>3
  <1>2. VideoTypes' /\ AudioTypes' /\ TrackTypes'
    BY DEF VideoTypes, AudioTypes, TrackTypes, LoopTypes, SelectTypes, SourceTypes
  <1>3. WakeupKept' /\ TokenReturned' /\ RequestKept'
    BY DEF LoopTypes, VideoTypes, AudioTypes, WakeupKept, TokenReturned, RequestKept
  <1>4. TimeKept'
    BY DEF TrackTypes, TimeKept
  <1>5. GateSound' /\ FramesFollow' /\ GatedFirst'
    BY DEF LoopTypes, SelectTypes, VideoTypes, SourceTypes, ConnTypes, GateSound, FramesFollow, GatedFirst, Granted, Delivered, PassOf, Pass
  <1> QED BY <1>1, <1>2, <1>3, <1>4, <1>5

LEMMA EnqueueCheckInv ==
  ASSUME IInv, EnqueueCheck
  PROVE  IInv'
  <1> USE DEF EnqueueCheck, LoopAt, IInv, TypeOK, Samples, NoSample
  <1>1. SourceTypes' /\ LoopTypes' /\ ConnTypes' /\ SelectTypes'
    BY DEF SourceTypes, LoopTypes, ConnTypes, SelectTypes
  <1>2. VideoTypes' /\ AudioTypes' /\ TrackTypes'
    BY DEF VideoTypes, AudioTypes, TrackTypes, LoopTypes, SelectTypes, SourceTypes
  <1>3. WakeupKept' /\ TokenReturned' /\ RequestKept'
    BY DEF LoopTypes, VideoTypes, AudioTypes, WakeupKept, TokenReturned, RequestKept
  <1>4. TimeKept'
    BY DEF TrackTypes, TimeKept
  <1>5. GateSound' /\ FramesFollow' /\ GatedFirst'
    BY DEF LoopTypes, SelectTypes, VideoTypes, SourceTypes, ConnTypes, GateSound, FramesFollow, GatedFirst, Granted, Delivered, PassOf, Pass
  <1> QED BY <1>1, <1>2, <1>3, <1>4, <1>5

LEMMA EnqueuePutInv ==
  ASSUME IInv, EnqueuePut
  PROVE  IInv'
  <1> USE DEF EnqueuePut, LoopAt, MayPut, IInv, TypeOK, Samples, NoSample
  <1>1. SourceTypes' /\ LoopTypes' /\ ConnTypes' /\ SelectTypes'
    BY DEF SourceTypes, LoopTypes, ConnTypes, SelectTypes
  <1>2. VideoTypes' /\ AudioTypes' /\ TrackTypes'
    BY DEF VideoTypes, AudioTypes, TrackTypes, LoopTypes, SelectTypes, SourceTypes
  <1>3. WakeupKept' /\ TokenReturned' /\ RequestKept'
    BY DEF LoopTypes, VideoTypes, AudioTypes, WakeupKept, TokenReturned, RequestKept
  <1>4. TimeKept'
    BY DEF TrackTypes, TimeKept
  <1>5. GateSound' /\ FramesFollow' /\ GatedFirst'
    <2> DEFINE s == [loop.sample EXCEPT !.epoch = epoch]
    <2>1. s \in Samples /\ s.key = loop.sample.key /\ s.target = loop.sample.target
          /\ s.epoch = epoch
      BY DEF LoopTypes, SelectTypes
    <2>2. pending' = {s} /\ Delivered' = Delivered /\ Pass' = Pass
      BY DEF Delivered, PassOf, Pass
    <2> HIDE DEF s
    <2>3. GateSound'
      <3>1. SUFFICES ASSUME epoch \notin raced, writer # "done",
                           (~needsKey /\ epoch # 0) \/ loop.sample.key
                    PROVE  Granted'
        BY DEF GateSound, LoopTypes
      <3>2. s.target = target
        BY <2>1, <3>1 DEF GateSound
      <3>3. CASE s.key
        BY <2>1, <2>2, <3>2, <3>3 DEF Granted, PassOf, Pass
      <3>4. CASE ~s.key
        BY <2>1, <2>2, <3>1, <3>4 DEF GateSound, Granted
      <3> QED BY <3>3, <3>4
    <2>4. FramesFollow'
      <3>1. SUFFICES ASSUME writer # "done", ~s.key, epoch \notin raced
                    PROVE  Delivered = PassOf(s)
        BY <2>1, <2>2 DEF FramesFollow, PassOf
      <3>2. Granted /\ s.target = target
        BY <2>1, <3>1 DEF GateSound
      <3>3. Delivered = Pass
        BY <2>1, <3>1, <3>2 DEF Granted
      <3> QED BY <2>1, <3>2, <3>3 DEF PassOf, Pass
    <2>5. GatedFirst'
      BY <2>1, <2>2 DEF GatedFirst
    <2> QED BY <2>3, <2>4, <2>5
  <1> QED BY <1>1, <1>2, <1>3, <1>4, <1>5

LEMMA EnqueueRefusedInv ==
  ASSUME IInv, EnqueueRefused
  PROVE  IInv'
  <1> USE DEF EnqueueRefused, LoopAt, MayPut, IInv, TypeOK, Samples, NoSample
  <1>1. SourceTypes' /\ LoopTypes' /\ ConnTypes' /\ SelectTypes'
    BY DEF SourceTypes, LoopTypes, ConnTypes, SelectTypes
  <1>2. VideoTypes' /\ AudioTypes' /\ TrackTypes'
    BY DEF VideoTypes, AudioTypes, TrackTypes, LoopTypes, SelectTypes, SourceTypes
  <1>3. WakeupKept' /\ TokenReturned' /\ RequestKept'
    BY DEF LoopTypes, VideoTypes, AudioTypes, WakeupKept, TokenReturned, RequestKept
  <1>4. TimeKept'
    BY DEF TrackTypes, TimeKept
  <1>5. GateSound' /\ FramesFollow' /\ GatedFirst'
    BY DEF LoopTypes, SelectTypes, VideoTypes, SourceTypes, ConnTypes, GateSound, FramesFollow, GatedFirst, Granted, Delivered, PassOf, Pass
  <1> QED BY <1>1, <1>2, <1>3, <1>4, <1>5

LEMMA EnqueueOpenInv ==
  ASSUME IInv, EnqueueOpen
  PROVE  IInv'
  <1> USE DEF EnqueueOpen, LoopAt, IInv, TypeOK, Samples, NoSample
  <1>1. SourceTypes' /\ LoopTypes' /\ ConnTypes' /\ SelectTypes'
    BY DEF SourceTypes, LoopTypes, ConnTypes, SelectTypes
  <1>2. VideoTypes' /\ AudioTypes' /\ TrackTypes'
    BY DEF VideoTypes, AudioTypes, TrackTypes, LoopTypes, SelectTypes, SourceTypes
  <1>3. WakeupKept' /\ TokenReturned' /\ RequestKept'
    BY DEF LoopTypes, VideoTypes, AudioTypes, WakeupKept, TokenReturned, RequestKept
  <1>4. TimeKept'
    BY DEF TrackTypes, TimeKept
  <1>5. GateSound' /\ FramesFollow' /\ GatedFirst'
    BY DEF LoopTypes, SelectTypes, VideoTypes, SourceTypes, ConnTypes, GateSound, FramesFollow, GatedFirst, Granted, Delivered, PassOf, Pass
  <1> QED BY <1>1, <1>2, <1>3, <1>4, <1>5

LEMMA LoopKeyframeInv ==
  ASSUME IInv, LoopKeyframe
  PROVE  IInv'
  <1> USE DEF LoopKeyframe, IInv, TypeOK, Samples, NoSample
  <1>1. SourceTypes' /\ LoopTypes' /\ ConnTypes' /\ SelectTypes'
    BY DEF SourceTypes, LoopTypes, ConnTypes, SelectTypes
  <1>2. VideoTypes' /\ AudioTypes' /\ TrackTypes'
    BY DEF VideoTypes, AudioTypes, TrackTypes, LoopTypes, SelectTypes, SourceTypes
  <1>3. WakeupKept' /\ TokenReturned' /\ RequestKept'
    BY DEF LoopTypes, VideoTypes, AudioTypes, WakeupKept, TokenReturned, RequestKept
  <1>4. TimeKept'
    BY DEF TrackTypes, TimeKept
  <1>5. GateSound' /\ FramesFollow' /\ GatedFirst'
    BY DEF LoopTypes, SelectTypes, VideoTypes, SourceTypes, ConnTypes, GateSound, FramesFollow, GatedFirst, Granted, Delivered, PassOf, Pass
  <1> QED BY <1>1, <1>2, <1>3, <1>4, <1>5

LEMMA LoopUnavailableInv ==
  ASSUME IInv, LoopUnavailable
  PROVE  IInv'
  <1> USE DEF LoopUnavailable, GateCloses, IInv, TypeOK, Samples, NoSample
  <1>1. SourceTypes' /\ LoopTypes' /\ ConnTypes' /\ SelectTypes'
    BY DEF SourceTypes, LoopTypes, ConnTypes, SelectTypes
  <1>2. VideoTypes' /\ AudioTypes' /\ TrackTypes'
    BY DEF VideoTypes, AudioTypes, TrackTypes, LoopTypes, SelectTypes, SourceTypes
  <1>3. WakeupKept' /\ TokenReturned' /\ RequestKept'
    BY DEF LoopTypes, VideoTypes, AudioTypes, WakeupKept, TokenReturned, RequestKept
  <1>4. TimeKept'
    BY DEF TrackTypes, TimeKept
  <1>5. GateSound' /\ FramesFollow' /\ GatedFirst'
    <2>1. epoch' \in Nat /\ epoch' # 0 /\ needsKey'
      BY DEF SelectTypes
    <2>2. epoch' \in raced' \/ loop'.at = "select"
      BY DEF SelectTypes
    <2>3. raced \subseteq raced' /\ pending' \subseteq pending /\ Delivered' = Delivered
      BY DEF Delivered, PassOf
    <2>4. GateSound'
      BY <2>1, <2>2 DEF GateSound
    <2>5. FramesFollow' /\ GatedFirst'
      BY <2>1, <2>3 DEF FramesFollow, GatedFirst, PassOf
    <2> QED BY <2>4, <2>5
  <1> QED BY <1>1, <1>2, <1>3, <1>4, <1>5

LEMMA LoopStopInv ==
  ASSUME IInv, LoopStop
  PROVE  IInv'
  <1> USE DEF LoopStop, LoopAt, IInv, TypeOK, Samples, NoSample
  <1>1. SourceTypes' /\ LoopTypes' /\ ConnTypes' /\ SelectTypes'
    BY DEF SourceTypes, LoopTypes, ConnTypes, SelectTypes
  <1>2. VideoTypes' /\ AudioTypes' /\ TrackTypes'
    BY DEF VideoTypes, AudioTypes, TrackTypes, LoopTypes, SelectTypes, SourceTypes
  <1>3. WakeupKept' /\ TokenReturned' /\ RequestKept'
    BY DEF LoopTypes, VideoTypes, AudioTypes, WakeupKept, TokenReturned, RequestKept
  <1>4. TimeKept'
    BY DEF TrackTypes, TimeKept
  <1>5. GateSound' /\ FramesFollow' /\ GatedFirst'
    BY DEF LoopTypes, SelectTypes, VideoTypes, SourceTypes, ConnTypes, GateSound, FramesFollow, GatedFirst, Granted, Delivered, PassOf, Pass
  <1> QED BY <1>1, <1>2, <1>3, <1>4, <1>5

LEMMA ReceiveAudioInv ==
  ASSUME IInv, ReceiveAudio
  PROVE  IInv'
  <1> USE DEF ReceiveAudio, IInv, TypeOK, Samples, NoSample
  <1>1. SourceTypes' /\ LoopTypes' /\ ConnTypes' /\ SelectTypes'
    BY DEF SourceTypes, LoopTypes, ConnTypes, SelectTypes
  <1>2. VideoTypes' /\ AudioTypes' /\ TrackTypes'
    <2> DEFINE kept == IF Len(audio) = AudioCapacity THEN Tail(audio) ELSE audio
    <2>1. kept \in Seq(Nat) /\ Len(kept) \in Nat /\ Len(kept) < AudioCapacity
      BY DEF AudioTypes
    <2>2. Append(kept, audioFrames + 1) \in Seq(Nat)
          /\ Len(Append(kept, audioFrames + 1)) <= AudioCapacity
      BY <2>1 DEF SourceTypes
    <2>3. VideoTypes' /\ TrackTypes'
      BY DEF VideoTypes, TrackTypes
    <2> QED BY <2>2, <2>3 DEF AudioTypes
  <1>3. WakeupKept' /\ TokenReturned' /\ RequestKept'
    BY DEF LoopTypes, VideoTypes, AudioTypes, WakeupKept, TokenReturned, RequestKept
  <1>4. TimeKept'
    BY DEF TrackTypes, TimeKept
  <1>5. GateSound' /\ FramesFollow' /\ GatedFirst'
    BY DEF LoopTypes, SelectTypes, VideoTypes, SourceTypes, ConnTypes, GateSound, FramesFollow, GatedFirst, Granted, Delivered, PassOf, Pass
  <1> QED BY <1>1, <1>2, <1>3, <1>4, <1>5

LEMMA TakeVideoInv ==
  ASSUME IInv, TakeVideo
  PROVE  IInv'
  <1> USE DEF TakeVideo, IInv, TypeOK, Samples, NoSample
  <1>1. SourceTypes' /\ LoopTypes' /\ ConnTypes' /\ SelectTypes'
    BY DEF SourceTypes, LoopTypes, ConnTypes, SelectTypes
  <1>2. VideoTypes' /\ AudioTypes' /\ TrackTypes'
    BY DEF VideoTypes, AudioTypes, TrackTypes, LoopTypes, SelectTypes, SourceTypes
  <1>3. WakeupKept' /\ TokenReturned' /\ RequestKept'
    BY DEF LoopTypes, VideoTypes, AudioTypes, WakeupKept, TokenReturned, RequestKept
  <1>4. TimeKept'
    BY DEF TrackTypes, TimeKept
  <1>5. GateSound' /\ FramesFollow' /\ GatedFirst'
    <2>1. CASE pending = {} /\ writer' = "wait" /\ UNCHANGED inHand
      BY <2>1 DEF GateSound, FramesFollow, GatedFirst, Granted, Delivered, Pass
    <2>2. ASSUME NEW s \in pending, writer' = "write", inHand' = s
          PROVE  GateSound' /\ FramesFollow' /\ GatedFirst'
      <3>1. pending = {s} /\ Delivered = keyed
        BY <2>2 DEF VideoTypes, Delivered
      <3>2. Delivered' = IF s.key THEN PassOf(s) ELSE keyed
        BY <2>2 DEF Delivered, PassOf
      <3>3. Granted => Granted'
        BY <3>1, <3>2 DEF Granted, Pass, PassOf
      <3>4. GateSound'
        BY <2>2, <3>3 DEF GateSound
      <3>5. FramesFollow' /\ GatedFirst'
        BY <2>2, <3>1 DEF FramesFollow, GatedFirst, PassOf
      <3> QED BY <3>4, <3>5
    <2> QED BY <2>1, <2>2
  <1> QED BY <1>1, <1>2, <1>3, <1>4, <1>5

LEMMA WaitVideoInv ==
  ASSUME IInv, WaitVideo
  PROVE  IInv'
  <1> USE DEF WaitVideo, IInv, TypeOK, Samples, NoSample
  <1>1. SourceTypes' /\ LoopTypes' /\ ConnTypes' /\ SelectTypes'
    BY DEF SourceTypes, LoopTypes, ConnTypes, SelectTypes
  <1>2. VideoTypes' /\ AudioTypes' /\ TrackTypes'
    BY DEF VideoTypes, AudioTypes, TrackTypes, LoopTypes, SelectTypes, SourceTypes
  <1>3. WakeupKept' /\ TokenReturned' /\ RequestKept'
    BY DEF LoopTypes, VideoTypes, AudioTypes, WakeupKept, TokenReturned, RequestKept
  <1>4. TimeKept'
    BY DEF TrackTypes, TimeKept
  <1>5. GateSound' /\ FramesFollow' /\ GatedFirst'
    BY DEF LoopTypes, SelectTypes, VideoTypes, SourceTypes, ConnTypes, GateSound, FramesFollow, GatedFirst, Granted, Delivered, PassOf, Pass
  <1> QED BY <1>1, <1>2, <1>3, <1>4, <1>5

LEMMA EndVideoInv ==
  ASSUME IInv, EndVideo
  PROVE  IInv'
  <1> USE DEF EndVideo, IInv, TypeOK, Samples, NoSample
  <1>1. SourceTypes' /\ LoopTypes' /\ ConnTypes' /\ SelectTypes'
    BY DEF SourceTypes, LoopTypes, ConnTypes, SelectTypes
  <1>2. VideoTypes' /\ AudioTypes' /\ TrackTypes'
    BY DEF VideoTypes, AudioTypes, TrackTypes, LoopTypes, SelectTypes, SourceTypes
  <1>3. WakeupKept' /\ TokenReturned' /\ RequestKept'
    BY DEF LoopTypes, VideoTypes, AudioTypes, WakeupKept, TokenReturned, RequestKept
  <1>4. TimeKept'
    BY DEF TrackTypes, TimeKept
  <1>5. GateSound' /\ FramesFollow' /\ GatedFirst'
    BY DEF LoopTypes, SelectTypes, VideoTypes, SourceTypes, ConnTypes, GateSound, FramesFollow, GatedFirst, Granted, Delivered, PassOf, Pass
  <1> QED BY <1>1, <1>2, <1>3, <1>4, <1>5

LEMMA WriteVideoInv ==
  ASSUME IInv, WriteVideo
  PROVE  IInv'
  <1> USE DEF WriteVideo, IInv, TypeOK, Samples, NoSample
  <1>1. SourceTypes' /\ LoopTypes' /\ ConnTypes' /\ SelectTypes'
    BY DEF SourceTypes, LoopTypes, ConnTypes, SelectTypes
  <1> DEFINE d == TimestampAdvance(inHand)
             rtp == durationToTicks(track.remainder, d)
  <1>a. inHand \in Samples /\ track.remainder \in 0 .. Second - 1
    BY DEF VideoTypes, TrackTypes
  <1>b. d \in Nat /\ (d = 0 \/ d >= MinimumTick) /\ (d <= MaximumGap \/ d = MinimumTick)
    <2>1. CASE track.last = 0
      BY <2>1, TickBounds DEF TimestampAdvance
    <2>2. CASE track.last # 0
      BY <2>2, <1>a, AdvanceFits
    <2> QED BY <2>1, <2>2
  <1> HIDE DEF d
  <1>c. /\ rtp.ticks \in 0 .. MaxTicks /\ rtp.remainder \in 0 .. Second - 1
        /\ rtp.ticks * Second + rtp.remainder = d * ClockRate + track.remainder
    BY <1>a, <1>b, TicksExact
  <1>d. /\ track' = [ticks |-> track.ticks + rtp.ticks, remainder |-> rtp.remainder,
                     last |-> inHand.n]
        /\ advanced' = advanced + d
    BY DEF d
  <1> HIDE DEF rtp
  <1>2. VideoTypes' /\ AudioTypes' /\ TrackTypes'
    <2>1. VideoTypes' /\ AudioTypes'
      BY DEF VideoTypes, AudioTypes
    <2>2. track' \in [ticks : Nat, remainder : 0 .. Second - 1, last : 0 .. MaxSamples]
      <3>1. inHand.n \in 0 .. MaxSamples /\ track.ticks + rtp.ticks \in Nat
        <4>1. inHand.n \in 0 .. MaxSamples
          BY <1>a
        <4>2. rtp.ticks \in Nat
          BY <1>c
        <4>3. track.ticks \in Nat
          BY DEF TrackTypes
        <4>4. track.ticks + rtp.ticks \in Nat
          BY ONLY <4>2, <4>3
        <4> QED BY <4>1, <4>4
      <3> QED BY <1>c, <1>d, <3>1
    <2>3. keyed' \in [epoch : Nat, target : Targets] /\ advanced' \in Nat
      <3>1. inHand.epoch \in Nat /\ inHand.target \in Targets
        BY <1>a
      <3>2. keyed' \in [epoch : Nat, target : Targets]
        BY <3>1 DEF TrackTypes
      <3> QED BY <1>b, <1>d, <3>2 DEF TrackTypes
    <2> QED BY <2>1, <2>2, <2>3 DEF TrackTypes
  <1>3. WakeupKept' /\ TokenReturned' /\ RequestKept'
    BY DEF LoopTypes, VideoTypes, AudioTypes, WakeupKept, TokenReturned, RequestKept
  <1>4. TimeKept'
    <2>1. /\ track.ticks \in Nat /\ advanced \in Nat
          /\ track'.ticks = track.ticks + rtp.ticks /\ track'.remainder = rtp.remainder
      BY <1>d DEF TrackTypes
    <2>2. /\ (track.ticks + rtp.ticks) * Second = track.ticks * Second + rtp.ticks * Second
          /\ (advanced + d) * ClockRate = advanced * ClockRate + d * ClockRate
      <3>1. rtp.ticks \in Nat /\ Second \in Nat /\ ClockRate \in Nat
        BY <1>c
      <3> QED BY <1>b, <2>1, <3>1, Distribute
    <2>3. /\ track.ticks * Second \in Nat /\ rtp.ticks * Second \in Nat
          /\ advanced * ClockRate \in Nat /\ d * ClockRate \in Nat
      <3>1. rtp.ticks \in Nat /\ Second \in Nat /\ ClockRate \in Nat
        BY <1>c
      <3> QED BY <1>b, <2>1, <3>1, Product
    <2>4. track.ticks * Second + track.remainder = advanced * ClockRate
      BY DEF TimeKept
    <2>5. track'.ticks * Second + track'.remainder = advanced' * ClockRate
      <3> DEFINE A == track.ticks * Second
                 B == rtp.ticks * Second
                 C == advanced * ClockRate
                 D == d * ClockRate
      <3>1. /\ A \in Nat /\ B \in Nat /\ C \in Nat /\ D \in Nat
            /\ track'.ticks * Second = A + B /\ advanced' * ClockRate = C + D
            /\ A + track.remainder = C
        BY <1>d, <2>1, <2>2, <2>3, <2>4
      <3>2. B + rtp.remainder = D + track.remainder
        BY <1>c
      <3>3. rtp.remainder \in Nat /\ track.remainder \in Nat /\ track'.remainder = rtp.remainder
        BY <1>a, <1>c, <2>1
      <3> HIDE DEF A, B, C, D
      <3> DEFINE x == track.remainder
                 y == rtp.remainder
      <3>4. /\ A \in Nat /\ B \in Nat /\ C \in Nat /\ D \in Nat /\ x \in Nat /\ y \in Nat
            /\ A + x = C /\ B + y = D + x
        BY <3>1, <3>2, <3>3
      <3> HIDE DEF x, y
      <3>5. (A + B) + y = C + D
        BY <3>4, Carry
      <3> QED BY <3>1, <3>3, <3>5 DEF y
    <2> QED BY <2>5 DEF TimeKept
  <1>5. GateSound' /\ FramesFollow' /\ GatedFirst'
    BY DEF LoopTypes, SelectTypes, VideoTypes, SourceTypes, ConnTypes, GateSound, FramesFollow, GatedFirst, Granted, Delivered, PassOf, Pass
  <1> QED BY <1>1, <1>2, <1>3, <1>4, <1>5

LEMMA WriteVideoFailsInv ==
  ASSUME IInv, WriteVideoFails
  PROVE  IInv'
  <1> USE DEF WriteVideoFails, IInv, TypeOK, Samples, NoSample
  <1>1. SourceTypes' /\ LoopTypes' /\ ConnTypes' /\ SelectTypes'
    <2>1. SourceTypes' /\ SelectTypes'
      BY DEF SourceTypes, SelectTypes
    <2>2. LoopTypes'
      BY DEF LoopTypes, SourceTypes
    <2>3. ConnTypes'
      BY DEF ConnTypes
    <2> QED BY <2>1, <2>2, <2>3
  <1>2. VideoTypes' /\ AudioTypes' /\ TrackTypes'
    BY DEF VideoTypes, AudioTypes, TrackTypes, LoopTypes, SelectTypes, SourceTypes
  <1>3. WakeupKept' /\ TokenReturned' /\ RequestKept'
    BY DEF LoopTypes, VideoTypes, AudioTypes, WakeupKept, TokenReturned, RequestKept
  <1>4. TimeKept'
    BY DEF TrackTypes, TimeKept
  <1>5. GateSound' /\ FramesFollow' /\ GatedFirst'
    BY DEF LoopTypes, SelectTypes, VideoTypes, SourceTypes, ConnTypes, GateSound, FramesFollow, GatedFirst, Granted, Delivered, PassOf, Pass
  <1> QED BY <1>1, <1>2, <1>3, <1>4, <1>5

LEMMA WaitAudioInv ==
  ASSUME IInv, WaitAudio
  PROVE  IInv'
  <1> USE DEF WaitAudio, IInv, TypeOK, Samples, NoSample
  <1>1. SourceTypes' /\ LoopTypes' /\ ConnTypes' /\ SelectTypes'
    BY DEF SourceTypes, LoopTypes, ConnTypes, SelectTypes
  <1>2. VideoTypes' /\ AudioTypes' /\ TrackTypes'
    BY DEF VideoTypes, AudioTypes, TrackTypes, LoopTypes, SelectTypes, SourceTypes
  <1>3. WakeupKept' /\ TokenReturned' /\ RequestKept'
    BY DEF LoopTypes, VideoTypes, AudioTypes, WakeupKept, TokenReturned, RequestKept
  <1>4. TimeKept'
    BY DEF TrackTypes, TimeKept
  <1>5. GateSound' /\ FramesFollow' /\ GatedFirst'
    BY DEF LoopTypes, SelectTypes, VideoTypes, SourceTypes, ConnTypes, GateSound, FramesFollow, GatedFirst, Granted, Delivered, PassOf, Pass
  <1> QED BY <1>1, <1>2, <1>3, <1>4, <1>5

LEMMA EndAudioInv ==
  ASSUME IInv, EndAudio
  PROVE  IInv'
  <1> USE DEF EndAudio, IInv, TypeOK, Samples, NoSample
  <1>1. SourceTypes' /\ LoopTypes' /\ ConnTypes' /\ SelectTypes'
    BY DEF SourceTypes, LoopTypes, ConnTypes, SelectTypes
  <1>2. VideoTypes' /\ AudioTypes' /\ TrackTypes'
    BY DEF VideoTypes, AudioTypes, TrackTypes, LoopTypes, SelectTypes, SourceTypes
  <1>3. WakeupKept' /\ TokenReturned' /\ RequestKept'
    BY DEF LoopTypes, VideoTypes, AudioTypes, WakeupKept, TokenReturned, RequestKept
  <1>4. TimeKept'
    BY DEF TrackTypes, TimeKept
  <1>5. GateSound' /\ FramesFollow' /\ GatedFirst'
    BY DEF LoopTypes, SelectTypes, VideoTypes, SourceTypes, ConnTypes, GateSound, FramesFollow, GatedFirst, Granted, Delivered, PassOf, Pass
  <1> QED BY <1>1, <1>2, <1>3, <1>4, <1>5

LEMMA TakeAudioInv ==
  ASSUME IInv, TakeAudio
  PROVE  IInv'
  <1> USE DEF TakeAudio, IInv, TypeOK, Samples, NoSample
  <1>1. SourceTypes' /\ LoopTypes' /\ ConnTypes' /\ SelectTypes'
    BY DEF SourceTypes, LoopTypes, ConnTypes, SelectTypes
  <1>2. VideoTypes' /\ AudioTypes' /\ TrackTypes'
    <2>1. audio # <<>> => Tail(audio) \in Seq(Nat) /\ Len(Tail(audio)) = Len(audio) - 1
      BY DEF AudioTypes
    <2>2. VideoTypes' /\ TrackTypes'
      BY DEF VideoTypes, TrackTypes
    <2>3. Len(audio) \in Nat
      BY DEF AudioTypes
    <2>4. AudioTypes'
      <3>1. CASE audio = <<>>
        BY <3>1 DEF AudioTypes
      <3>2. CASE audio # <<>>
        <4>1. audio' = Tail(audio) /\ audioWriter' = "write" /\ audioWake' \in BOOLEAN
          BY <3>2 DEF AudioTypes
        <4>2. Len(audio) <= AudioCapacity
          BY DEF AudioTypes
        <4> QED BY <2>1, <2>3, <3>2, <4>1, <4>2 DEF AudioTypes
      <3> QED BY <3>1, <3>2
    <2> QED BY <2>2, <2>4
  <1>3. WakeupKept' /\ TokenReturned' /\ RequestKept'
    <2>1. CASE audio = <<>>
      BY <2>1 DEF WakeupKept, TokenReturned, RequestKept
    <2>2. CASE audio # <<>>
      <3>1. Len(audio) > 1 \/ Tail(audio) = <<>>
        BY <2>2 DEF AudioTypes
      <3> QED BY <2>2, <3>1 DEF WakeupKept, TokenReturned, RequestKept
    <2> QED BY <2>1, <2>2
  <1>4. TimeKept'
    BY DEF TrackTypes, TimeKept
  <1>5. GateSound' /\ FramesFollow' /\ GatedFirst'
    BY DEF LoopTypes, SelectTypes, VideoTypes, SourceTypes, ConnTypes, GateSound, FramesFollow, GatedFirst, Granted, Delivered, PassOf, Pass
  <1> QED BY <1>1, <1>2, <1>3, <1>4, <1>5

LEMMA WriteAudioInv ==
  ASSUME IInv, WriteAudio
  PROVE  IInv'
  <1> USE DEF WriteAudio, IInv, TypeOK, Samples, NoSample
  <1>1. SourceTypes' /\ LoopTypes' /\ ConnTypes' /\ SelectTypes'
    BY DEF SourceTypes, LoopTypes, ConnTypes, SelectTypes
  <1>2. VideoTypes' /\ AudioTypes' /\ TrackTypes'
    BY DEF VideoTypes, AudioTypes, TrackTypes, LoopTypes, SelectTypes, SourceTypes
  <1>3. WakeupKept' /\ TokenReturned' /\ RequestKept'
    BY DEF LoopTypes, VideoTypes, AudioTypes, WakeupKept, TokenReturned, RequestKept
  <1>4. TimeKept'
    BY DEF TrackTypes, TimeKept
  <1>5. GateSound' /\ FramesFollow' /\ GatedFirst'
    BY DEF LoopTypes, SelectTypes, VideoTypes, SourceTypes, ConnTypes, GateSound, FramesFollow, GatedFirst, Granted, Delivered, PassOf, Pass
  <1> QED BY <1>1, <1>2, <1>3, <1>4, <1>5

LEMMA WriteAudioFailsInv ==
  ASSUME IInv, WriteAudioFails
  PROVE  IInv'
  <1> USE DEF WriteAudioFails, IInv, TypeOK, Samples, NoSample
  <1>1. SourceTypes' /\ LoopTypes' /\ ConnTypes' /\ SelectTypes'
    <2>1. SourceTypes' /\ SelectTypes'
      BY DEF SourceTypes, SelectTypes
    <2>2. LoopTypes'
      BY DEF LoopTypes, SourceTypes
    <2>3. ConnTypes'
      BY DEF ConnTypes
    <2> QED BY <2>1, <2>2, <2>3
  <1>2. VideoTypes' /\ AudioTypes' /\ TrackTypes'
    BY DEF VideoTypes, AudioTypes, TrackTypes, LoopTypes, SelectTypes, SourceTypes
  <1>3. WakeupKept' /\ TokenReturned' /\ RequestKept'
    BY DEF LoopTypes, VideoTypes, AudioTypes, WakeupKept, TokenReturned, RequestKept
  <1>4. TimeKept'
    BY DEF TrackTypes, TimeKept
  <1>5. GateSound' /\ FramesFollow' /\ GatedFirst'
    BY DEF LoopTypes, SelectTypes, VideoTypes, SourceTypes, ConnTypes, GateSound, FramesFollow, GatedFirst, Granted, Delivered, PassOf, Pass
  <1> QED BY <1>1, <1>2, <1>3, <1>4, <1>5

-----------------------------------------------------------------------------
LEMMA InitInv == Init => IInv
  <1> SUFFICES ASSUME Init PROVE IInv
    OBVIOUS
  <1> USE DEF Init
  <1>1. SourceTypes
    BY DEF SourceTypes
  <1>1a. ConnTypes
    BY DEF ConnTypes
  <1>1b. SelectTypes
    <2>1. selecting \in {"idle", "gated", "cleared"} /\ selects \in 0 .. MaxSelects
      OBVIOUS
    <2>2. needsKey \in BOOLEAN /\ epoch \in Nat /\ raced \in SUBSET Nat
      OBVIOUS
    <2> QED BY <2>1, <2>2 DEF SelectTypes
  <1>2. LoopTypes
    BY DEF LoopTypes
  <1>2a. VideoTypes
    BY DEF VideoTypes
  <1>2b. AudioTypes
    <2>1. <<>> \in Seq(Nat) /\ Len(<<>>) = 0
      OBVIOUS
    <2>2. audioWake \in BOOLEAN /\ audioWriter \in {"wait", "take", "write", "done"}
      OBVIOUS
    <2>3. audio = <<>> /\ AudioCapacity \in Nat
      OBVIOUS
    <2> QED BY ONLY <2>1, <2>2, <2>3 DEF AudioTypes
  <1>2c. TrackTypes
    BY DEF TrackTypes
  <1>3. WakeupKept /\ TokenReturned /\ RequestKept /\ TimeKept
    BY DEF WakeupKept, TokenReturned, RequestKept, TimeKept
  <1>4. GateSound /\ FramesFollow /\ GatedFirst
    BY DEF GateSound, FramesFollow, GatedFirst
  <1> QED BY <1>1, <1>1a, <1>1b, <1>2, <1>2a, <1>2b, <1>2c, <1>3, <1>4 DEF IInv, TypeOK

LEMMA StutterInv == IInv /\ UNCHANGED vars => IInv'
  <1> SUFFICES ASSUME IInv, UNCHANGED vars PROVE IInv'
    OBVIOUS
  <1> USE DEF vars, IInv
  <1>1. TypeOK'
    BY DEF TypeOK, SourceTypes, LoopTypes, ConnTypes, SelectTypes, VideoTypes, AudioTypes, TrackTypes
  <1>2. WakeupKept' /\ TokenReturned' /\ RequestKept' /\ TimeKept'
    BY DEF WakeupKept, TokenReturned, RequestKept, TimeKept
  <1>3. GateSound' /\ FramesFollow' /\ GatedFirst'
    BY DEF GateSound, FramesFollow, GatedFirst, Granted, Delivered, PassOf, Pass
  <1> QED BY <1>1, <1>2, <1>3

LEMMA NextInv == IInv /\ [Next]_vars => IInv'
  <1> SUFFICES ASSUME IInv, [Next]_vars PROVE IInv'
    OBVIOUS
  <1>1. ASSUME NEW key \in BOOLEAN, ReceiveVideo(key) PROVE IInv'
    BY <1>1, ReceiveVideoInv
  <1>2. ASSUME NEW who \in {"own", "other"}, AskKeyframe(who) PROVE IInv'
    BY <1>2, AskKeyframeInv
  <1>3. CASE ConnectGate
    BY <1>3, ConnectGateInv
  <1>4. CASE ConnectOpen
    BY <1>4, ConnectOpenInv
  <1>5. CASE Close
    BY <1>5, CloseInv
  <1>6. CASE SelectGate
    BY <1>6, SelectGateInv
  <1>7. CASE SelectClear
    BY <1>7, SelectClearInv
  <1>8. CASE SelectSource
    BY <1>8, SelectSourceInv
  <1>9. CASE EnqueueCheck
    BY <1>9, EnqueueCheckInv
  <1>10. CASE EnqueuePut
    BY <1>10, EnqueuePutInv
  <1>11. CASE EnqueueRefused
    BY <1>11, EnqueueRefusedInv
  <1>12. CASE EnqueueOpen
    BY <1>12, EnqueueOpenInv
  <1>13. CASE LoopKeyframe
    BY <1>13, LoopKeyframeInv
  <1>14. CASE LoopUnavailable
    BY <1>14, LoopUnavailableInv
  <1>15. CASE LoopStop
    BY <1>15, LoopStopInv
  <1>16. CASE ReceiveAudio
    BY <1>16, ReceiveAudioInv
  <1>17. CASE TakeVideo
    BY <1>17, TakeVideoInv
  <1>18. CASE WaitVideo
    BY <1>18, WaitVideoInv
  <1>19. CASE EndVideo
    BY <1>19, EndVideoInv
  <1>20. CASE WriteVideo
    BY <1>20, WriteVideoInv
  <1>21. CASE WriteVideoFails
    BY <1>21, WriteVideoFailsInv
  <1>22. CASE WaitAudio
    BY <1>22, WaitAudioInv
  <1>23. CASE EndAudio
    BY <1>23, EndAudioInv
  <1>24. CASE TakeAudio
    BY <1>24, TakeAudioInv
  <1>25. CASE WriteAudio
    BY <1>25, WriteAudioInv
  <1>26. CASE WriteAudioFails
    BY <1>26, WriteAudioFailsInv
  <1>27. CASE UNCHANGED vars
    BY <1>27, StutterInv
  <1> QED BY <1>1, <1>2, <1>3, <1>4, <1>5, <1>6, <1>7, <1>8, <1>9, <1>10, <1>11,
         <1>12, <1>13, <1>14, <1>15, <1>16, <1>17, <1>18, <1>19, <1>20, <1>21,
         <1>22, <1>23, <1>24, <1>25, <1>26, <1>27 DEF Next, Loop

\* IInv holds in every reachable state.
THEOREM MediaInvariant == Spec => []IInv
<1> QED
  BY InitInv, NextInv, PTL DEF Spec

\* No sample waits for a writer that sleeps without a token: the two mailboxes
\* with their one-place wake channels lose no wake-up.
THEOREM WakeupsKept == Spec => []WakeupKept
<1>1. IInv => WakeupKept
  BY DEF IInv
<1> QED
  BY <1>1, MediaInvariant, PTL

\* A keyframe that the peer asked for is not forgotten by requestKeyframe.
THEOREM RequestsKept == Spec => []RequestKept
<1>1. IInv => RequestKept
  BY DEF IInv
<1> QED
  BY <1>1, MediaInvariant, PTL

\* The keyframe gate of enqueueVideo: outside of a race with SelectTarget an
\* inter frame is written only after the keyframe it needs.
THEOREM GateIsHeld == Spec => GateHolds
<1> DEFINE A == (writer = "write" /\ track' # track /\ ~inHand.key) =>
                  /\ inHand.epoch # 0
                  /\ \/ keyed = [epoch |-> inHand.epoch, target |-> inHand.target]
                     \/ inHand.epoch \in raced
<1>1. IInv => A
  BY DEF IInv, FramesFollow, GatedFirst, PassOf
<1>2. IInv /\ [Next]_vars => [A]_vars
  BY <1>1
<1> QED
  BY <1>2, MediaInvariant, PTL DEF Spec, GateHolds

\* RTP time is exact and always moves: durationToTicks and its remainder.
THEOREM TimestampsAreExact == Spec => TimestampsExact
<1> DEFINE A == track' # track =>
                  /\ track'.ticks * Second + track'.remainder = advanced' * ClockRate
                  /\ track.last # 0 => track'.ticks - track.ticks \in 1 .. MaxTicks
<1>1. IInv /\ [Next]_vars => [A]_vars
  <2>1. SUFFICES ASSUME IInv, IInv', Next, track' # track
                 PROVE  A
    BY NextInv
  <2>2. TimeKept'
    BY <2>1 DEF IInv
  <2>3. WriteVideo
    BY <2>1 DEF Next, Loop, ReceiveVideo, EnqueueCheck, EnqueuePut, EnqueueRefused, EnqueueOpen,
         LoopKeyframe, LoopUnavailable, LoopStop, ReceiveAudio, ConnectGate, ConnectOpen, Close,
         AskKeyframe, SelectGate, SelectClear, SelectSource, TakeVideo, WaitVideo, EndVideo,
         WriteVideoFails, WaitAudio, EndAudio, TakeAudio, WriteAudio, WriteAudioFails
  <2>4. track.last # 0 => track'.ticks - track.ticks \in 1 .. MaxTicks
    <3>1. SUFFICES ASSUME track.last # 0
                   PROVE  track'.ticks - track.ticks \in 1 .. MaxTicks
      OBVIOUS
    <3> DEFINE d == TimestampAdvance(inHand)
               rtp == durationToTicks(track.remainder, d)
    <3>2. inHand \in Samples /\ track.remainder \in 0 .. Second - 1 /\ track.ticks \in Nat
      BY <2>1, <2>3 DEF WriteVideo, IInv, TypeOK, VideoTypes, TrackTypes
    <3>3. SourceTypes /\ TrackTypes
      BY <2>1 DEF IInv, TypeOK
    <3>4. /\ d \in Nat /\ d >= MinimumTick /\ MinimumTick \in Nat /\ MinimumTick > 0
          /\ d <= MaximumGap \/ d = MinimumTick
      BY <3>1, <3>2, <3>3, AdvanceFits, TickBounds
    <3> HIDE DEF d
    <3>5. rtp.ticks \in 0 .. MaxTicks /\ rtp.ticks > 0
      <4>1. d # 0
        BY <3>4
      <4> QED BY <3>2, <3>4, <4>1, TicksExact
    <3>6. track'.ticks = track.ticks + rtp.ticks
      BY <2>3 DEF WriteVideo, d
    <3> HIDE DEF rtp
    <3> QED BY <3>2, <3>5, <3>6
  <2> QED BY <2>2, <2>4 DEF TimeKept
<1> QED
  BY <1>1, MediaInvariant, PTL DEF Spec, TimestampsExact
=============================================================================
