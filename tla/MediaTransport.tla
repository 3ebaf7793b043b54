--------------------------- MODULE MediaTransport ---------------------------
(***************************************************************************)
(* The media of one peer: the Run loop of webrtc.Service that hands samples *)
(* to the peer, the two mailboxes of the peer, the goroutines that write   *)
(* them to the RTP tracks, the keyframe gate, and the one-place channel of *)
(* keyframe requests (webrtc/media_transport.go, track.go, service.go).    *)
(*                                                                         *)
(* Every load or store of an atomic, every section of a mutex and every    *)
(* channel operation is a step of its own.  The media source, the encoder  *)
(* and the other peers are the environment: they offer samples of any kind *)
(* and fill the channel of keyframe requests.                              *)
(***************************************************************************)
EXTENDS Integers, Sequences

CONSTANTS
  ClockRate,      \* RTP ticks of the video track in a second
  Second,         \* time.Second, in the unit of the sample times
  MaxTicks,       \* ^uint32(0)
  ProducedAt,     \* VideoSample.ProducedAt of each sample of the source
  Duration,       \* VideoSample.Duration of each
  AudioCapacity,  \* audioMailboxCapacity
  MaxSamples,     \* bound: samples of the source, video and audio
  MaxConnects,    \* bound: times the connection becomes connected
  MaxSelects,     \* bound: calls of SelectTarget
  MaxAsks         \* bound: keyframe requests by RTCP and by other peers

\* The greatest time in which the track can advance by half of MaxTicks.
MaximumGap == ((MaxTicks \div 2) * Second) \div ClockRate

\* One tick of the clock, rounded up.
MinimumTick == (Second + ClockRate - 1) \div ClockRate

\* ProducedAt is a reading of the monotonic clock; a frame has no duration or
\* one of at least a tick.
ASSUME TrackAssumption ==
  /\ ClockRate \in Nat \ {0} /\ Second \in Nat \ {0} /\ MaxTicks \in Nat \ (0 .. 3)
  /\ ClockRate <= Second
  /\ ProducedAt \in [1 .. MaxSamples -> Nat]
  /\ Duration \in [1 .. MaxSamples -> 0 .. MaximumGap]
  /\ \A n \in 1 .. MaxSamples : Duration[n] = 0 \/ Duration[n] >= MinimumTick

ASSUME BoundsAssumption ==
  /\ AudioCapacity \in Nat \ {0}
  /\ MaxSamples \in Nat /\ MaxConnects \in Nat /\ MaxSelects \in Nat /\ MaxAsks \in Nat

VARIABLES
  targeted,     \* the source is a TargetMediaSource
  target,       \* the target whose samples the source accepts for the peer
  frames,       \* video samples the source has produced
  audioFrames,  \* audio samples the source has produced
  loop,         \* where Service.Run is, with the sample it distributes
  request,      \* Service.keyframeRequests: "none", "own" or "other"
  asks,         \* keyframe requests made so far, for the bound
  connected,    \* peer.connected
  closing,      \* the peer is closing and its context is done
  needsKey,     \* peer.videoNeedsKeyframe
  callback,     \* where the handler of PeerConnectionStateConnected is
  connects,     \* times it ran; connectedKeyframeRequest is done from the first
  selecting,    \* where SelectTarget is
  selects,
  pending,      \* videoMailbox.pending: the set of the sample, or the empty set
  wake,         \* a token in videoMailbox.wake
  writer,       \* where writeVideoSamples is
  inHand,       \* the sample it has taken
  audio,        \* audioMailbox.queue
  audioWake,    \* a token in audioMailbox.wake
  audioWriter,  \* where writeAudioSamples is
  track,        \* of the video track: RTP ticks, remainder, last sample
  epoch,        \* history: times the keyframe gate was closed
  keyed,        \* history: epoch and target of the last keyframe written
  raced,        \* history: the epochs that began or went on during a hand-over
  asked,        \* history: a keyframe request of the peer is not yet applied
  advanced      \* history: the sum of the timestamp advances

sourceVars == <<targeted, target, frames, audioFrames>>
loopVars   == <<loop, request, asks, asked>>
connVars   == <<connected, closing, callback, connects>>
selectVars == <<selecting, selects>>
gateVars   == <<needsKey, epoch, raced>>
videoVars  == <<pending, wake, writer, inHand>>
audioVars  == <<audio, audioWake, audioWriter>>
trackVars  == <<track, keyed, advanced>>
vars == <<sourceVars, loopVars, connVars, selectVars, gateVars, videoVars,
          audioVars, trackVars>>

Targets == 0 .. MaxSelects
Samples ==
  [n : 1 .. MaxSamples, key : BOOLEAN, target : Targets, epoch : Nat]
NoSample == [n |-> 0, key |-> FALSE, target |-> 0, epoch |-> 0]

-----------------------------------------------------------------------------
(* The arithmetic of a track.                                              *)

positiveDiscontinuityDuration(d) == IF d > 0 THEN d ELSE MinimumTick

\* Ticks of a duration after a remainder of earlier ones, and the new
\* remainder; both are reset when the ticks do not fit.
durationToTicks_Rounds(remainder, d) ==
  [ticks |-> (d * ClockRate) \div Second, remainder |-> 0]
durationToTicks(remainder, d) ==
  LET wholeTicks == (d \div Second) * ClockRate
      fractional == (d % Second) * ClockRate + remainder
      ticks == wholeTicks + (fractional \div Second)
  IN IF wholeTicks >= MaxTicks \/ ticks > MaxTicks
       THEN [ticks |-> MaxTicks, remainder |-> 0]
       ELSE [ticks |-> ticks, remainder |-> fractional % Second]

\* How far the RTP timestamp moves for a sample after the previous one.
TimestampAdvance(s) ==
  IF track.last = 0 THEN 0
  ELSE LET gap == ProducedAt[s.n] - ProducedAt[track.last]
       IN IF gap <= 0 \/ gap > MaximumGap THEN positiveDiscontinuityDuration(Duration[s.n])
          ELSE IF gap < MinimumTick THEN MinimumTick
          ELSE gap

-----------------------------------------------------------------------------
Init ==
  /\ targeted \in BOOLEAN
  /\ target = 0 /\ frames = 0 /\ audioFrames = 0
  /\ loop = [at |-> "select", sample |-> NoSample]
  /\ request = "none" /\ asks = 0 /\ asked = FALSE
  /\ connected = FALSE /\ closing = FALSE /\ callback = "idle" /\ connects = 0
  /\ selecting = "idle" /\ selects = 0
  /\ needsKey = FALSE /\ epoch = 0 /\ raced = {}
  /\ pending = {} /\ wake = FALSE /\ writer = "take" /\ inHand = NoSample
  /\ audio = <<>> /\ audioWake = FALSE /\ audioWriter = "wait"
  /\ track = [ticks |-> 0, remainder |-> 0, last |-> 0]
  /\ keyed = [epoch |-> 0, target |-> 0] /\ advanced = 0

-----------------------------------------------------------------------------
(* The keyframe gate and the requests for a keyframe.                      *)

\* The gate closes.  The epoch is raced when the Run loop is in the middle of
\* handing a sample over, or does so before SelectTarget is through.
GateCloses ==
  /\ needsKey' = TRUE
  /\ epoch' = epoch + 1
  /\ raced' = IF loop.at # "select" THEN raced \cup {epoch + 1} ELSE raced

\* requestKeyframe: dropped when the one place of the channel is taken.
RequestKeyframe_Unbuffered(who) ==
  /\ request' = IF request = "none" /\ loop.at = "select" THEN who ELSE request
  /\ asked' = (asked \/ who = "own")
RequestKeyframe(who) ==
  /\ request' = IF request = "none" THEN who ELSE request
  /\ asked' = (asked \/ who = "own")

\* The handler of PeerConnectionStateConnected, in two steps.
ConnectGate ==
  /\ callback = "idle" /\ connects < MaxConnects /\ ~closing
  /\ callback' = "gated" /\ connects' = connects + 1
  /\ GateCloses
  /\ UNCHANGED <<connected, closing, sourceVars, loopVars, selectVars, videoVars,
                 audioVars, trackVars>>

\* The peer is connected, and the first time it asks for a keyframe.
ConnectOpen ==
  /\ callback = "gated"
  /\ callback' = "idle"
  /\ connected' = ~closing
  /\ IF connects = 1 /\ ~closing THEN RequestKeyframe("own") ELSE UNCHANGED <<request, asked>>
  /\ UNCHANGED <<closing, connects, loop, asks, sourceVars, selectVars, gateVars,
                 videoVars, audioVars, trackVars>>

\* A PLI or a FIR of the peer, or any request of another peer.
AskKeyframe(who) ==
  /\ asks < MaxAsks /\ (who = "own" => connects > 0)
  /\ asks' = asks + 1
  /\ RequestKeyframe(who)
  /\ UNCHANGED <<loop, sourceVars, connVars, selectVars, gateVars, videoVars,
                 audioVars, trackVars>>

\* The peer closes, for whatever reason: closing, and its context is done.
Close ==
  /\ ~closing
  /\ closing' = TRUE /\ connected' = FALSE
  /\ UNCHANGED <<callback, connects, sourceVars, loopVars, selectVars, gateVars,
                 videoVars, audioVars, trackVars>>

\* Service.SelectTarget, in a goroutine of its own: the gate, the mailbox, and
\* the source, which accepts only samples of the new target from then on.
SelectGate ==
  /\ selecting = "idle" /\ targeted /\ connected /\ selects < MaxSelects
  /\ selecting' = "gated" /\ selects' = selects + 1
  /\ GateCloses
  /\ UNCHANGED <<sourceVars, loopVars, connVars, videoVars, audioVars, trackVars>>

SelectClear ==
  /\ selecting = "gated"
  /\ selecting' = "cleared"
  /\ pending' = {}
  /\ UNCHANGED <<selects, wake, writer, inHand, sourceVars, loopVars, connVars,
                 gateVars, audioVars, trackVars>>

SelectSource ==
  /\ selecting = "cleared"
  /\ selecting' = "idle"
  /\ target' = selects
  /\ UNCHANGED <<selects, targeted, frames, audioFrames, loopVars, connVars,
                 gateVars, videoVars, audioVars, trackVars>>

-----------------------------------------------------------------------------
(* Service.Run.                                                            *)

\* A sample that the source accepts for the peer; others are passed over.
ReceiveVideo(key) ==
  /\ loop.at = "select" /\ frames + audioFrames < MaxSamples
  /\ frames' = frames + 1
  /\ loop' = [at |-> "gate",
              sample |-> [n |-> frames + 1, key |-> key, target |-> target,
                          epoch |-> 0]]
  /\ raced' = IF selecting # "idle" THEN raced \cup {epoch} ELSE raced
  /\ UNCHANGED <<targeted, target, audioFrames, request, asks, asked, needsKey, epoch,
                 connVars, selectVars, videoVars, audioVars, trackVars>>

\* The loop goes on with its sample, or is through with it.
LoopAt(where) ==
  loop' = [at |-> where, sample |-> IF where \in {"put", "open"} THEN loop.sample ELSE NoSample]

\* enqueueVideo as far as the gate.
EnqueueCheck ==
  /\ loop.at = "gate"
  /\ LoopAt(IF closing \/ ~connected \/ (needsKey /\ ~loop.sample.key)
              THEN "select" ELSE "put")
  /\ UNCHANGED <<request, asks, asked, sourceVars, connVars, selectVars, gateVars,
                 videoVars, audioVars, trackVars>>

\* A pending keyframe is not replaced by an inter frame.
MayPut_Always(s) == TRUE
MayPut(s) == \A p \in pending : p.key => s.key

EnqueuePut ==
  /\ loop.at = "put" /\ MayPut(loop.sample)
  /\ pending' = {[loop.sample EXCEPT !.epoch = epoch]}
  /\ wake' = TRUE
  /\ LoopAt(IF loop.sample.key THEN "open" ELSE "select")
  /\ UNCHANGED <<writer, inHand, request, asks, asked, sourceVars, connVars,
                 selectVars, gateVars, audioVars, trackVars>>

EnqueueRefused ==
  /\ loop.at = "put" /\ ~MayPut(loop.sample)
  /\ LoopAt("select")
  /\ UNCHANGED <<request, asks, asked, sourceVars, connVars, selectVars, gateVars,
                 videoVars, audioVars, trackVars>>

\* The keyframe that was accepted opens the gate.
EnqueueOpen ==
  /\ loop.at = "open"
  /\ needsKey' = FALSE
  /\ LoopAt("select")
  /\ UNCHANGED <<epoch, raced, request, asks, asked, sourceVars, connVars, selectVars,
                 videoVars, audioVars, trackVars>>

\* A request is applied; a targeted source applies it for the peer named in it.
LoopKeyframe ==
  /\ loop.at = "select" /\ request # "none"
  /\ request' = "none"
  /\ asked' = (asked /\ targeted /\ request = "other")
  /\ UNCHANGED <<loop, asks, sourceVars, connVars, selectVars, gateVars, videoVars,
                 audioVars, trackVars>>

\* TargetEventUnavailable for a peer that has a control channel.
LoopUnavailable ==
  /\ loop.at = "select" /\ targeted /\ ~closing /\ selects < MaxSelects
  /\ selects' = selects + 1
  /\ GateCloses
  /\ pending' = {}
  /\ UNCHANGED <<selecting, wake, writer, inHand, sourceVars, loopVars, connVars,
                 audioVars, trackVars>>

\* Run returns, and Close ends the peer.
LoopStop ==
  /\ loop.at = "select"
  /\ LoopAt("stopped")
  /\ closing' = TRUE /\ connected' = FALSE
  /\ UNCHANGED <<callback, connects, request, asks, asked, sourceVars, selectVars,
                 gateVars, videoVars, audioVars, trackVars>>

\* enqueueAudio; a full queue loses its oldest sample.
ReceiveAudio ==
  /\ loop.at = "select" /\ frames + audioFrames < MaxSamples
  /\ audioFrames' = audioFrames + 1
  /\ IF closing \/ ~connected
       THEN UNCHANGED <<audio, audioWake>>
       ELSE /\ audio' = Append(IF Len(audio) = AudioCapacity THEN Tail(audio) ELSE audio,
                               audioFrames + 1)
            /\ audioWake' = TRUE
  /\ UNCHANGED <<audioWriter, targeted, target, frames, loopVars, connVars,
                 selectVars, gateVars, videoVars, trackVars>>

-----------------------------------------------------------------------------
(* writeVideoSamples: videoMailbox.take, then WriteSample.                 *)

\* take, in the section of the mutex.
TakeVideo ==
  /\ writer = "take"
  /\ pending' = {}
  /\ \/ pending = {} /\ writer' = "wait" /\ UNCHANGED inHand
     \/ \E s \in pending : writer' = "write" /\ inHand' = s
  /\ UNCHANGED <<wake, sourceVars, loopVars, connVars, selectVars, gateVars, audioVars,
                 trackVars>>

\* take, in its select.
WaitVideo ==
  /\ writer = "wait" /\ wake
  /\ writer' = "take" /\ wake' = FALSE
  /\ UNCHANGED <<pending, inHand, sourceVars, loopVars, connVars, selectVars, gateVars,
                 audioVars, trackVars>>

EndVideo ==
  /\ writer = "wait" /\ closing
  /\ writer' = "done"
  /\ UNCHANGED <<pending, wake, inHand, sourceVars, loopVars, connVars, selectVars,
                 gateVars, audioVars, trackVars>>

WriteVideo ==
  /\ writer = "write"
  /\ LET rtp == durationToTicks(track.remainder, TimestampAdvance(inHand)) IN
       track' = [ticks |-> track.ticks + rtp.ticks, remainder |-> rtp.remainder,
                 last |-> inHand.n]
  /\ advanced' = advanced + TimestampAdvance(inHand)
  /\ keyed' = IF inHand.key THEN [epoch |-> inHand.epoch, target |-> inHand.target]
              ELSE keyed
  /\ writer' = "take" /\ inHand' = NoSample
  /\ UNCHANGED <<pending, wake, sourceVars, loopVars, connVars, selectVars, gateVars,
                 audioVars>>

\* WriteSample fails: the peer closes, and the goroutine ends.
WriteVideoFails ==
  /\ writer = "write"
  /\ writer' = "done" /\ inHand' = NoSample
  /\ closing' = TRUE /\ connected' = FALSE
  /\ UNCHANGED <<callback, connects, pending, wake, sourceVars, loopVars, selectVars,
                 gateVars, audioVars, trackVars>>

-----------------------------------------------------------------------------
(* writeAudioSamples: audioMailbox.take needs a token for every sample.    *)

WaitAudio ==
  /\ audioWriter = "wait" /\ audioWake
  /\ audioWriter' = "take" /\ audioWake' = FALSE
  /\ UNCHANGED <<audio, sourceVars, loopVars, connVars, selectVars, gateVars, videoVars,
                 trackVars>>

EndAudio ==
  /\ audioWriter = "wait" /\ closing
  /\ audioWriter' = "done"
  /\ UNCHANGED <<audio, audioWake, sourceVars, loopVars, connVars, selectVars, gateVars,
                 videoVars, trackVars>>

\* A sample is taken, and the token put back when more are queued.
TakeAudio_Once ==
  /\ audioWriter = "take"
  /\ audioWriter' = IF audio = <<>> THEN "wait" ELSE "write"
  /\ audio' = IF audio = <<>> THEN audio ELSE Tail(audio)
  /\ UNCHANGED <<audioWake, sourceVars, loopVars, connVars, selectVars, gateVars,
                 videoVars, trackVars>>
TakeAudio ==
  /\ audioWriter = "take"
  /\ IF audio = <<>>
       THEN audioWriter' = "wait" /\ UNCHANGED <<audio, audioWake>>
       ELSE /\ audioWriter' = "write"
            /\ audio' = Tail(audio)
            /\ audioWake' = IF Len(audio) > 1 THEN TRUE ELSE audioWake
  /\ UNCHANGED <<sourceVars, loopVars, connVars, selectVars, gateVars, videoVars,
                 trackVars>>

WriteAudio ==
  /\ audioWriter = "write"
  /\ audioWriter' = "wait"
  /\ UNCHANGED <<audio, audioWake, sourceVars, loopVars, connVars, selectVars, gateVars,
                 videoVars, trackVars>>

WriteAudioFails ==
  /\ audioWriter = "write"
  /\ audioWriter' = "done"
  /\ closing' = TRUE /\ connected' = FALSE
  /\ UNCHANGED <<callback, connects, audio, audioWake, sourceVars, loopVars, selectVars,
                 gateVars, videoVars, trackVars>>

-----------------------------------------------------------------------------
Loop ==
  \/ \E key \in BOOLEAN : ReceiveVideo(key)
  \/ EnqueueCheck \/ EnqueuePut \/ EnqueueRefused \/ EnqueueOpen
  \/ LoopKeyframe \/ LoopUnavailable \/ LoopStop \/ ReceiveAudio

Next ==
  \/ Loop
  \/ ConnectGate \/ ConnectOpen \/ Close
  \/ \E who \in {"own", "other"} : AskKeyframe(who)
  \/ SelectGate \/ SelectClear \/ SelectSource
  \/ TakeVideo \/ WaitVideo \/ EndVideo \/ WriteVideo \/ WriteVideoFails
  \/ WaitAudio \/ EndAudio \/ TakeAudio \/ WriteAudio \/ WriteAudioFails

Spec == Init /\ [][Next]_vars

-----------------------------------------------------------------------------
(* What is checked.                                                        *)

\* The type of every variable.
SourceTypes ==
  /\ targeted \in BOOLEAN /\ target \in Targets
  /\ frames \in Nat /\ audioFrames \in Nat /\ frames + audioFrames <= MaxSamples
LoopTypes ==
  /\ loop \in [at : {"select", "gate", "put", "open", "stopped"},
               sample : Samples \cup {NoSample}]
  /\ loop.at \in {"gate", "put", "open"} => loop.sample \in Samples
  /\ request \in {"none", "own", "other"} /\ asks \in Nat /\ asked \in BOOLEAN
ConnTypes ==
  /\ connected \in BOOLEAN /\ closing \in BOOLEAN /\ connects \in Nat
  /\ callback \in {"idle", "gated"}
SelectTypes ==
  /\ selecting \in {"idle", "gated", "cleared"} /\ selects \in 0 .. MaxSelects
  /\ needsKey \in BOOLEAN /\ epoch \in Nat /\ raced \in SUBSET Nat
VideoTypes ==
  /\ pending \in SUBSET Samples /\ wake \in BOOLEAN
  /\ \A s, t \in pending : s = t
  /\ writer \in {"take", "wait", "write", "done"}
  /\ inHand \in IF writer = "write" THEN Samples ELSE {NoSample}
AudioTypes ==
  /\ audio \in Seq(Nat) /\ Len(audio) <= AudioCapacity /\ audioWake \in BOOLEAN
  /\ audioWriter \in {"wait", "take", "write", "done"}
TrackTypes ==
  /\ track \in [ticks : Nat, remainder : 0 .. Second - 1, last : 0 .. MaxSamples]
  /\ keyed \in [epoch : Nat, target : Targets] /\ advanced \in Nat
TypeOK ==
  /\ SourceTypes /\ LoopTypes /\ ConnTypes /\ SelectTypes /\ VideoTypes /\ AudioTypes
  /\ TrackTypes

\* No sample waits in a mailbox for a goroutine that sleeps without a token:
\* videoMailbox and audioMailbox use a one-place channel as the wake-up, and
\* take consumes it at another moment than it looks at the samples.
WakeupKept ==
  /\ (pending # {} /\ writer = "wait") => wake
  /\ (audio # <<>> /\ audioWriter = "wait") => audioWake

\* An inter frame is written only after a keyframe of the same target that came
\* through the same closing of the gate, unless the Run loop was at work on a
\* sample of the peer while the gate closed: the gate of enqueueVideo, the order
\* of the stores of the connection handler, clear, and put together.
GateHolds ==
  [][(writer = "write" /\ track' # track /\ ~inHand.key) =>
       /\ inHand.epoch # 0
       /\ \/ keyed = [epoch |-> inHand.epoch, target |-> inHand.target]
          \/ inHand.epoch \in raced]_vars

\* RTP time is the sum of the advances to the last tick, and it moves with every
\* sample but the first, by at most half of its range: the remainder that
\* durationToTicks carries loses nothing, however short the gaps are.
TimestampsExact ==
  [][track' # track =>
       /\ track'.ticks * Second + track'.remainder = advanced' * ClockRate
       /\ track.last # 0 => track'.ticks - track.ticks \in 1 .. MaxTicks]_vars

\* A keyframe that the peer asked for, and that an untargeted source has not
\* been asked for since, is still to be asked for: requestKeyframe drops a
\* request only when one that does the same is in the channel.
RequestKept == (asked /\ ~targeted) => request # "none"

-----------------------------------------------------------------------------
(* The inductive invariant behind them.                                    *)

\* An audio writer that comes back to a queue finds its token there.
TokenReturned == (audio # <<>> /\ audioWriter = "write") => audioWake

\* RTP time so far, with the remainder, is the sum of the advances.
TimeKept == track.ticks * Second + track.remainder = advanced * ClockRate

PassOf(s) == [epoch |-> s.epoch, target |-> s.target]
Pass == [epoch |-> epoch, target |-> target]

\* The last keyframe that the writer has written or is about to write.
Delivered == IF writer = "write" /\ inHand.key THEN PassOf(inHand) ELSE keyed

\* The last keyframe, in the mailbox or past it, is of this epoch and target.
Granted ==
  /\ \A p \in pending : p.key => PassOf(p) = Pass
  /\ (\E p \in pending : p.key) \/ Delivered = Pass

\* In an epoch that is not raced, the loop has a sample of the target at hand, and
\* an open gate stands for a keyframe of this epoch.
GateSound ==
  epoch \notin raced =>
    /\ loop.at \in {"gate", "put", "open"} =>
         selecting = "idle" /\ loop.sample.target = target
    /\ ~needsKey /\ epoch # 0 => selecting = "idle"
    /\ /\ writer # "done"
       /\ \/ ~needsKey /\ epoch # 0
          \/ loop.at = "open"
          \/ loop.at = "put" /\ ~loop.sample.key
       => Granted

\* An inter frame in the mailbox or in hand has its keyframe before it.
FramesFollow ==
  /\ writer # "done" =>
       \A p \in pending : p.key \/ p.epoch \in raced \/ Delivered = PassOf(p)
  /\ writer = "write" => inHand.key \/ inHand.epoch \in raced \/ keyed = PassOf(inHand)

\* Nothing is enqueued before the gate has been closed for the first time.
GatedFirst ==
  /\ connected \/ callback = "gated" \/ loop.at \in {"put", "open"} => epoch # 0
  /\ \A p \in pending : p.epoch # 0
  /\ writer = "write" => inHand.epoch # 0

IInv ==
  /\ TypeOK /\ WakeupKept /\ TokenReturned /\ RequestKept /\ TimeKept
  /\ GateSound /\ FramesFollow /\ GatedFirst
=============================================================================
