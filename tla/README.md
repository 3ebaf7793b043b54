# Verification of webdesktop

TLA+ models of webdesktop, a server that shares a Wayland desktop with browsers
over WebRTC. The models are translated from the Go source (paths below are
relative to the repository), checked with TLC on small instances, and proved
with TLAPS where a result matters for every size. `PROJECT.json` names, for each
definition, the lines it models, and lists runs, mutants, hazards and theorems.

How to run, in this directory:

    tlc -workers 2 -config MCInputShared.cfg MCInputController
    tlapm InputControllerProofs.tla

## 1. The system

A portal session (D-Bus) yields a PipeWire stream, a file descriptor for libei
and a clipboard. `desktop.Service` builds the media, input and clipboard services
on it. `webrtc.Service` admits browsers as peers; each has a WebSocket for
signaling, one video and one audio track, and data channels for control, input,
input motion, the clipboard, and for embedding programs.

| Component | State | Operations | Talks to | What is hard |
|---|---|---|---|---|
| `input.Controller` (`input/controller.go`) | leases by peer id, event queue, pressed codes per lease and in total, attached sender, closed | Attach, Acquire, Submit, Release, Revoke, Close, the worker `run`, `watchSender` | peers call it and are called back on revocation; it calls the sender | events handled after the unlock, shared keys, one-slot channels, callbacks outside the lock |
| `eis.Sender` (`input/eis/sender.go`) | devices, reset count, connection, error | send one event, Status, Changes, Done, Close, the reader `run` | libei; watched by the controller | devices pause and go away with keys down; several devices |
| peer channels (`webrtc/control.go`) | three channels with generations, lease generation | onDataChannel, cleanup, requests, revocation callback | the controller, the service | channels replaced while a handler works; checks and effects in separate critical sections |
| admission and end of peers (`webrtc/service.go`, `webrtc/peer.go`) | peers, reservations, closed, closeDone; per peer closing, owned goroutines | Handler, newPeer, closeWith, finishClose, Close, replaceActivePeer | media source (SetActive), controller (Release) | failures half-way, closes from all sides, waiting under mutexes |
| quality and codec (`webrtc/service.go`) | effective quality, quality generation, congestion bitrate | updateQualityLocked, closePeerForProfileChange, setCongestionBitrate | media source, peers | admission during a change, superseded changes, partial failure |
| event loop (`Service.Run`) | none of its own | distributes samples, target events, keyframe requests | source, peers, controller | slow peers, stale targets |
| signaling (`webrtc/peer.go`) | negotiation, queued local candidates | run, handleOffer, candidates, ping | browser | callbacks of pion against the reader |
| media transport (`webrtc/media_transport.go`, `track.go`) | one-sample mailboxes, keyframe gate, RTP clock | enqueueVideo, writeVideoSamples, readRTCP | event loop, pion | dropped references, gate against target changes |
| bandwidth estimator (`webrtc/bandwidth_estimator.go`) | estimate, loss statistics | update | service | late estimates |
| clipboard channel (`webrtc/clipboard.go`) | one transfer each way, generations, timer | chunks, cancel, timeout | clipboard controller | timer against chunk, replaced channels |
| `clipboard.Controller` | backend, latest content, subscribers | Attach, Set, Latest, Subscribe, run | portal | Set against a desktop change |
| portal session (`capture/portal.go`) | session, leases of stream and descriptor, selection, token | Open, Acquire*, Read, Write, Close, watch | D-Bus | session end at any time, token replaced on disk |
| `media.Service`, pipelines (`media/`) | quality, active, current encoder branch and candidate, samples | Run, UpdateQuality, SetBitrate, ReplaceQuality | GStreamer, webrtc | promotion or rollback of a candidate, restarts |
| `desktop.Service`, `internal/app` | the running services | Run, Serve | all | order of shutdown |
| configuration, CLI, HTTP, logging, protocol decoding | none after start | | | sequential |
| web client (`web/src`) | connection, requests | | | reconnection |

What makes each correct:

* input: no key or button stays down without a lease that holds it; an event acts
  only for the lease it was submitted under; order is kept; locking is exclusive;
  no event waits for ever; a lease that is taken away is reported.
* peer channels: no lease without its three channels; an old callback or cleanup
  never hits a new lease; a closed peer has nothing.
* admission: reservations are exact; the source runs exactly when somebody
  watches; Close ends and does not end early; nobody waits for good; no peer
  stays with a codec it cannot decode.
* encoder: the samples change over at a keyframe and never back; a failed
  replacement leaves nothing behind; a dead encoder is noticed; nothing waits for
  good, and nothing is sent on a closed channel.
* media: no sample waits for a sleeping writer; no frame is shown without the
  keyframe it needs; no keyframe request is forgotten; RTP time is exact.
* clipboard: a transfer is answered at most once and its bytes keep their formats;
  no sender blocks the others for good; a copy on the desktop reaches the browser;
  a program that pastes never gets an older content.
* portal session: the restore token survives a crash; the end of the session is
  noticed; nothing that was acquired is left; the connection outlives its calls.
* planned parts: see section 8.

## 2. Modules

| Module | Models | Role |
|---|---|---|
| `InputController` | `input/controller.go`, life of `eis.Sender` | detailed specification |
| `LeaseTable` | what the controller promises its callers | abstract specification |
| `InputControllerProofs`, `InputRefinement` | | theorems |
| `PeerInput` | `webrtc/control.go` and the parts of `peer.go`, `service.go` that touch the lease | built on `LeaseTable` |
| `PeerInputProofs` | | theorems |
| `PeerRegistry` | admission, reservations, end of peers, codec changes | detailed specification |
| `RegistryProofs` | | theorems |
| `EncoderPipeline` | `media/persistent_pipeline.go`, `Run` and `UpdateQuality` of `media/media.go` | detailed specification |
| `EncoderProofs` | | theorems |
| `MediaTransport` | `webrtc/media_transport.go`, `webrtc/track.go`, the parts of `peer.go` and `service.go` around them | detailed specification |
| `MediaProofs` | | theorems |
| `ClipboardChannel` | `webrtc/clipboard.go` | detailed specification |
| `ClipboardProofs` | | theorems |
| `ClipboardSync` | `clipboard/controller.go`, the selection in `capture/portal.go` | component of `PortalSession` |
| `PortalSession` | `capture/portal.go`, `desktop/service.go` | composition with `ClipboardSync` |
| `PortalProofs` | | theorems |
| `MCInputController`, `MCPeerRegistry`, `MCMediaTransport`, `MCClipboard`, `MCPortal` | symmetry, views and sets for TLC | |

`PeerInput` instantiates `LeaseTable` and takes its steps through it, so
what it shows rests on exactly the promise that `InputController` is proved to
keep (`InputRefinement!Refinement`).

### InputController

State: `lease`, `revoke`, `queued`, `held` are the fields of `ownerState`;
`counts` is the controller's pressedKeys and pressedButtons; `queue` and `inHand`
hold the events before and after the worker's pop; `wake` and `changes` are the
one-slot channels; `down` is what the desktop sees. One step is one critical
section of `c.mu`. The worker pops in one step and handles in another, because
the code unlocks in between (`controller.go:411`). Callbacks are `notices` that
run later, as `callRevocation` runs after the unlock.

* Queue entries carry a `ticket` (the number of the submission that created
  them) and a `seq` (the last one they absorbed): coalescing and order become
  statements about numbers. Payloads are reduced to classes: transitions of a
  code, absolute motion, relative motion, scroll, text.
* `owed`, `missed` and the tickets are history that no guard reads, apart from
  the bounds.
* The sender's devices are one per capability; a paused device releases what it
  held, as the compositor does (external).
* An attached sender fails at any time; the controller's error path then revokes
  every lease.

### PeerInput

One peer, its control channels 1..MaxControl, its input and motion channels
named by the generation they were set with. `handler[c]` is where
`handleControlMessage` of channel `c` is, between the critical sections of
`controlMu`, `inputMu` and the controller; `todo[a]` is what a goroutine still has
to do of advancing the generation, releasing, and writing.

* A channel opens when the `onDataChannel` call that sets it returns (pion runs
  OnOpen after it; external). A channel may still be set after the peer began
  to close, because the check is not under the lock: the model allows it.
* Reading the channel fields and looking at `ReadyState` is one step. Closing the
  previous channel has no effect of its own on this state; its end is
  `ChannelEnds` and its cleanup.
* `closing` is `isClosing()`, so it includes the context that Service.Close cancels.

### PeerRegistry

One step is one critical section of `peersMu`; `admitMu` and `qualityChangeMu` are
variables that say who holds them, because the code waits while it holds them.
`pc` is where `Handler`, `newPeer` and `run` are for a connection, `fin` where
its `finishClose` is, `up` where a quality update is.

* `closeWith` is one step: what it sets before it starts `finishClose` is
  seen by nobody in between. `ownedOpen` is `~closing`.
* The goroutines a peer owns are a number. What makes a peer close by itself
  (signaling error, ICE failure, ping) is the action `PeerCloses`.
* `registerPeer`, the bitrate applied after it and the unlock are one step, as are
  the generation count and the unlock in `Mark`: both are under `qualityChangeMu`.
* The check and the close of `closePeerForProfileChange` are two steps.
* `ReplaceTimesOut` and `CloseTimesOut` may always happen where the code has a timer.
* A later call of Close may come from the same caller: it only waits.

### EncoderPipeline

A branch is its generation, and the quality it was made with has the same
number. The channels of a branch that are only ever closed are sets (`stopped`,
`activated`, `ready`, `done`, and `failed` for its error); its goroutines and its
streaming thread are functions from branches to places (`sink`, `pump`, `monitor`,
`watch`, `close`). `update` is where UpdateQuality with ReplaceQuality is, `runner` where Run
with the pipeline's Start and Close is; from them follows who holds `replaceMu`,
`branchMu`, `errMu` and `emitMu`. `last` and `refused` are history.

* GStreamer is external: it produces samples, errors and the end of a stream when it
  likes, `faults` bounds the errors; a callback that returns anything but OK
  ends the flow of its branch; a change to NULL returns when the callback is back.
* Pulling a sample and the checks before the first wait are one step; `setErr` and
  `close(stop)` are one step. The caller of Fail has looked at `stop` before, so it may
  fail a branch that is stopped by now: the guard does not ask.
* `old.Stop()` inside `activateIfHealthy` is two steps, `Promote` and `Switch`, with all
  that may happen in between while `branchMu` and the candidate's `errMu` are held.
* A retired branch closes in a goroutine of its own: `joins` is what Close waits for.
* The timer of ReplaceQuality may fire at any time (`WaitFails`), as may the refusal of
  a property by pipewiresrc.

### MediaTransport

One peer and the Run loop that hands samples to it. Every load or store of an
atomic, every section of a mutex and every channel operation is a step, because
`enqueueVideo` reads the gate, puts the sample and opens the gate in three steps
(`media_transport.go:177-199`) while `SelectTarget` closes it from another goroutine.

* `loop` is where `Service.Run` is with its sample; `writer` and `audioWriter` are where
  the two write loops are; `pending`/`wake` and `audio`/`audioWake` are the mailboxes.
* `epoch`, `keyed`, `raced`, `asked` and `advanced` are history that no guard reads. `raced`
  collects the closings of the gate during which the loop had a sample of the peer in
  its hands: the known exception of `GateHolds` (section 5).
* Sample times are in the unit of `Second`, and `MaxTicks` stands for `^uint32(0)`: the
  arithmetic of `durationToTicks`, with its clamp, is kept for any values.
* Other peers may fill the channel of keyframe requests (`"other"`). For a source
  with targets `RequestKept` promises nothing: there a request names its peer,
  and the one that is dropped may be another's.

### ClipboardChannel

The data channels of one peer, of which a new one replaces the current one. `handler` is
where `handleClipboardMessage` of a channel is between its sections of `clipboardMu`,
`timers` are the `time.AfterFunc` callbacks from being armed to having answered,
`writers` the goroutines that send. A message is chosen when it is handled: pion
calls the handler of one channel sequentially, so a queue of messages would add
nothing. `transferGeneration` is left out, because only the handler itself
changes it and it can never differ; so are chunks without bytes. Bytes are numbered,
so that `FormatsExact` can tell where each one went.

### ClipboardSync and PortalSession

`ClipboardSync` is the state of the selection: the compositor numbers its
selections, and the number of a selection is its content, so that newer and older are
comparisons. A D-Bus call is three steps (sent, takes effect, returned), and signals
wait in the order in which they came. `PortalSession` EXTENDS it with the steps of `Open`
(`service`), the resources that the process has (`held`), the session at the portal
(`desk`), the token file, and a `Restart` that may come at any moment, with or
without a loss of power. `lost`, `failed`, `since` and `heard` are history.

* `service` goes through `Open` and `desktop.Service.Run`; every step may fail
  (`OpenFails` runs the deferred function).
* A request is a call, an answer of the portal among other signals, and
  `RequestAnswered`; `Closed` of the session ends it by `OpenFails`.
* The token file is `config`, `token`, and whether it is whole and on the disk. A
  power loss leaves the old name, or the new one with its data only if that was synced. The
  directory is not synced by the code, so the old token may come back (`durable`).
* One MIME type stands for all. `eisRemote` in the deferred function of Open cannot be
  set when it runs, so it is not a resource of the model.

## 3. Runs

| Run | Bounds | Distinct states | Shows |
|---|---|---|---|
| `input_shared` | 2 peers, 1 key, no locking, queue of 2, 3 leases, 3 events, 1 reset | 0.94 M | queue, leases and counts agree, no transition lost, resets seen, presses are the lease's own, ends reported |
| `input_live` | 1 peer, motion and text, queue of 2, 2 leases, 3 events, 1 reset | 160 k | order under coalescing, events settle, Close returns, a reset ends its leases, `LeaseTable` implemented |
| `peer_channels` | 2 control, 2 input, 1 motion channel, 2 requests | 1.53 M | no lease without channels, no late revocation hits a new lease |
| `peer_live` | one channel of each kind, 1 request, 1 target event | 32 k | closed peer ends without lease, ended channel takes its lease along |
| `peer_answer` (violation) | as above without ends | | finding 1 |
| `registry_safe` | 2 peers, Close, 2 updates, 2 codecs | 2.05 M | activity, closeDone, owned goroutines, stale codecs |
| `registry_live` | 2 connections for 1 place, replacement mode, Close, 1 update that may fail | 40 k | reservations exact, every close ends, every connection is decided |
| `registry_codec` (violation) | 1 peer, 1 update, encoder may refuse a bitrate | | finding 2 |
| `encoder` | 1 replacement, 1 error | 125 k | clean change of encoder, failures reported, nothing left behind, Samples closed last, UpdateQuality and Run return |
| `media_transport` | 3 samples, 1 connection, 1 target change, 1 request of the peer or of another; 3 ticks in 7 time units | 1.00 M | wake-ups kept, gate held, requests kept, RTP time exact |
| `clipboard_channel` | 2 channels, 2 transfers of an empty format and of three formats with an empty one, chunks of 2 bytes, 1 content sent | 1.30 M | answers at most once, bytes in their formats, senders woken |
| `portal_session` | 2 starts of the process with 2 configurations, 1 peer, 2 selections, 1 paste | 1.30 M | pastes and copies, token, closure, resources, connection |

Why the bounds are enough to meet the interesting cases: two peers are needed
for shared keys; a second and third lease let an event in hand
outlive its lease and meet the next one; a queue of two is filled by three
events, so the overload, an entry behind an entry, and a merge into the last of
two happen; one reset suffices because the one-slot channel needs only a second
signal, which a pause without keys also gives. Two control channels are needed for a handler
that outlives its channel. One place for two connections is the limit itself, two places
let a peer leave while another stays;
two updates with two codecs let an update supersede another and go back.
One replacement has an old branch, a candidate and, after it, a retired branch; with one
error either may fail. With two errors, and with three branches and one error (5.5 M
states), the safety properties hold as well.
Three samples are an inter frame in the mailbox that is replaced, a keyframe that must
not be, and one in the writer's hand; the audio queue of two overflows with three.
Seven time units for three ticks give a remainder at every step, and the sample times
a gap below a tick and one above. Two transfers on two channels let a timer of one
run against the chunks of the other; a second content would only repeat the first.
Two selections are the peer's and the desktop's in either order. The second start
reads what the first one left, with the same configuration or another.

Deadlock is not checked: with bounded inputs every model comes to rest, and a
server without clients is idle too. What must not stop is stated as liveness.

Symmetry: peers in the safety run of the controller; connections and updaters
in `registry_safe`; channels; configurations. The liveness runs use none. In
`clipboard_channel` a VIEW leaves out the senders and the buffers once the last content has
been sent, and the reservation of a channel that was taken down: nothing reads them then.
`portal_session` has a VIEW too: in the last run nothing reads or writes the token file once Open is through,
so states that differ in it alone are taken as one. `TokenKept` speaks of the file in
those states too, but has been checked for the same file in the step before, `"eis"`,
which the view does not merge.

## 4. Fairness

* `InputController`: weak fairness of the three goroutines `run`, `watchSender` and
  the sender's `run`, of a started callback, and of the continuation of Close.
  The Go scheduler runs every goroutine that is ready; none is starved by the
  environment, because no step of another disables it for ever. Peers, portal
  and devices owe nothing.
* `PeerInput`: every goroutine that has begun something goes on, and an ended
  channel gets its cleanup (pion calls OnClose). The client owes nothing.
* `PeerRegistry`: strong fairness of Handler and of finishClose, since both take
  mutexes that are free only now and then; Go's mutex hands itself over to a
  waiter after 1 ms, so it starves nobody. Goroutines a peer owns end once its
  context is cancelled. No timer has to fire: liveness holds without the
  deadlines of Close and of replaceActivePeer.

* `EncoderPipeline`: weak fairness of the goroutines of a branch, of a streaming thread
  that need not wait for the reader, and of the update, whose wait for a keyframe
  ends with its timer; strong fairness of Run, which takes `replaceMu`. The encoder
  need not produce a sample, the reader of Samples need not take one.

`MediaTransport`, `ClipboardChannel` and `PortalSession` are checked without fairness. That
nothing waits for good is stated there as an invariant: whoever waits has a token, or
someone who is going to wake it (`WakeupKept`, `WriterReleased`, `CopyUnderWay`).

## 5. Findings

1. **An acquire may be answered with success although its lease is gone**
   (`peer_answer`, `webrtc/service.go:336`). The generation is advanced under
   `inputMu`, the lease is released after the unlock. An acquire between
   the two stamps the new generation, is granted, passes all checks, and the
   Release then ends it; nothing tells the client.
2. **A codec change may leave old peers behind** (`registry_codec`,
   `webrtc/service.go:509`). If the source takes the quality and the congestion
   bitrate then fails, the peers with the old codec are neither listed nor closed.

The documents that say otherwise are quoted in `PROJECT.json`.

What the models make visible besides, and no property asserts:

* `replaceActivePeer` (`webrtc/service.go:780`) finds nobody to wait for when the current peer
  has left `Service.peers` and has not returned its reservation yet, with a wait for
  `qualityChangeMu` in between: the new connection gets `peer_limit`, where
  `docs/embedding.md:84-86` says that it waits for the old resources.
* A device reset before `watchSender` first reads the status is taken as its base, so a
  lease granted just before it keeps believing in a key that the desktop has
  released. `ResetsSeen` excepts exactly this (`missed`, `watch = "starting"`).
* A keyframe of the old target that the Run loop is handing over opens the gate that
  `SelectTarget` has just closed, and the new target may begin with an inter frame; the
  decoder recovers with its next PLI (`raced` in `GateHolds`). A reconnection closes the gate
  without a new request for a keyframe.
* The video mailbox replaces an inter frame that others refer to, while
  `docs/architecture.md:60-61` says that encoded reference chains are not dropped; the next
  PLI repairs it.
* `Controller.latest` may be older than the desktop's selection, when `Set` stores its content after a
  change was published (`clipboard/controller.go:122`).
* A `Write` that a change signal overtakes is answered as a success but does not keep its
  content, so a program that pastes that selection gets an older one (`lost`;
  `docs/protocol.md:382-390` describes the answer).
* A crash leaves the temporary file of the token behind, under a name of its own.

## 6. Proofs

Everything here holds for any finite set of peers or connections and any
bounds; the assumptions are those of the modules (`ConstantsAssumption`,
`RegistryAssumption`, `EncoderAssumption`, `TrackAssumption`, `BoundsAssumption`, `ChannelAssumption`,
`SyncAssumption`, `PortalAssumption`), which TLC evaluates.

**InputController** (`InputControllerProofs`). The properties need each other: that
the queue belongs to live leases needs the generations to be fresh
(`Numbered`); that the counts are exact needs that only live leases hold codes
(`HoldersLive`); that nothing is stuck needs both, and the order in which
Close drops leases and stops the sender (`CloseOrder`); the order of the queue needs
tickets that identify entries. `IInv` is their conjunction, with `TypeOK`, and
`InductiveInvariant` proves it with one lemma per action. Cardinalities (`QueuedCounted`,
`CountsMatchLeases`) rest on lemmas about adding and removing elements. The
invariants `TypeCorrect`, `LockIsExclusive`, `QueueIsConsistent` (owned, counted, ordered),
`HeldIsConsistent` (counts and codes that are down), `WakeupKept` and
`QuietAfterClose` follow; the action properties `PressesOwn` and `LeaseEndReported` follow
from `IInv` and one step. Two invariants are proved beside `IInv`. `TransitionsOwed`
adds to `NoTransitionDropped` that an owner without a lease is owed nothing, so that
its next lease starts even; each step then adds or removes one transition, which the
tickets keep apart (`TransitionsKept`). `WatcherKnows` is what `ResetsSeen` needs to be
inductive: the token of a reset also waits while `watchSender` revokes, the count never
falls behind the baseline, and a watcher has ended only when there is no lease left
(`ResetsAreSeen`).

**Refinement** (`InputRefinement`). `Refinement == Spec => ImplementsTable`: the table's
variables are the controller's own, each step of a peer, the worker, the watcher,
the portal or the sender is a step of the table or leaves it alone.

**PeerInput** (`PeerInputProofs`). The proof uses the steps of `LeaseTable` and nothing of
the controller. `LeaseNeedsChannels` is not inductive, since it says nothing of a handler
that has not acquired yet. `LossIsStamped` does: once the lease generation has been advanced
for a lost channel or for closing, every handler that is about to acquire, or may still
keep what it acquired, has an older stamp. `DueMeansLost` says that a lease
cannot be kept while the callback of the current generation is due, and
`CallIsFresh` that a callback is one handler's own; `OneThingAtATime` orders the critical
sections of a goroutine. With them `PeerInputInvariant`, then `LeaseHasChannels` and, for the
action property, `RevocationIsLate`, for any number of channels, requests and events.

**PeerRegistry** (`RegistryProofs`). `RegistryInvariant` proves `IInv`: reservations
are counted by `Holds`, which is a statement about where each connection and its
finishClose are (`Phases`), and whatever is going to be closed has been
registered (`Targets`), so that closing never starts for a connection without a
reservation. From it `ReservationsExact`, `ActiveExact`, `CloseDoneIsExact`,
`OwnedAllWaited`. `StaleCodecsClose` proves `StalePeersClose` with `CodecInv`, which
adds what `qualityChangeMu` protects (`ChangeLocked`, `AllFound`), under the
assumption `BitrateMayFail = FALSE`: with a bitrate that is refused the
statement is false, which is finding 2.

**EncoderPipeline** (`EncoderProofs`). `IInv` has one lemma per action. That the
change is clean rests on three facts: an unstopped active branch, and one that
is emitting, is the newest active one (`Streams`), because `Switch` waits for the old
emit; a candidate that is ready holds its keyframe until it is active or stopped,
and that keyframe is what it emits first (`Keyframes`); while `old.Stop()` waits, the
candidate cannot fail, because its `errMu` is held (`Phases`). A failed branch is
in somebody's hands until `done` is closed, and its watcher is still there
(`Reports`). `Settled` follows the candidate, the frame rate and the quality through the
phases of the update, `Closes` every branch that was made until it is closed. From it
`SamplesSwitchCleanly`, `FailureReachesRun`, `ReplacementIsSettled`, `SamplesAreClosedLast`.

**MediaTransport** (`MediaProofs`). The invariant `IInv` has one lemma per action.
`WakeupsKept` needs that a writer which comes back to a queue finds its token
(`TokenReturned`). `GateIsHeld` follows a frame from the loop through the mailbox to the
writer (`FramesFollow`, with `Granted`, `Delivered` and `Pass`): an inter frame that passed the gate comes after a
keyframe of its epoch, in the mailbox, in hand or written. `TimestampsAreExact` needs no
induction over time but an arithmetic that no prover does at once: the lemmas `Division`,
`Product`, `Distribute`, `Monotone`, `Cancel` and `Carry` give the sum with remainder, and
`TickBounds` that an advance is at least a tick and at most half of the range, so that
it never clamps. It assumes `MaxTicks >= 4`, a clock of at most one tick per time unit, and
durations that are zero or at least a tick.

**PortalSession** (`PortalProofs`). `IInv` says what is held at each step of Open, Run and finish
(`HeldInOrder`), that only a whole and synced file ever gets its name (`FilesWhole`), that
nothing is under way before the session and after finish (`NothingUnderWay`,
`BeforeSession`), and that a closure is noticed or waits in the queue. The steps of the clipboard
keep it by one lemma, `ClipboardFrame`. From it `TokenIsKept`, `ClosureIsNoticed`, `NothingIsLeft`
and `ConnectionIsKept`, for any number of restarts, callers and selections.

`SelectionInv`, beside it, is about the content of the clipboard. A paste is fresh because the
content of the peer's selection, and of every selection that a waiting signal asks for, is
kept, lost, or in the hands of a Write that has set it (`PastesAccounted`), only one Write is
between its call and its end (`OneWrite`), and nothing is newer than the selection
(`NothingNewer`). A copy is under way because the reads follow the generations in their
order (`ReadsInOrder`), no read or Write passes a copy whose signal has been handled
(`NotPassed`), and a subscriber is never given an older content than it has (`NotOlder`).
`CopyUnderWay` promises nothing before the clipboard is attached, so it is not inductive:
`CopyComes` says the same of the steps of Open and of attaching. From it `PasteIsFresh`
and `CopyArrives`.

**ClipboardChannel** (`ClipboardProofs`). `OneHolder` says of every transfer that at most one of its
channel, its handler and a timer that gave it up holds it, and that one which was answered, or
has not begun, has no holder (`HeldOnce`). Most steps are steps of one channel that pass a
transfer on, drop it or begin a new one: `ChannelStepKeeps` is proved once for all of
them. `OneSender` says that a goroutine between its header and its last chunk has
`clipboardWriteMu`, so that no other takes the token it waits for. From these
`TransfersAnsweredOnce` (by way of `HoldersCounted`, the cardinality of the holders) and `SendersReleased`, for
any channels, declared sizes, chunks and contents.

`FormatsAreExact` is about recursive functions: the sum of the sizes before a format
(`Before`) and the bytes of a chunk (`Fill`). The induction theorems of the library take an
operator and cannot be used; the proof takes the least element of a set
instead (`Least`, from the well-foundedness of `<`, and `Climb` from it) and applies it to the
set of numbers for which a statement holds. So the functions exist (`SumsExist`, `StepsExist`),
`Before` grows format by format (`BeforeIs`, `BeforeGrows`), `NextFormat` skips only empty
formats (`NextFormatIs`, `NextFormatSkips`), and a byte keeps `Spread`: the formats before
the current one are full, those after it empty (`PutByteSpread`, `FillSpread`). `SpreadInv` is
`Spread` for everything that is received or in hand, and inductive beside `IInv`.
`SpreadExact` then gives what `FormatsExact` says without an index: each format has
its own part of what has arrived.

## 7. Only model-checked

Liveness and fairness (`EventsSettle`, `CloseReturns`, `ResetEndsLeases`,
`ClosedPeerHoldsNothing`, `EndedChannelReleases`, `ClosingEnds`,
`AdmissionDecided`, `WaitsEnd`) are outside the prover's reach. Every invariant and every
other action property that a passing run checks is also a theorem.

## 8. Plan

In the order of importance; each with its run, and a proof where marked.

1. Done: input controller, its lease table, peer channels, registry, encoder
   replacement, media transport, clipboard, portal session with its restore token.
2. An abstract specification of the encoder, "samples of one generation at a time",
   with `EncoderPipeline` as its implementation, for the composition with the media
   transport.
3. Bitrate and quality: congestion estimates applied late, UpdateQuality against
   SetBitrate.
4. Input messages and control requests not covered yet; signaling and
   candidates; application channels.
5. Audio device gate; start and stop of `internal/app`.
6. `eis.Sender` with several devices.
7. Web client: reconnection and its request table.
8. Proofs for what the parts above add, and the safety half of the liveness properties:
   what a step on the way may not undo.

A new part gets a run of its own only where no existing configuration can ask its
question, so that the whole suite stays quick.

## 9. Not modelled, and why

Protocol decoding, configuration, command line, logging, HTTP routes and the
encoder table are sequential code without state after start. libei, GStreamer,
pion, D-Bus and the compositor are external; they appear only as what the code
sees of them. The user interface of the web client is layout. Everything else
is in the plan.
