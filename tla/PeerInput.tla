----------------------------- MODULE PeerInput ------------------------------
(***************************************************************************)
(* How one peer of webrtc/ acquires and gives up input: the control, input *)
(* and input-motion data channels it has, the requests on its control      *)
(* channel, and everything that takes its lease away.  The controller is   *)
(* the LeaseTable.                                                         *)
(*                                                                         *)
(* Channels can be replaced, a replaced control channel may still be at    *)
(* work on a request, and every goroutine runs between two critical        *)
(* sections of controlMu, inputMu and the controller.  The lease of the    *)
(* peer is guarded by inputLeaseGeneration alone: whoever makes the lease  *)
(* void advances it first and releases the lease after that.               *)
(*                                                                         *)
(* The peer is connected from the start: closeWith clears connected right  *)
(* after it sets closing, and isClosing() is what is modelled.             *)
(***************************************************************************)
EXTENDS Integers

CONSTANTS
  Peer,         \* the id of the peer
  MaxControl,   \* bound: control channels opened
  MaxInput,     \* bound: input channels opened, and times they are revoked
  MaxMotion,    \* bound: input-motion channels opened, and times revoked
  MaxRequests,  \* bound: control requests
  MaxEnds,      \* bound: channels that end by themselves
  MaxEvents     \* bound: target events

ASSUME BoundsAssumption ==
  {MaxControl, MaxInput, MaxMotion, MaxRequests, MaxEnds, MaxEvents} \subseteq Nat

VARIABLES closed, generation, lease, revoke, notices   \* the lease table

tableVars == <<closed, generation, lease, revoke, notices>>

VARIABLES
  closing,     \* peer.isClosing()
  control,     \* peer.control, as the number of the channel, 0 when nil
  input,       \* peer.input, as the generation it was set with, 0 when nil
  motion,      \* peer.inputMotion, likewise
  inputGen,    \* peer.inputChannelGeneration
  motionGen,   \* peer.inputMotionGeneration
  leaseGen,    \* peer.inputLeaseGeneration
  opened,      \* control channels opened so far
  ended        \* channels that are no longer open, until their cleanup has run

peerVars == <<closing, control, input, motion, inputGen, motionGen, leaseGen, opened, ended>>

VARIABLES
  setter,      \* where onDataChannel is
  handler,     \* where handleControlMessage of each control channel is
  todo,        \* what each goroutine has left of giving the lease up
  requests,    \* number of control requests
  ends,        \* number of channels that ended
  events       \* number of target events

workVars == <<setter, handler, todo, requests, ends, events>>

\* A revocation callback holds the generations it was made with.
Callback(i, m, l) == [input |-> i, motion |-> m, lease |-> l]
NoCallback == Callback(0, 0, 0)

Table ==
  INSTANCE LeaseTable WITH
    Owners <- {Peer}, Locking <- FALSE, Calls <- {}, NoCall <- NoCallback,
    Callers <- {"controller"}

vars == <<tableVars, peerVars, workVars>>

-----------------------------------------------------------------------------
Controls == 1 .. MaxControl

Channels ==
  ({"control"} \X Controls) \cup ({"input"} \X (1 .. MaxInput)) \cup
  ({"motion"} \X (1 .. MaxMotion))

Setter == <<"setter", 0>>    \* onDataChannel, which runs for one channel at a time
Closer == <<"closer", 0>>    \* the goroutine that runs closeOnce
Loop   == <<"loop", 0>>      \* the Run loop of the service
Handler(c) == <<"handler", c>>

\* The goroutines: a channel stands for its cleanup.
Actors == Channels \cup {Setter, Closer, Loop} \cup {Handler(c) : c \in Controls}

\* The channel is the one the peer has.
Owned(ch) ==
  \/ ch[1] = "control" /\ control = ch[2]
  \/ ch[1] = "input"   /\ input  = ch[2] /\ inputGen  = ch[2]
  \/ ch[1] = "motion"  /\ motion = ch[2] /\ motionGen = ch[2]

NoWork == [pc |-> "idle", input |-> 0, motion |-> 0, call |-> NoCallback]

Init ==
  /\ Table!Init
  /\ closing = FALSE /\ control = 0 /\ input = 0 /\ motion = 0
  /\ inputGen = 0 /\ motionGen = 0 /\ leaseGen = 0 /\ opened = 0 /\ ended = {}
  /\ setter = "idle" /\ handler = [c \in Controls |-> NoWork]
  /\ todo = [a \in Actors |-> "nothing"]
  /\ requests = 0 /\ ends = 0 /\ events = 0

-----------------------------------------------------------------------------
(* Giving the lease up: advance the lease generation, release the lease,   *)
(* and write to the control channel where the code does.                   *)

Bump(a) ==
  /\ todo[a] = "bump"
  /\ leaseGen' = leaseGen + 1
  /\ todo' = [todo EXCEPT ![a] = "release"]
  /\ UNCHANGED <<tableVars, setter, handler, requests, ends, events>>
  /\ UNCHANGED <<closing, control, input, motion, inputGen, motionGen, opened, ended>>

\* controller.Release: it is no error to release nothing.
ReleaseLease == IF lease[Peer] # 0 THEN Table!Drop(Peer) ELSE UNCHANGED tableVars

AfterRelease(a) == IF a = Loop THEN "write" ELSE "nothing"

ReleaseStep(a) ==
  /\ todo[a] = "release"
  /\ ReleaseLease
  /\ todo' = [todo EXCEPT ![a] = AfterRelease(a)]
  /\ setter' = IF a = Setter THEN "idle" ELSE setter
  /\ UNCHANGED <<peerVars, handler, requests, ends, events>>

\* writeControl succeeds on the current channel of a peer that is not closing;
\* the Run loop skips it when there is no control channel.
WriteOk(a) ==
  /\ todo[a] = "write"
  /\ IF a = Loop THEN control = 0 \/ ~closing ELSE control = a[2] /\ ~closing
  /\ todo' = [todo EXCEPT ![a] = "nothing"]
  /\ UNCHANGED <<tableVars, peerVars, setter, handler, requests, ends, events>>

\* closeWith: the first caller goes on as Closer.
StartClose(after) ==
  /\ closing' = TRUE
  /\ todo' = IF closing /\ todo[Closer] # "close" THEN after
             ELSE [after EXCEPT ![Closer] = "bump"]

\* Otherwise, and when the channel fails, the peer is closed.
WriteFails(a) ==
  /\ todo[a] = "write"
  /\ a = Loop => control # 0
  /\ StartClose([todo EXCEPT ![a] = "nothing"])
  /\ UNCHANGED <<tableVars, setter, handler, requests, ends, events>>
  /\ UNCHANGED <<control, input, motion, inputGen, motionGen, leaseGen, opened, ended>>

\* The socket or the connection closes the peer.
Close ==
  /\ ~closing /\ StartClose(todo)
  /\ UNCHANGED <<tableVars, setter, handler, requests, ends, events>>
  /\ UNCHANGED <<control, input, motion, inputGen, motionGen, leaseGen, opened, ended>>

\* Service.Close cancels the context of every peer ...
ServiceCancels ==
  /\ ~closing /\ closing' = TRUE
  /\ todo' = [todo EXCEPT ![Closer] = "close"]
  /\ UNCHANGED <<tableVars, setter, handler, requests, ends, events>>
  /\ UNCHANGED <<control, input, motion, inputGen, motionGen, leaseGen, opened, ended>>

\* ... before it closes one after the other.
ServiceCloses(a) ==
  /\ a = Closer /\ todo[a] = "close" /\ StartClose(todo)
  /\ UNCHANGED <<tableVars, setter, handler, requests, ends, events>>
  /\ UNCHANGED <<control, input, motion, inputGen, motionGen, leaseGen, opened, ended>>

-----------------------------------------------------------------------------
(* Data channels: setControlChannel, setInputChannel, setInputMotionChannel*)
(* and their cleanup.  Closing a channel that has been replaced changes    *)
(* nothing here: its cleanup finds that the peer has another one.          *)

\* onDataChannel looks at closing before it locks anything, so a channel can
\* still be set some time after closing: nothing is required of closing here.
SetControlChannel ==
  /\ setter = "idle" /\ opened < MaxControl
  /\ control' = opened + 1 /\ opened' = opened + 1
  /\ setter' = IF control = 0 THEN "idle" ELSE "controlSet"
  /\ todo' = [todo EXCEPT ![Setter] = IF control = 0 THEN "nothing" ELSE "bump"]
  /\ UNCHANGED <<tableVars, handler, requests, ends, events>>
  /\ UNCHANGED <<closing, input, motion, inputGen, motionGen, leaseGen, ended>>

SetInputChannel ==
  /\ setter = "idle" /\ inputGen < MaxInput
  /\ input' = inputGen + 1 /\ inputGen' = inputGen + 1 /\ leaseGen' = leaseGen + 1
  /\ setter' = IF input = 0 THEN "idle" ELSE "inputSet"
  /\ todo' = [todo EXCEPT ![Setter] = IF input = 0 THEN "nothing" ELSE "release"]
  /\ UNCHANGED <<tableVars, handler, requests, ends, events>>
  /\ UNCHANGED <<closing, control, motion, motionGen, opened, ended>>

SetMotionChannel ==
  /\ setter = "idle" /\ motionGen < MaxMotion
  /\ motion' = motionGen + 1 /\ motionGen' = motionGen + 1 /\ leaseGen' = leaseGen + 1
  /\ setter' = IF motion = 0 THEN "idle" ELSE "motionSet"
  /\ todo' = [todo EXCEPT ![Setter] = IF motion = 0 THEN "nothing" ELSE "release"]
  /\ UNCHANGED <<tableVars, handler, requests, ends, events>>
  /\ UNCHANGED <<closing, control, input, inputGen, opened, ended>>

\* A channel closes or fails; its cleanup runs some time later.
ChannelEnds(ch) ==
  /\ Owned(ch) /\ ch \notin ended /\ ends < MaxEnds
  /\ ended' = ended \cup {ch} /\ ends' = ends + 1
  /\ UNCHANGED <<tableVars, setter, handler, todo, requests, events>>
  /\ UNCHANGED <<closing, control, input, motion, inputGen, motionGen, leaseGen, opened>>

\* What a cleanup that found its channel current still has to do.
AfterCleanup_Forgets(ch) == IF ch[1] = "control" THEN "bump" ELSE "nothing"
AfterCleanup(ch) == IF ch[1] = "control" THEN "bump" ELSE "release"

CleanupControl(ch) ==
  /\ ch \in ended /\ ch[1] = "control" /\ Owned(ch)
  /\ control' = 0
  /\ todo' = [todo EXCEPT ![ch] = AfterCleanup(ch)]
  /\ UNCHANGED <<tableVars, setter, handler, requests, ends, events>>
  /\ ended' = ended \ {ch}
  /\ UNCHANGED <<closing, input, motion, inputGen, motionGen, leaseGen, opened>>

CleanupInput(ch) ==
  /\ ch \in ended /\ ch[1] \in {"input", "motion"} /\ Owned(ch)
  /\ input'  = IF ch[1] = "input"  THEN 0 ELSE input
  /\ motion' = IF ch[1] = "motion" THEN 0 ELSE motion
  /\ leaseGen' = leaseGen + 1
  /\ todo' = [todo EXCEPT ![ch] = AfterCleanup(ch)]
  /\ UNCHANGED <<tableVars, setter, handler, requests, ends, events>>
  /\ ended' = ended \ {ch}
  /\ UNCHANGED <<closing, control, inputGen, motionGen, opened>>

Cleanup(ch) == CleanupControl(ch) \/ CleanupInput(ch)

-----------------------------------------------------------------------------
(* Requests: handleControlMessage reads one channel's messages in order.   *)

Idle(c) == handler[c].pc = "idle" /\ todo[Handler(c)] = "nothing"

Goes(c, pc) == handler' = [handler EXCEPT ![c].pc = pc]

\* The handler is done but for what todo says.
Leaves(c, rest) ==
  /\ handler' = [handler EXCEPT ![c] = NoWork]
  /\ todo' = [todo EXCEPT ![Handler(c)] = rest]

\* A message is handled once the channel is open, and only on the current one.
Begins(c) ==
  /\ Idle(c) /\ control = c /\ setter # "controlSet" /\ ~closing
  /\ requests < MaxRequests
  /\ requests' = requests + 1
  /\ UNCHANGED <<tableVars, peerVars, setter, ends, events>>

\* target.select gives input up and leaves the selection to another goroutine.
SelectTarget(c) == Begins(c) /\ Leaves(c, "bump")

AcquireBegin(c) == Begins(c) /\ Goes(c, "read") /\ UNCHANGED todo

ReleaseBegin(c) == Begins(c) /\ Goes(c, "releaseOwn") /\ UNCHANGED todo

\* input.release drops the lease and keeps its generation.
ReleaseOwn(c) ==
  /\ handler[c].pc = "releaseOwn"
  /\ ReleaseLease
  /\ Leaves(c, "write")
  /\ UNCHANGED <<peerVars, setter, requests, ends, events>>

\* Both input channels are there and open: a channel opens when the call of
\* onDataChannel that sets it returns.
BothOpen ==
  /\ input # 0 /\ <<"input", input>> \notin ended /\ setter # "inputSet"
  /\ motion # 0 /\ <<"motion", motion>> \notin ended /\ setter # "motionSet"

ReadChannels(c) ==
  /\ handler[c].pc = "read" /\ BothOpen
  /\ handler' = [handler EXCEPT ![c].pc = "stamp", ![c].input = input, ![c].motion = motion]
  /\ UNCHANGED <<tableVars, peerVars, setter, todo, requests, ends, events>>

\* input_channel_required
ChannelRequired(c) ==
  /\ handler[c].pc = "read" /\ ~BothOpen
  /\ Leaves(c, "write")
  /\ UNCHANGED <<tableVars, peerVars, setter, requests, ends, events>>

\* The generations of the callback, and the lease generation advanced.
Stamp(c) ==
  /\ handler[c].pc = "stamp"
  /\ leaseGen' = leaseGen + 1
  /\ IF handler[c].input = input /\ handler[c].motion = motion /\ ~closing
     THEN handler' = [handler EXCEPT ![c].pc = "acquire",
                        ![c].call = Callback(inputGen, motionGen, leaseGen + 1)]
     ELSE handler' = [handler EXCEPT ![c] = NoWork]
  /\ UNCHANGED <<tableVars, setter, todo, requests, ends, events>>
  /\ UNCHANGED <<closing, control, input, motion, inputGen, motionGen, opened, ended>>

\* The check of closing between the stamp and Acquire.
AcquireSkipped(c) ==
  /\ handler[c].pc = "acquire" /\ closing
  /\ Leaves(c, "nothing")
  /\ UNCHANGED <<tableVars, peerVars, setter, requests, ends, events>>

Acquire(c) ==
  /\ handler[c].pc = "acquire"
  /\ \/ Table!Grant(Peer, handler[c].call)
     \/ Table!Regrant(Peer, handler[c].call)
  /\ Goes(c, "lookControl")
  /\ UNCHANGED <<peerVars, setter, todo, requests, ends, events>>

\* The controller refuses: an error is written if the channel is current.
AcquireFails(c) ==
  /\ handler[c].pc = "acquire"
  /\ \/ control = c /\ ~closing /\ Leaves(c, "write")
     \/ (control # c \/ closing) /\ Leaves(c, "nothing")
  /\ UNCHANGED <<tableVars, peerVars, setter, requests, ends, events>>

LookControl(c) ==
  /\ handler[c].pc = "lookControl"
  /\ IF control = c THEN Goes(c, "lookInput") /\ UNCHANGED todo
                    ELSE Leaves(c, "bump")
  /\ UNCHANGED <<tableVars, peerVars, setter, requests, ends, events>>

\* Nothing has replaced a channel or taken the lease since the stamp.
StillCurrent_Channels(h) == input = h.input /\ motion = h.motion
StillCurrent(h) ==
  /\ input = h.input /\ motion = h.motion
  /\ h.call = Callback(inputGen, motionGen, leaseGen)

LookInput(c) ==
  /\ handler[c].pc = "lookInput"
  /\ IF StillCurrent(handler[c]) THEN Goes(c, "answer") /\ UNCHANGED todo
                                 ELSE Leaves(c, "bump")
  /\ UNCHANGED <<tableVars, peerVars, setter, requests, ends, events>>

\* The last look, at closing: the lease is given up after all.
GiveUp(c) ==
  /\ handler[c].pc = "answer" /\ closing
  /\ Leaves(c, "bump")
  /\ UNCHANGED <<tableVars, peerVars, setter, requests, ends, events>>

\* input.acquire.result reaches the client ...
Answer(c) ==
  /\ handler[c].pc = "answer" /\ control = c /\ ~closing
  /\ Leaves(c, "nothing")
  /\ UNCHANGED <<tableVars, peerVars, setter, requests, ends, events>>

\* ... or the peer is closed.
AnswerFails(c) ==
  /\ handler[c].pc = "answer"
  /\ handler' = [handler EXCEPT ![c] = NoWork]
  /\ StartClose(todo)
  /\ UNCHANGED <<tableVars, setter, requests, ends, events>>
  /\ UNCHANGED <<control, input, motion, inputGen, motionGen, leaseGen, opened, ended>>

Request(c) == SelectTarget(c) \/ AcquireBegin(c) \/ ReleaseBegin(c)

Handle(c) ==
  \/ ReleaseOwn(c) \/ ReadChannels(c) \/ ChannelRequired(c) \/ Stamp(c)
  \/ AcquireSkipped(c) \/ Acquire(c) \/ AcquireFails(c) \/ LookControl(c) \/ LookInput(c)
  \/ GiveUp(c) \/ Answer(c) \/ AnswerFails(c)

-----------------------------------------------------------------------------
(* The controller's side, and the Run loop.                                *)

ControllerRevokes ==
  /\ lease[Peer] # 0 /\ Table!Revoke({Peer}, "controller")
  /\ UNCHANGED <<peerVars, workVars>>

ControllerCloses == Table!Shut /\ UNCHANGED <<peerVars, workVars>>

\* The callback still speaks of the channels and the lease the peer has.
Concerns_AnyLease(call) ==
  input # 0 /\ motion # 0 /\ call.input = inputGen /\ call.motion = motionGen
Concerns(call) ==
  input # 0 /\ motion # 0 /\ call = Callback(inputGen, motionGen, leaseGen)

\* onInputRevoked takes both channels from the peer.
OnInputRevoked(n) ==
  /\ Table!Call(n) /\ Concerns(n.revoke) /\ ~closing
  /\ input' = 0 /\ motion' = 0
  /\ inputGen' = inputGen + 1 /\ motionGen' = motionGen + 1 /\ leaseGen' = leaseGen + 1
  /\ UNCHANGED <<closing, control, opened, ended, workVars>>

RevocationIgnored(n) ==
  /\ Table!Call(n) /\ ~(Concerns(n.revoke) /\ ~closing)
  /\ UNCHANGED <<peerVars, workVars>>

\* The Run loop gives input up when the peer's target changes.
TargetEvent ==
  /\ todo[Loop] = "nothing" /\ ~closing /\ events < MaxEvents
  /\ events' = events + 1
  /\ todo' = [todo EXCEPT ![Loop] = "bump"]
  /\ UNCHANGED <<tableVars, peerVars, setter, handler, requests, ends>>

-----------------------------------------------------------------------------
Finish(a) == Bump(a) \/ ReleaseStep(a) \/ WriteOk(a) \/ WriteFails(a) \/ ServiceCloses(a)

OnDataChannel == SetControlChannel \/ SetInputChannel \/ SetMotionChannel

Revocation == \E n \in notices : OnInputRevoked(n) \/ RevocationIgnored(n)

Next ==
  \/ \E a \in Actors : Finish(a)
  \/ \E ch \in Channels : ChannelEnds(ch) \/ Cleanup(ch)
  \/ \E c \in Controls : Request(c) \/ Handle(c)
  \/ OnDataChannel \/ Close \/ ServiceCancels \/ TargetEvent
  \/ Revocation \/ ControllerRevokes \/ ControllerCloses

Spec == Init /\ [][Next]_vars

\* Every goroutine that has begun something goes on with it, and a channel that
\* has ended gets its cleanup.  Nothing is assumed of the client.
Fairness ==
  /\ \A a \in Actors : WF_vars(Finish(a))
  /\ \A ch \in Channels : WF_vars(Cleanup(ch))
  /\ \A c \in Controls : WF_vars(Handle(c))
  /\ WF_vars(Revocation)

FairSpec == Spec /\ Fairness

-----------------------------------------------------------------------------
(* Properties.                                                             *)

Pcs == {"idle", "read", "stamp", "acquire", "lookControl", "lookInput", "answer",
        "releaseOwn"}

Callbacks == [input : Nat, motion : Nat, lease : Nat]

\* Every variable has the type of the field it stands for.
TypeOK ==
  /\ closed \in BOOLEAN /\ generation \in Nat
  /\ lease \in [{Peer} -> Nat] /\ revoke \in [{Peer} -> Callbacks]
  /\ notices \subseteq [caller : {"controller"}, owner : {Peer}, revoke : Callbacks]
  /\ closing \in BOOLEAN
  /\ {control, input, motion, inputGen, motionGen, leaseGen, opened} \subseteq Nat
  /\ ended \subseteq Channels
  /\ setter \in {"idle", "controlSet", "inputSet", "motionSet"}
  /\ handler \in [Controls -> [pc : Pcs, input : Nat, motion : Nat, call : Callbacks]]
  /\ todo \in [Actors -> {"nothing", "close", "bump", "release", "write"}]
  /\ requests \in Nat /\ ends \in Nat /\ events \in Nat

\* A goroutine is about to release the peer's lease.
Releasing == \E a \in Actors : todo[a] \in {"close", "bump", "release"}

\* A handler has acquired and has not yet looked whether it may keep the lease.
Unjudged == \E c \in Controls : handler[c].pc \in {"lookControl", "lookInput"}

Complete == control # 0 /\ input # 0 /\ motion # 0 /\ ~closing

\* A peer that is closing, or that lacks one of its three channels, has no
\* lease that nobody is about to release, whichever goroutine came last.
LeaseNeedsChannels == lease[Peer] # 0 => Complete \/ Releasing \/ Unjudged

\* Every lease generation that a callback holds was current once.
Stamped ==
  /\ revoke[Peer].lease <= leaseGen
  /\ \A n \in notices : n.revoke.lease <= leaseGen
  /\ \A c \in Controls : handler[c].call.lease <= leaseGen

\* A handler that is about to acquire has a callback of its own: the controller
\* has never seen it, and no other handler has it.
CallIsFresh ==
  \A c \in Controls : handler[c].pc = "acquire" =>
    /\ revoke[Peer].lease # handler[c].call.lease
    /\ \A n \in notices : n.revoke.lease # handler[c].call.lease
    /\ \A d \in Controls : handler[d].pc = "acquire" /\ d # c =>
         handler[d].call.lease # handler[c].call.lease
    /\ handler[c].call.lease # 0

\* onDataChannel and a handler do one thing after the other; a handler stamps
\* only after it has read both channels.
OneThingAtATime ==
  /\ setter = "idle" => todo[Setter] = "nothing"
  /\ \A c \in Controls : handler[c].pc # "idle" => todo[Handler(c)] = "nothing"
  /\ \A c \in Controls :
       handler[c].pc = "stamp" => handler[c].input # 0 /\ handler[c].motion # 0

\* The lease generation is about to be advanced for something that has happened.
Bumping == \E a \in Actors : todo[a] \in {"close", "bump"}

\* What handler c stamped is no longer the peer's lease generation.
Stale(c) == handler[c].call.lease # leaseGen

\* Once the lease generation has been advanced for a lost channel or for closing,
\* every handler that acquires, or may still keep what it acquired, finds it stale.
LossIsStamped ==
  /\ (input = 0 \/ motion = 0 \/ closing) /\ ~Bumping =>
       \A c \in Controls : handler[c].pc \in {"acquire", "lookControl", "lookInput"} => Stale(c)
  /\ control = 0 /\ ~Bumping =>
       \A c \in Controls : handler[c].pc = "lookInput" => Stale(c)

\* While the callback of the current lease generation is due, a lease is either
\* being released or that of a late handler, which will find its stamp stale.
DueMeansLost ==
  (\E n \in notices : n.revoke.lease = leaseGen) /\ lease[Peer] # 0 =>
    \/ Releasing
    \/ \E c \in Controls : handler[c].pc \in {"lookControl", "lookInput"} /\ Stale(c)

\* The inductive invariant of the peer's lease.
IInv ==
  /\ TypeOK /\ Stamped /\ CallIsFresh /\ OneThingAtATime
  /\ LossIsStamped /\ DueMeansLost /\ LeaseNeedsChannels

\* An acquire is answered with success only while the peer has the lease, or
\* its loss is about to be noticed: it was revoked, a later step has advanced
\* the lease generation, or the service shuts down.
AnswerIsTrue ==
  [][\A c \in Controls : Answer(c) =>
       \/ lease[Peer] # 0 \/ closed
       \/ leaseGen # handler[c].call.lease
       \/ \E n \in notices : n.revoke = handler[c].call]_vars

\* A revocation takes the channels away only from a peer without a lease, or
\* whose lease a late handler is about to give up: the callback of an older
\* lease never hits a newer one that the client was told of.
RevocationHitsNoLease ==
  [][\A n \in notices : OnInputRevoked(n) => lease[Peer] = 0 \/ Unjudged \/ Releasing]_vars

\* A closed peer ends up without a lease and never gets one again.
ClosedPeerHoldsNothing == closing ~> [](lease[Peer] = 0)

\* When a channel the peer has ends, the lease of that moment ends.
EndedChannelReleases ==
  \A g \in 1 .. MaxRequests, ch \in Channels :
    (lease[Peer] = g /\ Owned(ch) /\ ch \in ended) ~> lease[Peer] # g
=============================================================================
