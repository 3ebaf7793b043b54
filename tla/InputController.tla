-------------------------- MODULE InputController --------------------------
(***************************************************************************)
(* The input worker of input/controller.go: peers hold leases, submit      *)
(* events into one bounded queue, and a worker goroutine delivers them to  *)
(* the desktop through a sender that can lose its devices at any time.     *)
(*                                                                         *)
(* Every step below is one critical section of Controller.mu, or one step  *)
(* of a goroutine between two of them.  The sender is the EIS sender of    *)
(* input/eis/sender.go reduced to what its callers see: which device       *)
(* capabilities are usable, how often devices were reset, and which keys   *)
(* and buttons the desktop sees as down.                                   *)
(*                                                                         *)
(* The two maps pressedKeys and pressedButtons are one function over       *)
(* Codes: a code is a key or a button, and only its device class differs.  *)
(***************************************************************************)
EXTENDS Integers, FiniteSets

(* An operator named after another one with a suffix, such as              *)
(* LastOf_Head, is a wrong version of it: a fault in that code which the   *)
(* properties have to catch.  No specification uses it.                    *)

CONSTANTS
  Owners,          \* peer ids that acquire input
  Keys, Buttons,   \* Linux key codes and button codes
  Kinds,           \* the other event types that peers submit
  Classes,         \* the configured classes: cfg.Pointer, cfg.Keyboard
  Enabled,         \* cfg.Enabled
  Locking,         \* cfg.Locking
  QueueSize,       \* cfg.QueueSize
  MaxLeases,       \* bound: number of leases granted
  MaxCalls,        \* bound: number of successful Acquire calls
  MaxEvents,       \* bound: number of accepted Submit calls
  MaxResets        \* bound: number of device pauses

AllKinds == {"absolute", "relative", "scroll", "scrollStop", "text"}

ASSUME ConstantsAssumption ==
  /\ IsFiniteSet(Owners)
  /\ Keys \cap Buttons = {}
  /\ Kinds \subseteq AllKinds
  /\ Classes \subseteq {"pointer", "keyboard"}
  /\ Classes # {}
  /\ Enabled \in BOOLEAN
  /\ Locking \in BOOLEAN
  /\ QueueSize \in Nat \ {0}
  /\ {MaxLeases, MaxCalls, MaxEvents, MaxResets} \subseteq Nat

Codes == Keys \cup Buttons

VARIABLES
  closed,      \* Controller.closed; c.stop is closed in the same step
  authorized,  \* Controller.authorization, as the set of granted classes
  generation,  \* Controller.generation
  lease,       \* owners[o].generation, 0 when owners has no entry for o
  revoke,      \* owners[o].revoke: the number of the Acquire call that set it, or 0
  queued,      \* owners[o].queued
  held,        \* owners[o].pressedKeys and pressedButtons
  counts,      \* Controller.pressedKeys and pressedButtons
  queue,       \* Controller.queue, ordered by ticket
  wake,        \* the token in the one-slot channel Controller.wake
  worker,      \* where run() is
  inHand,      \* the event the worker popped last
  notices,     \* revocation callbacks that are due but have not run yet
  closer,      \* where the first Close call is
  calls,       \* number of Acquire calls that succeeded
  accepted,    \* number of Submit calls that succeeded
  owed         \* history: transitions accepted under o's lease, not yet handled

controllerVars ==
  <<closed, authorized, generation, lease, revoke, queued, held, counts,
    queue, wake, worker, inHand, notices, closer, calls, accepted, owed>>

VARIABLES
  phase,       \* the sender: "none", "running", "failing" or "stopped"
  devices,     \* capabilities with a usable device
  reset,       \* Sender.reset
  changes,     \* the token in the one-slot channel Sender.changes
  senderStop,  \* Sender.stop is closed
  down         \* codes the desktop sees as pressed

senderVars == <<phase, devices, reset, changes, senderStop, down>>

VARIABLES
  watch,       \* where watchSender is
  baseline,    \* the reset count watchSender compares with
  missed       \* history: codes whose reset watchSender's first read hid

watchVars == <<watch, baseline, missed>>

vars == <<controllerVars, senderVars, watchVars>>

-----------------------------------------------------------------------------
(* Events and queue entries.                                               *)

\* The value in the code field of an event that has no code.
NoCode == "none"

Transition(c, pressed) == [kind |-> "transition", code |-> c, pressed |-> pressed]
Plain(k) == [kind |-> k, code |-> NoCode, pressed |-> FALSE]

Events == {Transition(c, p) : c \in Codes, p \in BOOLEAN} \cup {Plain(k) : k \in Kinds}

ClassOf(ev) ==
  IF ev.code \in Keys \/ ev.kind = "text" THEN "keyboard" ELSE "pointer"

\* The device capability that a key or a button needs.
CapabilityOf(c) == IF c \in Keys THEN "keyboard" ELSE "button"

\* What the configured classes need.  "motion" stands for the relative, the
\* absolute (a region) and the scroll capability together.
Capabilities ==
  (IF "keyboard" \in Classes THEN {"keyboard"} ELSE {}) \cup
  (IF "pointer" \in Classes THEN {"motion", "button"} ELSE {})

\* A queued event covers the accepted submissions ticket .. seq: one, or the
\* several that were coalesced into it.
Entries ==
  [ticket : Nat \ {0}, seq : Nat \ {0}, owner : Owners, generation : Nat \ {0}, event : Events]

\* c.queue[0] and c.queue[len(c.queue)-1].
FirstOf(q) == CHOOSE e \in q : \A d \in q : e.ticket <= d.ticket
LastOf_Head(q) == FirstOf(q)
LastOf(q) == CHOOSE e \in q : \A d \in q : d.ticket <= e.ticket

Live == {o \in Owners : lease[o] # 0}

Current(e) == lease[e.owner] = e.generation

\* Status() reports the connection and every configured class as usable.
Ready == devices = Capabilities

-----------------------------------------------------------------------------
(* Ending leases: revokeOwnerLocked and revokeAllLocked.                   *)

\* releaseHeldLocked decrements every code once for each lease that ends.
CountsWithout(S) ==
  [c \in Codes |-> counts[c] - Cardinality({o \in S : c \in held[o]})]

\* The codes whose last holder is in S are released at the sender.  A release
\* the sender refuses, for want of a device, is ignored.
ReleasedWith_Dropped(S) == {}
ReleasedWith(S) ==
  {c \in Codes : /\ \E o \in S : c \in held[o]
                 /\ CountsWithout(S)[c] = 0
                 /\ CapabilityOf(c) \in devices}

QueueWithout(S) == {e \in queue : e.owner \notin S}

Notices == [caller : {"submit", "worker", "watcher"}, owner : Owners, revoke : Nat]

NoticesFor(S, caller) == {[caller |-> caller, owner |-> o, revoke |-> revoke[o]] : o \in S}

\* The leases of S end; reported holds the callbacks that this makes due.
EndLeases(S, reported) ==
  /\ lease'   = [o \in Owners |-> IF o \in S THEN 0 ELSE lease[o]]
  /\ revoke'  = [o \in Owners |-> IF o \in S THEN 0 ELSE revoke[o]]
  /\ queued'  = [o \in Owners |-> IF o \in S THEN 0 ELSE queued[o]]
  /\ held'    = [o \in Owners |-> IF o \in S THEN {} ELSE held[o]]
  /\ owed'    = [o \in Owners |-> IF o \in S THEN 0 ELSE owed[o]]
  /\ counts'  = CountsWithout(S)
  /\ down'    = down \ ReleasedWith(S)
  /\ queue'   = QueueWithout(S)
  /\ notices' = notices \cup reported

-----------------------------------------------------------------------------
(* The calls that peers and the portal session make.                       *)

Init ==
  /\ closed = FALSE /\ authorized = {} /\ generation = 0
  /\ lease  = [o \in Owners |-> 0]
  /\ revoke = [o \in Owners |-> 0]
  /\ queued = [o \in Owners |-> 0]
  /\ held   = [o \in Owners |-> {}]
  /\ owed   = [o \in Owners |-> 0]
  /\ counts = [c \in Codes |-> 0]
  /\ queue = {} /\ wake = FALSE /\ worker = "idle" /\ inHand = {}
  /\ notices = {} /\ closer = "open" /\ calls = 0 /\ accepted = 0
  /\ phase = "none" /\ devices = {} /\ reset = 0 /\ changes = FALSE
  /\ senderStop = FALSE /\ down = {}
  /\ watch = "none" /\ baseline = 0 /\ missed = {}

\* The sender has been running since before Attach: some devices may already
\* be usable, and have left a token in Changes.
Attach(auth, usable) ==
  /\ ~closed /\ phase = "none"
  /\ authorized' = auth
  /\ phase' = "running" /\ devices' = usable /\ changes' = (usable # {})
  /\ watch' = "starting"
  /\ UNCHANGED <<closed, generation, lease, revoke, queued, held, counts, queue,
                 wake, worker, inHand, notices, closer, calls, accepted, owed,
                 reset, senderStop, down, baseline, missed>>

\* Called when the sender cannot start: there is none to attach.
SetUnavailable(auth) ==
  /\ phase = "none"
  /\ authorized' = auth
  /\ UNCHANGED <<closed, generation, lease, revoke, queued, held, counts, queue,
                 wake, worker, inHand, notices, closer, calls, accepted, owed>>
  /\ UNCHANGED <<senderVars, watchVars>>

MayAcquire_Closed == Enabled /\ Classes \subseteq authorized
MayAcquire == ~closed /\ Enabled /\ Classes \subseteq authorized

\* An owner that acquires again keeps its lease and replaces its callback.
AcquireAgain(o) ==
  /\ MayAcquire /\ o \in Live /\ calls < MaxCalls
  /\ calls' = calls + 1
  /\ revoke' = [revoke EXCEPT ![o] = calls + 1]
  /\ UNCHANGED <<closed, authorized, generation, lease, queued, held, counts,
                 queue, wake, worker, inHand, notices, closer, accepted, owed>>
  /\ UNCHANGED <<senderVars, watchVars>>

LockFree == Locking => Live = {}

AcquireNew(o) ==
  /\ MayAcquire /\ o \notin Live /\ LockFree
  /\ phase # "none" /\ Ready
  /\ calls < MaxCalls /\ generation < MaxLeases
  /\ calls' = calls + 1
  /\ generation' = generation + 1
  /\ lease'  = [lease EXCEPT ![o] = generation + 1]
  /\ revoke' = [revoke EXCEPT ![o] = calls + 1]
  /\ UNCHANGED <<closed, authorized, queued, held, counts, queue, wake, worker,
                 inHand, notices, closer, accepted, owed>>
  /\ UNCHANGED <<senderVars, watchVars>>

\* Submit's checks before it touches the queue.
MaySubmit(o, ev) ==
  /\ ~closed /\ o \in Live /\ ClassOf(ev) \in Classes
  /\ accepted < MaxEvents

\* The last entry of the queue can absorb ev.
Absorbs_Transitions(o, ev) ==
  /\ queue # {}
  /\ LastOf(queue).owner = o /\ LastOf(queue).generation = lease[o]
  /\ LastOf(queue).event = ev
Absorbs(o, ev) ==
  /\ queue # {}
  /\ LastOf(queue).owner = o /\ LastOf(queue).generation = lease[o]
  /\ LastOf(queue).event.kind = ev.kind
  /\ ev.kind \in {"absolute", "relative", "scroll"}

\* Relative deltas whose sum is infinite are not merged.
MayRefuse(ev) == ev.kind \in {"relative", "scroll"}

OwedAfter(o, ev) == [owed EXCEPT ![o] = IF ev.kind = "transition" THEN @ + 1 ELSE @]

\* The last entry after it has absorbed the submission accepted + 1.
Merged(e, ev) ==
  [ticket |-> e.ticket, seq |-> accepted + 1, owner |-> e.owner,
   generation |-> e.generation, event |-> ev]

SubmitCoalesced(o, ev) ==
  /\ MaySubmit(o, ev) /\ Absorbs(o, ev)
  /\ accepted' = accepted + 1
  /\ owed' = OwedAfter(o, ev)
  /\ queue' = (queue \ {LastOf(queue)}) \cup {Merged(LastOf(queue), ev)}
  /\ UNCHANGED <<closed, authorized, generation, lease, revoke, queued, held,
                 counts, wake, worker, inHand, notices, closer, calls>>
  /\ UNCHANGED <<senderVars, watchVars>>

NotCoalesced(o, ev) == Absorbs(o, ev) => MayRefuse(ev)

SubmitQueued(o, ev) ==
  /\ MaySubmit(o, ev) /\ NotCoalesced(o, ev) /\ queued[o] < QueueSize
  /\ accepted' = accepted + 1
  /\ queue' = queue \cup {[ticket |-> accepted + 1, seq |-> accepted + 1, owner |-> o,
                           generation |-> lease[o], event |-> ev]}
  /\ queued' = [queued EXCEPT ![o] = @ + 1]
  /\ wake' = TRUE
  /\ owed' = OwedAfter(o, ev)
  /\ UNCHANGED <<closed, authorized, generation, lease, revoke, held, counts,
                 worker, inHand, notices, closer, calls>>
  /\ UNCHANGED <<senderVars, watchVars>>

SubmitOverload(o, ev) ==
  /\ MaySubmit(o, ev) /\ NotCoalesced(o, ev) /\ queued[o] >= QueueSize
  /\ EndLeases({o}, NoticesFor({o}, "submit"))
  /\ UNCHANGED <<closed, authorized, generation, wake, worker, inHand,
                 closer, calls, accepted>>
  /\ UNCHANGED <<phase, devices, reset, changes, senderStop, watchVars>>

Release(o) ==
  /\ o \in Live
  /\ EndLeases({o}, {})
  /\ UNCHANGED <<closed, authorized, generation, wake, worker, inHand,
                 closer, calls, accepted>>
  /\ UNCHANGED <<phase, devices, reset, changes, senderStop, watchVars>>

\* callRevocation runs outside the lock, any time after the lease ended.
CallRevocation(n) ==
  /\ n \in notices
  /\ notices' = notices \ {n}
  /\ UNCHANGED <<closed, authorized, generation, lease, revoke, queued, held,
                 counts, queue, wake, worker, inHand, closer, calls, accepted, owed>>
  /\ UNCHANGED <<senderVars, watchVars>>

-----------------------------------------------------------------------------
(* The worker goroutine: run and handleEvent.                              *)

\* A goroutine makes its revocation callbacks before it goes on.
Free(caller) == \A n \in notices : n.caller # caller

\* The select of run() takes the wake token ...
WorkerWake ==
  /\ worker = "idle" /\ wake
  /\ worker' = "draining" /\ wake' = FALSE
  /\ UNCHANGED <<closed, authorized, generation, lease, revoke, queued, held,
                 counts, queue, inHand, notices, closer, calls, accepted, owed>>
  /\ UNCHANGED <<senderVars, watchVars>>

\* ... or sees that c.stop is closed.
WorkerStop_Never == FALSE /\ UNCHANGED vars
WorkerStop ==
  /\ worker = "idle" /\ closed
  /\ worker' = "exited"
  /\ UNCHANGED <<closed, authorized, generation, lease, revoke, queued, held,
                 counts, queue, wake, inHand, notices, closer, calls, accepted, owed>>
  /\ UNCHANGED <<senderVars, watchVars>>

WorkerEmpty ==
  /\ worker = "draining" /\ Free("worker") /\ queue = {}
  /\ worker' = "idle"
  /\ UNCHANGED <<closed, authorized, generation, lease, revoke, queued, held,
                 counts, queue, wake, inHand, notices, closer, calls, accepted, owed>>
  /\ UNCHANGED <<senderVars, watchVars>>

\* state.queued-- unless the event outlived its lease.
QueuedAfterPop_Kept(e) == queued
QueuedAfterPop(e) == [queued EXCEPT ![e.owner] = IF Current(e) THEN @ - 1 ELSE @]

WorkerPop ==
  /\ worker = "draining" /\ Free("worker") /\ queue # {}
  /\ LET e == FirstOf(queue) IN
       /\ worker' = "handling" /\ inHand' = {e}
       /\ queue' = queue \ {e}
       /\ queued' = QueuedAfterPop(e)
  /\ UNCHANGED <<closed, authorized, generation, lease, revoke, held, counts,
                 wake, notices, closer, calls, accepted, owed>>
  /\ UNCHANGED <<senderVars, watchVars>>

\* The lease the event was submitted under is still the owner's.
Deliverable_AnyLease(e) == ~closed /\ e.owner \in Live /\ phase # "none"
Deliverable(e) == ~closed /\ Current(e) /\ phase # "none"

\* The sender is asked to deliver every event but a press of a code that is
\* already down, or a release of one that another lease still holds.
NeedsSender(e) ==
  e.event.kind = "transition" =>
    counts[e.event.code] = (IF e.event.pressed THEN 0 ELSE 1)

\* A transition the lease has already made is ignored.
Repeats(e) ==
  /\ e.event.kind = "transition"
  /\ (e.event.code \in held[e.owner]) = e.event.pressed

\* The sender accepts an event when the capability it needs is usable.  Text
\* goes through KWin when no device takes it: that works without a connection,
\* until the sender has stopped, and can fail on any code point.
SenderAccepts(e) ==
  CASE e.event.kind = "transition" -> CapabilityOf(e.event.code) \in devices
    [] e.event.kind = "text"       -> phase # "stopped"
    [] OTHER                       -> "motion" \in devices
SenderMayRefuse(e) == ~SenderAccepts(e) \/ e.event.kind = "text"

OwedWithout(e) ==
  [owed EXCEPT ![e.owner] = IF e.event.kind = "transition" THEN @ - 1 ELSE @]

\* handleEvent returns to the inner loop of run().
Handled_OncePerWake(e) ==
  /\ worker' = "idle" /\ inHand' = {}
  /\ owed' = OwedWithout(e)
Handled(e) ==
  /\ worker' = "draining" /\ inHand' = {}
  /\ owed' = OwedWithout(e)

HandleStale(e) ==
  /\ worker = "handling" /\ e \in inHand /\ ~Deliverable(e)
  /\ worker' = "draining" /\ inHand' = {}
  /\ UNCHANGED <<closed, authorized, generation, lease, revoke, queued, held,
                 counts, queue, wake, notices, closer, calls, accepted, owed>>
  /\ UNCHANGED <<senderVars, watchVars>>

HandleRepeat(e) ==
  /\ worker = "handling" /\ e \in inHand /\ Deliverable(e) /\ Repeats(e)
  /\ Handled(e)
  /\ UNCHANGED <<closed, authorized, generation, lease, revoke, queued, held,
                 counts, queue, wake, notices, closer, calls, accepted>>
  /\ UNCHANGED <<senderVars, watchVars>>

\* The bookkeeping of a press and of a release.
HeldAfter(e) ==
  IF e.event.pressed THEN held[e.owner] \cup {e.event.code}
  ELSE held[e.owner] \ {e.event.code}
CountAfter(e) ==
  IF e.event.pressed THEN counts[e.event.code] + 1 ELSE counts[e.event.code] - 1

HandleTransition(e) ==
  /\ worker = "handling" /\ e \in inHand /\ Deliverable(e)
  /\ e.event.kind = "transition" /\ ~Repeats(e)
  /\ NeedsSender(e) => SenderAccepts(e)
  /\ Handled(e)
  /\ held' = [held EXCEPT ![e.owner] = HeldAfter(e)]
  /\ counts' = [counts EXCEPT ![e.event.code] = CountAfter(e)]
  /\ down' = IF ~NeedsSender(e) THEN down
             ELSE IF e.event.pressed THEN down \cup {e.event.code}
             ELSE down \ {e.event.code}
  /\ UNCHANGED <<closed, authorized, generation, lease, revoke, queued, queue,
                 wake, notices, closer, calls, accepted>>
  /\ UNCHANGED <<phase, devices, reset, changes, senderStop, watchVars>>

HandlePlain(e) ==
  /\ worker = "handling" /\ e \in inHand /\ Deliverable(e)
  /\ e.event.kind # "transition" /\ SenderAccepts(e)
  /\ Handled(e)
  /\ UNCHANGED <<closed, authorized, generation, lease, revoke, queued, held,
                 counts, queue, wake, notices, closer, calls, accepted>>
  /\ UNCHANGED <<senderVars, watchVars>>

\* The callbacks of an error: every lease ends and is told.
ErrorNotices_OwnerOnly(e) == NoticesFor({e.owner}, "worker")
ErrorNotices(e) == NoticesFor(Live, "worker")

\* The sender's error ends the lease of the event's owner and then all others.
HandleError(e) ==
  /\ worker = "handling" /\ e \in inHand /\ Deliverable(e)
  /\ ~Repeats(e) /\ NeedsSender(e) /\ SenderMayRefuse(e)
  /\ worker' = "draining" /\ inHand' = {}
  /\ EndLeases(Live, ErrorNotices(e))
  /\ UNCHANGED <<closed, authorized, generation, wake, closer, calls, accepted>>
  /\ UNCHANGED <<phase, devices, reset, changes, senderStop, watchVars>>

-----------------------------------------------------------------------------
(* The watchSender goroutine.                                              *)

\* A code that a lease holds although a reset has released it.
Phantom == {c \in Codes : counts[c] # 0 /\ c \notin down}

\* The first read of Status().Reset, some time after Attach returned.
WatchStart ==
  /\ watch = "starting"
  /\ watch' = "watching" /\ baseline' = reset
  /\ missed' = Phantom
  /\ UNCHANGED <<controllerVars, senderVars>>

WatchDone ==
  /\ watch = "watching" /\ Free("watcher") /\ phase = "stopped"
  /\ watch' = "revokingLast"
  /\ UNCHANGED <<baseline, missed, controllerVars, senderVars>>

\* The status after a token calls for a revocation.
MustRevoke_IgnoresReset == ~Ready
MustRevoke == ~Ready \/ reset # baseline

\* A token of Changes and the status read after it.
WatchChange ==
  /\ watch = "watching" /\ Free("watcher") /\ changes
  /\ changes' = FALSE
  /\ baseline' = reset
  /\ watch' = IF MustRevoke THEN "revoking" ELSE "watching"
  /\ UNCHANGED <<missed, controllerVars, phase, devices, reset, senderStop, down>>

WatchStop ==
  /\ watch = "watching" /\ Free("watcher") /\ closed
  /\ watch' = "exited"
  /\ UNCHANGED <<baseline, missed, controllerVars, senderVars>>

\* Revoke: every lease ends, whenever it was granted.
WatchRevoke ==
  /\ watch \in {"revoking", "revokingLast"}
  /\ watch' = IF watch = "revoking" THEN "watching" ELSE "exited"
  /\ EndLeases(Live, NoticesFor(Live, "watcher"))
  /\ missed' = {}
  /\ UNCHANGED <<closed, authorized, generation, wake, worker, inHand,
                 closer, calls, accepted, baseline>>
  /\ UNCHANGED <<phase, devices, reset, changes, senderStop>>

-----------------------------------------------------------------------------
(* Close, and the sender's own goroutine.                                  *)

Close ==
  /\ closer = "open"
  /\ closer' = "waiting" /\ closed' = TRUE
  /\ EndLeases(Live, {})
  /\ UNCHANGED <<authorized, generation, wake, worker, inHand, calls, accepted>>
  /\ UNCHANGED <<phase, devices, reset, changes, senderStop, watchVars>>

\* <-c.done, then sender.Close() asks the sender to stop.
CloseSender ==
  /\ closer = "waiting" /\ worker = "exited"
  /\ closer' = "closing" /\ senderStop' = TRUE
  /\ UNCHANGED <<closed, authorized, generation, lease, revoke, queued, held,
                 counts, queue, wake, worker, inHand, notices, calls, accepted, owed>>
  /\ UNCHANGED <<phase, devices, reset, changes, down, watchVars>>

CloseReturn ==
  /\ closer = "closing" /\ phase \in {"none", "stopped"}
  /\ closer' = "returned"
  /\ UNCHANGED <<closed, authorized, generation, lease, revoke, queued, held,
                 counts, queue, wake, worker, inHand, notices, calls, accepted, owed>>
  /\ UNCHANGED <<senderVars, watchVars>>

\* A second Close closes the sender without waiting for the worker.
CloseAgain ==
  /\ closed /\ phase # "none"
  /\ senderStop' = TRUE
  /\ UNCHANGED <<phase, devices, reset, changes, down, watchVars, controllerVars>>

\* A device with the capabilities K resumes.
DeviceResumed(K) ==
  /\ phase = "running" /\ ~(K \subseteq devices)
  /\ devices' = devices \cup K /\ changes' = TRUE
  /\ UNCHANGED <<phase, reset, senderStop, down, watchVars, controllerVars>>

CodesOf(K) == {c \in Codes : CapabilityOf(c) \in K}

\* The device that gave the capabilities K (none, if it was not in use) is
\* paused or removed; the compositor releases what it held.  resumed: it comes
\* back in the same dispatch, before anyone looks.
DevicePaused_Unnotified(K, resumed) ==
  /\ phase = "running" /\ K \subseteq devices /\ reset < MaxResets
  /\ devices' = IF resumed THEN devices ELSE devices \ K
  /\ reset' = reset + 1 /\ changes' = (changes \/ ~resumed)
  /\ down' = down \ CodesOf(K)
  /\ UNCHANGED <<phase, senderStop, watchVars, controllerVars>>
DevicePaused(K, resumed) ==
  /\ phase = "running" /\ K \subseteq devices /\ reset < MaxResets
  /\ devices' = IF resumed THEN devices ELSE devices \ K
  /\ reset' = reset + 1 /\ changes' = TRUE
  /\ down' = down \ CodesOf(K)
  /\ UNCHANGED <<phase, senderStop, watchVars, controllerVars>>

\* Any other dispatch leaves a token and changes nothing here.
SenderNotifies ==
  /\ phase = "running" /\ changes' = TRUE
  /\ UNCHANGED <<phase, devices, reset, senderStop, down, watchVars, controllerVars>>

\* EIS disconnects, or its file descriptor fails, or one after the other.
SenderFails ==
  /\ phase \in {"running", "failing"} /\ reset <= MaxResets
  /\ phase' = "failing" /\ devices' = {} /\ reset' = reset + 1
  /\ changes' = TRUE /\ down' = {}
  /\ UNCHANGED <<senderStop, watchVars, controllerVars>>

\* The tail of the sender's run(), which closes Done.
SenderStops ==
  /\ phase = "failing" \/ (phase = "running" /\ senderStop)
  /\ phase' = "stopped" /\ devices' = {} /\ changes' = TRUE /\ down' = {}
  /\ UNCHANGED <<reset, senderStop, watchVars, controllerVars>>

-----------------------------------------------------------------------------
Worker ==
  \/ WorkerWake \/ WorkerStop \/ WorkerEmpty \/ WorkerPop
  \/ \E e \in inHand : \/ HandleStale(e) \/ HandleRepeat(e) \/ HandleTransition(e)
                       \/ HandlePlain(e) \/ HandleError(e)

Watcher == WatchStart \/ WatchDone \/ WatchChange \/ WatchStop \/ WatchRevoke

Portal ==
  \/ \E auth \in {{}, Classes} : \/ \E usable \in SUBSET Capabilities : Attach(auth, usable)
                                 \/ SetUnavailable(auth)
  \/ Close \/ CloseSender \/ CloseReturn \/ CloseAgain

Peer(o) ==
  \/ AcquireAgain(o) \/ AcquireNew(o) \/ Release(o)
  \/ \E ev \in Events : SubmitCoalesced(o, ev) \/ SubmitQueued(o, ev) \/ SubmitOverload(o, ev)

Sender ==
  \/ \E K \in SUBSET Capabilities : DeviceResumed(K) \/ \E b \in BOOLEAN : DevicePaused(K, b)
  \/ SenderNotifies \/ SenderFails \/ SenderStops

Next ==
  \/ \E o \in Owners : Peer(o)
  \/ \E n \in notices : CallRevocation(n)
  \/ Worker \/ Watcher \/ Portal \/ Sender

Spec == Init /\ [][Next]_vars

\* run(), watchSender and the sender's run() keep being scheduled, a callback
\* that was started returns, and Close goes on once what it waits for happened.
\* Nothing is assumed of peers, of the portal, or of the devices.
Fairness ==
  /\ WF_vars(Worker) /\ WF_vars(Watcher)
  /\ WF_vars(\E n \in notices : CallRevocation(n))
  /\ WF_vars(CloseSender) /\ WF_vars(CloseReturn) /\ WF_vars(SenderStops)

FairSpec == Spec /\ Fairness

-----------------------------------------------------------------------------
(* Invariants.                                                             *)

\* Every variable has the type of the field or channel it stands for; the
\* unsigned counts of held codes and of queued events never pass below zero.
TypeOK ==
  /\ closed \in BOOLEAN /\ authorized \subseteq Classes
  /\ generation \in Nat /\ calls \in Nat /\ accepted \in Nat
  /\ lease \in [Owners -> Nat] /\ revoke \in [Owners -> Nat]
  /\ queued \in [Owners -> Nat] /\ owed \in [Owners -> Int]
  /\ held \in [Owners -> SUBSET Codes] /\ counts \in [Codes -> Nat]
  /\ queue \subseteq Entries /\ inHand \subseteq Entries
  /\ wake \in BOOLEAN
  /\ worker \in {"idle", "draining", "handling", "exited"}
  /\ notices \subseteq Notices
  /\ closer \in {"open", "waiting", "closing", "returned"}
  /\ phase \in {"none", "running", "failing", "stopped"}
  /\ devices \subseteq Capabilities /\ reset \in Nat /\ changes \in BOOLEAN
  /\ senderStop \in BOOLEAN /\ down \subseteq Codes
  /\ watch \in {"none", "starting", "watching", "revoking", "revokingLast", "exited"}
  /\ baseline \in Nat /\ missed \subseteq Codes

\* With input locking on, at most one peer has a lease, whatever the order of
\* acquires, releases, overloads and revocations.
LockExclusive == Locking => \A o, p \in Live : o = p

\* Every queued event belongs to a lease that is still held: ending a lease
\* leaves nothing of it behind for the owner's next lease to run into.
QueueOwned == \A e \in queue : Current(e)

EntriesOf(o) == {e \in queue : e.owner = o}

\* owners[o].queued is the number of o's events in the queue and never passes
\* QueueSize, although Submit, the worker and revocations all change it.
QueuedCounted ==
  \A o \in Owners : queued[o] = Cardinality(EntriesOf(o)) /\ queued[o] <= QueueSize

\* Coalescing keeps the order: what an entry has absorbed was submitted before
\* anything in a later entry, and the event in hand comes before the queue.
QueueOrdered ==
  /\ \A d, e \in queue : d.ticket < e.ticket => d.seq < e.ticket
  /\ \A d \in inHand, e \in queue : d.seq < e.ticket

\* The queue agrees with the leases: its entries belong to leases that are
\* held, each lease counts its own, and coalescing has reordered nothing.
QueueConsistent == QueueOwned /\ QueuedCounted /\ QueueOrdered

\* pressedKeys and pressedButtons count the leases that hold each code.
CountsMatchLeases ==
  \A c \in Codes : counts[c] = Cardinality({o \in Owners : c \in held[o]})

\* A code that the desktop sees as down is held by a live lease, so that no
\* end of a lease, error or device loss can leave a key or a button stuck.
NoStuckCode == \A c \in down : \E o \in Live : c \in held[o]

\* What is held agrees everywhere: the controller's counts with the leases, and
\* the desktop's codes with the leases that hold them.
HeldConsistent == CountsMatchLeases /\ NoStuckCode

\* Events in the queue always have a wake token or a draining worker ahead of
\* them: the one-slot wake channel loses no wake-up.
NoLostWakeup == queue # {} => wake \/ worker \in {"draining", "handling"}

Transitions(o) ==
  {e \in queue \cup inHand : e.owner = o /\ Current(e) /\ e.event.kind = "transition"}

\* No key or button transition accepted under a live lease is dropped or
\* duplicated on its way to handleEvent.
NoTransitionDropped == \A o \in Live : owed[o] = Cardinality(Transitions(o))

\* A reset that watchSender has not compared yet has left it a token, so the
\* one-slot Changes channel hides no reset from a watcher that has started.
NoResetUnseen == watch = "watching" /\ reset # baseline => changes

\* A lease that holds a code which a reset has released is about to be revoked.
\* The exceptions are resets before the watcher's first read of Status.
PhantomIsRevoked ==
  \A c \in Phantom :
    \/ watch \in {"starting", "revoking", "revokingLast"} \/ c \in missed
    \/ watch = "watching" /\ (reset # baseline \/ phase = "stopped")

\* No reset is hidden from the watcher, and none that released a held code
\* leaves the lease alive.
ResetsSeen == NoResetUnseen /\ PhantomIsRevoked

\* Close releases what is held before the sender is asked to stop, and no
\* lease, event or held code appears after that.
ClosedIsQuiet ==
  senderStop \/ closed => Live = {} /\ queue = {} /\ down = {}

\* Tickets are the numbers of accepted submissions and identify an entry; no
\* entry or lease is newer than the generation counter.
Numbered ==
  /\ \A e \in queue \cup inHand : e.ticket <= e.seq /\ e.seq <= accepted
  /\ \A d, e \in queue \cup inHand : d.ticket = e.ticket => d = e
  /\ \A e \in queue \cup inHand : e.generation <= generation
  /\ \A o \in Owners : lease[o] <= generation

\* The worker has one event in hand while it handles it, and none otherwise.
OneInHand ==
  /\ \A d, e \in inHand : d = e
  /\ worker # "handling" => inHand = {}

\* Only live leases hold codes; they exist only once a sender is attached,
\* and a code is down only at a usable device.
HoldersLive ==
  /\ \A o \in Owners : held[o] # {} => o \in Live
  /\ phase = "none" => Live = {} /\ devices = {}
  /\ \A c \in down : CapabilityOf(c) \in devices

\* The order in which Close sets closed, drops the leases and stops the sender.
CloseOrder ==
  /\ closer = "open" <=> ~closed
  /\ closed => Live = {}
  /\ senderStop => closed

\* The inductive invariant: what the properties above need of each other.  A
\* lease generation is used once, so that an event in hand that outlives its
\* lease can be told from the events of the owner's next lease.
IInv ==
  /\ TypeOK /\ LockExclusive /\ QueueOwned /\ QueuedCounted /\ QueueOrdered
  /\ CountsMatchLeases /\ NoStuckCode /\ NoLostWakeup
  /\ Numbered /\ OneInHand /\ HoldersLive /\ CloseOrder
  /\ IsFiniteSet(queue)

-----------------------------------------------------------------------------
(* Action properties.                                                      *)

\* A lease starts to hold a code only through an event that was submitted
\* under this very lease: an event the worker had in hand while the owner
\* released and acquired again is never delivered.
PressesAreOwn ==
  [][\A o \in Owners : ~(held'[o] \subseteq held[o]) =>
       \E e \in inHand : e.owner = o /\ e.generation = lease[o] /\ ~closed]_vars

\* A lease that ends without its owner's Release and without Close makes the
\* callback of the owner's latest Acquire due.
LeaseEndIsReported ==
  [][\A o \in Live : lease'[o] # lease[o] =>
       \/ closed' \/ Release(o)
       \/ \E n \in notices' : n.owner = o /\ n.revoke = revoke[o]]_vars

-----------------------------------------------------------------------------
(* Refinement.                                                             *)

Table ==
  INSTANCE LeaseTable WITH Calls <- 1 .. MaxCalls, NoCall <- 0,
                           Callers <- {"submit", "worker", "watcher"}

\* The queue, the worker, the watcher and the sender together keep the promise
\* about leases that the peers rely on: a lease starts only by Acquire and ends
\* only by Release, by Close, or with the callback of its latest Acquire due.
ImplementsTable == Table!Spec

-----------------------------------------------------------------------------
(* Liveness.                                                               *)

\* Every queued event is handled or dropped with its lease.
EventsSettle ==
  \A t \in 1 .. MaxEvents :
    (\E e \in queue : e.ticket = t) ~> (\A e \in queue \cup inHand : e.ticket # t)

\* Close returns: the worker leaves its loop and the sender stops.
CloseReturns == closed ~> closer = "returned"

\* A reset that happens while the watcher runs ends every lease of that time.
ResetEndsLeases ==
  \A o \in Owners, g \in 1 .. MaxLeases :
    (lease[o] = g /\ watch = "watching" /\ reset # baseline) ~> lease[o] # g
=============================================================================
