---------------------------- MODULE PeerRegistry ----------------------------
(***************************************************************************)
(* The peers of webrtc.Service: admission (Handler, newPeer), the          *)
(* reservations that limit them, the orderly end of one (closeWith,        *)
(* finishClose) and of all (Service.Close), and the quality updates that   *)
(* close the peers whose codec the shared encoder no longer produces.      *)
(*                                                                         *)
(* Every connection is served by a goroutine of its own; finishClose,      *)
(* Close and the quality updates run beside them.  Their critical sections *)
(* are those of peersMu (one step each), admitMu and qualityChangeMu.      *)
(***************************************************************************)
EXTENDS Naturals, FiniteSets

CONSTANTS
  Conns,           \* signaling connections, and the peers made of them
  Closers,         \* callers of Service.Close
  Updaters,        \* goroutines that update the quality
  Codecs,          \* codec metadata of the profiles
  FirstCodec,      \* the codec at the start
  None,            \* no connection, no updater
  MaxPeers,        \* Config.MaxPeers
  Replace,         \* Config.ReplaceExistingPeer
  BitrateMayFail,  \* whether the encoder may refuse a bitrate
  MaxOwned,        \* bound: goroutines a peer owns at a time
  MaxUpdates       \* bound: quality updates

ASSUME RegistryAssumption ==
  /\ MaxPeers \in Nat \ {0} /\ MaxOwned \in Nat /\ MaxUpdates \in Nat
  /\ Replace \in BOOLEAN /\ BitrateMayFail \in BOOLEAN
  /\ Replace => MaxPeers = 1
  /\ IsFiniteSet(Conns) /\ None \notin Conns \cup Updaters
  /\ Conns \cap Updaters = {} /\ FirstCodec \in Codecs

VARIABLES
  closed,        \* Service.closed; its context is cancelled at the same time
  closeDone,     \* Service.closeDone is closed
  reservations,  \* Service.reservations
  peers,         \* Service.peers
  active         \* what the media source was last told with SetActive

registryVars == <<closed, closeDone, reservations, peers, active>>

VARIABLES
  admitMu, changeMu,  \* who holds admitMu, qualityChangeMu
  pc,          \* where Handler is with a connection
  waits        \* the peers that replaceActivePeer closes and waits for

connVars == <<pc, waits>>

VARIABLES
  closing,     \* closeWith has begun: peer.closing, and ~ownedOpen
  fin,         \* where finishClose is
  owned,       \* goroutines the peer owns
  codec        \* peer.videoCodec

peerVars == <<closing, fin, owned, codec>>

VARIABLES
  closer,      \* where each caller of Service.Close is
  toClose      \* the peers that the first of them closes

VARIABLES
  current,     \* the codec of the source's quality
  qualityGen,  \* Service.qualityGeneration
  up,          \* where each quality update is
  updates      \* number of quality updates

qualityVars == <<current, qualityGen, up, updates>>
vars == <<registryVars, admitMu, changeMu, connVars, peerVars, closer, toClose, qualityVars>>

\* An update that has found nothing to close yet.
Update(at, requester, want) ==
  [pc |-> at, requester |-> requester, want |-> want, list |-> {},
   reconnect |-> FALSE, gen |-> 0, target |-> None]

NoUpdate == Update("idle", None, FirstCodec)

Init ==
  /\ closed = FALSE /\ closeDone = FALSE /\ reservations = 0
  /\ peers = {} /\ active = FALSE
  /\ admitMu = None /\ changeMu = None
  /\ pc = [c \in Conns |-> "idle"] /\ waits = [c \in Conns |-> {}]
  /\ closing = [c \in Conns |-> FALSE] /\ fin = [c \in Conns |-> "open"]
  /\ owned = [c \in Conns |-> 0] /\ codec = [c \in Conns |-> FirstCodec]
  /\ closer = [k \in Closers |-> "idle"] /\ toClose = {}
  /\ current = FirstCodec /\ qualityGen = 0
  /\ up = [u \in Updaters |-> NoUpdate] /\ updates = 0

-----------------------------------------------------------------------------
(* What the critical sections do.                                          *)

\* peer.isClosing
IsClosing(c) == closing[c] \/ closed

\* closeWith: closing is final, and finishClose starts once.
CloseWith(S) ==
  /\ closing' = [c \in Conns |-> closing[c] \/ c \in S]
  /\ fin' = [c \in Conns |-> IF c \in S /\ ~closing[c] THEN "begun" ELSE fin[c]]
  /\ UNCHANGED <<owned, codec>>

\* releaseReservation
ReleaseReservation_Early ==
  /\ reservations' = reservations - 1
  /\ closeDone' = (closeDone \/ closed)
  /\ UNCHANGED <<closed, peers, active>>
ReleaseReservation ==
  /\ reservations' = reservations - 1
  /\ closeDone' = (closeDone \/ (closed /\ reservations = 1))
  /\ UNCHANGED <<closed, peers, active>>

\* goOwned: the goroutine starts unless the peer has begun to close.
MayOwn_Always(c) == TRUE
MayOwn(c) == ~closing[c]

GoOwned(c) ==
  /\ owned' = [owned EXCEPT ![c] = IF MayOwn(c) THEN @ + 1 ELSE @]
  /\ UNCHANGED <<closing, fin, codec>>

-----------------------------------------------------------------------------
(* Admission: Handler and newPeer.                                         *)

At(c, from, to) == pc[c] = from /\ pc' = [pc EXCEPT ![c] = to]

Connect(c) ==
  /\ At(c, "idle", "waiting")
  /\ UNCHANGED <<registryVars, admitMu, changeMu, waits, peerVars>>
  /\ UNCHANGED <<closer, toClose, qualityVars>>

\* admitMu is taken; replaceActivePeer looks up the peers there are.
Admit(c) ==
  /\ admitMu = None /\ admitMu' = c
  /\ At(c, "waiting", IF Replace THEN "replacing" ELSE "reserve")
  /\ waits' = [waits EXCEPT ![c] = IF Replace THEN peers ELSE {}]
  /\ UNCHANGED <<registryVars, changeMu, peerVars, closer, toClose, qualityVars>>

ReplaceCloses(c, p) ==
  /\ pc[c] = "replacing" /\ p \in waits[c] /\ ~closing[p]
  /\ CloseWith({p})
  /\ UNCHANGED <<registryVars, admitMu, changeMu, connVars, closer, toClose, qualityVars>>

AllClosing(c) == \A p \in waits[c] : closing[p]
AllDone(c) == \A p \in waits[c] : fin[p] = "done"

ReplaceWaited(c) ==
  /\ At(c, "replacing", "reserve") /\ AllClosing(c) /\ AllDone(c)
  /\ UNCHANGED <<registryVars, admitMu, changeMu, waits, peerVars>>
  /\ UNCHANGED <<closer, toClose, qualityVars>>

\* servicePeerCloseTimeout passes first.
ReplaceTimesOut(c) ==
  /\ At(c, "replacing", "reserve") /\ AllClosing(c) /\ ~AllDone(c)
  /\ UNCHANGED <<registryVars, admitMu, changeMu, waits, peerVars>>
  /\ UNCHANGED <<closer, toClose, qualityVars>>

Full_OffByOne == reservations > MaxPeers
Full == reservations >= MaxPeers

Reserve(c) ==
  /\ At(c, "reserve", "profile") /\ ~closed /\ ~Full
  /\ reservations' = reservations + 1
  /\ UNCHANGED <<closed, closeDone, peers, active, admitMu, changeMu, waits>>
  /\ UNCHANGED <<peerVars, closer, toClose, qualityVars>>

\* service_unavailable, peer_limit
Refuse_KeepsLock(c) ==
  /\ At(c, "reserve", "over") /\ (closed \/ Full)
  /\ UNCHANGED <<registryVars, admitMu, changeMu, waits, peerVars>>
  /\ UNCHANGED <<closer, toClose, qualityVars>>
Refuse(c) ==
  /\ At(c, "reserve", "over") /\ (closed \/ Full)
  /\ admitMu' = None
  /\ UNCHANGED <<registryVars, changeMu, waits, peerVars, closer, toClose, qualityVars>>

\* qualityChangeMu is held from the choice of the codec until the peer is known.
ReadProfile_Unlocked(c) ==
  /\ At(c, "profile", "register")
  /\ codec' = [codec EXCEPT ![c] = current]
  /\ UNCHANGED <<registryVars, admitMu, changeMu, waits, closing, fin, owned>>
  /\ UNCHANGED <<closer, toClose, qualityVars>>
ReadProfile(c) ==
  /\ At(c, "profile", "register") /\ changeMu = None
  /\ changeMu' = c
  /\ codec' = [codec EXCEPT ![c] = current]
  /\ UNCHANGED <<registryVars, admitMu, waits, closing, fin, owned>>
  /\ UNCHANGED <<closer, toClose, qualityVars>>

\* registerPeer, and the congestion bitrate of the peers applied.
Register(c) ==
  /\ At(c, "register", "setup") /\ ~closed
  /\ peers' = peers \cup {c}
  /\ active' = (active \/ peers = {})
  /\ changeMu' = None
  /\ UNCHANGED <<closed, closeDone, reservations, admitMu, waits, peerVars>>
  /\ UNCHANGED <<closer, toClose, qualityVars>>

\* The service has closed, the profile is missing or pion refuses.
RegisterFails(c) ==
  /\ At(c, "register", "unreserve")
  /\ changeMu' = None
  /\ UNCHANGED <<registryVars, admitMu, waits, peerVars, closer, toClose, qualityVars>>

Unreserve(c) ==
  /\ At(c, "unreserve", "over")
  /\ ReleaseReservation /\ admitMu' = None
  /\ UNCHANGED <<changeMu, waits, peerVars, closer, toClose, qualityVars>>

\* A track cannot be added.
SetupFails(c) ==
  /\ At(c, "setup", "over")
  /\ CloseWith({c}) /\ admitMu' = None
  /\ UNCHANGED <<registryVars, changeMu, waits, closer, toClose, qualityVars>>

\* The senders and writers of the peer start.
Setup(c) ==
  /\ At(c, "setup", "serving")
  /\ GoOwned(c) /\ admitMu' = None
  /\ UNCHANGED <<registryVars, changeMu, waits, closer, toClose, qualityVars>>

\* peer.run starts its goroutines and reads signaling messages.
Run(c) ==
  /\ At(c, "serving", "reading")
  /\ GoOwned(c)
  /\ UNCHANGED <<registryVars, admitMu, changeMu, waits, closer, toClose, qualityVars>>

\* Channel handlers start goroutines of the peer too.
HandlerOwns(c) ==
  /\ pc[c] = "reading" /\ owned[c] < MaxOwned
  /\ GoOwned(c)
  /\ UNCHANGED <<registryVars, admitMu, changeMu, connVars, closer, toClose, qualityVars>>

OwnedEnds(c) ==
  /\ owned[c] > 0
  /\ owned' = [owned EXCEPT ![c] = @ - 1]
  /\ UNCHANGED <<registryVars, admitMu, changeMu, connVars, closing, fin, codec>>
  /\ UNCHANGED <<closer, toClose, qualityVars>>

\* The socket, the connection, a failed write or the request closes the peer.
PeerCloses(c) ==
  /\ pc[c] \in {"setup", "serving", "reading"} /\ ~closing[c]
  /\ CloseWith({c})
  /\ UNCHANGED <<registryVars, admitMu, changeMu, connVars, closer, toClose, qualityVars>>

-----------------------------------------------------------------------------
(* finishClose                                                             *)

Finishes_NoDone(c, from, to) ==
  /\ fin[c] = from /\ fin' = [fin EXCEPT ![c] = IF to = "done" THEN from ELSE to]
  /\ UNCHANGED <<closing, owned, codec>>
Finishes(c, from, to) ==
  /\ fin[c] = from /\ fin' = [fin EXCEPT ![c] = to]
  /\ UNCHANGED <<closing, owned, codec>>

LastPeer_Any(c) == TRUE
LastPeer(c) == peers = {c}

\* owned.Wait, then removePeer.
RemovePeer(c) ==
  /\ owned[c] = 0 /\ Finishes(c, "begun", "bitrate")
  /\ peers' = peers \ {c}
  /\ active' = (active /\ ~LastPeer(c))
  /\ UNCHANGED <<closed, closeDone, reservations, admitMu, changeMu, connVars>>
  /\ UNCHANGED <<closer, toClose, qualityVars>>

\* The rest of removePeer: the bitrate of the remaining peers, under qualityChangeMu.
RestoreBitrate(c) ==
  /\ changeMu = None /\ Finishes(c, "bitrate", "release")
  /\ UNCHANGED <<registryVars, admitMu, changeMu, connVars, closer, toClose, qualityVars>>

FinishRelease(c) ==
  /\ Finishes(c, "release", "released") /\ ReleaseReservation
  /\ UNCHANGED <<admitMu, changeMu, connVars, closer, toClose, qualityVars>>

\* close(done)
FinishDone(c) ==
  /\ Finishes(c, "released", "done")
  /\ UNCHANGED <<registryVars, admitMu, changeMu, connVars, closer, toClose, qualityVars>>

-----------------------------------------------------------------------------
(* Service.Close                                                           *)

CloseService(k) ==
  /\ closer[k] = "idle" /\ ~closed
  /\ closer' = [closer EXCEPT ![k] = "closing"]
  /\ closed' = TRUE /\ closeDone' = (reservations = 0)
  /\ active' = FALSE /\ toClose' = peers
  /\ UNCHANGED <<reservations, peers, admitMu, changeMu, connVars, peerVars, qualityVars>>

\* A later call, of anybody, only waits for the first one's end.
CloseAgain(k) ==
  /\ closer[k] \in {"idle", "returned"} /\ closed
  /\ closer' = [closer EXCEPT ![k] = "waiting"]
  /\ UNCHANGED <<registryVars, admitMu, changeMu, connVars, peerVars, toClose, qualityVars>>

ClosePeer(k, p) ==
  /\ closer[k] = "closing" /\ p \in toClose /\ ~closing[p]
  /\ CloseWith({p})
  /\ UNCHANGED <<registryVars, admitMu, changeMu, connVars, closer, toClose, qualityVars>>

CloseReturns(k) ==
  /\ \/ closer[k] = "waiting"
     \/ closer[k] = "closing" /\ \A p \in toClose : closing[p]
  /\ closeDone
  /\ closer' = [closer EXCEPT ![k] = "returned"]
  /\ UNCHANGED <<registryVars, admitMu, changeMu, connVars, peerVars, toClose, qualityVars>>

\* The first caller has a deadline.
CloseTimesOut(k) ==
  /\ closer[k] = "closing" /\ \A p \in toClose : closing[p]
  /\ ~closeDone
  /\ closer' = [closer EXCEPT ![k] = "returned"]
  /\ UNCHANGED <<registryVars, admitMu, changeMu, connVars, peerVars, toClose, qualityVars>>

-----------------------------------------------------------------------------
(* Quality updates: updateQualityLocked with the lock around it, and the   *)
(* peers it closes.                                                        *)

Still == UNCHANGED <<registryVars, admitMu, connVars, closer, toClose>>

\* UpdateQuality of the embedding program, or quality.set of a peer.
AskQuality(u, r, q) ==
  /\ up[u].pc = "idle" /\ changeMu = None /\ updates < MaxUpdates
  /\ \/ r = None
     \/ r \in Conns /\ pc[r] = "reading" /\ ~IsClosing(r)
        /\ \A v \in Updaters : up[v].requester # r
  /\ changeMu' = u /\ updates' = updates + 1
  /\ up' = [up EXCEPT ![u] = Update("update", r, q)]
  /\ UNCHANGED <<current, qualityGen, peerVars>> /\ Still

UpdateFails(u) ==
  /\ up[u].pc = "update"
  /\ up' = [up EXCEPT ![u] = NoUpdate] /\ changeMu' = None
  /\ UNCHANGED <<current, qualityGen, updates, peerVars>> /\ Still

UpdateSource(u) ==
  /\ up[u].pc = "update"
  /\ current' = up[u].want
  /\ up' = [up EXCEPT ![u].pc = "apply"]
  /\ UNCHANGED <<changeMu, qualityGen, updates, peerVars>> /\ Still

\* The peers that cannot decode what the encoder now produces.
Incompatible == {c \in peers : ~IsClosing(c) /\ codec[c] # current}

FindPeers(u) ==
  /\ up[u].pc = "apply"
  /\ up' = [up EXCEPT ![u] = [@ EXCEPT !.pc = "mark",
              !.list = Incompatible \ {up[u].requester},
              !.reconnect = up[u].requester \in Incompatible]]
  /\ UNCHANGED <<changeMu, current, qualityGen, updates, peerVars>> /\ Still

\* The encoder has been replaced, and its congestion bitrate cannot be set.
BitrateFails(u) ==
  /\ BitrateMayFail /\ up[u].pc = "apply"
  /\ up' = [up EXCEPT ![u] = NoUpdate] /\ changeMu' = None
  /\ UNCHANGED <<current, qualityGen, updates, peerVars>> /\ Still

Affects(upd) == upd.list # {} \/ upd.reconnect

Mark(u) ==
  /\ up[u].pc = "mark"
  /\ qualityGen' = IF Affects(up[u]) THEN qualityGen + 1 ELSE qualityGen
  /\ up' = [up EXCEPT ![u].pc = "closing", ![u].gen = qualityGen']
  /\ changeMu' = None
  /\ UNCHANGED <<current, updates, peerVars>> /\ Still

\* closePeerForProfileChange looks at the generation ...
CheckGeneration(u, c) ==
  /\ up[u].pc = "closing" /\ up[u].target = None /\ c \in up[u].list
  /\ up' = [up EXCEPT ![u] = [@ EXCEPT !.list = up[u].list \ {c},
              !.target = IF up[u].gen = qualityGen THEN c ELSE None]]
  /\ UNCHANGED <<changeMu, current, qualityGen, updates, peerVars>> /\ Still

\* ... and closes the peer after that.
CloseIncompatible(u) ==
  /\ up[u].pc = "closing" /\ up[u].target # None
  /\ CloseWith({up[u].target})
  /\ up' = [up EXCEPT ![u].target = None]
  /\ UNCHANGED <<changeMu, current, qualityGen, updates>> /\ Still

\* The peer that asked closes last, whatever the generation.
EndUpdate(u) ==
  /\ up[u].pc = "closing" /\ up[u].target = None /\ up[u].list = {}
  /\ CloseWith(IF up[u].reconnect THEN {up[u].requester} ELSE {})
  /\ up' = [up EXCEPT ![u] = NoUpdate]
  /\ UNCHANGED <<changeMu, current, qualityGen, updates>> /\ Still

-----------------------------------------------------------------------------
Handle(c) ==
  \/ Admit(c) \/ (\E p \in Conns : ReplaceCloses(c, p)) \/ ReplaceWaited(c)
  \/ Reserve(c) \/ Refuse(c) \/ ReadProfile(c) \/ Register(c) \/ RegisterFails(c)
  \/ Unreserve(c) \/ SetupFails(c) \/ Setup(c) \/ Run(c)

Finish(c) == RemovePeer(c) \/ RestoreBitrate(c) \/ FinishRelease(c) \/ FinishDone(c)

Closes(k) ==
  (\E p \in Conns : ClosePeer(k, p)) \/ CloseReturns(k)

Updates(u) ==
  \/ UpdateFails(u) \/ UpdateSource(u) \/ FindPeers(u) \/ BitrateFails(u) \/ Mark(u)
  \/ (\E c \in Conns : CheckGeneration(u, c)) \/ CloseIncompatible(u) \/ EndUpdate(u)

Next ==
  \/ \E c \in Conns : \/ Connect(c) \/ Handle(c) \/ ReplaceTimesOut(c) \/ HandlerOwns(c)
                      \/ OwnedEnds(c) \/ PeerCloses(c) \/ Finish(c)
  \/ \E k \in Closers : CloseService(k) \/ CloseAgain(k) \/ Closes(k) \/ CloseTimesOut(k)
  \/ \E u \in Updaters :
       \/ \E r \in Conns \cup {None}, q \in Codecs : AskQuality(u, r, q)
       \/ Updates(u)

Spec == Init /\ [][Next]_vars

\* Every goroutine goes on, Go's mutexes starve nobody, and what a peer owns
\* ends once the peer's context is cancelled.  No timeout has to happen.
Fairness ==
  /\ \A c \in Conns : SF_vars(Handle(c)) /\ SF_vars(Finish(c))
                      /\ WF_vars(IsClosing(c) /\ OwnedEnds(c))
  /\ \A k \in Closers : WF_vars(Closes(k))
  /\ \A u \in Updaters : WF_vars(Updates(u))

FairSpec == Spec /\ Fairness

-----------------------------------------------------------------------------
(* Properties.                                                             *)

Pcs == {"idle", "waiting", "replacing", "reserve", "profile", "register", "unreserve",
        "setup", "serving", "reading", "over"}

\* Every variable has the type of the field it stands for.
TypeOK ==
  /\ closed \in BOOLEAN /\ closeDone \in BOOLEAN /\ active \in BOOLEAN
  /\ reservations \in Nat /\ peers \subseteq Conns
  /\ admitMu \in Conns \cup {None} /\ changeMu \in Conns \cup Updaters \cup {None}
  /\ pc \in [Conns -> Pcs] /\ waits \in [Conns -> SUBSET Conns]
  /\ closing \in [Conns -> BOOLEAN]
  /\ fin \in [Conns -> {"open", "begun", "bitrate", "release", "released", "done"}]
  /\ owned \in [Conns -> Nat] /\ codec \in [Conns -> Codecs]
  /\ closer \in [Closers -> {"idle", "closing", "waiting", "returned"}]
  /\ toClose \subseteq Conns /\ current \in Codecs
  /\ qualityGen \in Nat /\ updates \in Nat
  /\ up \in [Updaters ->
       [pc : {"idle", "update", "apply", "mark", "closing"}, requester : Conns \cup {None},
        want : Codecs, list : SUBSET Conns, reconnect : BOOLEAN, gen : Nat,
        target : Conns \cup {None}]]

\* The connection has a reservation that it has not given back.
Holds(c) ==
  \/ fin[c] \in {"begun", "bitrate", "release"}
  \/ fin[c] = "open"
     /\ pc[c] \in {"profile", "register", "unreserve", "setup", "serving", "reading"}

\* reservations counts exactly the connections that are being set up, are
\* served or are being torn down, and never exceeds MaxPeers: no failure of
\* newPeer and no race of closes loses a reservation or returns it twice.
ReservationsCounted ==
  reservations = Cardinality({c \in Conns : Holds(c)}) /\ reservations <= MaxPeers

\* The source delivers frames exactly while the open service has a peer,
\* however registerPeer, removePeer and Close interleave.
ActiveMatchesPeers == active <=> (peers # {} /\ ~closed)

\* closeDone is closed exactly when the last reservation of the closed
\* service is returned: Close cannot return earlier by it, nor miss it.
CloseDoneExact == closeDone <=> (closed /\ reservations = 0)

\* Once finishClose has waited for the peer's goroutines none runs, and none
\* is started by a handler that comes late.
NothingOwnedAfterWait ==
  \A c \in Conns : fin[c] \in {"bitrate", "release", "released", "done"} => owned[c] = 0

\* The update is going to close the peer: its list is not superseded.
WillClose(u, c) ==
  \/ up[u].pc = "apply"
  \/ /\ up[u].pc \in {"mark", "closing"}
     /\ \/ up[u].reconnect /\ up[u].requester = c
        \/ up[u].target = c
        \/ c \in up[u].list /\ (up[u].pc = "mark" \/ up[u].gen = qualityGen)

\* A peer that cannot decode what the encoder produces is about to be closed
\* by some update, also when it was admitted while the codec changed and when
\* a later update superseded the one that had found it.
StalePeersClose ==
  \A c \in peers :
    IsClosing(c) \/ codec[c] = current \/ \E u \in Updaters : WillClose(u, c)

\* A registered peer, which finishClose may have removed since.
WasPeer(c) == c \in peers \/ fin[c] # "open"

\* Where a connection is says whether its peer is registered and closing.
Phases ==
  \A c \in Conns :
    /\ closing[c] <=> fin[c] # "open"
    /\ closing[c] => pc[c] \in {"setup", "serving", "reading", "over"}
    /\ c \in peers <=> \/ fin[c] = "begun"
                       \/ fin[c] = "open" /\ pc[c] \in {"setup", "serving", "reading"}

\* Whatever is going to be closed has been registered.
Targets ==
  /\ \A c \in Conns : \A p \in waits[c] : WasPeer(p)
  /\ \A p \in toClose : WasPeer(p)
  /\ \A u \in Updaters :
       /\ \A c \in up[u].list : WasPeer(c)
       /\ up[u].target # None => WasPeer(up[u].target)
       /\ up[u].reconnect => up[u].requester # None /\ WasPeer(up[u].requester)

\* qualityChangeMu is held from the choice of a codec to its registration, and
\* from the change of the codec until its victims are known.
ChangeLocked ==
  /\ \A c \in Conns : pc[c] = "register" => changeMu = c /\ codec[c] = current
  /\ \A u \in Updaters : up[u].pc \in {"update", "apply", "mark"} => changeMu = u

\* An update that holds the lock has found every peer it has to close.
AllFound ==
  \A u \in Updaters : up[u].pc = "mark" =>
    \A c \in peers : \/ IsClosing(c) \/ codec[c] = current \/ c \in up[u].list
                     \/ up[u].reconnect /\ up[u].requester = c

\* The inductive invariant of the registry's accounting.
IInv ==
  /\ TypeOK /\ Phases /\ Targets
  /\ ReservationsCounted /\ ActiveMatchesPeers /\ CloseDoneExact /\ NothingOwnedAfterWait

\* The inductive invariant of the codec changes, when no bitrate is refused.
CodecInv == IInv /\ ChangeLocked /\ AllFound /\ StalePeersClose

\* Close completes: every reservation is returned without the deadline.
CloseCompletes == closed ~> closeDone

\* A peer that begins to close is done and takes no place any more.
CloseFinishes == \A c \in Conns : closing[c] ~> (fin[c] = "done")

\* Closing ends, for the service and for each peer, with no deadline passed.
ClosingEnds == CloseCompletes /\ CloseFinishes

\* Every connection is admitted or refused: nobody holds admitMu for good,
\* though replaceActivePeer waits for others while it has it.
AdmissionDecided == \A c \in Conns : pc[c] = "waiting" ~> pc[c] \in {"reading", "over"}

\* A peer with another codec than the encoder's does not stay.
StalePeersLeave ==
  \A c \in Conns : (c \in peers /\ codec[c] # current)
                   ~> (c \notin peers \/ codec[c] = current)
=============================================================================
