--------------------------- MODULE RegistryProofs ---------------------------
(***************************************************************************)
(* Proofs about PeerRegistry, for any connections, callers of Close and    *)
(* updaters: the reservations are exact, the media source runs exactly     *)
(* while it is needed, Close is signalled at the right moment, and no peer *)
(* with a stale codec is forgotten.                                        *)
(***************************************************************************)
EXTENDS PeerRegistry, FiniteSetTheorems, TLAPS

USE RegistryAssumption

Held == {c \in Conns : Holds(c)}

Served == {"setup", "serving", "reading"}

\* The parts of the invariant that do not speak of what is going to be closed.
Accounting ==
  Phases /\ ReservationsCounted /\ NothingOwnedAfterWait /\ ActiveMatchesPeers /\ CloseDoneExact

FinTypes == [Conns -> {"open", "begun", "bitrate", "release", "released", "done"}]

\* Nobody's reservation changes: the count stays.
LEMMA HeldKept ==
  ASSUME ReservationsCounted, reservations' = reservations,
         \A c \in Conns : Holds(c)' <=> Holds(c)
  PROVE  ReservationsCounted'
<1>1. Held' = Held
  BY DEF Held
<1>2. {c \in Conns : Holds(c)}' = {c \in Conns : Holds(c)}
  BY <1>1 DEF Held
<1>3. QED
  BY <1>2 DEF ReservationsCounted

\* One connection gets a reservation.
LEMMA HeldGained ==
  ASSUME NEW c \in Conns, ReservationsCounted, reservations \in Nat, ~Full,
         reservations' = reservations + 1, ~Holds(c), Holds(c)',
         \A d \in Conns \ {c} : Holds(d)' <=> Holds(d)
  PROVE  ReservationsCounted'
<1>1. Held' = Held \cup {c} /\ c \notin Held
  BY DEF Held
<1>2. IsFiniteSet(Held)
  BY FS_Subset DEF Held
<1>3. Cardinality(Held') = Cardinality(Held) + 1
  BY <1>1, <1>2, FS_AddElement
<1>4. reservations = Cardinality(Held) /\ reservations < MaxPeers
  BY DEF ReservationsCounted, Held, Full
<1>5. reservations' = Cardinality(Held') /\ reservations' <= MaxPeers
  BY <1>3, <1>4
<1>6. QED
  BY <1>5 DEF ReservationsCounted, Held

\* One connection gives its reservation back.
LEMMA HeldLost ==
  ASSUME NEW c \in Conns, ReservationsCounted, reservations \in Nat,
         reservations' = reservations - 1, Holds(c), ~Holds(c)',
         \A d \in Conns \ {c} : Holds(d)' <=> Holds(d)
  PROVE  ReservationsCounted' /\ reservations' \in Nat
<1>1. Held' = Held \ {c} /\ c \in Held
  BY DEF Held
<1>2. IsFiniteSet(Held) /\ IsFiniteSet(Held')
  BY <1>1, FS_Subset, FS_RemoveElement DEF Held
<1>3. Cardinality(Held') = Cardinality(Held) - 1
  BY <1>1, <1>2, FS_RemoveElement
<1>4. reservations = Cardinality(Held) /\ reservations <= MaxPeers
  BY DEF ReservationsCounted, Held
<1>5. Cardinality(Held') \in Nat
  BY <1>2, FS_CardinalityType
<1>6. /\ reservations' = Cardinality(Held') /\ reservations' \in Nat
      /\ reservations' <= MaxPeers
  BY <1>3, <1>4, <1>5
<1>7. QED
  BY <1>6 DEF ReservationsCounted, Held

\* The initial state satisfies the invariant.
LEMMA InitIInv == Init => IInv
<1> SUFFICES ASSUME Init PROVE IInv
  OBVIOUS
<1>1. TypeOK
  BY DEF Init, TypeOK, Pcs, NoUpdate, Update
<1>2. Phases /\ Targets
  BY DEF Init, Phases, Targets, NoUpdate, Update
<1>3. Held = {}
  BY DEF Held, Holds, Init
<1>4. ReservationsCounted
  BY <1>3, FS_EmptySet DEF ReservationsCounted, Held, Init
<1>5. ActiveMatchesPeers /\ CloseDoneExact /\ NothingOwnedAfterWait
  BY DEF Init, ActiveMatchesPeers, CloseDoneExact, NothingOwnedAfterWait
<1>6. QED
  BY <1>1, <1>2, <1>4, <1>5 DEF IInv

-----------------------------------------------------------------------------
\* Closing registered peers keeps the accounting: a peer that begins to close
\* keeps its place and its reservation.
LEMMA CloseKeeps ==
  ASSUME IInv, NEW S \in SUBSET Conns, \A p \in S : WasPeer(p), CloseWith(S),
         UNCHANGED registryVars, pc' \in [Conns -> Pcs],
         \A c \in Conns : pc'[c] = pc[c] \/ (c \in S /\ pc[c] = "setup" /\ pc'[c] = "over")
  PROVE  /\ closing' \in [Conns -> BOOLEAN]
         /\ fin' \in FinTypes
         /\ owned' = owned /\ codec' = codec
         /\ Accounting'
         /\ \A p \in Conns : WasPeer(p) => WasPeer(p)'
<1> USE DEF Accounting, FinTypes
<1>1. /\ closing' \in [Conns -> BOOLEAN]
      /\ fin' \in FinTypes
      /\ owned' = owned /\ codec' = codec
  BY DEF CloseWith, IInv, TypeOK
<1>2. Phases'
  BY <1>1 DEF CloseWith, IInv, TypeOK, Phases, WasPeer, registryVars
<1>3. \A c \in Conns : Holds(c)' <=> Holds(c)
  BY <1>1 DEF CloseWith, IInv, TypeOK, Phases, WasPeer, Holds, registryVars
<1>4. ReservationsCounted'
  BY <1>3, HeldKept DEF IInv, registryVars
<1>5. NothingOwnedAfterWait'
  BY <1>1 DEF CloseWith, IInv, TypeOK, NothingOwnedAfterWait
<1>6. ActiveMatchesPeers' /\ CloseDoneExact'
  BY DEF IInv, ActiveMatchesPeers, CloseDoneExact, registryVars
<1>7. \A p \in Conns : WasPeer(p) => WasPeer(p)'
  BY <1>1 DEF CloseWith, IInv, TypeOK, WasPeer, registryVars
<1>8. QED
  BY <1>1, <1>2, <1>4, <1>5, <1>6, <1>7

\* Steps that only move a connection to another place of the same standing.
LEMMA MoveKeeps ==
  ASSUME IInv, NEW c \in Conns, NEW from \in Pcs, NEW to \in Pcs, At(c, from, to),
         from # "over", from \in Served <=> to \in Served,
         from \in {"profile", "register", "unreserve"} <=> to \in {"profile", "register", "unreserve"},
         UNCHANGED <<registryVars, closing, fin>>, owned' \in [Conns -> Nat],
         \A d \in Conns : fin[d] \in {"bitrate", "release", "released", "done"} => owned'[d] = owned[d]
  PROVE  /\ pc' \in [Conns -> Pcs]
         /\ Accounting'
         /\ \A p \in Conns : WasPeer(p)' <=> WasPeer(p)
<1> USE DEF Accounting
<1>1. pc' \in [Conns -> Pcs]
  BY DEF At, IInv, TypeOK
<1>2. Phases'
  BY <1>1 DEF At, IInv, TypeOK, Phases, registryVars, Served, Pcs
<1>3. \A d \in Conns : Holds(d)' <=> Holds(d)
  BY <1>1 DEF At, IInv, TypeOK, Holds, registryVars, Served, Pcs
<1>4. ReservationsCounted'
  BY <1>3, HeldKept DEF IInv, registryVars
<1>5. NothingOwnedAfterWait'
  BY DEF IInv, TypeOK, NothingOwnedAfterWait
<1>6. ActiveMatchesPeers' /\ CloseDoneExact'
  BY DEF IInv, ActiveMatchesPeers, CloseDoneExact, registryVars
<1>7. \A p \in Conns : WasPeer(p)' <=> WasPeer(p)
  BY DEF WasPeer, registryVars
<1>8. QED
  BY <1>1, <1>2, <1>4, <1>5, <1>6, <1>7

\* Whatever was registered stays so, so that targets stay targets.
LEMMA TargetsKept ==
  ASSUME TypeOK, Targets, \A p \in Conns : WasPeer(p) => WasPeer(p)',
         UNCHANGED <<waits, toClose, up>>
  PROVE  Targets'
BY DEF Targets, TypeOK

-----------------------------------------------------------------------------
\* Steps of Handler before the peer is registered.
LEMMA BeforeRegistration ==
  ASSUME IInv, NEW c \in Conns,
         \/ Connect(c) \/ Admit(c) \/ ReplaceWaited(c) \/ ReplaceTimesOut(c)
         \/ Reserve(c) \/ Refuse(c) \/ ReadProfile(c) \/ RegisterFails(c) \/ Unreserve(c)
  PROVE  IInv'
<1> USE DEF IInv, Accounting, FinTypes
<1>1. CASE Connect(c)
  <2>1. TypeOK'
    BY <1>1 DEF Connect, At, TypeOK, Pcs, registryVars, connVars, peerVars, qualityVars
  <2>2. /\ Accounting' /\ \A p \in Conns : WasPeer(p)' <=> WasPeer(p)
    BY <1>1, MoveKeeps DEF Connect, Pcs, Served, TypeOK, registryVars, connVars, peerVars, qualityVars
  <2>3. Targets'
    BY <1>1, <2>2, TargetsKept DEF Connect, registryVars, connVars, peerVars, qualityVars
  <2>4. QED
    BY <2>1, <2>2, <2>3
<1>2. CASE Admit(c)
  <2>1. TypeOK'
    BY <1>2 DEF Admit, At, TypeOK, Pcs, registryVars, connVars, peerVars, qualityVars
  <2>2. /\ Accounting' /\ \A p \in Conns : WasPeer(p)' <=> WasPeer(p)
    BY <1>2, MoveKeeps DEF Admit, Pcs, Served, TypeOK, registryVars, connVars, peerVars, qualityVars
  <2>3. \A p \in waits'[c] : WasPeer(p)
    BY <1>2 DEF Admit, TypeOK, WasPeer
  <2>4. Targets'
    BY <1>2, <2>2, <2>3 DEF Admit, Targets, TypeOK, registryVars, connVars, peerVars, qualityVars
  <2>5. QED
    BY <2>1, <2>2, <2>4
<1>3. CASE ReplaceWaited(c) \/ ReplaceTimesOut(c)
  <2>1. TypeOK'
    <3>1. CASE ReplaceWaited(c)
      BY <3>1 DEF ReplaceWaited, At, TypeOK, Pcs, registryVars, connVars, peerVars, qualityVars
    <3>2. CASE ReplaceTimesOut(c)
      BY <3>2 DEF ReplaceTimesOut, At, TypeOK, Pcs, registryVars, connVars, peerVars, qualityVars
    <3> QED
      BY <1>3, <3>1, <3>2
  <2>2. /\ Accounting' /\ \A p \in Conns : WasPeer(p)' <=> WasPeer(p)
    <3>1. CASE ReplaceWaited(c)
      BY <3>1, MoveKeeps DEF ReplaceWaited, Pcs, Served, TypeOK, registryVars, connVars, peerVars, qualityVars
    <3>2. CASE ReplaceTimesOut(c)
      BY <3>2, MoveKeeps DEF ReplaceTimesOut, Pcs, Served, TypeOK, registryVars, connVars, peerVars, qualityVars
    <3> QED
      BY <1>3, <3>1, <3>2
  <2>3. Targets'
    BY <1>3, <2>2, TargetsKept DEF ReplaceWaited, ReplaceTimesOut, registryVars, connVars, peerVars, qualityVars
  <2>4. QED
    BY <2>1, <2>2, <2>3
<1>4. CASE Reserve(c)
  <2>1. TypeOK'
    BY <1>4 DEF Reserve, At, TypeOK, Pcs, registryVars, connVars, peerVars, qualityVars
  <2>2. fin[c] = "open" /\ ~Holds(c) /\ Holds(c)'
    BY <1>4 DEF Reserve, At, TypeOK, Holds, Phases, registryVars, connVars, peerVars, qualityVars
  <2>3. \A d \in Conns \ {c} : Holds(d)' <=> Holds(d)
    BY <1>4 DEF Reserve, At, TypeOK, Holds, registryVars, connVars, peerVars, qualityVars
  <2>4. ReservationsCounted'
    BY <1>4, <2>2, <2>3, HeldGained DEF Reserve, TypeOK
  <2>5. Phases'
    BY <1>4, <2>2 DEF Reserve, At, TypeOK, Phases, registryVars, connVars, peerVars, qualityVars
  <2>6. Targets' /\ ActiveMatchesPeers' /\ CloseDoneExact' /\ NothingOwnedAfterWait'
    BY <1>4 DEF Reserve, TypeOK, Targets, WasPeer, ActiveMatchesPeers, CloseDoneExact,
                NothingOwnedAfterWait, registryVars, connVars, peerVars, qualityVars
  <2>7. QED
    BY <2>1, <2>4, <2>5, <2>6
<1>5. CASE Refuse(c)
  <2>1. TypeOK'
    BY <1>5 DEF Refuse, At, TypeOK, Pcs, registryVars, connVars, peerVars, qualityVars
  <2>2. /\ Accounting' /\ \A p \in Conns : WasPeer(p)' <=> WasPeer(p)
    BY <1>5, MoveKeeps DEF Refuse, Pcs, Served, TypeOK, registryVars, connVars, peerVars, qualityVars
  <2>3. Targets'
    BY <1>5, <2>2, TargetsKept DEF Refuse, registryVars, connVars, peerVars, qualityVars
  <2>4. QED
    BY <2>1, <2>2, <2>3
<1>6. CASE ReadProfile(c)
  <2>1. TypeOK'
    BY <1>6 DEF ReadProfile, At, TypeOK, Pcs, registryVars, connVars, peerVars, qualityVars
  <2>2. /\ Accounting' /\ \A p \in Conns : WasPeer(p)' <=> WasPeer(p)
    BY <1>6, MoveKeeps DEF ReadProfile, Pcs, Served, TypeOK, registryVars, connVars, peerVars, qualityVars
  <2>3. Targets'
    BY <1>6, <2>2, TargetsKept DEF ReadProfile, registryVars, connVars, peerVars, qualityVars
  <2>4. QED
    BY <2>1, <2>2, <2>3
<1>7. CASE RegisterFails(c)
  <2>1. TypeOK'
    BY <1>7 DEF RegisterFails, At, TypeOK, Pcs, registryVars, connVars, peerVars, qualityVars
  <2>2. /\ Accounting' /\ \A p \in Conns : WasPeer(p)' <=> WasPeer(p)
    BY <1>7, MoveKeeps DEF RegisterFails, Pcs, Served, TypeOK, registryVars, connVars, peerVars, qualityVars
  <2>3. Targets'
    BY <1>7, <2>2, TargetsKept DEF RegisterFails, registryVars, connVars, peerVars, qualityVars
  <2>4. QED
    BY <2>1, <2>2, <2>3
<1>8. CASE Unreserve(c)
  <2>1. fin[c] = "open" /\ Holds(c) /\ ~Holds(c)'
    BY <1>8 DEF Unreserve, At, TypeOK, Holds, Phases, registryVars, connVars, peerVars, qualityVars
  <2>2. \A d \in Conns \ {c} : Holds(d)' <=> Holds(d)
    BY <1>8 DEF Unreserve, At, TypeOK, Holds, registryVars, connVars, peerVars, qualityVars
  <2>3. ReservationsCounted' /\ reservations' \in Nat
    BY <1>8, <2>1, <2>2, HeldLost DEF Unreserve, ReleaseReservation, TypeOK
  <2>4. TypeOK'
    BY <1>8, <2>3 DEF Unreserve, ReleaseReservation, At, TypeOK, Pcs, registryVars, connVars, peerVars, qualityVars
  <2>5. CloseDoneExact'
    BY <1>8, <2>3 DEF Unreserve, ReleaseReservation, TypeOK, CloseDoneExact
  <2>6. Phases'
    BY <1>8, <2>1 DEF Unreserve, ReleaseReservation, At, TypeOK, Phases, registryVars, connVars, peerVars, qualityVars
  <2>7. Targets' /\ ActiveMatchesPeers' /\ NothingOwnedAfterWait'
    BY <1>8 DEF Unreserve, ReleaseReservation, TypeOK, Targets, WasPeer, ActiveMatchesPeers,
                NothingOwnedAfterWait, registryVars, connVars, peerVars, qualityVars
  <2>8. QED
    BY <2>3, <2>4, <2>5, <2>6, <2>7
<1>9. QED
  BY <1>1, <1>2, <1>3, <1>4, <1>5, <1>6, <1>7, <1>8

\* Steps of Handler from the registration on, and what a peer owns.
LEMMA AfterRegistration ==
  ASSUME IInv, NEW c \in Conns,
         \/ Register(c) \/ SetupFails(c) \/ Setup(c) \/ Run(c)
         \/ HandlerOwns(c) \/ OwnedEnds(c) \/ PeerCloses(c)
         \/ \E p \in Conns : ReplaceCloses(c, p)
  PROVE  IInv'
<1> USE DEF IInv, Accounting, FinTypes
<1>1. CASE Register(c)
  <2>1. TypeOK'
    BY <1>1 DEF Register, At, TypeOK, Pcs, registryVars, connVars, peerVars, qualityVars
  <2>2. \A d \in Conns : Holds(d)' <=> Holds(d)
    BY <1>1 DEF Register, At, TypeOK, Holds, registryVars, connVars, peerVars, qualityVars
  <2>3. ReservationsCounted'
    BY <1>1, <2>2, HeldKept DEF Register
  <2>4. Phases'
    BY <1>1 DEF Register, At, TypeOK, Phases, registryVars, connVars, peerVars, qualityVars
  <2>5. Targets' /\ CloseDoneExact' /\ NothingOwnedAfterWait'
    BY <1>1 DEF Register, TypeOK, Targets, WasPeer, CloseDoneExact, NothingOwnedAfterWait, registryVars, connVars, peerVars, qualityVars
  <2>6. ActiveMatchesPeers'
    BY <1>1 DEF Register, TypeOK, ActiveMatchesPeers
  <2>7. QED
    BY <2>1, <2>3, <2>4, <2>5, <2>6
<1>2. CASE SetupFails(c)
  <2>1. c \in peers \/ fin[c] # "open"
    BY <1>2 DEF SetupFails, At, Phases, TypeOK
  <2>2. pc' \in [Conns -> Pcs]
    BY <1>2 DEF SetupFails, At, TypeOK, Pcs
  <2>3. \A d \in Conns : pc'[d] = pc[d] \/ (d \in {c} /\ pc[d] = "setup" /\ pc'[d] = "over")
    BY <1>2 DEF SetupFails, At, TypeOK
  <2>4. CloseWith({c}) /\ UNCHANGED registryVars /\ \A p \in {c} : WasPeer(p)
    BY <1>2, <2>1 DEF SetupFails, WasPeer
  <2>5. /\ closing' \in [Conns -> BOOLEAN] /\ fin' \in FinTypes /\ owned' = owned /\ codec' = codec
        /\ Accounting' /\ \A q \in Conns : WasPeer(q) => WasPeer(q)'
    BY <2>2, <2>3, <2>4, CloseKeeps
  <2>6. TypeOK'
    BY <1>2, <2>2, <2>5 DEF SetupFails, TypeOK, registryVars, connVars, peerVars, qualityVars
  <2>7. Targets'
    BY <1>2, <2>5, TargetsKept DEF SetupFails, registryVars, connVars, peerVars, qualityVars
  <2>8. QED
    BY <2>5, <2>6, <2>7
<1>3. CASE Setup(c)
  <2>1. TypeOK'
    BY <1>3 DEF Setup, GoOwned, At, TypeOK, Pcs, registryVars, connVars, peerVars, qualityVars
  <2>2. \A d \in Conns : fin[d] \in {"bitrate", "release", "released", "done"} => owned'[d] = owned[d]
    BY <1>3 DEF Setup, GoOwned, MayOwn, TypeOK, Phases
  <2>3. /\ Accounting' /\ \A p \in Conns : WasPeer(p)' <=> WasPeer(p)
    BY <1>3, <2>1, <2>2, MoveKeeps DEF Setup, GoOwned, Pcs, Served, TypeOK, registryVars, connVars, peerVars, qualityVars
  <2>4. Targets'
    BY <1>3, <2>3, TargetsKept DEF Setup, registryVars, connVars, peerVars, qualityVars
  <2>5. QED
    BY <2>1, <2>3, <2>4
<1>4. CASE Run(c)
  <2>1. TypeOK'
    BY <1>4 DEF Run, GoOwned, At, TypeOK, Pcs, registryVars, connVars, peerVars, qualityVars
  <2>2. \A d \in Conns : fin[d] \in {"bitrate", "release", "released", "done"} => owned'[d] = owned[d]
    BY <1>4 DEF Run, GoOwned, MayOwn, TypeOK, Phases
  <2>3. /\ Accounting' /\ \A p \in Conns : WasPeer(p)' <=> WasPeer(p)
    BY <1>4, <2>1, <2>2, MoveKeeps DEF Run, GoOwned, Pcs, Served, TypeOK, registryVars, connVars, peerVars, qualityVars
  <2>4. Targets'
    BY <1>4, <2>3, TargetsKept DEF Run, registryVars, connVars, peerVars, qualityVars
  <2>5. QED
    BY <2>1, <2>3, <2>4
<1>5. CASE HandlerOwns(c) \/ OwnedEnds(c)
  <2>1. TypeOK'
    BY <1>5 DEF HandlerOwns, OwnedEnds, GoOwned, TypeOK, registryVars, connVars, peerVars, qualityVars
  <2>2. NothingOwnedAfterWait'
    BY <1>5 DEF HandlerOwns, OwnedEnds, GoOwned, MayOwn, TypeOK, Phases, NothingOwnedAfterWait
  <2>3. \A d \in Conns : Holds(d)' <=> Holds(d)
    BY <1>5 DEF HandlerOwns, OwnedEnds, GoOwned, Holds, registryVars, connVars, peerVars, qualityVars
  <2>4. ReservationsCounted'
    BY <1>5, <2>3, HeldKept DEF HandlerOwns, OwnedEnds, registryVars
  <2>5. Phases' /\ Targets' /\ ActiveMatchesPeers' /\ CloseDoneExact'
    BY <1>5 DEF HandlerOwns, OwnedEnds, GoOwned, Phases, Targets, WasPeer, ActiveMatchesPeers,
                CloseDoneExact, registryVars, connVars, peerVars, qualityVars
  <2>6. QED
    BY <2>1, <2>2, <2>4, <2>5
<1>6. CASE PeerCloses(c)
  <2>1. CloseWith({c}) /\ UNCHANGED registryVars /\ \A p \in {c} : WasPeer(p)
    BY <1>6 DEF PeerCloses, WasPeer, Phases
  <2>2. /\ closing' \in [Conns -> BOOLEAN] /\ fin' \in FinTypes /\ owned' = owned /\ codec' = codec
        /\ Accounting' /\ \A q \in Conns : WasPeer(q) => WasPeer(q)'
    BY <1>6, <2>1, CloseKeeps DEF PeerCloses, TypeOK, connVars
  <2>3. TypeOK'
    BY <1>6, <2>2 DEF PeerCloses, TypeOK, registryVars, connVars, peerVars, qualityVars
  <2>4. Targets'
    BY <1>6, <2>2, TargetsKept DEF PeerCloses, registryVars, connVars, peerVars, qualityVars
  <2>5. QED
    BY <2>2, <2>3, <2>4
<1>7. ASSUME NEW p \in Conns, ReplaceCloses(c, p) PROVE IInv'
  <2>1. CloseWith({p}) /\ UNCHANGED registryVars /\ \A q \in {p} : WasPeer(q)
    BY <1>7 DEF ReplaceCloses, Targets
  <2>2. /\ closing' \in [Conns -> BOOLEAN] /\ fin' \in FinTypes /\ owned' = owned /\ codec' = codec
        /\ Accounting' /\ \A q \in Conns : WasPeer(q) => WasPeer(q)'
    BY <1>7, <2>1, CloseKeeps DEF ReplaceCloses, TypeOK, connVars
  <2>3. TypeOK'
    BY <1>7, <2>2 DEF ReplaceCloses, TypeOK, registryVars, connVars, peerVars, qualityVars
  <2>4. Targets'
    BY <1>7, <2>2, TargetsKept DEF ReplaceCloses, registryVars, connVars, peerVars, qualityVars
  <2>5. QED
    BY <2>2, <2>3, <2>4
<1>8. QED
  BY <1>1, <1>2, <1>3, <1>4, <1>5, <1>6, <1>7

-----------------------------------------------------------------------------
\* finishClose.
LEMMA FinishStep ==
  ASSUME IInv, NEW c \in Conns, Finish(c)
  PROVE  IInv'
<1> USE DEF IInv, Accounting, FinTypes
<1>1. CASE RemovePeer(c)
  <2>1. TypeOK'
    BY <1>1 DEF RemovePeer, Finishes, LastPeer, TypeOK, registryVars, connVars, peerVars, qualityVars
  <2>2. \A d \in Conns : Holds(d)' <=> Holds(d)
    BY <1>1 DEF RemovePeer, Finishes, TypeOK, Holds, registryVars, connVars, peerVars, qualityVars
  <2>3. ReservationsCounted'
    BY <1>1, <2>2, HeldKept DEF RemovePeer
  <2>4. Phases' /\ NothingOwnedAfterWait'
    BY <1>1 DEF RemovePeer, Finishes, TypeOK, Phases, NothingOwnedAfterWait, registryVars, connVars, peerVars, qualityVars
  <2>5. Targets' /\ CloseDoneExact'
    BY <1>1 DEF RemovePeer, Finishes, TypeOK, Targets, WasPeer, CloseDoneExact, registryVars, connVars, peerVars, qualityVars
  <2>6. ActiveMatchesPeers'
    <3>1. c \in peers
      BY <1>1 DEF RemovePeer, Finishes, Phases
    <3>2. peers' = {} <=> peers = {c}
      BY <1>1, <3>1 DEF RemovePeer
    <3>3. QED
      BY <1>1, <3>1, <3>2 DEF RemovePeer, LastPeer, ActiveMatchesPeers, TypeOK
  <2>7. QED
    BY <2>1, <2>3, <2>4, <2>5, <2>6
<1>2. CASE RestoreBitrate(c) \/ FinishDone(c)
  <2>1. TypeOK'
    BY <1>2 DEF RestoreBitrate, FinishDone, Finishes, TypeOK, registryVars, connVars, peerVars, qualityVars
  <2>2. \A d \in Conns : Holds(d)' <=> Holds(d)
    BY <1>2 DEF RestoreBitrate, FinishDone, Finishes, TypeOK, Holds, registryVars, connVars, peerVars, qualityVars
  <2>3. ReservationsCounted'
    BY <1>2, <2>2, HeldKept DEF RestoreBitrate, FinishDone, registryVars
  <2>4. Phases' /\ NothingOwnedAfterWait'
    BY <1>2 DEF RestoreBitrate, FinishDone, Finishes, TypeOK, Phases, NothingOwnedAfterWait, registryVars, connVars, peerVars, qualityVars
  <2>5. Targets' /\ CloseDoneExact' /\ ActiveMatchesPeers'
    BY <1>2 DEF RestoreBitrate, FinishDone, Finishes, TypeOK, Targets, WasPeer, CloseDoneExact,
                ActiveMatchesPeers, registryVars, connVars, peerVars, qualityVars
  <2>6. QED
    BY <2>1, <2>3, <2>4, <2>5
<1>3. CASE FinishRelease(c)
  <2>1. Holds(c) /\ ~Holds(c)' /\ \A d \in Conns \ {c} : Holds(d)' <=> Holds(d)
    BY <1>3 DEF FinishRelease, Finishes, TypeOK, Holds, registryVars, connVars, peerVars, qualityVars
  <2>2. ReservationsCounted' /\ reservations' \in Nat
    BY <1>3, <2>1, HeldLost DEF FinishRelease, ReleaseReservation, TypeOK
  <2>3. TypeOK'
    BY <1>3, <2>2 DEF FinishRelease, Finishes, ReleaseReservation, TypeOK, registryVars, connVars, peerVars, qualityVars
  <2>4. CloseDoneExact'
    BY <1>3, <2>2 DEF FinishRelease, ReleaseReservation, TypeOK, CloseDoneExact
  <2>5. Phases' /\ NothingOwnedAfterWait'
    BY <1>3 DEF FinishRelease, Finishes, ReleaseReservation, TypeOK, Phases,
                NothingOwnedAfterWait, registryVars, connVars, peerVars, qualityVars
  <2>6. Targets' /\ ActiveMatchesPeers'
    BY <1>3 DEF FinishRelease, Finishes, ReleaseReservation, TypeOK, Targets, WasPeer,
                ActiveMatchesPeers, registryVars, connVars, peerVars, qualityVars
  <2>7. QED
    BY <2>2, <2>3, <2>4, <2>5, <2>6
<1>4. QED
  BY <1>1, <1>2, <1>3 DEF Finish

\* Service.Close.
LEMMA CloseStep ==
  ASSUME IInv, NEW k \in Closers,
         CloseService(k) \/ CloseAgain(k) \/ Closes(k) \/ CloseTimesOut(k)
  PROVE  IInv'
<1> USE DEF IInv, Accounting, FinTypes
<1>1. CASE CloseService(k)
  <2>1. TypeOK'
    BY <1>1 DEF CloseService, TypeOK, registryVars, connVars, peerVars, qualityVars
  <2>2. \A d \in Conns : Holds(d)' <=> Holds(d)
    BY <1>1 DEF CloseService, Holds, registryVars, connVars, peerVars, qualityVars
  <2>3. ReservationsCounted'
    BY <1>1, <2>2, HeldKept DEF CloseService
  <2>4. Phases' /\ NothingOwnedAfterWait' /\ Targets'
    BY <1>1 DEF CloseService, TypeOK, Phases, NothingOwnedAfterWait, Targets, WasPeer, registryVars, connVars, peerVars, qualityVars
  <2>5. ActiveMatchesPeers' /\ CloseDoneExact'
    BY <1>1 DEF CloseService, ActiveMatchesPeers, CloseDoneExact
  <2>6. QED
    BY <2>1, <2>3, <2>4, <2>5
<1>2. CASE CloseAgain(k) \/ CloseReturns(k) \/ CloseTimesOut(k)
  <2>1. TypeOK'
    BY <1>2 DEF CloseAgain, CloseReturns, CloseTimesOut, TypeOK, registryVars, connVars, peerVars, qualityVars
  <2>2. \A d \in Conns : Holds(d)' <=> Holds(d)
    BY <1>2 DEF CloseAgain, CloseReturns, CloseTimesOut, Holds, registryVars, connVars, peerVars, qualityVars
  <2>3. ReservationsCounted'
    BY <1>2, <2>2, HeldKept DEF CloseAgain, CloseReturns, CloseTimesOut, registryVars
  <2>4. Phases' /\ NothingOwnedAfterWait' /\ Targets' /\ ActiveMatchesPeers' /\ CloseDoneExact'
    BY <1>2 DEF CloseAgain, CloseReturns, CloseTimesOut, Phases, NothingOwnedAfterWait, Targets,
                WasPeer, ActiveMatchesPeers, CloseDoneExact, registryVars, connVars, peerVars, qualityVars
  <2>5. QED
    BY <2>1, <2>3, <2>4
<1>3. ASSUME NEW p \in Conns, ClosePeer(k, p) PROVE IInv'
  <2>1. CloseWith({p}) /\ UNCHANGED registryVars /\ \A q \in {p} : WasPeer(q)
    BY <1>3 DEF ClosePeer, Targets
  <2>2. /\ closing' \in [Conns -> BOOLEAN] /\ fin' \in FinTypes /\ owned' = owned /\ codec' = codec
        /\ Accounting' /\ \A q \in Conns : WasPeer(q) => WasPeer(q)'
    BY <1>3, <2>1, CloseKeeps DEF ClosePeer, TypeOK, connVars
  <2>3. TypeOK'
    BY <1>3, <2>2 DEF ClosePeer, TypeOK, registryVars, connVars, peerVars, qualityVars
  <2>4. Targets'
    BY <1>3, <2>2, TargetsKept DEF ClosePeer, registryVars, connVars, peerVars, qualityVars
  <2>5. QED
    BY <2>2, <2>3, <2>4
<1>4. QED
  BY <1>1, <1>2, <1>3 DEF Closes

\* A step of a quality update that closes nobody keeps the accounting.
LEMMA QuietUpdate ==
  ASSUME IInv, UNCHANGED <<registryVars, connVars, peerVars>>
  PROVE  Accounting' /\ \A p \in Conns : WasPeer(p)' <=> WasPeer(p)
<1> USE DEF IInv, Accounting
<1>1. \A d \in Conns : Holds(d)' <=> Holds(d)
  BY DEF Holds, connVars, peerVars
<1>2. ReservationsCounted'
  BY <1>1, HeldKept DEF registryVars
<1>3. Phases' /\ NothingOwnedAfterWait' /\ ActiveMatchesPeers' /\ CloseDoneExact'
  BY DEF Phases, NothingOwnedAfterWait, ActiveMatchesPeers, CloseDoneExact,
         registryVars, connVars, peerVars
<1>4. QED
  BY <1>2, <1>3 DEF WasPeer, registryVars, peerVars

UpTypes ==
  [pc : {"idle", "update", "apply", "mark", "closing"}, requester : Conns \cup {None},
   want : Codecs, list : SUBSET Conns, reconnect : BOOLEAN, gen : Nat,
   target : Conns \cup {None}]

\* One update changes to another update: only the types of its record matter.
LEMMA UpTyped ==
  ASSUME TypeOK, NEW u \in Updaters, NEW r \in UpTypes, up' = [up EXCEPT ![u] = r]
  PROVE  up' \in [Updaters -> UpTypes]
BY DEF TypeOK, UpTypes

\* The targets of one update change, to others that have been registered.
LEMMA TargetsOfOne ==
  ASSUME TypeOK, Targets, NEW u \in Updaters, \A p \in Conns : WasPeer(p) => WasPeer(p)',
         UNCHANGED <<waits, toClose>>, \A v \in Updaters \ {u} : up'[v] = up[v],
         up'[u].list \in SUBSET Conns, \A c \in up'[u].list : WasPeer(c),
         up'[u].target = None \/ (up'[u].target \in Conns /\ WasPeer(up'[u].target)),
         up'[u].reconnect => up'[u].requester \in Conns /\ WasPeer(up'[u].requester)
  PROVE  Targets'
<1>1. /\ \A c \in Conns : \A p \in waits'[c] : WasPeer(p)'
      /\ \A p \in toClose' : WasPeer(p)'
  BY DEF Targets, TypeOK
<1>2. ASSUME NEW v \in Updaters
      PROVE  (/\ \A c \in up[v].list : WasPeer(c)
              /\ up[v].target # None => WasPeer(up[v].target)
              /\ up[v].reconnect => up[v].requester # None /\ WasPeer(up[v].requester))'
  BY DEF Targets, TypeOK
<1>3. QED
  BY <1>1, <1>2 DEF Targets

\* The quality updates.
LEMMA QualityStep ==
  ASSUME IInv, NEW u \in Updaters,
         \/ \E r \in Conns \cup {None}, q \in Codecs : AskQuality(u, r, q)
         \/ Updates(u)
  PROVE  IInv'
<1> USE DEF IInv, Accounting, FinTypes
<1>1. ASSUME NEW r \in Conns \cup {None}, NEW q \in Codecs, AskQuality(u, r, q) PROVE IInv'
  <2>1. Accounting' /\ \A p \in Conns : WasPeer(p)' <=> WasPeer(p)
    BY <1>1, QuietUpdate DEF AskQuality, Still
  <2>2. TypeOK'
    <3>1. Update("update", r, q) \in UpTypes
      BY DEF Update, UpTypes
    <3>2. up' \in [Updaters -> UpTypes]
      BY <1>1, <3>1, UpTyped DEF AskQuality
    <3>3. QED
      BY <1>1, <3>2 DEF AskQuality, Still, TypeOK, UpTypes, registryVars, connVars, peerVars, qualityVars
  <2>3. /\ up'[u].list = {} /\ up'[u].target = None /\ ~up'[u].reconnect
        /\ \A v \in Updaters \ {u} : up'[v] = up[v]
    BY <1>1 DEF AskQuality, NoUpdate, Update, TypeOK
  <2>4. Targets'
    BY <1>1, <2>1, <2>3, TargetsOfOne DEF AskQuality, Still, connVars
  <2>5. QED
    BY <2>1, <2>2, <2>4
<1>2. CASE UpdateFails(u) \/ UpdateSource(u) \/ BitrateFails(u) \/ Mark(u)
  <2>1. Accounting' /\ \A p \in Conns : WasPeer(p)' <=> WasPeer(p)
    BY <1>2, QuietUpdate DEF UpdateFails, UpdateSource, BitrateFails, Mark, Still
  <2>2. CASE UpdateFails(u) \/ BitrateFails(u)
    <3>1. TypeOK'
      <4>1. NoUpdate \in UpTypes
        BY DEF NoUpdate, Update, UpTypes
      <4>2. up' \in [Updaters -> UpTypes]
        BY <2>2, <4>1, UpTyped DEF UpdateFails, BitrateFails
      <4>3. QED
        BY <2>2, <4>2 DEF UpdateFails, BitrateFails, Still, TypeOK, UpTypes, registryVars, connVars, peerVars, qualityVars
    <3>2. /\ up'[u].list = {} /\ up'[u].target = None /\ ~up'[u].reconnect
          /\ \A v \in Updaters \ {u} : up'[v] = up[v]
      BY <2>2 DEF UpdateFails, BitrateFails, NoUpdate, Update, TypeOK
    <3>3. Targets'
      BY <2>1, <2>2, <3>2, TargetsOfOne DEF UpdateFails, BitrateFails, Still, connVars
    <3>4. QED
      BY <2>1, <3>1, <3>3
  <2>3. CASE UpdateSource(u) \/ Mark(u)
    <3>1. TypeOK'
      <4>1. up \in [Updaters -> UpTypes]
        BY DEF TypeOK, UpTypes
      <4>2. up' \in [Updaters -> UpTypes]
        BY <2>3, <4>1 DEF UpdateSource, Mark, UpTypes
      <4>3. QED
        BY <2>3, <4>2 DEF UpdateSource, Mark, Still, TypeOK, UpTypes, registryVars, connVars, peerVars, qualityVars
    <3>2. /\ up'[u].list = up[u].list /\ up'[u].target = up[u].target
          /\ up'[u].reconnect = up[u].reconnect /\ up'[u].requester = up[u].requester
          /\ \A v \in Updaters \ {u} : up'[v] = up[v]
      BY <2>3 DEF UpdateSource, Mark, TypeOK
    <3>3. /\ up[u].list \in SUBSET Conns /\ up[u].target \in Conns \cup {None}
          /\ up[u].requester \in Conns \cup {None}
      BY DEF TypeOK
    <3>4. Targets'
      BY <2>1, <2>3, <3>2, <3>3, TargetsOfOne DEF UpdateSource, Mark, Still, Targets, connVars
    <3>5. QED
      BY <2>1, <3>1, <3>4
  <2>4. QED
    BY <1>2, <2>2, <2>3
<1>3. CASE FindPeers(u)
  <2>1. Accounting' /\ \A p \in Conns : WasPeer(p)' <=> WasPeer(p)
    BY <1>3, QuietUpdate DEF FindPeers, Still
  <2>2. Incompatible \subseteq peers /\ peers \subseteq Conns
    BY DEF Incompatible, TypeOK
  <2>3. TypeOK'
    <3>1. up \in [Updaters -> UpTypes]
      BY DEF TypeOK, UpTypes
    <3>2. up' \in [Updaters -> UpTypes]
      <4> DEFINE L == Incompatible \ {up[u].requester}
                 b == up[u].requester \in Incompatible
                 r == [up[u] EXCEPT !.pc = "mark", !.list = L, !.reconnect = b]
      <4>1. up' = [up EXCEPT ![u] = r]
        BY <1>3 DEF FindPeers
      <4>2. L \in SUBSET Conns /\ b \in BOOLEAN /\ up[u] \in UpTypes
        BY <2>2, <3>1
      <4> HIDE DEF L, b
      <4>3. r \in UpTypes
        BY <4>2 DEF UpTypes
      <4> HIDE DEF r
      <4>4. QED
        BY <4>1, <4>3, UpTyped
    <3>3. QED
      BY <1>3, <2>2, <3>2 DEF FindPeers, Still, TypeOK, UpTypes, registryVars, connVars, peerVars, qualityVars
  <2>4. /\ up'[u].list = Incompatible \ {up[u].requester} /\ up'[u].target = up[u].target
        /\ up'[u].reconnect = (up[u].requester \in Incompatible)
        /\ up'[u].requester = up[u].requester
        /\ \A v \in Updaters \ {u} : up'[v] = up[v]
    BY <1>3 DEF FindPeers, TypeOK
  <2>5. up[u].target = None \/ (up[u].target \in Conns /\ WasPeer(up[u].target))
    BY DEF Targets, TypeOK
  <2>6. \A c \in Incompatible : c \in Conns /\ WasPeer(c)
    BY <2>2 DEF WasPeer
  <2>7. Targets'
    BY <1>3, <2>1, <2>4, <2>5, <2>6, TargetsOfOne DEF FindPeers, Still, connVars
  <2>8. QED
    BY <2>1, <2>3, <2>7
<1>4. ASSUME NEW c \in Conns, CheckGeneration(u, c) PROVE IInv'
  <2>1. Accounting' /\ \A p \in Conns : WasPeer(p)' <=> WasPeer(p)
    BY <1>4, QuietUpdate DEF CheckGeneration, Still
  <2>2. TypeOK'
    <3>1. up \in [Updaters -> UpTypes]
      BY DEF TypeOK, UpTypes
    <3>2. up' \in [Updaters -> UpTypes]
      <4> DEFINE L == up[u].list \ {c}
                 t == IF up[u].gen = qualityGen THEN c ELSE None
                 r == [up[u] EXCEPT !.list = L, !.target = t]
      <4>1. up' = [up EXCEPT ![u] = r]
        BY <1>4 DEF CheckGeneration
      <4>2. L \in SUBSET Conns /\ t \in Conns \cup {None} /\ up[u] \in UpTypes
        BY <3>1 DEF UpTypes
      <4> HIDE DEF L, t
      <4>3. r \in UpTypes
        BY <4>2 DEF UpTypes
      <4> HIDE DEF r
      <4>4. QED
        BY <4>1, <4>3, UpTyped
    <3>3. QED
      BY <1>4, <3>2 DEF CheckGeneration, Still, TypeOK, UpTypes, registryVars, connVars, peerVars, qualityVars
  <2>3. /\ up'[u].list = up[u].list \ {c} /\ up'[u].target \in {None, c}
        /\ up'[u].reconnect = up[u].reconnect /\ up'[u].requester = up[u].requester
        /\ \A v \in Updaters \ {u} : up'[v] = up[v]
    BY <1>4 DEF CheckGeneration, TypeOK
  <2>4. /\ up[u].list \in SUBSET Conns /\ up[u].requester \in Conns \cup {None}
        /\ c \in up[u].list
    BY <1>4 DEF CheckGeneration, TypeOK
  <2>5. Targets'
    BY <1>4, <2>1, <2>3, <2>4, TargetsOfOne DEF CheckGeneration, Still, Targets, connVars
  <2>6. QED
    BY <2>1, <2>2, <2>5
<1>5. CASE CloseIncompatible(u)
  <2>1. up[u].target \in Conns
    BY <1>5 DEF CloseIncompatible, TypeOK
  <2>2. /\ CloseWith({up[u].target}) /\ UNCHANGED registryVars
        /\ \A q \in {up[u].target} : WasPeer(q)
    BY <1>5, <2>1 DEF CloseIncompatible, Still, Targets
  <2>3. /\ closing' \in [Conns -> BOOLEAN] /\ fin' \in FinTypes /\ owned' = owned /\ codec' = codec
        /\ Accounting' /\ \A q \in Conns : WasPeer(q) => WasPeer(q)'
    BY <1>5, <2>1, <2>2, CloseKeeps DEF CloseIncompatible, Still, TypeOK, connVars
  <2>4. TypeOK'
    <3>1. up \in [Updaters -> UpTypes]
      BY DEF TypeOK, UpTypes
    <3>2. up' \in [Updaters -> UpTypes]
      BY <1>5, <3>1 DEF CloseIncompatible, UpTypes
    <3>3. QED
      BY <1>5, <2>3, <3>2 DEF CloseIncompatible, Still, TypeOK, UpTypes, registryVars, connVars, peerVars, qualityVars
  <2>5. /\ up'[u].list = up[u].list /\ up'[u].target = None
        /\ up'[u].reconnect = up[u].reconnect /\ up'[u].requester = up[u].requester
        /\ \A v \in Updaters \ {u} : up'[v] = up[v]
    BY <1>5 DEF CloseIncompatible, TypeOK
  <2>6. up[u].list \in SUBSET Conns /\ up[u].requester \in Conns \cup {None}
    BY DEF TypeOK
  <2>7. Targets'
    BY <1>5, <2>3, <2>5, <2>6, TargetsOfOne DEF CloseIncompatible, Still, Targets, connVars
  <2>8. QED
    BY <2>3, <2>4, <2>7
<1>6. CASE EndUpdate(u)
  <2> DEFINE S == IF up[u].reconnect THEN {up[u].requester} ELSE {}
  <2>1. S \in SUBSET Conns /\ \A q \in S : WasPeer(q)
    BY DEF Targets, TypeOK
  <2>2. CloseWith(S) /\ UNCHANGED registryVars /\ pc' = pc
    BY <1>6 DEF EndUpdate, Still, connVars
  <2> HIDE DEF S
  <2>3. /\ closing' \in [Conns -> BOOLEAN] /\ fin' \in FinTypes /\ owned' = owned /\ codec' = codec
        /\ Accounting' /\ \A q \in Conns : WasPeer(q) => WasPeer(q)'
    BY <2>1, <2>2, CloseKeeps DEF TypeOK
  <2>4. TypeOK'
    <3>1. NoUpdate \in UpTypes
      BY DEF NoUpdate, Update, UpTypes
    <3>2. up' \in [Updaters -> UpTypes]
      BY <1>6, <3>1, UpTyped DEF EndUpdate
    <3>3. QED
      BY <1>6, <2>3, <3>2 DEF EndUpdate, Still, TypeOK, UpTypes, registryVars, connVars, peerVars, qualityVars
  <2>5. /\ up'[u].list = {} /\ up'[u].target = None /\ ~up'[u].reconnect
        /\ \A v \in Updaters \ {u} : up'[v] = up[v]
    BY <1>6 DEF EndUpdate, NoUpdate, Update, TypeOK
  <2>6. Targets'
    BY <1>6, <2>3, <2>5, TargetsOfOne DEF EndUpdate, Still, connVars
  <2>7. QED
    BY <2>3, <2>4, <2>6
<1>7. QED
  BY <1>1, <1>2, <1>3, <1>4, <1>5, <1>6 DEF Updates

\* The invariant is inductive.
LEMMA StepIInv == IInv /\ [Next]_vars => IInv'
<1> SUFFICES ASSUME IInv, [Next]_vars PROVE IInv'
  OBVIOUS
<1>1. ASSUME NEW c \in Conns, Connect(c) \/ Handle(c) \/ ReplaceTimesOut(c) \/ HandlerOwns(c)
                             \/ OwnedEnds(c) \/ PeerCloses(c) \/ Finish(c)
      PROVE  IInv'
  BY <1>1, BeforeRegistration, AfterRegistration, FinishStep DEF Handle
<1>2. ASSUME NEW k \in Closers,
             CloseService(k) \/ CloseAgain(k) \/ Closes(k) \/ CloseTimesOut(k)
      PROVE  IInv'
  BY <1>2, CloseStep
<1>3. ASSUME NEW u \in Updaters,
             \/ \E r \in Conns \cup {None}, q \in Codecs : AskQuality(u, r, q)
             \/ Updates(u)
      PROVE  IInv'
  BY <1>3, QualityStep
<1>4. CASE UNCHANGED vars
  <2>1. Accounting' /\ \A p \in Conns : WasPeer(p)' <=> WasPeer(p)
    BY <1>4, QuietUpdate DEF vars
  <2>2. TypeOK'
    BY <1>4 DEF IInv, TypeOK, vars, registryVars, connVars, peerVars, qualityVars
  <2>3. Targets'
    BY <1>4, <2>1, TargetsKept DEF IInv, vars, registryVars, connVars, peerVars, qualityVars
  <2>4. QED
    BY <2>1, <2>2, <2>3 DEF IInv, Accounting
<1>5. QED
  BY <1>1, <1>2, <1>3, <1>4 DEF Next

\* The accounting of the registry holds in every reachable state: whatever fails
\* in newPeer and however closes race, reservations, the peers, the source's
\* activity and the end of Close agree.
THEOREM RegistryInvariant == Spec => []IInv
<1>1. Init => IInv
  BY InitIInv
<1>2. IInv /\ [Next]_vars => IInv'
  BY StepIInv
<1>3. QED
  BY <1>1, <1>2, PTL DEF Spec

\* Reservations are never lost, never returned twice, and never exceed MaxPeers.
THEOREM ReservationsExact == Spec => []ReservationsCounted
<1>1. IInv => ReservationsCounted
  BY DEF IInv
<1>2. QED
  BY <1>1, RegistryInvariant, PTL

\* The media source delivers frames exactly while the open service has a peer.
THEOREM ActiveExact == Spec => []ActiveMatchesPeers
<1>1. IInv => ActiveMatchesPeers
  BY DEF IInv
<1>2. QED
  BY <1>1, RegistryInvariant, PTL

\* Close is signalled exactly when the last reservation has been returned.
THEOREM CloseDoneIsExact == Spec => []CloseDoneExact
<1>1. IInv => CloseDoneExact
  BY DEF IInv
<1>2. QED
  BY <1>1, RegistryInvariant, PTL

\* No goroutine of a peer outlives the wait of finishClose.
THEOREM OwnedAllWaited == Spec => []NothingOwnedAfterWait
<1>1. IInv => NothingOwnedAfterWait
  BY DEF IInv
<1>2. QED
  BY <1>1, RegistryInvariant, PTL

-----------------------------------------------------------------------------
(* Codec changes, when the encoder never refuses a bitrate.                *)

CodecParts == ChangeLocked /\ AllFound /\ StalePeersClose

\* Steps that register nobody and belong to no update: closing is final, and
\* qualityChangeMu is at most given back by a connection.
LEMMA CodecKept ==
  ASSUME TypeOK, CodecParts, UNCHANGED <<current, qualityGen, up, codec>>,
         peers' \subseteq peers, \A c \in Conns : IsClosing(c) => IsClosing(c)',
         \A c \in Conns : pc'[c] = "register" => pc[c] = "register" /\ changeMu' = changeMu,
         changeMu' = changeMu \/ changeMu \in Conns
  PROVE  CodecParts'
<1> USE DEF CodecParts
<1>1. ChangeLocked'
  BY DEF ChangeLocked
<1>2. AllFound'
  BY DEF AllFound, TypeOK
<1>3. StalePeersClose'
  BY DEF StalePeersClose, WillClose, TypeOK
<1>4. QED
  BY <1>1, <1>2, <1>3

\* The codec is chosen and the peer registered under qualityChangeMu.
LEMMA CodecChosen ==
  ASSUME IInv, CodecParts, NEW c \in Conns, ReadProfile(c) \/ Register(c)
  PROVE  CodecParts'
<1> USE DEF IInv, CodecParts
<1>1. CASE ReadProfile(c)
  <2>1. c \notin peers
    BY <1>1 DEF ReadProfile, At, Phases
  <2>2. /\ \A u \in Updaters : up[u].pc \notin {"update", "apply", "mark"}
        /\ \A d \in Conns : pc[d] # "register"
    BY <1>1 DEF ReadProfile, ChangeLocked
  <2>3. ChangeLocked'
    BY <1>1, <2>2 DEF ReadProfile, At, ChangeLocked, TypeOK, qualityVars
  <2>4. AllFound'
    BY <1>1, <2>2 DEF ReadProfile, AllFound, qualityVars
  <2>5. StalePeersClose'
    BY <1>1, <2>1 DEF ReadProfile, StalePeersClose, WillClose, IsClosing, TypeOK, registryVars, connVars, peerVars, qualityVars
  <2>6. QED
    BY <2>3, <2>4, <2>5
<1>2. CASE Register(c)
  <2>1. /\ \A u \in Updaters : up[u].pc \notin {"update", "apply", "mark"}
        /\ \A d \in Conns \ {c} : pc[d] # "register"
        /\ codec[c] = current
    BY <1>2 DEF Register, At, ChangeLocked
  <2>2. ChangeLocked'
    BY <1>2, <2>1 DEF Register, At, ChangeLocked, TypeOK, qualityVars
  <2>3. AllFound'
    BY <1>2, <2>1 DEF Register, AllFound, qualityVars
  <2>4. StalePeersClose'
    BY <1>2, <2>1 DEF Register, StalePeersClose, WillClose, IsClosing, TypeOK, registryVars, connVars, peerVars, qualityVars
  <2>5. QED
    BY <2>2, <2>3, <2>4
<1>3. QED
  BY <1>1, <1>2

\* Every peer with a stale codec stays the target of some update.
LEMMA CodecUpdated ==
  ASSUME IInv, CodecParts, BitrateMayFail = FALSE, NEW u \in Updaters,
         \/ \E r \in Conns \cup {None}, q \in Codecs : AskQuality(u, r, q)
         \/ Updates(u)
  PROVE  CodecParts'
<1> USE DEF IInv, CodecParts
<1>1. ASSUME NEW r \in Conns \cup {None}, NEW q \in Codecs, AskQuality(u, r, q)
      PROVE  CodecParts'
  <2>1. /\ up'[u].pc = "update" /\ \A v \in Updaters \ {u} : up'[v] = up[v]
        /\ up[u].pc = "idle" /\ changeMu = None /\ changeMu' = u
    BY <1>1 DEF AskQuality, Update, TypeOK
  <2>2. UNCHANGED <<pc, codec, current, qualityGen, peers, closing, closed>>
    BY <1>1 DEF AskQuality, Still, registryVars, connVars, peerVars, qualityVars
  <2>3. ChangeLocked' /\ AllFound'
    BY <2>1, <2>2 DEF ChangeLocked, AllFound
  <2>4. StalePeersClose'
    BY <2>1, <2>2 DEF StalePeersClose, WillClose, IsClosing
  <2>5. QED
    BY <2>3, <2>4
<1>2. CASE UpdateFails(u)
  <2>1. /\ up'[u].pc = "idle" /\ \A v \in Updaters \ {u} : up'[v] = up[v]
        /\ up[u].pc = "update" /\ changeMu' = None
    BY <1>2 DEF UpdateFails, NoUpdate, Update, TypeOK
  <2>2. UNCHANGED <<pc, codec, current, qualityGen, peers, closing, closed>>
    BY <1>2 DEF UpdateFails, Still, registryVars, connVars, peerVars, qualityVars
  <2>3. ChangeLocked' /\ AllFound'
    BY <2>1, <2>2 DEF ChangeLocked, AllFound
  <2>4. StalePeersClose'
    BY <2>1, <2>2 DEF StalePeersClose, WillClose, IsClosing
  <2>5. QED
    BY <2>3, <2>4
<1>3. CASE UpdateSource(u)
  <2>1. up'[u].pc = "apply" /\ up[u].pc = "update" /\ \A v \in Updaters \ {u} : up'[v] = up[v]
    BY <1>3 DEF UpdateSource, TypeOK
  <2>2. UNCHANGED <<pc, codec, changeMu>>
    BY <1>3 DEF UpdateSource, Still, registryVars, connVars, peerVars, qualityVars
  <2>3. changeMu = u
    BY <2>1 DEF ChangeLocked
  <2>4. ChangeLocked' /\ AllFound'
    BY <2>1, <2>2, <2>3 DEF ChangeLocked, AllFound
  <2>5. StalePeersClose'
    BY <2>1 DEF StalePeersClose, WillClose
  <2>6. QED
    BY <2>4, <2>5
<1>4. CASE FindPeers(u)
  <2>1. /\ up'[u].pc = "mark" /\ up[u].pc = "apply"
        /\ up'[u].list = Incompatible \ {up[u].requester}
        /\ up'[u].reconnect = (up[u].requester \in Incompatible)
        /\ up'[u].requester = up[u].requester
        /\ \A v \in Updaters \ {u} : up'[v] = up[v]
    BY <1>4 DEF FindPeers, TypeOK
  <2>2. UNCHANGED <<pc, codec, current, qualityGen, peers, closing, closed, changeMu>>
    BY <1>4 DEF FindPeers, Still, registryVars, connVars, peerVars, qualityVars
  <2>3. \A c \in peers : \/ IsClosing(c) \/ codec[c] = current \/ c \in up'[u].list
                         \/ up'[u].reconnect /\ up'[u].requester = c
    BY <2>1 DEF Incompatible
  <2>4. ChangeLocked' /\ AllFound'
    BY <2>1, <2>2, <2>3 DEF ChangeLocked, AllFound, IsClosing
  <2>5. StalePeersClose'
    BY <2>1, <2>2, <2>3 DEF StalePeersClose, WillClose, IsClosing
  <2>6. QED
    BY <2>4, <2>5
<1>5. CASE Mark(u)
  <2>1. /\ up'[u].pc = "closing" /\ up[u].pc = "mark" /\ up'[u].gen = qualityGen'
        /\ up'[u].list = up[u].list /\ up'[u].reconnect = up[u].reconnect
        /\ up'[u].requester = up[u].requester /\ changeMu' = None
        /\ \A v \in Updaters \ {u} : up'[v] = up[v]
    BY <1>5 DEF Mark, TypeOK
  <2>2. UNCHANGED <<pc, codec, current, peers, closing, closed>>
    BY <1>5 DEF Mark, Still, registryVars, connVars, peerVars, qualityVars
  <2>3. changeMu = u
    BY <2>1 DEF ChangeLocked
  <2>4. ChangeLocked' /\ AllFound'
    BY <2>1, <2>2, <2>3 DEF ChangeLocked, AllFound
  <2>5. \A c \in peers : \/ IsClosing(c) \/ codec[c] = current \/ c \in up[u].list
                         \/ up[u].reconnect /\ up[u].requester = c
    BY <2>1 DEF AllFound
  <2>6. StalePeersClose'
    BY <2>1, <2>2, <2>5 DEF StalePeersClose, WillClose, IsClosing
  <2>7. QED
    BY <2>4, <2>6
<1>6. ASSUME NEW c \in Conns, CheckGeneration(u, c) PROVE CodecParts'
  <2>1. /\ up'[u].pc = "closing" /\ up[u].pc = "closing" /\ up[u].target = None
        /\ up'[u].list = up[u].list \ {c} /\ up'[u].gen = up[u].gen
        /\ up[u].gen = qualityGen => up'[u].target = c
        /\ up'[u].reconnect = up[u].reconnect /\ up'[u].requester = up[u].requester
        /\ \A v \in Updaters \ {u} : up'[v] = up[v]
    BY <1>6 DEF CheckGeneration, TypeOK
  <2>2. UNCHANGED <<pc, codec, current, qualityGen, peers, closing, closed, changeMu>>
    BY <1>6 DEF CheckGeneration, Still, registryVars, connVars, peerVars, qualityVars
  <2>3. ChangeLocked' /\ AllFound'
    BY <2>1, <2>2 DEF ChangeLocked, AllFound, IsClosing
  <2>4. \A d \in peers : WillClose(u, d) => WillClose(u, d)'
    <3>1. None \notin peers
      BY DEF TypeOK
    <3>2. QED
      BY <2>1, <2>2, <3>1 DEF WillClose
  <2>5. StalePeersClose'
    BY <2>1, <2>2, <2>4 DEF StalePeersClose, WillClose, IsClosing
  <2>6. QED
    BY <2>3, <2>5
<1>7. CASE CloseIncompatible(u)
  <2>1. /\ up'[u].pc = "closing" /\ up[u].pc = "closing" /\ up[u].target \in Conns
        /\ up'[u].list = up[u].list /\ up'[u].gen = up[u].gen
        /\ up'[u].reconnect = up[u].reconnect /\ up'[u].requester = up[u].requester
        /\ \A v \in Updaters \ {u} : up'[v] = up[v]
    BY <1>7 DEF CloseIncompatible, TypeOK
  <2>2. UNCHANGED <<pc, codec, current, qualityGen, peers, closed, changeMu>>
    BY <1>7 DEF CloseIncompatible, CloseWith, Still, registryVars, connVars, peerVars, qualityVars
  <2>3. /\ \A d \in Conns : IsClosing(d) => IsClosing(d)'
        /\ \A d \in Conns : up[u].target = d => IsClosing(d)'
    BY <1>7, <2>1, <2>2 DEF CloseIncompatible, CloseWith, IsClosing, TypeOK
  <2>4. ChangeLocked' /\ AllFound'
    BY <2>1, <2>2, <2>3 DEF ChangeLocked, AllFound, TypeOK
  <2>5. \A d \in peers : WillClose(u, d) => WillClose(u, d)' \/ IsClosing(d)'
    BY <2>1, <2>2, <2>3 DEF WillClose, TypeOK
  <2>6. StalePeersClose'
    BY <2>1, <2>2, <2>3, <2>5 DEF StalePeersClose, WillClose, TypeOK
  <2>7. QED
    BY <2>4, <2>6
<1>8. CASE EndUpdate(u)
  <2>1. /\ up'[u].pc = "idle" /\ up[u].pc = "closing"
        /\ up[u].target = None /\ up[u].list = {}
        /\ \A v \in Updaters \ {u} : up'[v] = up[v]
    BY <1>8 DEF EndUpdate, NoUpdate, Update, TypeOK
  <2>2. UNCHANGED <<pc, codec, current, qualityGen, peers, closed, changeMu>>
    BY <1>8 DEF EndUpdate, CloseWith, Still, registryVars, connVars, peerVars, qualityVars
  <2>3. /\ \A d \in Conns : IsClosing(d) => IsClosing(d)'
        /\ \A d \in Conns : up[u].reconnect /\ up[u].requester = d => IsClosing(d)'
    BY <1>8, <2>2 DEF EndUpdate, CloseWith, IsClosing, TypeOK
  <2>4. ChangeLocked' /\ AllFound'
    BY <2>1, <2>2, <2>3 DEF ChangeLocked, AllFound, TypeOK
  <2>5. peers \subseteq Conns /\ None \notin peers
    BY DEF TypeOK
  <2>6. \A d \in peers : WillClose(u, d) => IsClosing(d)'
    BY <2>1, <2>3, <2>5 DEF WillClose
  <2>7. StalePeersClose'
    BY <2>1, <2>2, <2>3, <2>5, <2>6 DEF StalePeersClose, WillClose
  <2>8. QED
    BY <2>4, <2>7
<1>9. QED
  BY <1>1, <1>2, <1>3, <1>4, <1>5, <1>6, <1>7, <1>8 DEF Updates, BitrateFails

\* All other steps.
LEMMA CodecOthers ==
  ASSUME IInv, CodecParts, [Next]_vars,
         \A c \in Conns : ~ReadProfile(c) /\ ~Register(c),
         \A u \in Updaters : /\ ~Updates(u)
                             /\ \A r \in Conns \cup {None}, q \in Codecs : ~AskQuality(u, r, q)
  PROVE  CodecParts'
<1> USE DEF IInv, registryVars, connVars, peerVars, qualityVars
<1>1. ASSUME NEW c \in Conns,
             \/ Connect(c) \/ Admit(c) \/ ReplaceWaited(c) \/ ReplaceTimesOut(c)
             \/ Reserve(c) \/ Refuse(c) \/ Unreserve(c) \/ Setup(c) \/ Run(c)
             \/ HandlerOwns(c) \/ OwnedEnds(c)
      PROVE  CodecParts'
  <2>1. /\ UNCHANGED <<current, qualityGen, up, codec, peers, closing, closed, changeMu>>
        /\ \A d \in Conns : pc'[d] = "register" => pc[d] = "register"
    BY <1>1 DEF Connect, Admit, ReplaceWaited, ReplaceTimesOut, Reserve, Refuse, Unreserve,
                Setup, Run, HandlerOwns, OwnedEnds, At, GoOwned, ReleaseReservation, TypeOK
  <2>2. QED
    BY <2>1, CodecKept DEF IsClosing
<1>2. ASSUME NEW c \in Conns, RegisterFails(c) PROVE CodecParts'
  <2>1. /\ UNCHANGED <<current, qualityGen, up, codec, peers, closing, closed>>
        /\ pc[c] = "register" /\ pc' = [pc EXCEPT ![c] = "unreserve"]
    BY <1>2 DEF RegisterFails, At
  <2>2. changeMu = c /\ \A d \in Conns : pc'[d] # "register"
    BY <2>1 DEF CodecParts, ChangeLocked, TypeOK
  <2>3. QED
    BY <2>1, <2>2, CodecKept DEF IsClosing
<1>3. ASSUME NEW c \in Conns, NEW S \in SUBSET Conns, CloseWith(S),
             UNCHANGED <<registryVars, changeMu, qualityVars>>,
             UNCHANGED pc \/ At(c, "setup", "over")
      PROVE  CodecParts'
  <2>1. \A d \in Conns : IsClosing(d) => IsClosing(d)'
    BY <1>3 DEF CloseWith, IsClosing, TypeOK
  <2>2. \A d \in Conns : pc'[d] = "register" => pc[d] = "register"
    BY <1>3 DEF At, TypeOK
  <2>3. UNCHANGED <<current, qualityGen, up, codec, peers, changeMu>>
    BY <1>3 DEF CloseWith
  <2>4. QED
    BY <2>1, <2>2, <2>3, CodecKept
<1>4. ASSUME NEW c \in Conns,
             SetupFails(c) \/ PeerCloses(c) \/ \E p \in Conns : ReplaceCloses(c, p)
      PROVE  CodecParts'
  BY <1>3, <1>4 DEF SetupFails, PeerCloses, ReplaceCloses
<1>5. ASSUME NEW c \in Conns, Finish(c) PROVE CodecParts'
  <2>1. /\ UNCHANGED <<current, qualityGen, up, codec, closing, closed, changeMu, pc>>
        /\ peers' \subseteq peers
    BY <1>5 DEF Finish, RemovePeer, RestoreBitrate, FinishRelease, FinishDone, Finishes,
                ReleaseReservation
  <2>2. QED
    BY <2>1, CodecKept DEF IsClosing
<1>6. ASSUME NEW k \in Closers,
             CloseService(k) \/ CloseAgain(k) \/ CloseReturns(k) \/ CloseTimesOut(k)
      PROVE  CodecParts'
  <2>1. /\ UNCHANGED <<current, qualityGen, up, codec, closing, changeMu, pc, peers>>
        /\ closed => closed'
    BY <1>6 DEF CloseService, CloseAgain, CloseReturns, CloseTimesOut
  <2>2. QED
    BY <2>1, CodecKept DEF IsClosing
<1>7. ASSUME NEW k \in Closers, NEW p \in Conns, ClosePeer(k, p) PROVE CodecParts'
  BY <1>3, <1>7 DEF ClosePeer
<1>8. CASE UNCHANGED vars
  BY <1>8, CodecKept DEF vars, IsClosing
<1>9. QED
  BY <1>1, <1>2, <1>4, <1>5, <1>6, <1>7, <1>8 DEF Next, Handle, Closes

\* A peer that cannot decode what the encoder produces is about to be closed by
\* some update, for any peers, codecs and concurrent updates, provided that the
\* encoder accepts the bitrate it is given after it has been replaced.
THEOREM StaleCodecsClose ==
  ASSUME BitrateMayFail = FALSE
  PROVE  Spec => []StalePeersClose
<1>1. Init => CodecParts
  BY DEF Init, CodecParts, ChangeLocked, AllFound, StalePeersClose, NoUpdate, Update
<1>2. IInv /\ CodecParts /\ [Next]_vars => CodecParts'
  BY CodecChosen, CodecUpdated, CodecOthers
<1>3. CodecParts => StalePeersClose
  BY DEF CodecParts
<1>4. QED
  BY <1>1, <1>2, <1>3, RegistryInvariant, PTL DEF Spec
=============================================================================
