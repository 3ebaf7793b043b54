----------------------- MODULE InputControllerProofs -----------------------
(***************************************************************************)
(* The invariants of InputController hold for every set of owners and      *)
(* codes, every queue size and every bound.                                *)
(***************************************************************************)
EXTENDS InputController, FiniteSetTheorems, WellFoundedInduction,
        NaturalsInduction, TLAPS

\* A nonempty set of natural numbers has a least element.
LEMMA NatMin ==
  ASSUME NEW T \in SUBSET Nat, T # {}
  PROVE  \E m \in T : \A y \in T : m <= y
<1> DEFINE R == {ss \in Nat \X Nat : ss[1] < ss[2]}
<1>1. IsWellFoundedOn(R, Nat)
  BY NatLessThanWellFounded DEF OpToRel
<1>2. \A x, y \in Nat : x < y => <<x, y>> \in R
  OBVIOUS
<1> HIDE DEF R
<1>3. PICK m \in T : \A y \in T : ~ (<<y, m>> \in R)
  BY <1>1, WFMin
<1>4. m \in Nat /\ \A y \in T : y \in Nat
  OBVIOUS
<1>5. \A y \in T : ~ (y < m)
  BY <1>2, <1>3, <1>4
<1>6. \A y \in T : m <= y
  BY <1>4, <1>5
<1> QED
  BY <1>6

\* FirstOf picks the entry with the smallest ticket: it is c.queue[0].
LEMMA FirstIsMin ==
  ASSUME NEW q, q \subseteq Entries, q # {}
  PROVE  /\ FirstOf(q) \in q
         /\ \A d \in q : FirstOf(q).ticket <= d.ticket
<1> DEFINE T == {e.ticket : e \in q}
<1>1. T \in SUBSET Nat /\ T # {}
  BY DEF Entries
<1>2. PICK m \in T : \A y \in T : m <= y
  BY <1>1, NatMin
<1>3. \E e \in q : \A d \in q : e.ticket <= d.ticket
  BY <1>2
<1> QED
  BY <1>3 DEF FirstOf

\* LastOf picks the entry with the largest ticket of a bounded queue.
LEMMA LastIsMax ==
  ASSUME NEW q, q \subseteq Entries, q # {},
         NEW n \in Nat, \A e \in q : e.ticket <= n
  PROVE  /\ LastOf(q) \in q
         /\ \A d \in q : d.ticket <= LastOf(q).ticket
<1> DEFINE T == {n - e.ticket : e \in q}
<1>1. T \in SUBSET Nat /\ T # {}
  BY DEF Entries
<1>2. PICK m \in T : \A y \in T : m <= y
  BY <1>1, NatMin
<1>3. \E e \in q : \A d \in q : d.ticket <= e.ticket
  <2>1. PICK e \in q : n - e.ticket = m
    BY <1>2
  <2>2. \A d \in q : n - e.ticket <= n - d.ticket
    BY <1>2, <2>1
  <2> QED
    BY <2>2 DEF Entries
<1> QED
  BY <1>3 DEF LastOf

-----------------------------------------------------------------------------
(* Facts about cardinalities.                                              *)

\* The owners that hold c form a finite set.
LEMMA HoldersFinite ==
  ASSUME NEW c
  PROVE  IsFiniteSet({o \in Owners : c \in held[o]})
<1>1. {o \in Owners : c \in held[o]} \in SUBSET Owners
  OBVIOUS
<1> QED
  BY <1>1, FS_Subset, ConstantsAssumption

\* The entries of one owner form a finite set when the queue is finite.
LEMMA EntriesFinite ==
  ASSUME NEW o, IsFiniteSet(queue)
  PROVE  IsFiniteSet(EntriesOf(o)) /\ Cardinality(EntriesOf(o)) \in Nat
<1>1. EntriesOf(o) \in SUBSET queue
  BY DEF EntriesOf
<1> QED
  BY <1>1, FS_Subset, FS_CardinalityType

-----------------------------------------------------------------------------
(* Ending the leases of a set S of owners.                                 *)

\* The parts of IInv that only concern leases, held codes and the queue.
LeaseParts ==
  /\ QueueOwned /\ QueuedCounted /\ CountsMatchLeases /\ NoStuckCode
  /\ \A o \in Owners : held[o] # {} => o \in Live

\* The types of what EndLeases changes.
EndedTypes ==
  /\ lease' \in [Owners -> Nat] /\ queued' \in [Owners -> Nat] /\ revoke' \in [Owners -> Nat]
  /\ owed' \in [Owners -> Int] /\ held' \in [Owners -> SUBSET Codes]
  /\ counts' \in [Codes -> Nat]
  /\ queue' \subseteq queue /\ down' \subseteq down /\ notices' \subseteq Notices

\* Ending leases keeps the types; no count of held codes passes below zero.
LEMMA EndLeasesTypes ==
  ASSUME IInv, NEW S \in SUBSET Live, NEW N \in SUBSET Notices, EndLeases(S, N)
  PROVE  EndedTypes /\ Live' = Live \ S
<1> USE DEF EndLeases, IInv, TypeOK
<1>1. counts' \in [Codes -> Nat]
  <2> SUFFICES ASSUME NEW c \in Codes
               PROVE  counts[c] - Cardinality({o \in S : c \in held[o]}) \in Nat
    BY DEF CountsWithout
  <2> DEFINE H == {o \in Owners : c \in held[o]}
             D == {o \in S : c \in held[o]}
  <2>1. D \in SUBSET H
    BY DEF Live
  <2>2. Cardinality(D) <= Cardinality(H) /\ IsFiniteSet(D)
    <3> HIDE DEF D, H, EndLeases, IInv, TypeOK
    <3>1. IsFiniteSet(H)
      BY HoldersFinite DEF H
    <3> QED
      BY <2>1, <3>1, FS_Subset
  <2>3. Cardinality(D) \in Nat /\ Cardinality(H) \in Nat
    BY <2>2, HoldersFinite, FS_CardinalityType
  <2>4. counts[c] = Cardinality(H)
    BY DEF CountsMatchLeases
  <2> QED
    BY <2>2, <2>3, <2>4
<1>2. /\ lease' \in [Owners -> Nat] /\ queued' \in [Owners -> Nat]
      /\ revoke' \in [Owners -> Nat]
  OBVIOUS
<1>3. owed' \in [Owners -> Int] /\ held' \in [Owners -> SUBSET Codes]
  OBVIOUS
<1>4. queue' \subseteq queue /\ down' \subseteq down /\ notices' \subseteq Notices
  BY DEF QueueWithout
<1>5. Live' = Live \ S
  BY DEF Live
<1> QED
  BY <1>1, <1>2, <1>3, <1>4, <1>5 DEF EndedTypes

\* Ending the leases of S keeps the counts, the queue and the held codes right.
LEMMA EndLeasesParts ==
  ASSUME IInv, NEW S \in SUBSET Live, NEW N \in SUBSET Notices, EndLeases(S, N)
  PROVE  LeaseParts'
<1> USE DEF EndLeases, IInv, TypeOK
<1>0. Live' = Live \ S
  BY EndLeasesTypes
<1>1. QueueOwned'
  BY DEF QueueOwned, QueueWithout, Current, Entries
<1>2. QueuedCounted'
  <2> SUFFICES ASSUME NEW o \in Owners
               PROVE  queued'[o] = Cardinality(EntriesOf(o)') /\ queued'[o] <= QueueSize
    BY DEF QueuedCounted
  <2>1. CASE o \in S
    <3>1. EntriesOf(o)' = {}
      BY <2>1 DEF EntriesOf, QueueWithout
    <3>2. queued'[o] = 0
      BY <2>1
    <3> QED
      BY <3>1, <3>2, FS_EmptySet, ConstantsAssumption
  <2>2. CASE o \notin S
    <3>1. EntriesOf(o)' = EntriesOf(o)
      BY <2>2 DEF EntriesOf, QueueWithout
    <3>2. queued'[o] = queued[o]
      BY <2>2
    <3> QED
      BY <3>1, <3>2 DEF QueuedCounted
  <2> QED
    BY <2>1, <2>2
<1>3. CountsMatchLeases'
  <2> SUFFICES ASSUME NEW c \in Codes
               PROVE  counts'[c] = Cardinality({o \in Owners : c \in held'[o]})
    BY DEF CountsMatchLeases
  <2> DEFINE H == {o \in Owners : c \in held[o]}
             D == {o \in S : c \in held[o]}
  <2>1. {o \in Owners : c \in held'[o]} = H \ D
    BY DEF Live
  <2>2. H \cap D = D
    BY DEF Live
  <2>3. Cardinality(H \ D) = Cardinality(H) - Cardinality(D)
    <3>1. IsFiniteSet(H)
      BY HoldersFinite
    <3> HIDE DEF H, D
    <3>2. Cardinality(H \ D) = Cardinality(H) - Cardinality(H \cap D)
      BY <3>1, FS_Difference
    <3> QED
      BY <2>2, <3>2
  <2>4. counts'[c] = counts[c] - Cardinality(D)
    BY DEF CountsWithout
  <2>5. counts[c] = Cardinality(H)
    BY DEF CountsMatchLeases
  <2> QED
    BY <2>1, <2>3, <2>4, <2>5
<1>4. NoStuckCode'
  <2> SUFFICES ASSUME NEW c \in down'
               PROVE  \E o \in Live' : c \in held'[o]
    BY DEF NoStuckCode
  <2> DEFINE H == {o \in Owners : c \in held[o]}
             D == {o \in S : c \in held[o]}
  <2>1. c \in down /\ c \notin ReleasedWith(S) /\ c \in Codes
    OBVIOUS
  <2>2. PICK p \in Live : c \in held[p]
    BY <2>1 DEF NoStuckCode
  <2>3. CapabilityOf(c) \in devices
    BY <2>1 DEF HoldersLive
  <2>4. \E o \in H : o \notin S
    <3> SUFFICES ASSUME H = D
                 PROVE  FALSE
      BY DEF Live
    <3>1. CountsWithout(S)[c] = counts[c] - Cardinality(H)
      BY <2>1 DEF CountsWithout
    <3>2. counts[c] = Cardinality(H) /\ Cardinality(H) \in Nat
      BY <2>1, HoldersFinite, FS_CardinalityType DEF CountsMatchLeases
    <3>3. CountsWithout(S)[c] = 0
      BY <3>1, <3>2
    <3>4. p \in S
      BY <2>2 DEF Live
    <3> QED
      BY <2>1, <2>2, <2>3, <3>3, <3>4 DEF ReleasedWith
  <2>5. PICK o \in H : o \notin S
    BY <2>4
  <2>6. o \in Live /\ held'[o] = held[o]
    BY <2>5 DEF HoldersLive
  <2> QED
    BY <1>0, <2>5, <2>6
<1>5. \A o \in Owners : held'[o] # {} => o \in Live'
  BY <1>0 DEF HoldersLive
<1> QED
  BY <1>1, <1>2, <1>3, <1>4, <1>5 DEF LeaseParts

\* Ending leases keeps IInv when the rest of the step only shrinks inHand.
LEMMA EndLeasesInv ==
  ASSUME IInv, NEW S \in SUBSET Live, NEW N \in SUBSET Notices, EndLeases(S, N),
         UNCHANGED <<generation, accepted, phase, devices>>, inHand' \subseteq inHand,
         TypeOK', OneInHand', CloseOrder', NoLostWakeup'
  PROVE  IInv'
<1>1. LeaseParts'
  BY EndLeasesParts
<1>2. Live' = Live \ S /\ queue' \subseteq queue /\ down' \subseteq down
  BY EndLeasesTypes DEF EndedTypes
<1>3. LockExclusive'
  BY <1>2 DEF IInv, LockExclusive
<1>4. QueueOrdered'
  BY <1>2 DEF IInv, QueueOrdered
<1>5. Numbered'
  <2>1. \A o \in Owners : lease'[o] <= generation'
    BY DEF EndLeases, IInv, TypeOK, Numbered
  <2> QED
    BY <1>2, <2>1 DEF IInv, Numbered
<1>6. HoldersLive'
  BY <1>1, <1>2 DEF IInv, HoldersLive, LeaseParts
<1>7. IsFiniteSet(queue')
  BY <1>2, FS_Subset DEF IInv
<1> QED
  BY <1>1, <1>3, <1>4, <1>5, <1>6, <1>7 DEF IInv, LeaseParts

\* The callbacks of a set of owners are well-formed.
LEMMA NoticesTyped ==
  ASSUME TypeOK, NEW S \in SUBSET Owners, NEW who \in {"submit", "worker", "watcher"}
  PROVE  NoticesFor(S, who) \in SUBSET Notices
BY DEF TypeOK, NoticesFor, Notices

-----------------------------------------------------------------------------
(* Steps that leave leases, the queue and the sender's devices alone.      *)

coreVars ==
  <<closed, generation, lease, queued, held, counts, queue, wake, worker, inHand,
    closer, accepted, phase, devices, senderStop, down>>

\* IInv is about coreVars and the types of the other variables.
LEMMA CoreFrame ==
  ASSUME IInv, TypeOK', UNCHANGED coreVars
  PROVE  IInv'
<1> USE DEF coreVars
<1>1. Live' = Live
  BY DEF Live
<1>2. LockExclusive' /\ QueueOwned' /\ QueueOrdered'
  BY <1>1 DEF IInv, LockExclusive, QueueOwned, QueueOrdered, Current
<1>3. QueuedCounted' /\ CountsMatchLeases'
  BY DEF IInv, QueuedCounted, CountsMatchLeases, EntriesOf
<1>4. NoStuckCode' /\ NoLostWakeup' /\ HoldersLive' /\ CloseOrder'
  BY <1>1 DEF IInv, NoStuckCode, NoLostWakeup, HoldersLive, CloseOrder
<1>5. Numbered' /\ OneInHand' /\ IsFiniteSet(queue')
  BY DEF IInv, Numbered, OneInHand
<1> QED
  BY <1>2, <1>3, <1>4, <1>5 DEF IInv

\* An owner that acquires again only replaces its callback.
LEMMA AcquireAgainInv ==
  ASSUME IInv, NEW o \in Owners, AcquireAgain(o)
  PROVE  IInv'
<1>1. TypeOK'
  BY DEF AcquireAgain, IInv, TypeOK, senderVars, watchVars
<1>2. UNCHANGED coreVars
  BY DEF AcquireAgain, coreVars, senderVars
<1> QED
  BY <1>1, <1>2, CoreFrame

\* SetUnavailable only records the authorization.
LEMMA SetUnavailableInv ==
  ASSUME IInv, NEW auth \in {{}, Classes}, SetUnavailable(auth)
  PROVE  IInv'
<1>1. TypeOK'
  BY DEF SetUnavailable, IInv, TypeOK, senderVars, watchVars
<1>2. UNCHANGED coreVars
  BY DEF SetUnavailable, coreVars, senderVars
<1> QED
  BY <1>1, <1>2, CoreFrame

\* Running a revocation callback touches nothing of the controller.
LEMMA CallRevocationInv ==
  ASSUME IInv, NEW n \in notices, CallRevocation(n)
  PROVE  IInv'
<1>1. TypeOK'
  BY DEF CallRevocation, IInv, TypeOK, senderVars, watchVars
<1>2. UNCHANGED coreVars
  BY DEF CallRevocation, coreVars, senderVars
<1> QED
  BY <1>1, <1>2, CoreFrame

\* The steps of watchSender that only read the sender's status.
LEMMA WatchReadsInv ==
  ASSUME IInv, WatchStart \/ WatchDone \/ WatchChange \/ WatchStop
  PROVE  IInv'
<1>1. TypeOK'
  <2>1. CASE WatchStart
    BY <2>1 DEF WatchStart, IInv, TypeOK, senderVars, controllerVars, Phantom
  <2>2. CASE WatchDone
    BY <2>2 DEF WatchDone, IInv, TypeOK, senderVars, controllerVars
  <2>3. CASE WatchChange
    BY <2>3 DEF WatchChange, IInv, TypeOK, controllerVars
  <2>4. CASE WatchStop
    BY <2>4 DEF WatchStop, IInv, TypeOK, senderVars, controllerVars
  <2> QED
    BY <2>1, <2>2, <2>3, <2>4
<1>2. UNCHANGED coreVars
  BY DEF WatchStart, WatchDone, WatchChange, WatchStop, coreVars, senderVars, controllerVars
<1> QED
  BY <1>1, <1>2, CoreFrame

-----------------------------------------------------------------------------
(* Partial frames.                                                         *)

\* What IInv says of the queue.
QueueParts == QueueOwned /\ QueuedCounted /\ QueueOrdered /\ Numbered /\ IsFiniteSet(queue)

\* A step that leaves leases and the queue alone keeps QueueParts.
LEMMA QueueFrame ==
  ASSUME IInv, UNCHANGED <<lease, queued, queue, inHand, generation, accepted>>
  PROVE  QueueParts'
<1>1. QueueOwned' /\ QueueOrdered' /\ Numbered' /\ IsFiniteSet(queue')
  BY DEF IInv, QueueOwned, QueueOrdered, Numbered, Current
<1>2. QueuedCounted'
  BY DEF IInv, QueuedCounted, EntriesOf
<1> QED
  BY <1>1, <1>2 DEF QueueParts

\* What IInv says of leases and their held codes.
HoldParts ==
  /\ LockExclusive /\ CountsMatchLeases
  /\ \A o \in Owners : held[o] # {} => o \in Live

\* A step that leaves leases and held codes alone keeps HoldParts.
LEMMA HoldFrame ==
  ASSUME IInv, UNCHANGED <<lease, held, counts>>
  PROVE  HoldParts' /\ Live' = Live
<1>1. Live' = Live
  BY DEF Live
<1>2. CountsMatchLeases'
  BY DEF IInv, CountsMatchLeases
<1> QED
  BY <1>1, <1>2 DEF IInv, HoldParts, LockExclusive, HoldersLive

-----------------------------------------------------------------------------
(* Steps that end leases.                                                  *)

\* An overload ends the submitting owner's lease.
LEMMA SubmitOverloadInv ==
  ASSUME IInv, NEW o \in Owners, NEW ev \in Events, SubmitOverload(o, ev)
  PROVE  IInv'
<1> DEFINE N == NoticesFor({o}, "submit")
<1>1. {o} \in SUBSET Live /\ EndLeases({o}, N)
  BY DEF SubmitOverload, MaySubmit
<1>2. N \in SUBSET Notices
  BY NoticesTyped DEF IInv
<1> HIDE DEF N
<1>3. TypeOK'
  <2>1. EndedTypes
    BY <1>1, <1>2, EndLeasesTypes
  <2> QED
    BY <2>1 DEF EndedTypes, SubmitOverload, IInv, TypeOK, watchVars
<1>4. Live' = Live \ {o} /\ queue' \subseteq queue
  BY <1>1, <1>2, EndLeasesTypes DEF EndedTypes
<1>5. OneInHand' /\ CloseOrder' /\ NoLostWakeup'
  BY <1>4 DEF SubmitOverload, IInv, OneInHand, CloseOrder, NoLostWakeup
<1> QED
  BY <1>1, <1>2, <1>3, <1>5, EndLeasesInv DEF SubmitOverload

\* Release ends one lease.
LEMMA ReleaseInv ==
  ASSUME IInv, NEW o \in Owners, Release(o)
  PROVE  IInv'
<1>1. {o} \in SUBSET Live /\ EndLeases({o}, {}) /\ {} \in SUBSET Notices
  BY DEF Release
<1>2. TypeOK'
  <2>1. EndedTypes
    BY <1>1, EndLeasesTypes
  <2> QED
    BY <2>1 DEF EndedTypes, Release, IInv, TypeOK, watchVars
<1>3. Live' = Live \ {o} /\ queue' \subseteq queue
  BY <1>1, EndLeasesTypes DEF EndedTypes
<1>4. OneInHand' /\ CloseOrder' /\ NoLostWakeup'
  BY <1>3 DEF Release, IInv, OneInHand, CloseOrder, NoLostWakeup
<1> QED
  BY <1>1, <1>2, <1>4, EndLeasesInv DEF Release

\* An error of the sender ends every lease and drops the event in hand.
LEMMA HandleErrorInv ==
  ASSUME IInv, NEW e \in inHand, HandleError(e)
  PROVE  IInv'
<1> DEFINE N == ErrorNotices(e)
<1>1. Live \in SUBSET Live /\ EndLeases(Live, N)
  BY DEF HandleError
<1>2. N \in SUBSET Notices
  BY NoticesTyped DEF IInv, Live, ErrorNotices
<1> HIDE DEF N
<1>3. TypeOK'
  <2>1. EndedTypes
    BY <1>1, <1>2, EndLeasesTypes
  <2> QED
    BY <2>1 DEF EndedTypes, HandleError, IInv, TypeOK, watchVars
<1>4. Live' = Live \ Live /\ queue' \subseteq queue
  BY <1>1, <1>2, EndLeasesTypes DEF EndedTypes
<1>5. OneInHand' /\ CloseOrder' /\ NoLostWakeup'
  BY <1>4 DEF HandleError, IInv, OneInHand, CloseOrder, NoLostWakeup
<1> QED
  BY <1>1, <1>2, <1>3, <1>5, EndLeasesInv DEF HandleError

\* A revocation by watchSender ends every lease.
LEMMA WatchRevokeInv ==
  ASSUME IInv, WatchRevoke
  PROVE  IInv'
<1> DEFINE N == NoticesFor(Live, "watcher")
<1>1. Live \in SUBSET Live /\ EndLeases(Live, N)
  BY DEF WatchRevoke
<1>2. N \in SUBSET Notices
  BY NoticesTyped DEF IInv, Live
<1> HIDE DEF N
<1>3. TypeOK'
  <2>1. EndedTypes
    BY <1>1, <1>2, EndLeasesTypes
  <2> QED
    BY <2>1 DEF EndedTypes, WatchRevoke, IInv, TypeOK
<1>4. Live' = Live \ Live /\ queue' \subseteq queue
  BY <1>1, <1>2, EndLeasesTypes DEF EndedTypes
<1>5. OneInHand' /\ CloseOrder' /\ NoLostWakeup'
  BY <1>4 DEF WatchRevoke, IInv, OneInHand, CloseOrder, NoLostWakeup
<1> QED
  BY <1>1, <1>2, <1>3, <1>5, EndLeasesInv DEF WatchRevoke

\* Close ends every lease in the step that sets closed.
LEMMA CloseInv ==
  ASSUME IInv, Close
  PROVE  IInv'
<1>1. Live \in SUBSET Live /\ EndLeases(Live, {}) /\ {} \in SUBSET Notices
  BY DEF Close
<1>2. TypeOK'
  <2>1. EndedTypes
    BY <1>1, EndLeasesTypes
  <2> QED
    BY <2>1 DEF EndedTypes, Close, IInv, TypeOK, watchVars
<1>3. Live' = Live \ Live /\ queue' \subseteq queue
  BY <1>1, EndLeasesTypes DEF EndedTypes
<1>4. OneInHand' /\ CloseOrder' /\ NoLostWakeup'
  BY <1>3 DEF Close, IInv, OneInHand, CloseOrder, NoLostWakeup
<1> QED
  BY <1>1, <1>2, <1>4, EndLeasesInv DEF Close

-----------------------------------------------------------------------------
(* Granting a lease.                                                       *)

\* Attach brings a sender when there is no lease yet.
LEMMA AttachInv ==
  ASSUME IInv, NEW auth \in {{}, Classes}, NEW usable \in SUBSET Capabilities, Attach(auth, usable)
  PROVE  IInv'
<1> USE DEF Attach
<1>1. TypeOK'
  BY DEF IInv, TypeOK
<1>2. QueueParts'
  BY QueueFrame
<1>3. HoldParts' /\ Live' = Live
  BY HoldFrame
<1>4. Live = {} /\ down = {}
  BY DEF IInv, HoldersLive, NoStuckCode
<1>5. NoStuckCode' /\ HoldersLive'
  BY <1>3, <1>4 DEF HoldParts, HoldersLive, NoStuckCode
<1>6. NoLostWakeup' /\ OneInHand' /\ CloseOrder'
  BY <1>3 DEF IInv, NoLostWakeup, OneInHand, CloseOrder
<1> QED
  BY <1>1, <1>2, <1>3, <1>5, <1>6 DEF IInv, QueueParts, HoldParts

\* A new lease has a fresh generation, no events and no held codes.
LEMMA AcquireNewInv ==
  ASSUME IInv, NEW o \in Owners, AcquireNew(o)
  PROVE  IInv'
<1> USE DEF AcquireNew, senderVars, watchVars
<1>1. TypeOK'
  BY DEF IInv, TypeOK
<1>2. Live' = Live \cup {o}
  BY DEF IInv, TypeOK, Live
<1>3. LockExclusive'
  BY <1>2, ConstantsAssumption DEF LockExclusive, LockFree
<1>4. QueueOwned'
  <2> SUFFICES ASSUME NEW e \in queue
               PROVE  lease'[e.owner] = e.generation
    BY DEF QueueOwned, Current
  <2>1. e \in Entries /\ lease[e.owner] = e.generation
    BY DEF IInv, TypeOK, QueueOwned, Current
  <2>2. e.owner # o
    BY <2>1 DEF Live, Entries
  <2> QED
    BY <2>1, <2>2 DEF IInv, TypeOK, Entries
<1>5. QueuedCounted'
  BY DEF IInv, QueuedCounted, EntriesOf
<1>6. Numbered'
  BY DEF IInv, Numbered, TypeOK, Entries
<1>7. CountsMatchLeases'
  BY DEF IInv, CountsMatchLeases
<1>8. NoStuckCode' /\ HoldersLive'
  BY <1>2 DEF IInv, NoStuckCode, HoldersLive
<1>9. QueueOrdered' /\ NoLostWakeup' /\ OneInHand' /\ IsFiniteSet(queue')
  BY DEF IInv, QueueOrdered, NoLostWakeup, OneInHand
<1>10. CloseOrder'
  BY DEF IInv, CloseOrder, MayAcquire
<1> QED
  BY <1>1, <1>3, <1>4, <1>5, <1>6, <1>7, <1>8, <1>9, <1>10 DEF IInv

-----------------------------------------------------------------------------
(* Submitting an event.                                                    *)

\* A new entry comes after all others and is counted at its owner.
LEMMA SubmitQueuedInv ==
  ASSUME IInv, NEW o \in Owners, NEW ev \in Events, SubmitQueued(o, ev)
  PROVE  IInv'
<1> DEFINE x == [ticket |-> accepted + 1, seq |-> accepted + 1, owner |-> o,
                 generation |-> lease[o], event |-> ev]
<1> USE DEF SubmitQueued, senderVars, watchVars
<1>1. x \in Entries
  BY DEF IInv, TypeOK, Entries, MaySubmit, Live
<1>2. queue' = queue \cup {x} /\ x \notin queue /\ \A e \in queue \cup inHand : e.seq < x.ticket
  BY DEF IInv, TypeOK, Numbered, Entries
<1>3. TypeOK'
  BY <1>1 DEF IInv, TypeOK, OwedAfter
<1>4. HoldParts' /\ Live' = Live
  BY HoldFrame
<1>5. QueueOwned'
  BY DEF IInv, QueueOwned, Current
<1>6. QueuedCounted'
  <2> SUFFICES ASSUME NEW p \in Owners
               PROVE  queued'[p] = Cardinality(EntriesOf(p)') /\ queued'[p] <= QueueSize
    BY DEF QueuedCounted
  <2>1. CASE p = o
    <3>1. EntriesOf(p)' = EntriesOf(p) \cup {x}
      BY <2>1, <1>2 DEF EntriesOf
    <3>2. x \notin EntriesOf(p)
      BY <1>2 DEF EntriesOf
    <3>3. Cardinality(EntriesOf(p)') = Cardinality(EntriesOf(p)) + 1
      BY <3>1, <3>2, EntriesFinite, FS_AddElement DEF IInv
    <3>4. queued'[p] = queued[p] + 1 /\ queued[p] < QueueSize
      BY <2>1 DEF IInv, TypeOK
    <3> QED
      BY <3>3, <3>4, ConstantsAssumption DEF IInv, TypeOK, QueuedCounted
  <2>2. CASE p # o
    <3>1. EntriesOf(p)' = EntriesOf(p)
      BY <2>2, <1>2 DEF EntriesOf
    <3>2. queued'[p] = queued[p]
      BY <2>2 DEF IInv, TypeOK
    <3> QED
      BY <3>1, <3>2 DEF IInv, QueuedCounted
  <2> QED
    BY <2>1, <2>2
<1>7. QueueOrdered'
  <2>1. \A d, e \in queue' : d.ticket < e.ticket => d.seq < e.ticket
    <3> SUFFICES ASSUME NEW d \in queue', NEW e \in queue', d.ticket < e.ticket
                 PROVE  d.seq < e.ticket
      OBVIOUS
    <3>1. CASE d = x
      BY <1>2, <3>1 DEF IInv, TypeOK, Numbered, Entries
    <3>2. CASE d \in queue /\ e = x
      BY <1>2, <3>2
    <3>3. CASE d \in queue /\ e \in queue
      BY <3>3 DEF IInv, QueueOrdered
    <3> QED
      BY <1>2, <3>1, <3>2, <3>3
  <2>2. \A d \in inHand', e \in queue' : d.seq < e.ticket
    BY <1>2 DEF IInv, QueueOrdered
  <2> QED
    BY <2>1, <2>2 DEF QueueOrdered
<1>8. Numbered'
  BY <1>2 DEF IInv, TypeOK, Numbered, Entries
<1>9. NoLostWakeup'
  BY DEF NoLostWakeup
<1>10. NoStuckCode' /\ HoldersLive' /\ CloseOrder' /\ OneInHand'
  BY <1>4 DEF IInv, NoStuckCode, HoldersLive, CloseOrder, OneInHand
<1>11. IsFiniteSet(queue')
  BY <1>2, FS_AddElement DEF IInv
<1> QED
  BY <1>3, <1>4, <1>5, <1>6, <1>7, <1>8, <1>9, <1>10, <1>11 DEF IInv, HoldParts

\* Merging an event into the last entry keeps the queue's order and counts.
LEMMA SubmitCoalescedInv ==
  ASSUME IInv, NEW o \in Owners, NEW ev \in Events, SubmitCoalesced(o, ev)
  PROVE  IInv'
<1> DEFINE l == LastOf(queue)
           x == Merged(l, ev)
<1> USE DEF SubmitCoalesced, senderVars, watchVars
<1>1. l \in queue /\ \A d \in queue : d.ticket <= l.ticket
  <2>1. queue # {} /\ queue \subseteq Entries /\ accepted \in Nat
    BY DEF Absorbs, IInv, TypeOK
  <2>2. \A e \in queue : e.ticket <= accepted
    BY DEF IInv, TypeOK, Numbered, Entries
  <2> QED
    BY <2>1, <2>2, LastIsMax
<1>2. queue' = (queue \ {l}) \cup {x}
  OBVIOUS
<1>3. l \in Entries
  BY <1>1 DEF IInv, TypeOK
<1> HIDE DEF l
<1>4. x \in Entries /\ x.ticket = l.ticket /\ x.owner = l.owner
      /\ x.generation = l.generation /\ x.seq = accepted + 1
  BY <1>3 DEF Merged, Entries, IInv, TypeOK
<1> HIDE DEF x
<1>5. \A e \in queue \cup inHand : e.seq <= accepted /\ e.ticket <= e.seq
                                   /\ e.seq \in Nat /\ e.ticket \in Nat
  BY DEF IInv, TypeOK, Numbered, Entries
<1>6. \A d, e \in queue \cup inHand : d.ticket = e.ticket => d = e
  BY DEF IInv, Numbered
<1>7. x \notin queue
  BY <1>1, <1>4, <1>5 DEF IInv, TypeOK
<1>8. TypeOK'
  BY <1>2, <1>4 DEF IInv, TypeOK, OwedAfter
<1>9. HoldParts' /\ Live' = Live
  BY HoldFrame
<1>10. QueueOwned'
  BY <1>1, <1>2, <1>4 DEF IInv, QueueOwned, Current
<1>11. QueuedCounted'
  <2> SUFFICES ASSUME NEW p \in Owners
               PROVE  queued'[p] = Cardinality(EntriesOf(p)') /\ queued'[p] <= QueueSize
    BY DEF QueuedCounted
  <2>1. IsFiniteSet(EntriesOf(p)) /\ Cardinality(EntriesOf(p)) \in Nat
    BY EntriesFinite DEF IInv
  <2>2. Cardinality(EntriesOf(p)') = Cardinality(EntriesOf(p))
    <3>1. CASE p = l.owner
      <4>1. EntriesOf(p)' = (EntriesOf(p) \ {l}) \cup {x} /\ l \in EntriesOf(p)
        BY <1>1, <1>2, <1>4, <3>1 DEF EntriesOf
      <4>2. x \notin EntriesOf(p) \ {l}
        BY <1>7 DEF EntriesOf
      <4>3. /\ IsFiniteSet(EntriesOf(p) \ {l})
            /\ Cardinality(EntriesOf(p) \ {l}) = Cardinality(EntriesOf(p)) - 1
        BY <2>1, <4>1, FS_RemoveElement
      <4>4. Cardinality((EntriesOf(p) \ {l}) \cup {x}) = Cardinality(EntriesOf(p) \ {l}) + 1
        BY <4>2, <4>3, FS_AddElement
      <4> QED
        BY <2>1, <4>1, <4>3, <4>4
    <3>2. CASE p # l.owner
      <4>1. EntriesOf(p)' = EntriesOf(p)
        BY <1>1, <1>2, <1>4, <3>2 DEF EntriesOf
      <4> QED
        BY <4>1
    <3> QED
      BY <3>1, <3>2
  <2> QED
    BY <2>2 DEF IInv, QueuedCounted
<1>12. QueueOrdered'
  <2>1. \A d, e \in queue' : d.ticket < e.ticket => d.seq < e.ticket
    <3> SUFFICES ASSUME NEW d \in queue', NEW e \in queue', d.ticket < e.ticket
                 PROVE  d.seq < e.ticket
      OBVIOUS
    <3>1. CASE d = x
      <4>1. e.ticket <= l.ticket
        BY <1>1, <1>2, <1>4, <1>5
      <4> QED
        BY <1>1, <1>2, <1>4, <1>5, <3>1, <4>1
    <3>2. CASE d \in queue /\ e = x
      BY <1>1, <1>4, <3>2 DEF IInv, QueueOrdered
    <3>3. CASE d \in queue /\ e \in queue
      BY <3>3 DEF IInv, QueueOrdered
    <3> QED
      BY <1>2, <3>1, <3>2, <3>3
  <2>2. \A d \in inHand', e \in queue' : d.seq < e.ticket
    BY <1>1, <1>2, <1>4 DEF IInv, QueueOrdered
  <2> QED
    BY <2>1, <2>2 DEF QueueOrdered
<1>13. Numbered'
  <2>1. \A e \in queue' \cup inHand' : e.ticket <= e.seq /\ e.seq <= accepted'
    BY <1>1, <1>2, <1>4, <1>5 DEF IInv, TypeOK
  <2>2. \A d, e \in queue' \cup inHand' : d.ticket = e.ticket => d = e
    <3>1. \A e \in (queue \ {l}) \cup inHand : e.ticket # l.ticket
      <4>1. \A e \in inHand : e.ticket # l.ticket
        BY <1>1, <1>5 DEF IInv, QueueOrdered
      <4> QED
        BY <1>1, <1>6, <4>1
    <3> QED
      BY <1>2, <1>4, <1>6, <3>1
  <2>3. \A e \in queue' \cup inHand' : e.generation <= generation'
    BY <1>1, <1>2, <1>4 DEF IInv, Numbered
  <2> QED
    BY <2>1, <2>2, <2>3 DEF IInv, Numbered
<1>14. NoLostWakeup'
  BY <1>1 DEF IInv, NoLostWakeup
<1>15. NoStuckCode' /\ HoldersLive' /\ CloseOrder' /\ OneInHand'
  BY <1>9 DEF IInv, NoStuckCode, HoldersLive, CloseOrder, OneInHand
<1>16. IsFiniteSet(queue')
  <2>1. IsFiniteSet(queue \ {l})
    BY FS_RemoveElement DEF IInv
  <2> QED
    BY <1>2, <2>1, FS_AddElement
<1> QED
  BY <1>8, <1>9, <1>10, <1>11, <1>12, <1>13, <1>14, <1>15, <1>16 DEF IInv, HoldParts

-----------------------------------------------------------------------------
(* The worker.                                                             *)

\* Going between the loops of run() touches only the worker and its token.
LEMMA WorkerLoopInv ==
  ASSUME IInv, WorkerWake \/ WorkerStop \/ WorkerEmpty
  PROVE  IInv'
<1> USE DEF WorkerWake, WorkerStop, WorkerEmpty, senderVars, watchVars
<1>1. TypeOK'
  <2>1. wake' \in BOOLEAN /\ worker' \in {"idle", "draining", "handling", "exited"}
    BY DEF IInv, TypeOK
  <2>2. UNCHANGED <<closed, authorized, generation, calls, accepted, lease, revoke, queued,
                    owed, held, counts, queue, inHand, notices, closer, phase, devices,
                    reset, changes, senderStop, down, watch, baseline, missed>>
    OBVIOUS
  <2> HIDE DEF WorkerWake, WorkerStop, WorkerEmpty
  <2> QED
    BY <2>1, <2>2 DEF IInv, TypeOK
<1>2. QueueParts'
  BY QueueFrame
<1>3. HoldParts' /\ Live' = Live
  BY HoldFrame
<1>4. NoStuckCode' /\ HoldersLive' /\ CloseOrder'
  BY <1>3 DEF IInv, NoStuckCode, HoldersLive, CloseOrder
<1>5. OneInHand'
  BY DEF IInv, OneInHand
<1>6. NoLostWakeup'
  <2>1. closed => queue = {}
    BY DEF IInv, TypeOK, CloseOrder, QueueOwned, Current, Entries, Live
  <2> QED
    BY <2>1 DEF IInv, NoLostWakeup
<1> QED
  BY <1>1, <1>2, <1>3, <1>4, <1>5, <1>6 DEF IInv, QueueParts, HoldParts

\* Popping the head keeps the owner's queued count in step with the queue.
LEMMA WorkerPopInv ==
  ASSUME IInv, WorkerPop
  PROVE  IInv'
<1> DEFINE f == FirstOf(queue)
<1> USE DEF WorkerPop, senderVars, watchVars
<1>1. f \in queue /\ \A d \in queue : f.ticket <= d.ticket
  BY FirstIsMin DEF IInv, TypeOK
<1>2. queue' = queue \ {f} /\ inHand' = {f} /\ worker' = "handling"
  OBVIOUS
<1>3. queued' = QueuedAfterPop(f)
  OBVIOUS
<1> HIDE DEF f
<1>4. f \in Entries /\ lease[f.owner] = f.generation /\ f.owner \in Owners
  BY <1>1 DEF IInv, TypeOK, QueueOwned, Current, Entries
<1>5. queued' = [queued EXCEPT ![f.owner] = queued[f.owner] - 1]
  BY <1>3, <1>4 DEF QueuedAfterPop, Current, IInv, TypeOK
<1>6. \A p \in Owners : /\ IsFiniteSet(EntriesOf(p)) /\ Cardinality(EntriesOf(p)) \in Nat
                        /\ queued[p] = Cardinality(EntriesOf(p)) /\ queued[p] <= QueueSize
  BY EntriesFinite DEF IInv, QueuedCounted
<1>7. QueuedCounted' /\ queued' \in [Owners -> Nat]
  <2> SUFFICES ASSUME NEW p \in Owners
               PROVE  /\ queued'[p] = Cardinality(EntriesOf(p)') /\ queued'[p] <= QueueSize
                      /\ queued'[p] \in Nat
    BY <1>5 DEF QueuedCounted, IInv, TypeOK
  <2>1. CASE p = f.owner
    <3>1. EntriesOf(p)' = EntriesOf(p) \ {f} /\ f \in EntriesOf(p)
      BY <1>1, <1>2, <2>1 DEF EntriesOf
    <3>2. /\ IsFiniteSet(EntriesOf(p) \ {f})
          /\ Cardinality(EntriesOf(p) \ {f}) = Cardinality(EntriesOf(p)) - 1
      BY <1>6, <3>1, FS_RemoveElement
    <3>3. Cardinality(EntriesOf(p) \ {f}) \in Nat
      BY <3>2, FS_CardinalityType
    <3>4. queued'[p] = queued[p] - 1
      BY <1>5, <2>1 DEF IInv, TypeOK
    <3> QED
      BY <1>6, <3>1, <3>2, <3>3, <3>4, ConstantsAssumption
  <2>2. CASE p # f.owner
    <3>1. EntriesOf(p)' = EntriesOf(p)
      BY <1>2, <2>2 DEF EntriesOf
    <3>2. queued'[p] = queued[p]
      BY <1>5, <2>2 DEF IInv, TypeOK
    <3> QED
      BY <1>6, <3>1, <3>2
  <2> QED
    BY <2>1, <2>2
<1>8. TypeOK'
  BY <1>2, <1>4, <1>7 DEF IInv, TypeOK
<1>9. HoldParts' /\ Live' = Live
  BY HoldFrame
<1>10. QueueOwned' /\ Numbered'
  BY <1>1, <1>2 DEF IInv, QueueOwned, Current, Numbered
<1>11. QueueOrdered'
  <2>1. \A e \in queue' : f.ticket < e.ticket
    BY <1>1, <1>2 DEF IInv, TypeOK, Numbered, Entries
  <2> QED
    BY <1>1, <1>2, <2>1 DEF IInv, QueueOrdered
<1>12. OneInHand' /\ NoLostWakeup'
  BY <1>2 DEF OneInHand, NoLostWakeup
<1>13. NoStuckCode' /\ HoldersLive' /\ CloseOrder'
  BY <1>9 DEF IInv, NoStuckCode, HoldersLive, CloseOrder
<1>14. IsFiniteSet(queue')
  BY <1>2, FS_RemoveElement DEF IInv
<1> QED
  BY <1>7, <1>8, <1>9, <1>10, <1>11, <1>12, <1>13, <1>14 DEF IInv, HoldParts

\* An event that delivers nothing to the held state just leaves the hand.
LEMMA HandleQuietInv ==
  ASSUME IInv, NEW e \in inHand, HandleStale(e) \/ HandleRepeat(e) \/ HandlePlain(e)
  PROVE  IInv'
<1>1. worker' = "draining" /\ inHand' = {} /\ owed' \in [Owners -> Int]
  BY DEF HandleStale, HandleRepeat, HandlePlain, Handled, OwedWithout, IInv, TypeOK
<1>2. UNCHANGED <<closed, authorized, generation, lease, revoke, queued, held,
                  counts, queue, wake, notices, closer, calls, accepted>>
  BY DEF HandleStale, HandleRepeat, HandlePlain
<1>3. UNCHANGED <<phase, devices, reset, changes, senderStop, down, watch, baseline, missed>>
  BY DEF HandleStale, HandleRepeat, HandlePlain, senderVars, watchVars
<1>4. TypeOK'
  BY <1>1, <1>2, <1>3 DEF IInv, TypeOK
<1>5. HoldParts' /\ Live' = Live
  BY <1>2, HoldFrame
<1>6. QueueOwned' /\ QueueOrdered' /\ Numbered' /\ IsFiniteSet(queue')
  BY <1>1, <1>2 DEF IInv, QueueOwned, QueueOrdered, Numbered, Current
<1>7. QueuedCounted'
  BY <1>2 DEF IInv, QueuedCounted, EntriesOf
<1>8. NoStuckCode' /\ HoldersLive' /\ CloseOrder'
  BY <1>2, <1>3, <1>5 DEF IInv, NoStuckCode, HoldersLive, CloseOrder
<1>9. OneInHand' /\ NoLostWakeup'
  BY <1>1 DEF OneInHand, NoLostWakeup
<1> QED
  BY <1>4, <1>5, <1>6, <1>7, <1>8, <1>9 DEF IInv, HoldParts

\* A press or a release changes one lease's held codes and one count alike.
LEMMA HandleTransitionInv ==
  ASSUME IInv, NEW e \in inHand, HandleTransition(e)
  PROVE  IInv'
<1> DEFINE c == e.event.code
           o == e.owner
           H(x) == {p \in Owners : x \in held[p]}
           G(x) == {p \in Owners : x \in held'[p]}
<1>1. e \in Entries /\ o \in Owners /\ e.generation # 0 /\ e.generation \in Nat
  BY DEF IInv, TypeOK, Entries
<1>2. c \in Codes /\ e.event.pressed \in BOOLEAN
  <2>1. e.event \in Events /\ e.event.kind = "transition"
    BY <1>1 DEF Entries, HandleTransition
  <2>2. \A k \in Kinds : k # "transition"
    BY ConstantsAssumption DEF AllKinds
  <2>3. \A k \in Kinds : Plain(k) # e.event
    BY <2>1, <2>2 DEF Plain
  <2> QED
    BY <2>1, <2>3 DEF Events, Transition
<1>3. o \in Live
  BY <1>1 DEF HandleTransition, Deliverable, Current, Live
<1>4. (c \in held[o]) # e.event.pressed
  BY DEF HandleTransition, Repeats
<1>5. held' = [held EXCEPT ![o] = HeldAfter(e)] /\ counts' = [counts EXCEPT ![c] = CountAfter(e)]
  BY DEF HandleTransition
<1>6. /\ worker' = "draining" /\ inHand' = {}
      /\ owed' \in [Owners -> Int]
  <2>1. worker' = "draining" /\ inHand' = {} /\ owed' = OwedWithout(e)
    BY DEF HandleTransition, Handled
  <2>2. owed \in [Owners -> Int]
    BY DEF IInv, TypeOK
  <2> QED
    BY <1>1, <2>1, <2>2 DEF OwedWithout
<1>7. /\ UNCHANGED <<closed, authorized, generation, lease, revoke, queued, queue,
                     wake, notices, closer, calls, accepted>>
      /\ UNCHANGED <<phase, devices, reset, changes, senderStop, watch, baseline, missed>>
  BY DEF HandleTransition, watchVars
<1>8. Live' = Live
  BY <1>7 DEF Live
<1>9. held' \in [Owners -> SUBSET Codes]
  BY <1>2, <1>5 DEF IInv, TypeOK, HeldAfter
<1>10. held \in [Owners -> SUBSET Codes] /\ counts \in [Codes -> Nat]
  BY DEF IInv, TypeOK
<1>11. \A x : IsFiniteSet(H(x)) /\ Cardinality(H(x)) \in Nat
  BY HoldersFinite, FS_CardinalityType
<1>12. \A x \in Codes : counts[x] = Cardinality(H(x))
  BY DEF IInv, CountsMatchLeases
<1>13. G(c) = IF e.event.pressed THEN H(c) \cup {o} ELSE H(c) \ {o}
  <2>1. CASE e.event.pressed
    BY <1>1, <1>5, <1>10, <2>1 DEF HeldAfter
  <2>2. CASE ~e.event.pressed
    BY <1>1, <1>5, <1>10, <2>2 DEF HeldAfter
  <2> QED
    BY <2>1, <2>2
<1>14. \A x \in Codes : x # c => G(x) = H(x)
  BY <1>1, <1>5, <1>10 DEF HeldAfter
<1>15. (o \in H(c)) # e.event.pressed
  BY <1>1, <1>4
<1> HIDE DEF H, G, c, o
<1>16. Cardinality(G(c)) = CountAfter(e) /\ CountAfter(e) \in Nat
  <2>1. CASE e.event.pressed
    <3>1. o \notin H(c)
      BY <1>2, <1>15, <2>1
    <3>2. Cardinality(H(c) \cup {o}) = Cardinality(H(c)) + 1
      BY <1>11, <3>1, FS_AddElement
    <3>3. CountAfter(e) = counts[c] + 1
      BY <2>1 DEF CountAfter, c
    <3> QED
      BY <1>2, <1>11, <1>12, <1>13, <2>1, <3>2, <3>3
  <2>2. CASE ~e.event.pressed
    <3>1. o \in H(c)
      BY <1>2, <1>15, <2>2
    <3>2. /\ IsFiniteSet(H(c) \ {o})
          /\ Cardinality(H(c) \ {o}) = Cardinality(H(c)) - 1
      BY <1>11, <3>1, FS_RemoveElement
    <3>3. CountAfter(e) = counts[c] - 1
      BY <2>2 DEF CountAfter, c
    <3>4. Cardinality(H(c) \ {o}) \in Nat
      BY <3>2, FS_CardinalityType
    <3> QED
      BY <1>2, <1>11, <1>12, <1>13, <2>2, <3>2, <3>3, <3>4
  <2> QED
    BY <2>1, <2>2
<1>17. counts' \in [Codes -> Nat]
  BY <1>2, <1>5, <1>10, <1>16
<1>18. \A x \in Codes : counts'[x] = Cardinality(G(x))
  BY <1>2, <1>5, <1>10, <1>12, <1>14, <1>16
<1>19. CountsMatchLeases'
  BY <1>18 DEF CountsMatchLeases, G
<1>20. down' \subseteq Codes /\ \A x \in down' : x = c \/ x \in down
  BY <1>2 DEF HandleTransition, IInv, TypeOK, c
<1>21. TypeOK'
  BY <1>6, <1>7, <1>9, <1>17, <1>20 DEF IInv, TypeOK
<1>22. \A p \in Owners : held'[p] # {} => p \in Live'
  BY <1>1, <1>3, <1>5, <1>8, <1>10 DEF IInv, HoldersLive, HeldAfter, o
<1>23. \A x \in down' : CapabilityOf(x) \in devices'
  <2>1. CASE NeedsSender(e)
    <3>1. CapabilityOf(c) \in devices
      BY <2>1 DEF HandleTransition, SenderAccepts, c
    <3> QED
      BY <1>7, <1>20, <3>1 DEF IInv, HoldersLive
  <2>2. CASE ~NeedsSender(e)
    <3>1. down' = down
      BY <2>2 DEF HandleTransition
    <3> QED
      BY <1>7, <3>1 DEF IInv, HoldersLive
  <2> QED
    BY <2>1, <2>2
<1>24. HoldersLive'
  BY <1>7, <1>8, <1>22, <1>23 DEF IInv, HoldersLive
<1>25. NoStuckCode'
  <2> SUFFICES ASSUME NEW x \in down'
               PROVE  \E p \in Live' : x \in held'[p]
    BY DEF NoStuckCode
  <2>0. x \in Codes
    BY <1>20
  <2> SUFFICES \E p \in Owners : p \in G(x)
    BY <1>22 DEF G
  <2>1. CASE x # c
    <3>1. \E p \in H(x) : TRUE
      BY <1>20, <2>1 DEF IInv, NoStuckCode, H, Live
    <3> QED
      BY <1>14, <2>0, <2>1, <3>1 DEF H
  <2>2. CASE x = c /\ e.event.pressed
    BY <1>1, <1>13, <2>2
  <2>3. CASE x = c /\ ~e.event.pressed
    <3>1. ~NeedsSender(e)
      BY <2>3 DEF HandleTransition, c
    <3>2. counts[c] # 1 /\ counts[c] \in Nat
      BY <1>2, <1>10, <2>3, <3>1 DEF NeedsSender, HandleTransition, c
    <3>3. CountAfter(e) = counts[c] - 1
      BY <2>3 DEF CountAfter, c
    <3>4. Cardinality(G(c)) # 0
      BY <1>16, <3>2, <3>3
    <3>5. G(c) # {}
      BY <3>4, FS_EmptySet
    <3> QED
      BY <2>3, <3>5 DEF G
  <2> QED
    BY <1>2, <2>1, <2>2, <2>3
<1>26. QueueOwned' /\ QueueOrdered' /\ Numbered' /\ IsFiniteSet(queue')
  BY <1>6, <1>7 DEF IInv, QueueOwned, QueueOrdered, Numbered, Current
<1>27. QueuedCounted'
  BY <1>7 DEF IInv, QueuedCounted, EntriesOf
<1>28. LockExclusive' /\ CloseOrder' /\ OneInHand' /\ NoLostWakeup'
  BY <1>6, <1>7, <1>8 DEF IInv, LockExclusive, CloseOrder, OneInHand, NoLostWakeup
<1> QED
  BY <1>19, <1>21, <1>24, <1>25, <1>26, <1>27, <1>28 DEF IInv

-----------------------------------------------------------------------------
(* Closing, and the sender.                                                *)

\* After the first Close only the closer and the stop request move.
LEMMA CloseStepsInv ==
  ASSUME IInv, CloseSender \/ CloseReturn \/ CloseAgain
  PROVE  IInv'
<1> USE DEF CloseSender, CloseReturn, CloseAgain, senderVars, watchVars, controllerVars
<1>1. /\ UNCHANGED <<closed, authorized, generation, lease, revoke, queued, held,
                     counts, queue, wake, worker, inHand, notices, calls, accepted, owed>>
      /\ UNCHANGED <<phase, devices, reset, changes, down, watch, baseline, missed>>
  OBVIOUS
<1>2. closed
  BY DEF IInv, TypeOK, CloseOrder
<1>3. /\ closer' \in {"closing", "returned"} \/ closer' = closer
      /\ senderStop' = TRUE \/ senderStop' = senderStop
  OBVIOUS
<1> HIDE DEF CloseSender, CloseReturn, CloseAgain, senderVars, watchVars, controllerVars
<1>4. TypeOK'
  <2>1. closer' \in {"open", "waiting", "closing", "returned"}
    BY <1>3 DEF IInv, TypeOK
  <2>2. senderStop' \in BOOLEAN
    BY <1>3 DEF IInv, TypeOK
  <2> QED
    BY <1>1, <2>1, <2>2 DEF IInv, TypeOK
<1>5. QueueParts'
  BY <1>1, QueueFrame
<1>6. HoldParts' /\ Live' = Live
  BY <1>1, HoldFrame
<1>7. NoStuckCode' /\ HoldersLive' /\ OneInHand' /\ NoLostWakeup'
  BY <1>1, <1>6 DEF IInv, NoStuckCode, HoldersLive, OneInHand, NoLostWakeup
<1>8. CloseOrder'
  BY <1>1, <1>2, <1>3, <1>6 DEF IInv, CloseOrder
<1> QED
  BY <1>4, <1>5, <1>6, <1>7, <1>8 DEF IInv, QueueParts, HoldParts

\* A step of the sender releases codes together with the device they need.
LEMMA SenderInv ==
  ASSUME IInv, Sender
  PROVE  IInv'
<1>1. /\ UNCHANGED <<closed, authorized, generation, lease, revoke, queued, held, counts,
                     queue, wake, worker, inHand, notices, closer, calls, accepted, owed>>
      /\ UNCHANGED <<senderStop, watch, baseline, missed>>
  BY DEF Sender, DeviceResumed, DevicePaused, SenderNotifies, SenderFails, SenderStops,
         watchVars, controllerVars
<1>2. /\ phase # "none" /\ phase' \in {"running", "failing", "stopped"}
      /\ changes' = TRUE /\ reset' \in Nat
  <2>1. CASE \E K \in SUBSET Capabilities : DeviceResumed(K)
    BY <2>1 DEF DeviceResumed, IInv, TypeOK
  <2>2. CASE \E K \in SUBSET Capabilities : \E b \in BOOLEAN : DevicePaused(K, b)
    BY <2>2 DEF DevicePaused, IInv, TypeOK
  <2>3. CASE SenderNotifies \/ SenderFails \/ SenderStops
    BY <2>3 DEF SenderNotifies, SenderFails, SenderStops, IInv, TypeOK
  <2> QED
    BY <2>1, <2>2, <2>3 DEF Sender
<1>3. /\ devices' \subseteq Capabilities /\ down' \subseteq down
      /\ \A c \in down' : CapabilityOf(c) \in devices'
  <2>0. /\ devices \subseteq Capabilities /\ down \subseteq Codes
        /\ \A c \in down : CapabilityOf(c) \in devices
    BY DEF IInv, TypeOK, HoldersLive
  <2>1. CASE \E K \in SUBSET Capabilities : DeviceResumed(K)
    BY <2>0, <2>1 DEF DeviceResumed
  <2>2. CASE \E K \in SUBSET Capabilities : \E b \in BOOLEAN : DevicePaused(K, b)
    BY <2>0, <2>2 DEF DevicePaused, CodesOf
  <2>3. CASE SenderNotifies \/ SenderFails \/ SenderStops
    BY <2>0, <2>3 DEF SenderNotifies, SenderFails, SenderStops
  <2> QED
    BY <2>1, <2>2, <2>3 DEF Sender
<1>4. TypeOK'
  BY <1>1, <1>2, <1>3 DEF IInv, TypeOK
<1>5. QueueParts'
  BY <1>1, QueueFrame
<1>6. HoldParts' /\ Live' = Live
  BY <1>1, HoldFrame
<1>7. NoStuckCode' /\ HoldersLive'
  BY <1>1, <1>2, <1>3, <1>6 DEF IInv, NoStuckCode, HoldersLive
<1>8. NoLostWakeup' /\ OneInHand' /\ CloseOrder'
  BY <1>1, <1>6 DEF IInv, NoLostWakeup, OneInHand, CloseOrder
<1> QED
  BY <1>4, <1>5, <1>6, <1>7, <1>8 DEF IInv, QueueParts, HoldParts

-----------------------------------------------------------------------------
(* The invariant.                                                          *)

\* A new Controller has no sender, no lease and an empty queue.
LEMMA InitInv == Init => IInv
<1> SUFFICES ASSUME Init
             PROVE  IInv
  OBVIOUS
<1>1. TypeOK
  <2>1. /\ lease \in [Owners -> Nat] /\ revoke \in [Owners -> Nat]
        /\ queued \in [Owners -> Nat] /\ owed \in [Owners -> Int]
        /\ held \in [Owners -> SUBSET Codes] /\ counts \in [Codes -> Nat]
    BY DEF Init
  <2>2. closed = FALSE /\ wake = FALSE /\ changes = FALSE /\ senderStop = FALSE
    BY DEF Init
  <2>3. /\ authorized = {} /\ queue = {} /\ inHand = {} /\ notices = {} /\ devices = {}
        /\ down = {} /\ missed = {} /\ generation = 0 /\ calls = 0 /\ accepted = 0
        /\ reset = 0 /\ baseline = 0
    BY DEF Init
  <2>4. worker = "idle" /\ closer = "open" /\ phase = "none" /\ watch = "none"
    BY DEF Init
  <2> QED
    BY <2>1, <2>2, <2>3, <2>4 DEF TypeOK
<1>2. Live = {}
  BY DEF Init, Live
<1>3. LockExclusive /\ QueueOwned /\ QueueOrdered /\ NoStuckCode /\ NoLostWakeup
  BY <1>2 DEF Init, LockExclusive, QueueOwned, QueueOrdered, NoStuckCode, NoLostWakeup
<1>4. QueuedCounted
  <2> SUFFICES ASSUME NEW o \in Owners
               PROVE  queued[o] = Cardinality(EntriesOf(o)) /\ queued[o] <= QueueSize
    BY DEF QueuedCounted
  <2>1. EntriesOf(o) = {} /\ queued[o] = 0
    BY DEF Init, EntriesOf
  <2> QED
    BY <2>1, FS_EmptySet, ConstantsAssumption
<1>5. CountsMatchLeases
  <2> SUFFICES ASSUME NEW c \in Codes
               PROVE  counts[c] = Cardinality({o \in Owners : c \in held[o]})
    BY DEF CountsMatchLeases
  <2>1. {o \in Owners : c \in held[o]} = {} /\ counts[c] = 0
    BY DEF Init
  <2> QED
    BY <2>1, FS_EmptySet
<1>6. Numbered /\ OneInHand
  BY DEF Init, Numbered, OneInHand
<1>7. HoldersLive /\ CloseOrder
  BY <1>2 DEF Init, HoldersLive, CloseOrder
<1>8. IsFiniteSet(queue)
  BY FS_EmptySet DEF Init
<1> QED
  BY <1>1, <1>3, <1>4, <1>5, <1>6, <1>7, <1>8 DEF IInv

\* Every step keeps IInv, one action at a time.
LEMMA NextInv == IInv /\ [Next]_vars => IInv'
<1> SUFFICES ASSUME IInv, [Next]_vars
             PROVE  IInv'
  OBVIOUS
<1>1. ASSUME NEW o \in Owners, Peer(o)
      PROVE  IInv'
  <2>1. CASE AcquireAgain(o)
    BY <2>1, AcquireAgainInv
  <2>2. CASE AcquireNew(o)
    BY <2>2, AcquireNewInv
  <2>3. CASE Release(o)
    BY <2>3, ReleaseInv
  <2>4. ASSUME NEW ev \in Events, SubmitCoalesced(o, ev)
        PROVE  IInv'
    BY <2>4, SubmitCoalescedInv
  <2>5. ASSUME NEW ev \in Events, SubmitQueued(o, ev)
        PROVE  IInv'
    BY <2>5, SubmitQueuedInv
  <2>6. ASSUME NEW ev \in Events, SubmitOverload(o, ev)
        PROVE  IInv'
    BY <2>6, SubmitOverloadInv
  <2> QED
    BY <1>1, <2>1, <2>2, <2>3, <2>4, <2>5, <2>6 DEF Peer
<1>2. ASSUME NEW n \in notices, CallRevocation(n)
      PROVE  IInv'
  BY <1>2, CallRevocationInv
<1>3. CASE Worker
  <2>1. CASE WorkerWake \/ WorkerStop \/ WorkerEmpty
    BY <2>1, WorkerLoopInv
  <2>2. CASE WorkerPop
    BY <2>2, WorkerPopInv
  <2>3. ASSUME NEW e \in inHand, HandleStale(e) \/ HandleRepeat(e) \/ HandlePlain(e)
        PROVE  IInv'
    BY <2>3, HandleQuietInv
  <2>4. ASSUME NEW e \in inHand, HandleTransition(e)
        PROVE  IInv'
    BY <2>4, HandleTransitionInv
  <2>5. ASSUME NEW e \in inHand, HandleError(e)
        PROVE  IInv'
    BY <2>5, HandleErrorInv
  <2> QED
    BY <1>3, <2>1, <2>2, <2>3, <2>4, <2>5 DEF Worker
<1>4. CASE Watcher
  BY <1>4, WatchReadsInv, WatchRevokeInv DEF Watcher
<1>5. CASE Portal
  <2>1. ASSUME NEW auth \in {{}, Classes}, NEW usable \in SUBSET Capabilities, Attach(auth, usable)
        PROVE  IInv'
    BY <2>1, AttachInv
  <2>2. ASSUME NEW auth \in {{}, Classes}, SetUnavailable(auth)
        PROVE  IInv'
    BY <2>2, SetUnavailableInv
  <2>3. CASE Close
    BY <2>3, CloseInv
  <2>4. CASE CloseSender \/ CloseReturn \/ CloseAgain
    BY <2>4, CloseStepsInv
  <2> QED
    BY <1>5, <2>1, <2>2, <2>3, <2>4 DEF Portal
<1>6. CASE Sender
  BY <1>6, SenderInv
<1>7. CASE UNCHANGED vars
  <2>1. UNCHANGED coreVars
    BY <1>7 DEF vars, controllerVars, senderVars, coreVars
  <2>2. TypeOK'
    BY <1>7 DEF IInv, TypeOK, vars, controllerVars, senderVars, watchVars
  <2> QED
    BY <2>1, <2>2, CoreFrame
<1> QED
  BY <1>1, <1>2, <1>3, <1>4, <1>5, <1>6, <1>7 DEF Next

\* IInv is inductive: it holds in every reachable state of the input worker,
\* for any owners, codes, classes, queue size and bounds.
THEOREM InductiveInvariant == Spec => []IInv
<1> QED
  BY InitInv, NextInv, PTL DEF Spec

\* Every variable keeps the type of its field; in particular the unsigned
\* counts of held codes and of queued events never wrap below zero.
THEOREM TypeCorrect == Spec => []TypeOK
<1>1. IInv => TypeOK
  BY DEF IInv
<1> QED
  BY <1>1, InductiveInvariant, PTL

\* With locking, Acquire never grants a second lease beside a live one.
THEOREM LockIsExclusive == Spec => []LockExclusive
<1>1. IInv => LockExclusive
  BY DEF IInv
<1> QED
  BY <1>1, InductiveInvariant, PTL

\* Every queued event belongs to a live lease.
THEOREM QueueIsOwned == Spec => []QueueOwned
<1>1. IInv => QueueOwned
  BY DEF IInv
<1> QED
  BY <1>1, InductiveInvariant, PTL

\* The queued count of a lease is exact and bounded by QueueSize.
THEOREM QueueIsCounted == Spec => []QueuedCounted
<1>1. IInv => QueuedCounted
  BY DEF IInv
<1> QED
  BY <1>1, InductiveInvariant, PTL

\* Coalescing into the last entry never reorders submissions.
THEOREM QueueIsOrdered == Spec => []QueueOrdered
<1>1. IInv => QueueOrdered
  BY DEF IInv
<1> QED
  BY <1>1, InductiveInvariant, PTL

\* The shared counts are the number of leases that hold each code.
THEOREM CountsAreExact == Spec => []CountsMatchLeases
<1>1. IInv => CountsMatchLeases
  BY DEF IInv
<1> QED
  BY <1>1, InductiveInvariant, PTL

\* No key or button stays down at the desktop without a lease that holds it.
THEOREM NothingStuck == Spec => []NoStuckCode
<1>1. IInv => NoStuckCode
  BY DEF IInv
<1> QED
  BY <1>1, InductiveInvariant, PTL

\* Queue and leases agree whatever peers submit while others leave: every entry
\* belongs to a held lease, is counted by it, and keeps its place (Submit,
\* revokeOwnerLocked, run).
THEOREM QueueIsConsistent == Spec => []QueueConsistent
<1>1. QueueOwned /\ QueuedCounted /\ QueueOrdered => QueueConsistent
  BY DEF QueueConsistent
<1> QED
  BY <1>1, QueueIsOwned, QueueIsCounted, QueueIsOrdered, PTL

\* Counts, leases and the codes that are down at the desktop agree, however peers
\* press, share and leave (handleEvent, releaseHeldLocked).
THEOREM HeldIsConsistent == Spec => []HeldConsistent
<1>1. CountsMatchLeases /\ NoStuckCode => HeldConsistent
  BY DEF HeldConsistent
<1> QED
  BY <1>1, CountsAreExact, NothingStuck, PTL

\* The one-slot wake channel never leaves a queued event behind.
THEOREM WakeupKept == Spec => []NoLostWakeup
<1>1. IInv => NoLostWakeup
  BY DEF IInv
<1> QED
  BY <1>1, InductiveInvariant, PTL

\* Once Close has begun there is no lease, no queued event and nothing down.
THEOREM QuietAfterClose == Spec => []ClosedIsQuiet
<1>1. IInv => ClosedIsQuiet
  <2> SUFFICES ASSUME IInv, senderStop \/ closed
               PROVE  Live = {} /\ queue = {} /\ down = {}
    BY DEF ClosedIsQuiet
  <2>1. Live = {}
    BY DEF IInv, CloseOrder
  <2>2. queue = {}
    BY <2>1 DEF IInv, TypeOK, QueueOwned, Current, Entries, Live
  <2>3. down = {}
    BY <2>1 DEF IInv, NoStuckCode
  <2> QED
    BY <2>1, <2>2, <2>3
<1> QED
  BY <1>1, InductiveInvariant, PTL

-----------------------------------------------------------------------------
(* Action properties.                                                      *)

\* Steps that leave every lease and everything held alone.
QuietStep == UNCHANGED <<lease, held>>

\* The steps by kind: what each does to leases and held codes.
LEMMA StepKinds ==
  ASSUME IInv, [Next]_vars
  PROVE  \/ QuietStep
         \/ \E o \in Owners : AcquireNew(o) \/ Release(o)
         \/ \E o \in Owners, ev \in Events : SubmitOverload(o, ev)
         \/ \E e \in inHand : HandleTransition(e) \/ HandleError(e)
         \/ WatchRevoke \/ Close
<1> USE DEF QuietStep
<1>1. ASSUME NEW o \in Owners, Peer(o)
      PROVE  \/ QuietStep \/ AcquireNew(o) \/ Release(o)
             \/ \E ev \in Events : SubmitOverload(o, ev)
  BY <1>1 DEF Peer, AcquireAgain, SubmitCoalesced, SubmitQueued
<1>2. CASE \E n \in notices : CallRevocation(n)
  BY <1>2 DEF CallRevocation
<1>3. CASE Worker
  BY <1>3 DEF Worker, WorkerWake, WorkerStop, WorkerEmpty, WorkerPop, HandleStale,
              HandleRepeat, HandlePlain
<1>4. CASE Watcher
  BY <1>4 DEF Watcher, WatchStart, WatchDone, WatchChange, WatchStop, controllerVars
<1>5. CASE Portal
  BY <1>5 DEF Portal, Attach, SetUnavailable, CloseSender, CloseReturn, CloseAgain,
              controllerVars
<1>6. CASE Sender
  BY <1>6 DEF Sender, DeviceResumed, DevicePaused, SenderNotifies, SenderFails,
              SenderStops, controllerVars
<1>7. CASE UNCHANGED vars
  BY <1>7 DEF vars, controllerVars
<1> QED
  BY <1>1, <1>2, <1>3, <1>4, <1>5, <1>6, <1>7 DEF Next

\* A lease starts to hold a code only through an event submitted under it.
THEOREM PressesOwn == Spec => PressesAreOwn
<1> DEFINE A == \A o \in Owners : ~(held'[o] \subseteq held[o]) =>
                  \E e \in inHand : e.owner = o /\ e.generation = lease[o] /\ ~closed
<1>1. IInv /\ [Next]_vars => A
  <2> SUFFICES ASSUME IInv, [Next]_vars, NEW o \in Owners, ~(held'[o] \subseteq held[o])
               PROVE  \E e \in inHand : e.owner = o /\ e.generation = lease[o] /\ ~closed
    OBVIOUS
  <2>1. ASSUME NEW S, NEW N, EndLeases(S, N)
        PROVE  FALSE
    BY <2>1 DEF EndLeases
  <2>2. PICK e \in inHand : HandleTransition(e)
    BY <2>1, StepKinds DEF QuietStep, AcquireNew, Release, SubmitOverload, HandleError,
                           WatchRevoke, Close
  <2>3. e.owner = o
    BY <2>2 DEF HandleTransition, IInv, TypeOK
  <2> QED
    BY <2>2, <2>3 DEF HandleTransition, Deliverable, Current
<1> QED
  BY <1>1, InductiveInvariant, PTL DEF Spec, PressesAreOwn

\* A lease that an overload, an error or a reset ends makes a callback due.
THEOREM LeaseEndReported == Spec => LeaseEndIsReported
<1> DEFINE A == \A o \in Live : lease'[o] # lease[o] =>
                  \/ closed' \/ Release(o)
                  \/ \E n \in notices' : n.owner = o /\ n.revoke = revoke[o]
<1>1. IInv /\ [Next]_vars => A
  <2> SUFFICES ASSUME IInv, [Next]_vars, NEW o \in Live, lease'[o] # lease[o], ~closed',
                      ~Release(o)
               PROVE  \E n \in notices' : n.owner = o /\ n.revoke = revoke[o]
    OBVIOUS
  <2>0. o \in Owners /\ lease \in [Owners -> Nat]
    BY DEF Live, IInv, TypeOK
  <2>1. ASSUME NEW S \in SUBSET Live, NEW who, EndLeases(S, NoticesFor(S, who))
        PROVE  \E n \in notices' : n.owner = o /\ n.revoke = revoke[o]
    <3>1. o \in S
      BY <2>0, <2>1 DEF EndLeases
    <3> DEFINE m == [caller |-> who, owner |-> o, revoke |-> revoke[o]]
    <3>2. m \in NoticesFor(S, who)
      BY <3>1 DEF NoticesFor
    <3>3. m \in notices' /\ m.owner = o /\ m.revoke = revoke[o]
      BY <2>1, <3>2 DEF EndLeases
    <3> QED
      BY <3>3
  <2>2. ~QuietStep /\ ~Close
    BY DEF QuietStep, Close
  <2>3. \A p \in Owners : ~AcquireNew(p)
    BY <2>0 DEF AcquireNew
  <2>4. \A p \in Owners : ~Release(p)
    BY <2>0 DEF Release, EndLeases
  <2>5. ASSUME NEW p \in Owners, NEW ev \in Events, SubmitOverload(p, ev)
        PROVE  \E n \in notices' : n.owner = o /\ n.revoke = revoke[o]
    <3>1. {p} \in SUBSET Live /\ EndLeases({p}, NoticesFor({p}, "submit"))
      BY <2>5 DEF SubmitOverload, MaySubmit
    <3> QED
      BY <2>1, <3>1
  <2>6. ASSUME NEW e \in inHand, HandleTransition(e) \/ HandleError(e)
        PROVE  \E n \in notices' : n.owner = o /\ n.revoke = revoke[o]
    <3>1. ~HandleTransition(e)
      BY DEF HandleTransition
    <3>2. Live \in SUBSET Live /\ EndLeases(Live, NoticesFor(Live, "worker"))
      BY <2>6, <3>1 DEF HandleError, ErrorNotices
    <3> QED
      BY <2>1, <3>2
  <2>7. ASSUME WatchRevoke
        PROVE  \E n \in notices' : n.owner = o /\ n.revoke = revoke[o]
    <3>1. Live \in SUBSET Live /\ EndLeases(Live, NoticesFor(Live, "watcher"))
      BY <2>7 DEF WatchRevoke
    <3> QED
      BY <2>1, <3>1
  <2> QED
    BY <2>2, <2>3, <2>4, <2>5, <2>6, <2>7, StepKinds
<1> QED
  BY <1>1, InductiveInvariant, PTL DEF Spec, LeaseEndIsReported

-----------------------------------------------------------------------------
(* Transitions are neither dropped nor duplicated.                         *)

\* NoTransitionDropped as an inductive invariant: an owner without a lease is
\* owed nothing, so that its next lease starts even.
TransitionsOwed ==
  /\ NoTransitionDropped
  /\ \A o \in Owners : o \notin Live => owed[o] = 0

\* What is on its way to handleEvent under one lease is finite.
LEMMA TransitionsFinite ==
  ASSUME IInv, NEW o
  PROVE  IsFiniteSet(Transitions(o)) /\ Cardinality(Transitions(o)) \in Nat
<1>1. IsFiniteSet(inHand)
  <2>1. CASE inHand = {}
    BY <2>1, FS_EmptySet
  <2>2. CASE inHand # {}
    <3>1. PICK d \in inHand : TRUE
      BY <2>2
    <3>2. inHand = {d}
      BY <3>1 DEF IInv, OneInHand
    <3> QED
      BY <3>2, FS_Singleton
  <2> QED
    BY <2>1, <2>2
<1>2. IsFiniteSet(queue \cup inHand)
  BY <1>1, FS_Union DEF IInv
<1>3. Transitions(o) \in SUBSET (queue \cup inHand)
  BY DEF Transitions
<1> QED
  BY <1>2, <1>3, FS_Subset, FS_CardinalityType

\* A step that keeps leases, and what is on its way to handleEvent, keeps the debt.
LEMMA OwedFrame ==
  ASSUME TransitionsOwed, UNCHANGED <<lease, owed>>,
         queue' \cup inHand' = queue \cup inHand
  PROVE  TransitionsOwed'
<1>1. Live' = Live
  BY DEF Live
<1>2. \A o : Transitions(o)' = Transitions(o)
  BY DEF Transitions, Current
<1> QED
  BY <1>1, <1>2 DEF TransitionsOwed, NoTransitionDropped

\* Ending leases forgets the debt of those leases with their events, unless
\* every lease ends, when the event in hand may go as well.
LEMMA OwedEnds ==
  ASSUME IInv, TransitionsOwed, NEW S \in SUBSET Live, NEW N \in SUBSET Notices,
         EndLeases(S, N), inHand' = inHand \/ S = Live
  PROVE  TransitionsOwed'
<1>1. Live' = Live \ S
  BY EndLeasesTypes
<1>2. /\ \A o \in Owners : owed'[o] = IF o \in S THEN 0 ELSE owed[o]
      /\ \A o \in Owners : lease'[o] = IF o \in S THEN 0 ELSE lease[o]
      /\ queue' = QueueWithout(S)
  BY DEF EndLeases
<1>3. \A o \in Owners : o \notin Live' => owed'[o] = 0
  BY <1>1, <1>2 DEF TransitionsOwed
<1>4. ASSUME NEW o \in Live'
      PROVE  owed'[o] = Cardinality(Transitions(o)')
  <2>1. o \in Live /\ o \notin S /\ o \in Owners /\ inHand' = inHand
    BY <1>1, <1>4 DEF Live
  <2>2. Transitions(o)' = Transitions(o)
    <3>1. \A e \in queue \cup inHand : e.owner = o => (Current(e)' <=> Current(e))
      BY <1>2, <2>1 DEF Current
    <3>2. \A e \in queue' \cup inHand' : e \in queue \cup inHand
      BY <1>2, <2>1 DEF QueueWithout
    <3>3. \A e \in queue \cup inHand : e.owner = o => e \in queue' \cup inHand'
      BY <1>2, <2>1 DEF QueueWithout
    <3> QED
      BY <3>1, <3>2, <3>3 DEF Transitions
  <2> QED
    BY <1>2, <2>1, <2>2 DEF TransitionsOwed, NoTransitionDropped
<1> QED
  BY <1>3, <1>4 DEF TransitionsOwed, NoTransitionDropped

\* A new lease is owed nothing: an event in hand of the owner's earlier lease has
\* an older generation, and the queue has no event of an owner without a lease.
LEMMA OwedAcquire ==
  ASSUME IInv, TransitionsOwed, NEW o \in Owners, AcquireNew(o)
  PROVE  TransitionsOwed'
<1>1. /\ lease' = [lease EXCEPT ![o] = generation + 1]
      /\ UNCHANGED <<queue, inHand, owed>> /\ o \notin Live
  BY DEF AcquireNew
<1>2. lease \in [Owners -> Nat] /\ generation \in Nat
  BY DEF IInv, TypeOK
<1>3. Live' = Live \cup {o}
  BY <1>1, <1>2 DEF Live
<1>4. \A e \in queue \cup inHand : e.owner \in Owners /\ e.generation \in Nat \ {0}
                                   /\ e.generation <= generation
  BY DEF IInv, TypeOK, Entries, Numbered
<1>5. Transitions(o)' = {}
  <2>1. \A e \in queue \cup inHand : e.owner = o => lease'[e.owner] # e.generation
    BY <1>1, <1>2, <1>4
  <2> QED
    BY <1>1, <2>1 DEF Transitions, Current
<1>6. ASSUME NEW p \in Owners, p # o
      PROVE  Transitions(p)' = Transitions(p)
  <2>1. lease'[p] = lease[p]
    BY <1>1, <1>2, <1>6
  <2> QED
    BY <1>1, <2>1 DEF Transitions, Current
<1>7. ASSUME NEW p \in Live'
      PROVE  owed'[p] = Cardinality(Transitions(p)')
  <2>1. CASE p = o
    BY <1>1, <1>5, <2>1, FS_EmptySet DEF TransitionsOwed
  <2>2. CASE p # o
    <3>1. p \in Live /\ p \in Owners
      BY <1>3, <1>7, <2>2 DEF Live
    <3> QED
      BY <1>1, <1>6, <2>2, <3>1 DEF TransitionsOwed, NoTransitionDropped
  <2> QED
    BY <2>1, <2>2
<1> QED
  BY <1>1, <1>3, <1>7 DEF TransitionsOwed, NoTransitionDropped

\* An accepted transition adds one to the debt and one to the queue.
LEMMA OwedQueued ==
  ASSUME IInv, TransitionsOwed, NEW o \in Owners, NEW ev \in Events, SubmitQueued(o, ev)
  PROVE  TransitionsOwed'
<1> DEFINE x == [ticket |-> accepted + 1, seq |-> accepted + 1, owner |-> o,
                 generation |-> lease[o], event |-> ev]
<1>1. /\ UNCHANGED <<lease, inHand>> /\ queue' = queue \cup {x} /\ owed' = OwedAfter(o, ev)
      /\ o \in Live
  BY DEF SubmitQueued, MaySubmit
<1>2. owed \in [Owners -> Int] /\ lease \in [Owners -> Nat] /\ accepted \in Nat
  BY DEF IInv, TypeOK
<1>3. x \notin queue \cup inHand
  <2>1. \A e \in queue \cup inHand : e.ticket <= e.seq /\ e.seq <= accepted /\ e.ticket \in Nat
                                     /\ e.seq \in Nat
    BY DEF IInv, TypeOK, Numbered, Entries
  <2> QED
    BY <1>2, <2>1
<1>4. x.owner = o /\ x.generation = lease[o] /\ x.event = ev
  OBVIOUS
<1> HIDE DEF x
<1>5. Live' = Live
  BY <1>1 DEF Live
<1>6. ASSUME NEW p \in Owners, p # o \/ ev.kind # "transition"
      PROVE  Transitions(p)' = Transitions(p) /\ owed'[p] = owed[p]
  BY <1>1, <1>2, <1>4, <1>6 DEF Transitions, Current, OwedAfter
<1>7. ASSUME ev.kind = "transition", NEW p \in Live, p = o
      PROVE  owed'[p] = Cardinality(Transitions(p)')
  <2>1. Transitions(p)' = Transitions(p) \cup {x}
    BY <1>1, <1>4, <1>7 DEF Transitions, Current
  <2>2. x \notin Transitions(p)
    BY <1>3 DEF Transitions
  <2>3. Cardinality(Transitions(p)') = Cardinality(Transitions(p)) + 1
    BY <2>1, <2>2, TransitionsFinite, FS_AddElement
  <2>4. owed'[p] = owed[p] + 1
    BY <1>1, <1>2, <1>7 DEF OwedAfter
  <2> QED
    BY <2>3, <2>4 DEF TransitionsOwed, NoTransitionDropped
<1>8. ASSUME NEW p \in Live'
      PROVE  owed'[p] = Cardinality(Transitions(p)')
  <2>1. p \in Live /\ p \in Owners
    BY <1>5, <1>8 DEF Live
  <2>2. CASE p # o \/ ev.kind # "transition"
    BY <1>6, <2>1, <2>2 DEF TransitionsOwed, NoTransitionDropped
  <2>3. CASE p = o /\ ev.kind = "transition"
    BY <1>7, <2>1, <2>3
  <2> QED
    BY <2>2, <2>3
<1>9. \A p \in Owners : p \notin Live' => owed'[p] = 0
  BY <1>1, <1>5, <1>6 DEF TransitionsOwed
<1> QED
  BY <1>8, <1>9 DEF TransitionsOwed, NoTransitionDropped

\* What is coalesced is no transition, and absorbs none.
LEMMA OwedCoalesced ==
  ASSUME IInv, TransitionsOwed, NEW o \in Owners, NEW ev \in Events, SubmitCoalesced(o, ev)
  PROVE  TransitionsOwed'
<1> DEFINE l == LastOf(queue)
           x == Merged(l, ev)
<1>1. /\ UNCHANGED <<lease, inHand>> /\ queue' = (queue \ {l}) \cup {x}
      /\ owed' = OwedAfter(o, ev)
      /\ l.event.kind = ev.kind /\ ev.kind \in {"absolute", "relative", "scroll"}
  BY DEF SubmitCoalesced, Absorbs
<1>2. x.event = ev
  BY DEF Merged
<1> HIDE DEF l, x
<1>3. l.event.kind # "transition" /\ x.event.kind # "transition"
  BY <1>1, <1>2
<1>4. owed' = owed
  BY <1>1 DEF OwedAfter, IInv, TypeOK
<1>5. Live' = Live
  BY <1>1 DEF Live
<1>6. \A p \in Owners : Transitions(p)' = Transitions(p)
  <2> SUFFICES ASSUME NEW p \in Owners
               PROVE  Transitions(p)' = Transitions(p)
    OBVIOUS
  <2>1. {e \in queue' \cup inHand' : e.event.kind = "transition"}
          = {e \in queue \cup inHand : e.event.kind = "transition"}
    BY <1>1, <1>3
  <2> QED
    BY <1>1, <2>1 DEF Transitions, Current
<1> QED
  BY <1>4, <1>5, <1>6 DEF TransitionsOwed, NoTransitionDropped, Live

\* A stale event is of no live lease: nobody is owed it.
LEMMA OwedStale ==
  ASSUME IInv, TransitionsOwed, NEW e \in inHand, HandleStale(e)
  PROVE  TransitionsOwed'
<1>1. /\ UNCHANGED <<lease, queue, owed>> /\ inHand' = {} /\ ~Deliverable(e)
  BY DEF HandleStale
<1>2. inHand = {e}
  BY DEF IInv, OneInHand
<1>3. Live' = Live
  BY <1>1 DEF Live
<1>4. ASSUME NEW p \in Live
      PROVE  Transitions(p)' = Transitions(p)
  <2>1. ~closed /\ phase # "none"
    BY <1>4 DEF IInv, CloseOrder, HoldersLive
  <2>2. ~Current(e)
    BY <1>1, <2>1 DEF Deliverable
  <2> QED
    BY <1>1, <1>2, <2>2 DEF Transitions, Current
<1> QED
  BY <1>1, <1>3, <1>4 DEF TransitionsOwed, NoTransitionDropped

\* A handled transition leaves the hand and the debt together.
LEMMA OwedHandled ==
  ASSUME IInv, TransitionsOwed, NEW e \in inHand, Deliverable(e), Handled(e),
         UNCHANGED <<lease, queue>>
  PROVE  TransitionsOwed'
<1>1. inHand = {e} /\ inHand' = {} /\ owed' = OwedWithout(e) /\ Current(e)
  BY DEF IInv, OneInHand, Handled, Deliverable
<1>2. owed \in [Owners -> Int] /\ lease \in [Owners -> Nat] /\ e \in Entries
  BY DEF IInv, TypeOK
<1>3. Live' = Live /\ e.owner \in Live
  BY <1>1, <1>2 DEF Live, Entries, Current
<1>4. e \notin queue
  <2>1. e.ticket <= e.seq /\ e.ticket \in Nat /\ e.seq \in Nat
    BY <1>2 DEF IInv, Numbered, Entries
  <2>2. \A d \in queue : e.seq < d.ticket
    BY DEF IInv, QueueOrdered
  <2> QED
    BY <2>1, <2>2
<1>5. ASSUME NEW p \in Owners, p # e.owner \/ e.event.kind # "transition"
      PROVE  Transitions(p)' = Transitions(p) /\ owed'[p] = owed[p]
  BY <1>1, <1>2, <1>5 DEF Transitions, Current, OwedWithout
<1>6. ASSUME e.event.kind = "transition", NEW p \in Live, p = e.owner
      PROVE  owed'[p] = Cardinality(Transitions(p)')
  <2>1. Transitions(p)' = Transitions(p) \ {e} /\ e \in Transitions(p)
    BY <1>1, <1>4, <1>6 DEF Transitions, Current
  <2>2. Cardinality(Transitions(p)') = Cardinality(Transitions(p)) - 1
    BY <2>1, TransitionsFinite, FS_RemoveElement
  <2>3. owed'[p] = owed[p] - 1
    BY <1>1, <1>2, <1>6 DEF OwedWithout, Live
  <2> QED
    BY <2>2, <2>3 DEF TransitionsOwed, NoTransitionDropped
<1>7. ASSUME NEW p \in Live'
      PROVE  owed'[p] = Cardinality(Transitions(p)')
  <2>1. p \in Live /\ p \in Owners
    BY <1>3, <1>7 DEF Live
  <2>2. CASE p # e.owner \/ e.event.kind # "transition"
    BY <1>5, <2>1, <2>2 DEF TransitionsOwed, NoTransitionDropped
  <2>3. CASE p = e.owner /\ e.event.kind = "transition"
    BY <1>6, <2>1, <2>3
  <2> QED
    BY <2>2, <2>3
<1>8. \A p \in Owners : p \notin Live' => owed'[p] = 0
  BY <1>3, <1>5 DEF TransitionsOwed
<1> QED
  BY <1>7, <1>8 DEF TransitionsOwed, NoTransitionDropped

\* Popping moves an entry from the queue into the hand.
LEMMA OwedPop ==
  ASSUME IInv, TransitionsOwed, WorkerPop
  PROVE  TransitionsOwed'
<1> DEFINE f == FirstOf(queue)
<1>1. f \in queue
  BY FirstIsMin DEF IInv, TypeOK, WorkerPop
<1>2. queue' = queue \ {f} /\ inHand' = {f} /\ UNCHANGED <<lease, owed>>
  BY DEF WorkerPop
<1>3. inHand = {}
  BY DEF IInv, OneInHand, WorkerPop
<1> HIDE DEF f
<1>4. queue' \cup inHand' = queue \cup inHand
  BY <1>1, <1>2, <1>3
<1> QED
  BY <1>2, <1>4, OwedFrame

\* Every step of Next keeps the debt equal to what is on its way.
LEMMA OwedNext == IInv /\ TransitionsOwed /\ [Next]_vars => TransitionsOwed'
<1> SUFFICES ASSUME IInv, TransitionsOwed, [Next]_vars
             PROVE  TransitionsOwed'
  OBVIOUS
<1>0. TypeOK /\ Live \in SUBSET Owners
  BY DEF IInv, Live
<1>1. ASSUME NEW o \in Owners, Peer(o)
      PROVE  TransitionsOwed'
  <2>1. CASE AcquireAgain(o)
    BY <2>1, OwedFrame DEF AcquireAgain
  <2>2. CASE AcquireNew(o)
    BY <2>2, OwedAcquire
  <2>3. CASE Release(o)
    <3>1. {o} \in SUBSET Live /\ EndLeases({o}, {}) /\ {} \in SUBSET Notices /\ inHand' = inHand
      BY <2>3 DEF Release
    <3> QED
      BY <3>1, OwedEnds
  <2>4. ASSUME NEW ev \in Events, SubmitCoalesced(o, ev)
        PROVE  TransitionsOwed'
    BY <2>4, OwedCoalesced
  <2>5. ASSUME NEW ev \in Events, SubmitQueued(o, ev)
        PROVE  TransitionsOwed'
    BY <2>5, OwedQueued
  <2>6. ASSUME NEW ev \in Events, SubmitOverload(o, ev)
        PROVE  TransitionsOwed'
    <3>1. {o} \in SUBSET Live /\ EndLeases({o}, NoticesFor({o}, "submit")) /\ inHand' = inHand
      BY <2>6 DEF SubmitOverload, MaySubmit
    <3>2. NoticesFor({o}, "submit") \in SUBSET Notices
      BY <1>0, NoticesTyped
    <3> QED
      BY <3>1, <3>2, OwedEnds
  <2> QED
    BY <1>1, <2>1, <2>2, <2>3, <2>4, <2>5, <2>6 DEF Peer
<1>2. ASSUME NEW n \in notices, CallRevocation(n)
      PROVE  TransitionsOwed'
  BY <1>2, OwedFrame DEF CallRevocation
<1>3. CASE Worker
  <2>1. CASE WorkerWake \/ WorkerStop \/ WorkerEmpty
    BY <2>1, OwedFrame DEF WorkerWake, WorkerStop, WorkerEmpty
  <2>2. CASE WorkerPop
    BY <2>2, OwedPop
  <2>3. ASSUME NEW e \in inHand, HandleStale(e)
        PROVE  TransitionsOwed'
    BY <2>3, OwedStale
  <2>4. ASSUME NEW e \in inHand, HandleRepeat(e) \/ HandlePlain(e) \/ HandleTransition(e)
        PROVE  TransitionsOwed'
    <3>1. Deliverable(e) /\ Handled(e) /\ UNCHANGED <<lease, queue>>
      BY <2>4 DEF HandleRepeat, HandlePlain, HandleTransition
    <3> QED
      BY <3>1, OwedHandled
  <2>5. ASSUME NEW e \in inHand, HandleError(e)
        PROVE  TransitionsOwed'
    <3>1. Live \in SUBSET Live /\ EndLeases(Live, NoticesFor(Live, "worker"))
      BY <2>5 DEF HandleError, ErrorNotices
    <3>2. NoticesFor(Live, "worker") \in SUBSET Notices
      BY <1>0, NoticesTyped
    <3> QED
      BY <3>1, <3>2, OwedEnds
  <2> QED
    BY <1>3, <2>1, <2>2, <2>3, <2>4, <2>5 DEF Worker
<1>4. CASE Watcher
  <2>1. CASE WatchStart \/ WatchDone \/ WatchChange \/ WatchStop
    BY <2>1, OwedFrame DEF WatchStart, WatchDone, WatchChange, WatchStop, controllerVars
  <2>2. CASE WatchRevoke
    <3>1. Live \in SUBSET Live /\ EndLeases(Live, NoticesFor(Live, "watcher"))
      BY <2>2 DEF WatchRevoke
    <3>2. NoticesFor(Live, "watcher") \in SUBSET Notices
      BY <1>0, NoticesTyped
    <3> QED
      BY <3>1, <3>2, OwedEnds
  <2> QED
    BY <1>4, <2>1, <2>2 DEF Watcher
<1>5. CASE Portal
  <2>1. CASE Close
    <3>1. Live \in SUBSET Live /\ EndLeases(Live, {}) /\ {} \in SUBSET Notices
      BY <2>1 DEF Close
    <3> QED
      BY <3>1, OwedEnds
  <2>2. CASE ~Close
    <3>1. UNCHANGED <<lease, queue, inHand, owed>>
      BY <1>5, <2>2 DEF Portal, Attach, SetUnavailable, CloseSender, CloseReturn, CloseAgain,
                        controllerVars
    <3> QED
      BY <3>1, OwedFrame
  <2> QED
    BY <2>1, <2>2
<1>6. CASE Sender
  <2>1. UNCHANGED <<lease, queue, inHand, owed>>
    BY <1>6 DEF Sender, DeviceResumed, DevicePaused, SenderNotifies, SenderFails,
                SenderStops, controllerVars
  <2> QED
    BY <2>1, OwedFrame
<1>7. CASE UNCHANGED vars
  BY <1>7, OwedFrame DEF vars, controllerVars
<1> QED
  BY <1>1, <1>2, <1>3, <1>4, <1>5, <1>6, <1>7 DEF Next

\* No key or button transition accepted under a live lease is dropped or
\* duplicated between Submit and handleEvent, whatever is coalesced, revoked or
\* acquired again meanwhile.
THEOREM TransitionsKept == Spec => []NoTransitionDropped
<1>1. Init => TransitionsOwed
  <2> SUFFICES ASSUME Init
               PROVE  TransitionsOwed
    OBVIOUS
  <2>1. Live = {} /\ \A o \in Owners : owed[o] = 0
    BY DEF Init, Live
  <2> QED
    BY <2>1 DEF TransitionsOwed, NoTransitionDropped
<1>2. TransitionsOwed => NoTransitionDropped
  BY DEF TransitionsOwed
<1> QED
  BY <1>1, <1>2, OwedNext, InductiveInvariant, PTL DEF Spec

-----------------------------------------------------------------------------
(* No reset is hidden from watchSender.                                    *)

\* ResetsSeen with what it needs: the token also waits while watchSender revokes,
\* the reset count never falls behind the baseline, a watcher that has ended has
\* nothing left to watch, and a stopped sender grants no new lease.
WatcherKnows ==
  /\ PhantomIsRevoked
  /\ watch \in {"watching", "revoking"} /\ reset # baseline => changes
  /\ baseline <= reset
  /\ watch = "none" <=> phase = "none"
  /\ phase = "stopped" => devices = {}
  /\ watch = "revokingLast" => phase = "stopped"
  /\ watch = "exited" => Live = {} /\ (closed \/ phase = "stopped")

\* Without leases no code is counted as held.
LEMMA NoLeaseNoPhantom ==
  ASSUME IInv, Live = {}
  PROVE  Phantom = {}
<1> SUFFICES ASSUME NEW c \in Codes
             PROVE  counts[c] = 0
  BY DEF Phantom
<1>1. {o \in Owners : c \in held[o]} = {}
  BY DEF IInv, HoldersLive
<1> QED
  BY <1>1, FS_EmptySet DEF IInv, CountsMatchLeases

\* A step that leaves the sender and the watcher alone keeps WatcherKnows when it
\* makes no new phantom and no lease of an ended watcher.
LEMMA WatcherFrame ==
  ASSUME WatcherKnows,
         UNCHANGED <<watch, baseline, missed, reset, changes, phase, devices>>,
         closed => closed', Phantom' \subseteq Phantom,
         watch = "exited" => Live' = {}
  PROVE  WatcherKnows'
BY DEF WatcherKnows, PhantomIsRevoked

\* Ending leases makes no phantom: only a code whose count falls to zero is
\* released at the desktop.
LEMMA EndLeasesPhantom ==
  ASSUME IInv, NEW S \in SUBSET Live, NEW N \in SUBSET Notices, EndLeases(S, N)
  PROVE  Phantom' \subseteq Phantom
<1> SUFFICES ASSUME NEW c \in Codes, counts'[c] # 0, c \notin down'
             PROVE  counts[c] # 0 /\ c \notin down
  BY DEF Phantom
<1>1. counts'[c] = CountsWithout(S)[c] /\ down' = down \ ReleasedWith(S)
  BY DEF EndLeases
<1>2. c \notin ReleasedWith(S)
  BY <1>1 DEF ReleasedWith
<1>3. c \notin down
  BY <1>1, <1>2
<1>4. ASSUME counts[c] = 0
      PROVE  FALSE
  <2>1. counts'[c] \in Nat
    BY EndLeasesTypes DEF EndedTypes
  <2> DEFINE D == {o \in S : c \in held[o]}
  <2>2. CountsWithout(S)[c] = counts[c] - Cardinality(D)
    BY DEF CountsWithout
  <2>3. Cardinality(D) \in Nat
    <3>1. D \in SUBSET {o \in Owners : c \in held[o]}
      BY DEF Live
    <3> QED
      BY <3>1, HoldersFinite, FS_Subset, FS_CardinalityType
  <2> HIDE DEF D
  <2> QED
    BY <1>1, <1>4, <2>1, <2>2, <2>3
<1> QED
  BY <1>3, <1>4

\* A transition makes no phantom: a press that is counted first is down, and a
\* release that the desktop sees is the last.
LEMMA TransitionPhantom ==
  ASSUME IInv, NEW e \in inHand, HandleTransition(e)
  PROVE  Phantom' \subseteq Phantom
<1> DEFINE c == e.event.code
<1>1. IInv'
  BY HandleTransitionInv
<1>2. counts \in [Codes -> Nat] /\ counts' \in [Codes -> Nat] /\ down \subseteq Codes
  BY <1>1 DEF IInv, TypeOK
<1>3. /\ counts' = [counts EXCEPT ![c] = CountAfter(e)]
      /\ down' = IF ~NeedsSender(e) THEN down
                 ELSE IF e.event.pressed THEN down \cup {c} ELSE down \ {c}
      /\ NeedsSender(e) <=> counts[c] = (IF e.event.pressed THEN 0 ELSE 1)
  BY DEF HandleTransition, NeedsSender
<1>4. ASSUME NEW x \in Codes, x # c, counts'[x] # 0, x \notin down'
      PROVE  counts[x] # 0 /\ x \notin down
  BY <1>2, <1>3, <1>4
<1>5. ASSUME c \in Codes, counts'[c] # 0, c \notin down'
      PROVE  counts[c] # 0 /\ c \notin down
  <2>1. CASE e.event.pressed
    BY <1>2, <1>3, <1>5, <2>1
  <2>2. CASE ~e.event.pressed
    <3>1. counts'[c] = counts[c] - 1 /\ counts[c] \in Nat /\ counts'[c] \in Nat
      BY <1>2, <1>3, <1>5, <2>2 DEF CountAfter
    <3> QED
      BY <1>3, <1>5, <2>2, <3>1
  <2> QED
    BY <2>1, <2>2
<1> HIDE DEF c
<1> QED
  BY <1>4, <1>5 DEF Phantom

\* The goroutines of the peers and the worker, and the revocations, leave the
\* sender's status and the watcher alone.
LEMMA WatcherUndisturbed ==
  ASSUME IInv, WatcherKnows,
         \/ \E o \in Owners : Peer(o)
         \/ \E n \in notices : CallRevocation(n)
         \/ Worker \/ Close
  PROVE  WatcherKnows'
<1> DEFINE same == <<watch, baseline, missed, reset, changes, phase, devices>>
<1>0. TypeOK /\ Live \in SUBSET Owners
  BY DEF IInv, Live
<1>1. ASSUME NEW S \in SUBSET Live, NEW N \in SUBSET Notices, EndLeases(S, N),
             UNCHANGED same, closed => closed'
      PROVE  WatcherKnows'
  <2>1. Phantom' \subseteq Phantom
    BY <1>1, EndLeasesPhantom
  <2>2. Live' = Live \ S
    BY <1>1, EndLeasesTypes
  <2>3. watch = "exited" => Live' = {}
    BY <2>2 DEF WatcherKnows
  <2> QED
    BY <1>1, <2>1, <2>3, WatcherFrame
<1>2. ASSUME UNCHANGED <<lease, counts, down, closed>>, UNCHANGED same
      PROVE  WatcherKnows'
  <2>1. Phantom' = Phantom /\ Live' = Live
    BY <1>2 DEF Phantom, Live
  <2> QED
    BY <1>2, <2>1, WatcherFrame DEF WatcherKnows
<1>3. ASSUME NEW o \in Owners, Peer(o)
      PROVE  WatcherKnows'
  <2>1. CASE AcquireAgain(o)
    BY <1>2, <2>1 DEF AcquireAgain, senderVars, watchVars
  <2>2. CASE AcquireNew(o)
    <3>1. UNCHANGED <<counts, down, closed>> /\ UNCHANGED same /\ Ready /\ ~closed
      BY <2>2 DEF AcquireNew, MayAcquire, senderVars, watchVars
    <3>2. devices # {}
      BY <3>1, ConstantsAssumption DEF Ready, Capabilities
    <3>3. watch # "exited"
      BY <3>1, <3>2 DEF WatcherKnows
    <3>4. Phantom' = Phantom
      BY <3>1 DEF Phantom
    <3> QED
      BY <3>1, <3>3, <3>4, WatcherFrame
  <2>3. CASE Release(o)
    <3>1. {o} \in SUBSET Live /\ EndLeases({o}, {}) /\ {} \in SUBSET Notices
          /\ UNCHANGED same /\ closed' = closed
      BY <2>3 DEF Release, watchVars
    <3> QED
      BY <1>1, <3>1
  <2>4. ASSUME NEW ev \in Events, SubmitCoalesced(o, ev)
        PROVE  WatcherKnows'
    BY <1>2, <2>4 DEF SubmitCoalesced, senderVars, watchVars
  <2>5. ASSUME NEW ev \in Events, SubmitQueued(o, ev)
        PROVE  WatcherKnows'
    BY <1>2, <2>5 DEF SubmitQueued, senderVars, watchVars
  <2>6. ASSUME NEW ev \in Events, SubmitOverload(o, ev)
        PROVE  WatcherKnows'
    <3>1. {o} \in SUBSET Live /\ EndLeases({o}, NoticesFor({o}, "submit"))
          /\ UNCHANGED same /\ closed' = closed
      BY <2>6 DEF SubmitOverload, MaySubmit, watchVars
    <3>2. NoticesFor({o}, "submit") \in SUBSET Notices
      BY <1>0, NoticesTyped
    <3> QED
      BY <1>1, <3>1, <3>2
  <2> QED
    BY <1>3, <2>1, <2>2, <2>3, <2>4, <2>5, <2>6 DEF Peer
<1>4. ASSUME NEW n \in notices, CallRevocation(n)
      PROVE  WatcherKnows'
  BY <1>2, <1>4 DEF CallRevocation, senderVars, watchVars
<1>5. CASE Worker
  <2>1. CASE WorkerWake \/ WorkerStop \/ WorkerEmpty \/ WorkerPop
    BY <1>2, <2>1 DEF WorkerWake, WorkerStop, WorkerEmpty, WorkerPop, senderVars, watchVars
  <2>2. ASSUME NEW e \in inHand, HandleStale(e) \/ HandleRepeat(e) \/ HandlePlain(e)
        PROVE  WatcherKnows'
    BY <1>2, <2>2 DEF HandleStale, HandleRepeat, HandlePlain, senderVars, watchVars
  <2>3. ASSUME NEW e \in inHand, HandleTransition(e)
        PROVE  WatcherKnows'
    <3>1. UNCHANGED same /\ closed' = closed /\ lease' = lease
      BY <2>3 DEF HandleTransition, watchVars
    <3>2. Live' = Live
      BY <3>1 DEF Live
    <3>3. Phantom' \subseteq Phantom
      BY <2>3, TransitionPhantom
    <3> QED
      BY <3>1, <3>2, <3>3, WatcherFrame DEF WatcherKnows
  <2>4. ASSUME NEW e \in inHand, HandleError(e)
        PROVE  WatcherKnows'
    <3>1. Live \in SUBSET Live /\ EndLeases(Live, NoticesFor(Live, "worker"))
          /\ UNCHANGED same /\ closed' = closed
      BY <2>4 DEF HandleError, ErrorNotices, watchVars
    <3>2. NoticesFor(Live, "worker") \in SUBSET Notices
      BY <1>0, NoticesTyped
    <3> QED
      BY <1>1, <3>1, <3>2
  <2> QED
    BY <1>5, <2>1, <2>2, <2>3, <2>4 DEF Worker
<1>6. CASE Close
  <2>1. Live \in SUBSET Live /\ EndLeases(Live, {}) /\ {} \in SUBSET Notices
        /\ UNCHANGED same /\ (closed => closed')
    BY <1>6 DEF Close, watchVars
  <2> QED
    BY <1>1, <2>1
<1> QED
  BY <1>3, <1>4, <1>5, <1>6

\* The watcher's own steps: a status it reads is compared with the one before,
\* and what it finds ends every lease.
LEMMA WatcherSteps ==
  ASSUME IInv, WatcherKnows, Watcher
  PROVE  WatcherKnows'
<1>0. /\ baseline \in Nat /\ reset \in Nat
      /\ watch \in {"none", "starting", "watching", "revoking", "revokingLast", "exited"}
  BY DEF IInv, TypeOK
<1>1. CASE WatchStart
  <2>1. /\ watch = "starting" /\ watch' = "watching" /\ baseline' = reset /\ missed' = Phantom
        /\ UNCHANGED <<reset, changes, phase, devices, closed>> /\ Phantom' = Phantom
    BY <1>1 DEF WatchStart, controllerVars, senderVars, Phantom
  <2> QED
    BY <1>0, <2>1 DEF WatcherKnows, PhantomIsRevoked
<1>2. CASE WatchDone
  <2>1. /\ watch = "watching" /\ watch' = "revokingLast" /\ phase = "stopped"
        /\ UNCHANGED <<reset, changes, phase, devices, closed, baseline, missed>>
        /\ Phantom' = Phantom
    BY <1>2 DEF WatchDone, controllerVars, senderVars, Phantom
  <2> QED
    BY <1>0, <2>1 DEF WatcherKnows, PhantomIsRevoked
<1>3. CASE WatchChange
  <2>1. /\ watch = "watching" /\ baseline' = reset
        /\ watch' = IF MustRevoke THEN "revoking" ELSE "watching"
        /\ UNCHANGED <<reset, phase, devices, closed, missed>> /\ Phantom' = Phantom
    BY <1>3 DEF WatchChange, controllerVars, Phantom
  <2>2. Capabilities # {}
    BY ConstantsAssumption DEF Capabilities
  <2>3. (reset # baseline \/ phase = "stopped") => MustRevoke
    BY <2>2 DEF WatcherKnows, MustRevoke, Ready
  <2>4. PhantomIsRevoked'
    BY <2>1, <2>3 DEF WatcherKnows, PhantomIsRevoked
  <2> QED
    BY <1>0, <2>1, <2>4 DEF WatcherKnows
<1>4. CASE WatchStop
  <2>1. /\ watch = "watching" /\ watch' = "exited" /\ closed /\ lease' = lease
        /\ UNCHANGED <<reset, changes, phase, devices, closed, baseline, missed>>
        /\ Phantom' = Phantom
    BY <1>4 DEF WatchStop, controllerVars, senderVars, Phantom
  <2>2. Live = {} /\ Live' = {}
    BY <2>1 DEF IInv, CloseOrder, Live
  <2>3. Phantom' = {}
    BY <2>1, <2>2, NoLeaseNoPhantom
  <2> QED
    BY <1>0, <2>1, <2>2, <2>3 DEF WatcherKnows, PhantomIsRevoked
<1>5. CASE WatchRevoke
  <2>1. /\ watch \in {"revoking", "revokingLast"}
        /\ watch' = IF watch = "revoking" THEN "watching" ELSE "exited"
        /\ UNCHANGED <<reset, changes, phase, devices, closed, baseline>>
    BY <1>5 DEF WatchRevoke
  <2>2. Live' = {}
    <3>1. Live \in SUBSET Live /\ EndLeases(Live, NoticesFor(Live, "watcher"))
          /\ Live \in SUBSET Owners /\ TypeOK
      BY <1>5 DEF WatchRevoke, IInv, Live
    <3>2. NoticesFor(Live, "watcher") \in SUBSET Notices
      BY <3>1, NoticesTyped
    <3> QED
      BY <3>1, <3>2, EndLeasesTypes
  <2>3. IInv'
    BY <1>5, WatchRevokeInv
  <2>4. Phantom' = {}
    <3>1. \A c \in Codes : counts'[c] = Cardinality({o \in Owners : c \in held'[o]})
      BY <2>3 DEF IInv, CountsMatchLeases
    <3>2. \A c \in Codes : {o \in Owners : c \in held'[o]} = {}
      BY <2>2, <2>3 DEF IInv, HoldersLive
    <3> QED
      BY <3>1, <3>2, FS_EmptySet DEF Phantom
  <2>5. PhantomIsRevoked'
    BY <2>4 DEF PhantomIsRevoked
  <2> QED
    BY <1>0, <2>1, <2>2, <2>5 DEF WatcherKnows
<1> QED
  BY <1>1, <1>2, <1>3, <1>4, <1>5 DEF Watcher

\* The sender's goroutine: every reset is counted and leaves a token.
LEMMA WatcherSender ==
  ASSUME IInv, WatcherKnows, Sender
  PROVE  WatcherKnows'
<1>0. /\ baseline \in Nat /\ reset \in Nat
      /\ watch \in {"none", "starting", "watching", "revoking", "revokingLast", "exited"}
      /\ phase \in {"none", "running", "failing", "stopped"}
  BY DEF IInv, TypeOK
<1>1. /\ UNCHANGED <<watch, baseline, missed, closed, lease, counts>> /\ down' \subseteq down
      /\ changes' = TRUE /\ phase # "none" /\ phase # "stopped" /\ phase' # "none"
      /\ reset' \in {reset, reset + 1}
      /\ phase' = "stopped" => devices' = {}
      /\ down' = down \/ reset' = reset + 1 \/ phase' = "stopped"
  BY <1>0 DEF Sender, DeviceResumed, DevicePaused, SenderNotifies, SenderFails, SenderStops,
              controllerVars, watchVars
<1>2. Live' = Live
  BY <1>1 DEF Live
<1>3. watch \notin {"none", "revokingLast"}
  BY <1>1 DEF WatcherKnows
<1>4. PhantomIsRevoked'
  <2> SUFFICES ASSUME NEW c \in Phantom'
               PROVE  \/ watch \in {"starting", "revoking", "revokingLast"} \/ c \in missed
                      \/ watch = "watching" /\ (reset' # baseline \/ phase' = "stopped")
    BY <1>1 DEF PhantomIsRevoked
  <2>1. CASE c \in Phantom
    BY <1>0, <1>1, <2>1 DEF WatcherKnows, PhantomIsRevoked
  <2>2. CASE c \notin Phantom
    <3>1. down' # down /\ counts[c] # 0 /\ c \in Codes
      BY <1>1, <2>2 DEF Phantom
    <3>2. Live # {}
      BY <1>1, <2>2, <3>1, NoLeaseNoPhantom DEF Phantom, IInv, NoStuckCode
    <3>3. watch # "exited"
      BY <3>2 DEF WatcherKnows
    <3>4. watch = "watching" => reset' # baseline \/ phase' = "stopped"
      BY <1>0, <1>1, <3>1 DEF WatcherKnows
    <3> QED
      BY <1>0, <1>3, <3>3, <3>4
  <2> QED
    BY <2>1, <2>2
<1>5. baseline' <= reset'
  BY <1>0, <1>1 DEF WatcherKnows
<1>6. watch' = "exited" => Live' = {} /\ (closed' \/ phase' = "stopped")
  BY <1>1, <1>2 DEF WatcherKnows
<1> QED
  BY <1>1, <1>3, <1>4, <1>5, <1>6 DEF WatcherKnows

\* Every step of Next keeps what the watcher knows.
LEMMA WatcherNext == IInv /\ WatcherKnows /\ [Next]_vars => WatcherKnows'
<1> SUFFICES ASSUME IInv, WatcherKnows, [Next]_vars
             PROVE  WatcherKnows'
  OBVIOUS
<1>1. CASE Portal
  <2>1. ASSUME NEW auth, NEW usable, Attach(auth, usable)
        PROVE  WatcherKnows'
    <3>1. /\ watch' = "starting" /\ phase' = "running"
          /\ UNCHANGED <<baseline, reset>>
      BY <2>1 DEF Attach
    <3> QED
      BY <3>1 DEF WatcherKnows, PhantomIsRevoked
  <2>2. CASE Close
    BY <2>2, WatcherUndisturbed
  <2>3. ASSUME UNCHANGED <<watch, baseline, missed, reset, changes, phase, devices,
                           closed, lease, counts, down>>
        PROVE  WatcherKnows'
    <3>1. Phantom' = Phantom /\ Live' = Live
      BY <2>3 DEF Phantom, Live
    <3> QED
      BY <2>3, <3>1, WatcherFrame DEF WatcherKnows
  <2>4. ASSUME NEW auth, SetUnavailable(auth)
        PROVE  WatcherKnows'
    BY <2>3, <2>4 DEF SetUnavailable, senderVars, watchVars
  <2>5. CASE CloseSender \/ CloseReturn \/ CloseAgain
    BY <2>3, <2>5 DEF CloseSender, CloseReturn, CloseAgain, senderVars, watchVars, controllerVars
  <2> QED
    BY <1>1, <2>1, <2>2, <2>4, <2>5 DEF Portal
<1>2. CASE UNCHANGED vars
  <2>1. UNCHANGED <<watch, baseline, missed, reset, changes, phase, devices, closed>>
        /\ Phantom' = Phantom /\ Live' = Live
    BY <1>2 DEF vars, controllerVars, senderVars, watchVars, Phantom, Live
  <2> QED
    BY <2>1, WatcherFrame DEF WatcherKnows
<1> QED
  BY <1>1, <1>2, WatcherUndisturbed, WatcherSteps, WatcherSender DEF Next

\* No reset is hidden from a watcher that has begun, and a lease with a code that
\* a reset has released is about to be revoked, unless the reset came before the
\* watcher's first read (watchSender, reset).
THEOREM ResetsAreSeen == Spec => []ResetsSeen
<1>1. Init => WatcherKnows
  BY DEF Init, WatcherKnows, PhantomIsRevoked, Phantom
<1>2. WatcherKnows => ResetsSeen
  BY DEF WatcherKnows, ResetsSeen, NoResetUnseen
<1> QED
  BY <1>1, <1>2, WatcherNext, InductiveInvariant, PTL DEF Spec

=============================================================================
