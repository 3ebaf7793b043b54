-------------------------- MODULE InputRefinement --------------------------
(***************************************************************************)
(* InputController implements LeaseTable: the variables of the table are   *)
(* the controller's own, and every step of the controller is a step of the *)
(* table or leaves the table alone.                                        *)
(***************************************************************************)
EXTENDS InputControllerProofs

\* Steps that leave the table alone.
TableKept == UNCHANGED <<closed, generation, lease, revoke, notices>>

\* The controller starts with the empty table.
LEMMA TableInit == Init => Table!Init
  BY DEF Init, Table!Init

\* Ending the leases of S and calling their owners is a revocation.
LEMMA EndIsRevoke ==
  ASSUME NEW S \in SUBSET Live, NEW who \in {"submit", "worker", "watcher"},
         EndLeases(S, NoticesFor(S, who)), UNCHANGED <<closed, generation>>
  PROVE  Table!Next
<1>1. Live = Table!Holders
  BY DEF Live, Table!Holders
<1>2. Table!Revoke(S, who)
  BY <1>1 DEF EndLeases, NoticesFor, Table!Revoke, Table!EndLeases, Table!Due
<1> QED
  BY <1>1, <1>2 DEF Table!Next

\* The calls of a peer are steps of the table.
LEMMA PeerRefines ==
  ASSUME IInv, NEW o \in Owners, Peer(o)
  PROVE  Table!Next \/ TableKept
<1>0. Live = Table!Holders /\ calls \in Nat /\ MaxCalls \in Nat /\ lease \in [Owners -> Nat]
  BY ConstantsAssumption DEF Live, Table!Holders, IInv, TypeOK
<1>1. ASSUME AcquireAgain(o)
      PROVE  Table!Next
  <2>1. Table!Regrant(o, calls + 1)
    BY <1>0, <1>1 DEF AcquireAgain, MayAcquire, Table!Regrant
  <2>2. calls + 1 \in 1 .. MaxCalls
    BY <1>0, <1>1 DEF AcquireAgain
  <2> QED
    BY <2>1, <2>2 DEF Table!Next
<1>2. ASSUME AcquireNew(o)
      PROVE  Table!Next
  <2>1. Table!Grant(o, calls + 1)
    BY <1>0, <1>2 DEF AcquireNew, MayAcquire, LockFree, Table!Grant
  <2>2. calls + 1 \in 1 .. MaxCalls
    BY <1>0, <1>2 DEF AcquireNew
  <2> QED
    BY <2>1, <2>2 DEF Table!Next
<1>3. ASSUME Release(o)
      PROVE  Table!Next
  <2>1. Table!Drop(o)
    BY <1>0, <1>3 DEF Release, EndLeases, Table!Drop, Table!EndLeases
  <2> QED
    BY <2>1 DEF Table!Next
<1>4. ASSUME NEW ev \in Events, SubmitCoalesced(o, ev) \/ SubmitQueued(o, ev)
      PROVE  TableKept
  BY <1>4 DEF SubmitCoalesced, SubmitQueued, TableKept
<1>5. ASSUME NEW ev \in Events, SubmitOverload(o, ev)
      PROVE  Table!Next
  <2>1. {o} \in SUBSET Live /\ EndLeases({o}, NoticesFor({o}, "submit"))
    BY <1>5 DEF SubmitOverload, MaySubmit
  <2> QED
    BY <1>5, <2>1, EndIsRevoke DEF SubmitOverload
<1> QED
  BY <1>1, <1>2, <1>3, <1>4, <1>5 DEF Peer

\* The steps of the worker and of the watcher are steps of the table.
LEMMA GoroutinesRefine ==
  ASSUME IInv, Worker \/ Watcher
  PROVE  Table!Next \/ TableKept
<1>1. ASSUME NEW e \in inHand, HandleError(e)
      PROVE  Table!Next
  <2>1. EndLeases(Live, NoticesFor(Live, "worker"))
    BY <1>1 DEF HandleError, ErrorNotices
  <2> QED
    BY <1>1, <2>1, EndIsRevoke DEF HandleError
<1>2. ASSUME WatchRevoke
      PROVE  Table!Next
  BY <1>2, EndIsRevoke DEF WatchRevoke
<1>3. CASE Worker
  BY <1>1, <1>3 DEF Worker, WorkerWake, WorkerStop, WorkerEmpty, WorkerPop, HandleStale,
                    HandleRepeat, HandleTransition, HandlePlain, TableKept
<1>4. CASE Watcher
  BY <1>2, <1>4 DEF Watcher, WatchStart, WatchDone, WatchChange, WatchStop,
                    controllerVars, TableKept
<1> QED
  BY <1>3, <1>4

\* The steps of the portal and of the sender are steps of the table.
LEMMA PortalRefines ==
  ASSUME IInv, Portal \/ Sender
  PROVE  Table!Next \/ TableKept
<1>1. ASSUME Close
      PROVE  Table!Next
  <2>1. ~closed /\ Live = Table!Holders
    BY <1>1 DEF Close, IInv, CloseOrder, Live, Table!Holders
  <2>2. lease' = [o \in Owners |-> IF o \in Live THEN 0 ELSE lease[o]]
        /\ revoke' = [o \in Owners |-> IF o \in Live THEN 0 ELSE revoke[o]]
    BY <1>1 DEF Close, EndLeases
  <2>3. Table!Shut
    BY <1>1, <2>1, <2>2 DEF Close, EndLeases, Table!Shut, Table!EndLeases
  <2> QED
    BY <2>3 DEF Table!Next
<1>2. CASE Portal
  BY <1>1, <1>2 DEF Portal, Attach, SetUnavailable, CloseSender, CloseReturn, CloseAgain,
                    controllerVars, TableKept
<1>3. CASE Sender
  BY <1>3 DEF Sender, DeviceResumed, DevicePaused, SenderNotifies, SenderFails,
              SenderStops, controllerVars, TableKept
<1> QED
  BY <1>2, <1>3

\* Every step of the controller is a step of the table or leaves it alone.
LEMMA TableStep == IInv /\ [Next]_vars => [Table!Next]_(Table!tableVars)
<1> SUFFICES ASSUME IInv, [Next]_vars
             PROVE  Table!Next \/ TableKept
  BY DEF TableKept, Table!tableVars
<1>1. CASE \E o \in Owners : Peer(o)
  BY <1>1, PeerRefines
<1>2. ASSUME NEW n \in notices, CallRevocation(n)
      PROVE  Table!Next
  <2>1. Table!Call(n)
    BY <1>2 DEF CallRevocation, Table!Call
  <2> QED
    BY <2>1 DEF Table!Next
<1>3. CASE Worker \/ Watcher
  BY <1>3, GoroutinesRefine
<1>4. CASE Portal \/ Sender
  BY <1>4, PortalRefines
<1>5. CASE UNCHANGED vars
  BY <1>5 DEF vars, controllerVars, TableKept
<1> QED
  BY <1>1, <1>2, <1>3, <1>4, <1>5 DEF Next

\* The controller implements the lease table, for any owners, codes, queue
\* size and bounds, with and without locking.
THEOREM Refinement == Spec => ImplementsTable
  BY TableInit, TableStep, InductiveInvariant, PTL DEF Spec, ImplementsTable, Table!Spec
=============================================================================
