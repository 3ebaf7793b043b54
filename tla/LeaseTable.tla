----------------------------- MODULE LeaseTable -----------------------------
(***************************************************************************)
(* What input.Controller promises to its callers about leases, without the *)
(* queue, the worker, the sender and the held keys behind it: who has a    *)
(* lease, how a lease ends, and which revocation callback that makes due.  *)
(* InputController implements it; PeerInput is built on it.                *)
(***************************************************************************)
EXTENDS Integers

CONSTANTS
  Owners,    \* peer ids that acquire input
  Locking,   \* cfg.Locking
  Calls,     \* the callbacks that Acquire calls pass
  NoCall,    \* no callback
  Callers    \* the goroutines that run callbacks

VARIABLES
  closed,      \* Controller.closed
  generation,  \* Controller.generation
  lease,       \* owners[o].generation, 0 when owners has no entry for o
  revoke,      \* owners[o].revoke, NoCall when owners has no entry for o
  notices      \* revocation callbacks that are due but have not run yet

tableVars == <<closed, generation, lease, revoke, notices>>

Holders == {o \in Owners : lease[o] # 0}

\* The entries of S are deleted.
EndLeases(S) ==
  /\ lease'  = [o \in Owners |-> IF o \in S THEN 0 ELSE lease[o]]
  /\ revoke' = [o \in Owners |-> IF o \in S THEN NoCall ELSE revoke[o]]

Due(S, caller) == {[caller |-> caller, owner |-> o, revoke |-> revoke[o]] : o \in S}

Init ==
  /\ closed = FALSE /\ generation = 0 /\ notices = {}
  /\ lease  = [o \in Owners |-> 0]
  /\ revoke = [o \in Owners |-> NoCall]

\* Acquire gives an owner without a lease a new one, unless locking is on and
\* somebody has one.  Acquire may always be refused, which changes nothing.
Grant(o, call) ==
  /\ ~closed /\ o \notin Holders /\ (Locking => Holders = {})
  /\ generation' = generation + 1
  /\ lease'  = [lease EXCEPT ![o] = generation + 1]
  /\ revoke' = [revoke EXCEPT ![o] = call]
  /\ UNCHANGED <<closed, notices>>

\* Acquire by an owner that has a lease replaces its callback.
Regrant(o, call) ==
  /\ ~closed /\ o \in Holders
  /\ revoke' = [revoke EXCEPT ![o] = call]
  /\ UNCHANGED <<closed, generation, lease, notices>>

\* Release ends the owner's lease and calls nobody.
Drop(o) ==
  /\ o \in Holders
  /\ EndLeases({o})
  /\ UNCHANGED <<closed, generation, notices>>

\* An overload, an error of the sender or the loss of its devices ends leases
\* and makes the latest callback of each due.
Revoke(S, caller) ==
  /\ S \subseteq Holders
  /\ EndLeases(S)
  /\ notices' = notices \cup Due(S, caller)
  /\ UNCHANGED <<closed, generation>>

\* Close ends every lease and calls nobody.
Shut ==
  /\ ~closed
  /\ closed' = TRUE /\ EndLeases(Holders)
  /\ UNCHANGED <<generation, notices>>

\* A callback runs, once.
Call(n) ==
  /\ n \in notices
  /\ notices' = notices \ {n}
  /\ UNCHANGED <<closed, generation, lease, revoke>>

Next ==
  \/ \E o \in Owners : Drop(o) \/ \E call \in Calls : Grant(o, call) \/ Regrant(o, call)
  \/ \E S \in SUBSET Holders, caller \in Callers : Revoke(S, caller)
  \/ \E n \in notices : Call(n)
  \/ Shut

Spec == Init /\ [][Next]_tableVars
=============================================================================
