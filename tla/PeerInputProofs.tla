--------------------------- MODULE PeerInputProofs ---------------------------
(***************************************************************************)
(* The lease of a peer against its channels, its requests and its end: the *)
(* inductive invariant of PeerInput, for any number of channels, requests, *)
(* ends and target events.                                                 *)
(***************************************************************************)
EXTENDS PeerInput, TLAPS

\* The goroutines are different from each other.
LEMMA ActorsDiffer ==
  /\ Setter \in Actors /\ Closer \in Actors /\ Loop \in Actors
  /\ Setter # Closer /\ Setter # Loop /\ Closer # Loop
  /\ \A c \in Controls : /\ Handler(c) \in Actors /\ Handler(c) \notin Channels
                         /\ Handler(c) # Setter /\ Handler(c) # Closer /\ Handler(c) # Loop
                         /\ \A d \in Controls : Handler(c) = Handler(d) => c = d
  /\ \A ch \in Channels : /\ ch \in Actors /\ ch # Setter /\ ch # Closer /\ ch # Loop
BY DEF Setter, Closer, Loop, Handler, Actors, Channels, Controls

\* What is left of giving the lease up before the lease is released.
Waiting == {"close", "bump", "release"}

\* What one goroutine has left to do is replaced.
LEMMA OneTodo ==
  ASSUME TypeOK, NEW a \in Actors, NEW v, todo' = [todo EXCEPT ![a] = v]
  PROVE  /\ v \in {"close", "bump"} => Bumping'
         /\ v \in Waiting => Releasing'
         /\ todo[a] \notin {"close", "bump"} => (Bumping => Bumping')
         /\ todo[a] \notin Waiting => (Releasing => Releasing')
<1>1. todo \in [Actors -> {"nothing", "close", "bump", "release", "write"}]
  BY DEF TypeOK
<1>2. todo'[a] = v /\ \A b \in Actors : b # a => todo'[b] = todo[b]
  BY <1>1
<1> QED
  BY <1>2 DEF Bumping, Releasing, Waiting

-----------------------------------------------------------------------------
(* The lease generations that callbacks hold.                              *)

\* The lease generations that the controller has seen.
Seen == {revoke[Peer].lease} \cup {n.revoke.lease : n \in notices}

\* Handler c has acquired and has not looked yet, or has not even acquired.
Judging(c) == handler[c].pc \in {"lookControl", "lookInput"}
Bound(c) == handler[c].pc = "acquire" \/ Judging(c)

\* A step after which the controller has seen nothing new, and no handler has got
\* a new callback.
SeenKept == Seen' \subseteq Seen \cup {0}
HandlersKept ==
  \A c \in Controls : \/ handler'[c] = handler[c]
                      \/ /\ handler'[c].pc \notin {"acquire", "lookControl", "lookInput"}
                         /\ handler'[c].call \in {handler[c].call, NoCallback}

\* Callbacks stay fresh, and no generation comes from the future.
LEMMA CallsStay ==
  ASSUME IInv, TypeOK', SeenKept, HandlersKept, leaseGen' \in {leaseGen, leaseGen + 1}
  PROVE  Stamped' /\ CallIsFresh'
<1>1. /\ leaseGen \in Nat /\ leaseGen' \in Nat
      /\ \A c \in Controls : handler[c].call.lease \in Nat /\ handler'[c].call.lease \in Nat
      /\ revoke'[Peer].lease \in Nat /\ \A n \in notices' : n.revoke.lease \in Nat
      /\ revoke[Peer].lease \in Nat /\ \A n \in notices : n.revoke.lease \in Nat
  BY DEF IInv, TypeOK, Callbacks
<1>2. \A l \in Seen : l <= leaseGen
  BY DEF Seen, IInv, Stamped
<1>3. revoke'[Peer].lease \in Seen \cup {0} /\ \A n \in notices' : n.revoke.lease \in Seen \cup {0}
  BY DEF SeenKept, Seen
<1>4. \A c \in Controls : handler'[c].call.lease \in {handler[c].call.lease, 0}
  BY DEF HandlersKept, NoCallback, Callback
<1>5. Stamped'
  <2>1. revoke'[Peer].lease <= leaseGen' /\ \A n \in notices' : n.revoke.lease <= leaseGen'
    BY <1>1, <1>2, <1>3
  <2>2. \A c \in Controls : handler'[c].call.lease <= leaseGen'
    BY <1>1, <1>4 DEF IInv, Stamped
  <2> QED
    BY <2>1, <2>2 DEF Stamped
<1>6. CallIsFresh'
  <2> SUFFICES ASSUME NEW c \in Controls, handler'[c].pc = "acquire"
               PROVE  /\ revoke'[Peer].lease # handler'[c].call.lease
                      /\ \A n \in notices' : n.revoke.lease # handler'[c].call.lease
                      /\ \A d \in Controls : handler'[d].pc = "acquire" /\ d # c =>
                           handler'[d].call.lease # handler'[c].call.lease
                      /\ handler'[c].call.lease # 0
    BY DEF CallIsFresh
  <2>1. \A d \in Controls : handler'[d].pc = "acquire" => handler'[d] = handler[d]
    BY DEF HandlersKept
  <2>2. handler[c].call.lease \notin Seen /\ handler[c].call.lease # 0
    BY <2>1 DEF IInv, CallIsFresh, Seen
  <2>3. \A d \in Controls : handler'[d].pc = "acquire" /\ d # c =>
          handler'[d].call.lease # handler'[c].call.lease
    BY <2>1 DEF IInv, CallIsFresh
  <2> QED
    BY <1>3, <2>1, <2>2, <2>3
<1> QED
  BY <1>5, <1>6

\* Advancing the lease generation makes every stamp stale and leaves no callback of
\* the new generation.
LEMMA Advance ==
  ASSUME IInv, TypeOK', SeenKept, HandlersKept, leaseGen' = leaseGen + 1
  PROVE  Stamped' /\ CallIsFresh' /\ LossIsStamped' /\ DueMeansLost'
<1>1. Stamped' /\ CallIsFresh'
  BY CallsStay
<1>2. leaseGen \in Nat /\ \A l \in Seen \cup {0} : l \in Nat /\ l <= leaseGen
  BY DEF IInv, TypeOK, Stamped, Seen, Callbacks
<1>3. \A c \in Controls : handler[c].call.lease \in Nat /\ handler[c].call.lease <= leaseGen
  BY DEF IInv, TypeOK, Stamped, Callbacks
<1>4. \A c \in Controls : Stale(c)'
  BY <1>2, <1>3 DEF HandlersKept, NoCallback, Callback, Stale
<1>5. LossIsStamped'
  BY <1>4 DEF LossIsStamped
<1>6. \A n \in notices' : n.revoke.lease # leaseGen'
  BY <1>2 DEF SeenKept, Seen
<1> QED
  BY <1>1, <1>5, <1>6 DEF DueMeansLost

\* A step that loses nothing without a pending advance keeps LossIsStamped.
LEMMA Stay ==
  ASSUME IInv, TypeOK', SeenKept, HandlersKept, leaseGen' = leaseGen,
         Bumping => Bumping',
         input' = 0 \/ motion' = 0 \/ closing' =>
           input = 0 \/ motion = 0 \/ closing \/ Bumping',
         control' = 0 => control = 0 \/ Bumping'
  PROVE  Stamped' /\ CallIsFresh' /\ LossIsStamped'
<1>1. Stamped' /\ CallIsFresh'
  BY CallsStay
<1>2. \A c \in Controls : handler'[c].pc \in {"acquire", "lookControl", "lookInput"} =>
        handler'[c] = handler[c]
  BY DEF HandlersKept
<1>3. LossIsStamped'
  BY <1>2 DEF IInv, LossIsStamped, Stale
<1> QED
  BY <1>1, <1>3

\* The peer keeps the lease it has, and whoever is about to give it up still is.
LeaseWatched ==
  /\ lease'[Peer] = lease[Peer]
  /\ Releasing => Releasing'
  /\ \A c \in Controls : Judging(c) => handler'[c] = handler[c] \/ Releasing'

\* A lease that is due to be lost stays so.
LEMMA DueStays ==
  ASSUME IInv, leaseGen' = leaseGen,
         lease'[Peer] = 0 \/ (LeaseWatched /\ notices' \subseteq notices)
  PROVE  DueMeansLost'
<1>1. CASE lease'[Peer] = 0
  BY <1>1 DEF DueMeansLost
<1>2. CASE LeaseWatched /\ notices' \subseteq notices
  BY <1>2 DEF IInv, DueMeansLost, LeaseWatched, Judging, Stale
<1> QED
  BY <1>1, <1>2

\* A lease without its channels stays about to be released.
LEMMA NeedStays ==
  ASSUME IInv,
         lease'[Peer] = 0 \/ (LeaseWatched /\ (Complete => Complete' \/ Releasing'))
  PROVE  LeaseNeedsChannels'
<1>1. CASE lease'[Peer] = 0
  BY <1>1 DEF LeaseNeedsChannels
<1>2. CASE LeaseWatched /\ (Complete => Complete' \/ Releasing')
  <2> SUFFICES ASSUME lease[Peer] # 0
               PROVE  Complete' \/ Releasing' \/ Unjudged'
    BY <1>2 DEF LeaseNeedsChannels, LeaseWatched
  <2>1. CASE Complete \/ Releasing
    BY <1>2, <2>1 DEF LeaseWatched
  <2>2. CASE Unjudged
    BY <1>2, <2>2 DEF LeaseWatched, Unjudged, Judging
  <2> QED
    BY <2>1, <2>2 DEF IInv, LeaseNeedsChannels
<1> QED
  BY <1>1, <1>2
-----------------------------------------------------------------------------
(* The lease table.                                                        *)

TableTypes ==
  /\ closed \in BOOLEAN /\ generation \in Nat
  /\ lease \in [{Peer} -> Nat] /\ revoke \in [{Peer} -> Callbacks]
  /\ notices \subseteq [caller : {"controller"}, owner : {Peer}, revoke : Callbacks]

\* Release, a revocation and Close leave the peer without a lease; none shows the
\* controller a new callback.
LEMMA TableEnds ==
  ASSUME TypeOK,
         ReleaseLease \/ (lease[Peer] # 0 /\ Table!Revoke({Peer}, "controller")) \/ Table!Shut
  PROVE  TableTypes' /\ lease'[Peer] = 0 /\ SeenKept
<1> USE DEF Table!EndLeases, Table!Holders, NoCallback, Callback
<1>1. CASE UNCHANGED tableVars /\ lease[Peer] = 0
  BY <1>1 DEF tableVars, TypeOK, TableTypes, SeenKept, Seen
<1>2. CASE Table!Drop(Peer)
  BY <1>2 DEF Table!Drop, TypeOK, TableTypes, SeenKept, Seen, Callbacks
<1>3. CASE Table!Shut
  BY <1>3 DEF Table!Shut, TypeOK, TableTypes, SeenKept, Seen, Callbacks
<1>4. CASE Table!Revoke({Peer}, "controller")
  <2>1. notices' = notices \cup {[caller |-> "controller", owner |-> Peer, revoke |-> revoke[Peer]]}
    BY <1>4 DEF Table!Revoke, Table!Due
  <2>2. lease' = [o \in {Peer} |-> 0] /\ revoke' = [o \in {Peer} |-> NoCallback]
        /\ UNCHANGED <<closed, generation>>
    BY <1>4 DEF Table!Revoke
  <2> QED
    BY <2>1, <2>2 DEF TypeOK, TableTypes, SeenKept, Seen, Callbacks
<1> QED
  BY <1>1, <1>2, <1>3, <1>4 DEF ReleaseLease

\* A callback that runs changes no lease.
LEMMA TableCalls ==
  ASSUME TypeOK, NEW n \in notices, Table!Call(n)
  PROVE  TableTypes' /\ lease' = lease /\ notices' \subseteq notices /\ SeenKept
BY DEF Table!Call, TypeOK, TableTypes, SeenKept, Seen

\* So does a step that leaves the table alone.
LEMMA TableStays ==
  ASSUME TypeOK, UNCHANGED tableVars
  PROVE  TableTypes' /\ lease' = lease /\ notices' \subseteq notices /\ SeenKept
BY DEF tableVars, TypeOK, TableTypes, SeenKept, Seen

\* A granted or replaced lease: the controller has seen the new callback as well.
LEMMA TableGrants ==
  ASSUME TypeOK, NEW call \in Callbacks,
         Table!Grant(Peer, call) \/ Table!Regrant(Peer, call)
  PROVE  TableTypes' /\ notices' = notices /\ revoke'[Peer] = call
BY DEF Table!Grant, Table!Regrant, Table!Holders, TypeOK, TableTypes

-----------------------------------------------------------------------------
(* The controller's side.                                                  *)

\* What the controller does on its own ends the lease.
LEMMA ControllerInv ==
  ASSUME IInv, ControllerRevokes \/ ControllerCloses
  PROVE  IInv'
<1>1. UNCHANGED <<peerVars, workVars>> /\ TypeOK
  BY DEF ControllerRevokes, ControllerCloses, IInv
<1>2. TableTypes' /\ lease'[Peer] = 0 /\ SeenKept
  BY TableEnds DEF ControllerRevokes, ControllerCloses, IInv
<1>3. TypeOK'
  BY <1>1, <1>2 DEF TypeOK, TableTypes, peerVars, workVars
<1>4. HandlersKept /\ (Bumping => Bumping') /\ OneThingAtATime'
  BY <1>1 DEF HandlersKept, Bumping, IInv, OneThingAtATime, workVars
<1>5. Stamped' /\ CallIsFresh' /\ LossIsStamped'
  BY <1>1, <1>2, <1>3, <1>4, Stay DEF peerVars
<1>6. DueMeansLost' /\ LeaseNeedsChannels'
  BY <1>2 DEF DueMeansLost, LeaseNeedsChannels
<1> QED
  BY <1>3, <1>4, <1>5, <1>6 DEF IInv

\* A late callback changes nothing of the peer.
LEMMA RevocationIgnoredInv ==
  ASSUME IInv, NEW n \in notices, RevocationIgnored(n)
  PROVE  IInv'
<1>1. UNCHANGED <<peerVars, workVars>> /\ TypeOK
  BY DEF RevocationIgnored, IInv
<1>2. TableTypes' /\ lease' = lease /\ notices' \subseteq notices /\ SeenKept
  BY TableCalls DEF RevocationIgnored, IInv
<1>3. TypeOK'
  BY <1>1, <1>2 DEF TypeOK, TableTypes, peerVars, workVars
<1>4. HandlersKept /\ (Bumping => Bumping') /\ OneThingAtATime'
  BY <1>1 DEF HandlersKept, Bumping, IInv, OneThingAtATime, workVars
<1>5. Stamped' /\ CallIsFresh' /\ LossIsStamped'
  BY <1>1, <1>2, <1>3, <1>4, Stay DEF peerVars
<1>6. LeaseWatched /\ (Complete => Complete')
  BY <1>1, <1>2 DEF LeaseWatched, Releasing, Complete, peerVars, workVars
<1>7. DueMeansLost' /\ LeaseNeedsChannels'
  BY <1>1, <1>2, <1>6, DueStays, NeedStays DEF peerVars
<1> QED
  BY <1>3, <1>4, <1>5, <1>7 DEF IInv

\* A callback that takes the channels away finds the lease lost.
LEMMA RevocationFindsLoss ==
  ASSUME IInv, NEW n \in notices, OnInputRevoked(n)
  PROVE  lease[Peer] = 0 \/ Unjudged \/ Releasing
<1>1. n.revoke.lease = leaseGen
  BY DEF OnInputRevoked, Concerns, Callback
<1> QED
  BY <1>1 DEF IInv, DueMeansLost, Unjudged

\* Taking the channels away advances the lease generation.
LEMMA OnInputRevokedInv ==
  ASSUME IInv, NEW n \in notices, OnInputRevoked(n)
  PROVE  IInv'
<1>1. /\ input' = 0 /\ motion' = 0 /\ inputGen' = inputGen + 1 /\ motionGen' = motionGen + 1
      /\ leaseGen' = leaseGen + 1
      /\ UNCHANGED <<closing, control, opened, ended, workVars>> /\ TypeOK
  BY DEF OnInputRevoked, IInv
<1>2. TableTypes' /\ lease' = lease /\ notices' \subseteq notices /\ SeenKept
  BY TableCalls DEF OnInputRevoked, IInv
<1>3. TypeOK'
  BY <1>1, <1>2 DEF TypeOK, TableTypes, workVars
<1>4. HandlersKept /\ OneThingAtATime'
  BY <1>1 DEF HandlersKept, IInv, OneThingAtATime, workVars
<1>5. Stamped' /\ CallIsFresh' /\ LossIsStamped' /\ DueMeansLost'
  BY <1>1, <1>2, <1>3, <1>4, Advance
<1>6. lease[Peer] = 0 \/ Unjudged \/ Releasing
  BY RevocationFindsLoss
<1>7. (Unjudged => Unjudged') /\ (Releasing => Releasing')
  BY <1>1 DEF Unjudged, Releasing, workVars
<1>8. LeaseNeedsChannels'
  BY <1>2, <1>6, <1>7 DEF LeaseNeedsChannels
<1> QED
  BY <1>3, <1>4, <1>5, <1>8 DEF IInv

-----------------------------------------------------------------------------
(* Giving the lease up, and closing.                                       *)

\* A step that leaves the table and the handlers alone and only adds to what is
\* about to be done, without an advance of the lease generation.
TodoStep ==
  /\ UNCHANGED tableVars /\ handler' = handler /\ leaseGen' = leaseGen
  /\ Bumping => Bumping'
  /\ Releasing => Releasing'
  /\ input' = 0 \/ motion' = 0 \/ closing' => input = 0 \/ motion = 0 \/ closing \/ Bumping'
  /\ control' = 0 => control = 0 \/ Bumping'
  /\ Complete => Complete' \/ Releasing'

\* Such a step keeps the invariant.
LEMMA TodoStepInv ==
  ASSUME IInv, TypeOK', OneThingAtATime', TodoStep
  PROVE  IInv'
<1>1. lease' = lease /\ notices' \subseteq notices /\ SeenKept
  BY TableStays DEF TodoStep, IInv
<1>2. HandlersKept /\ LeaseWatched
  BY <1>1 DEF HandlersKept, LeaseWatched, TodoStep
<1>3. Stamped' /\ CallIsFresh' /\ LossIsStamped'
  BY <1>1, <1>2, Stay DEF TodoStep
<1>4. DueMeansLost' /\ LeaseNeedsChannels'
  BY <1>1, <1>2, DueStays, NeedStays DEF TodoStep
<1> QED
  BY <1>3, <1>4 DEF IInv

\* Advancing the lease generation leaves the release to do.
LEMMA BumpInv ==
  ASSUME IInv, NEW a \in Actors, Bump(a)
  PROVE  IInv'
<1>1. /\ todo[a] = "bump" /\ leaseGen' = leaseGen + 1
      /\ todo' = [todo EXCEPT ![a] = "release"]
      /\ UNCHANGED <<tableVars, setter, handler, requests, ends, events>>
      /\ UNCHANGED <<closing, control, input, motion, inputGen, motionGen, opened, ended>>
      /\ TypeOK
  BY DEF Bump, IInv
<1>2. TableTypes' /\ lease' = lease /\ notices' \subseteq notices /\ SeenKept
  BY <1>1, TableStays
<1>3. TypeOK'
  BY <1>1, <1>2 DEF TypeOK, TableTypes
<1>4. HandlersKept /\ Releasing'
  BY <1>1, OneTodo DEF HandlersKept, Waiting
<1>5. OneThingAtATime'
  BY <1>1 DEF IInv, OneThingAtATime, TypeOK
<1>6. Stamped' /\ CallIsFresh' /\ LossIsStamped' /\ DueMeansLost'
  BY <1>1, <1>2, <1>3, <1>4, Advance
<1> QED
  BY <1>3, <1>4, <1>5, <1>6 DEF IInv, LeaseNeedsChannels

\* Releasing the lease leaves the peer without one.
LEMMA ReleaseStepInv ==
  ASSUME IInv, NEW a \in Actors, ReleaseStep(a)
  PROVE  IInv'
<1>1. /\ todo[a] = "release" /\ todo' = [todo EXCEPT ![a] = AfterRelease(a)]
      /\ setter' = IF a = Setter THEN "idle" ELSE setter
      /\ UNCHANGED <<peerVars, handler, requests, ends, events>> /\ TypeOK
  BY DEF ReleaseStep, IInv
<1>2. TableTypes' /\ lease'[Peer] = 0 /\ SeenKept
  BY TableEnds DEF ReleaseStep, IInv
<1>3. TypeOK'
  BY <1>1, <1>2 DEF TypeOK, TableTypes, peerVars, AfterRelease
<1>4. HandlersKept /\ (Bumping => Bumping')
  BY <1>1, OneTodo DEF HandlersKept
<1>5. OneThingAtATime'
  <2>1. a = Setter => todo'[Setter] = "nothing"
    BY <1>1, ActorsDiffer DEF TypeOK, AfterRelease
  <2>2. setter' = "idle" => todo'[Setter] = "nothing"
    BY <1>1, <2>1 DEF IInv, OneThingAtATime, TypeOK
  <2>3. \A c \in Controls : handler[c].pc # "idle" => Handler(c) # a
    BY <1>1 DEF IInv, OneThingAtATime
  <2>4. \A c \in Controls : handler[c].pc # "idle" => todo'[Handler(c)] = "nothing"
    BY <1>1, <2>3 DEF IInv, OneThingAtATime, TypeOK
  <2> QED
    BY <1>1, <2>2, <2>4 DEF IInv, OneThingAtATime
<1>6. Stamped' /\ CallIsFresh' /\ LossIsStamped'
  BY <1>1, <1>2, <1>3, <1>4, Stay DEF peerVars
<1>7. DueMeansLost' /\ LeaseNeedsChannels'
  BY <1>2 DEF DueMeansLost, LeaseNeedsChannels
<1> QED
  BY <1>3, <1>5, <1>6, <1>7 DEF IInv

\* A write is the last thing a goroutine does.
LEMMA WriteOkInv ==
  ASSUME IInv, NEW a \in Actors, WriteOk(a)
  PROVE  IInv'
<1>1. /\ todo[a] = "write" /\ todo' = [todo EXCEPT ![a] = "nothing"]
      /\ UNCHANGED <<tableVars, peerVars, setter, handler, requests, ends, events>> /\ TypeOK
  BY DEF WriteOk, IInv
<1>2. TypeOK'
  BY <1>1 DEF TypeOK, tableVars, peerVars
<1>3. OneThingAtATime'
  BY <1>1 DEF IInv, OneThingAtATime, TypeOK
<1>4. TodoStep
  BY <1>1, OneTodo DEF TodoStep, Waiting, peerVars, Complete
<1> QED
  BY <1>2, <1>3, <1>4, TodoStepInv

\* Closing: the first caller has the advance and the release still to do, the
\* others leave what there is.
LEMMA StartCloseStep ==
  ASSUME IInv, NEW after, StartClose(after),
         after = todo \/ (\E a \in Actors : /\ todo[a] \notin Waiting
                                            /\ after = [todo EXCEPT ![a] = "nothing"]),
         UNCHANGED tableVars, handler' = handler, UNCHANGED <<setter, requests, ends, events>>,
         UNCHANGED <<control, input, motion, inputGen, motionGen, leaseGen, opened, ended>>
  PROVE  IInv'
<1> DEFINE W == {"nothing", "close", "bump", "release", "write"}
<1>1. todo \in [Actors -> W] /\ after \in [Actors -> W] /\ TypeOK
  BY DEF IInv, TypeOK
<1>2. /\ closing' = TRUE
      /\ IF closing /\ todo[Closer] # "close" THEN todo' = after
         ELSE todo' = [after EXCEPT ![Closer] = "bump"]
  BY DEF StartClose
<1>3. todo' \in [Actors -> W]
  BY <1>1, <1>2
<1>4. TypeOK'
  BY <1>2, <1>3 DEF IInv, TypeOK, tableVars
<1>5. \A b \in Actors : \/ todo'[b] = todo[b]
                        \/ todo[b] \notin Waiting /\ todo'[b] = "nothing"
                        \/ b = Closer /\ todo'[b] = "bump"
  BY <1>1, <1>2, ActorsDiffer
<1>6. closing \/ todo'[Closer] = "bump"
  BY <1>1, <1>2, ActorsDiffer
<1>7. OneThingAtATime'
  BY <1>5, ActorsDiffer DEF IInv, OneThingAtATime
<1>8. (Bumping => Bumping') /\ (Releasing => Releasing')
  BY <1>5 DEF Bumping, Releasing, Waiting
<1>9. closing \/ (Bumping' /\ Releasing')
  BY <1>6, ActorsDiffer DEF Bumping, Releasing
<1>10. TodoStep
  BY <1>8, <1>9 DEF TodoStep, Complete
<1> QED
  BY <1>4, <1>7, <1>10, TodoStepInv

\* The steps that close the peer.
LEMMA ClosingInv ==
  ASSUME IInv, NEW a \in Actors, WriteFails(a) \/ Close \/ ServiceCloses(a)
  PROVE  IInv'
<1>1. /\ UNCHANGED tableVars /\ handler' = handler /\ UNCHANGED <<setter, requests, ends, events>>
      /\ UNCHANGED <<control, input, motion, inputGen, motionGen, leaseGen, opened, ended>>
  BY DEF WriteFails, Close, ServiceCloses
<1>2. CASE Close \/ ServiceCloses(a)
  BY <1>1, <1>2, StartCloseStep DEF Close, ServiceCloses
<1>3. CASE WriteFails(a)
  <2> DEFINE after == [todo EXCEPT ![a] = "nothing"]
  <2>1. StartClose(after) /\ todo[a] \notin Waiting
    BY <1>3 DEF WriteFails, Waiting
  <2>2. after = todo \/ (\E b \in Actors : /\ todo[b] \notin Waiting
                                           /\ after = [todo EXCEPT ![b] = "nothing"])
    BY <2>1
  <2> HIDE DEF after
  <2> QED
    BY <1>1, <2>1, <2>2, StartCloseStep
<1> QED
  BY <1>2, <1>3

\* Close of the service cancels the peer before it closes it.
LEMMA ServiceCancelsInv ==
  ASSUME IInv, ServiceCancels
  PROVE  IInv'
<1>1. /\ closing' = TRUE /\ todo' = [todo EXCEPT ![Closer] = "close"]
      /\ UNCHANGED <<tableVars, setter, handler, requests, ends, events>>
      /\ UNCHANGED <<control, input, motion, inputGen, motionGen, leaseGen, opened, ended>>
      /\ TypeOK
  BY DEF ServiceCancels, IInv
<1>2. TypeOK'
  BY <1>1 DEF TypeOK, tableVars
<1>3. Bumping' /\ Releasing'
  BY <1>1, OneTodo, ActorsDiffer DEF Waiting
<1>4. OneThingAtATime'
  BY <1>1, ActorsDiffer DEF IInv, OneThingAtATime, TypeOK
<1>5. TodoStep
  BY <1>1, <1>3 DEF TodoStep
<1> QED
  BY <1>2, <1>4, <1>5, TodoStepInv

\* The Run loop takes up a target event when it has nothing left to do.
LEMMA TargetEventInv ==
  ASSUME IInv, TargetEvent
  PROVE  IInv'
<1>1. /\ todo[Loop] = "nothing" /\ todo' = [todo EXCEPT ![Loop] = "bump"]
      /\ UNCHANGED <<tableVars, peerVars, setter, handler, requests, ends>>
      /\ events' = events + 1 /\ TypeOK
  BY DEF TargetEvent, IInv
<1>2. TypeOK'
  <2>1. todo' \in [Actors -> {"nothing", "close", "bump", "release", "write"}]
    BY <1>1 DEF TypeOK
  <2>2. TableTypes'
    BY <1>1, TableStays
  <2> QED
    BY <1>1, <2>1, <2>2 DEF TypeOK, TableTypes, peerVars
<1>3. Bumping' /\ Releasing'
  BY <1>1, OneTodo, ActorsDiffer DEF Waiting
<1>4. OneThingAtATime'
  BY <1>1, ActorsDiffer DEF IInv, OneThingAtATime, TypeOK
<1>5. TodoStep
  BY <1>1, <1>3 DEF TodoStep, peerVars
<1> QED
  BY <1>2, <1>4, <1>5, TodoStepInv

-----------------------------------------------------------------------------
(* Data channels.                                                          *)

\* A new control channel: the one it replaces takes the lease with it.
LEMMA SetControlInv ==
  ASSUME IInv, SetControlChannel
  PROVE  IInv'
<1> DEFINE v == IF control = 0 THEN "nothing" ELSE "bump"
<1>1. /\ setter = "idle" /\ control' = opened + 1 /\ opened' = opened + 1
      /\ setter' = IF control = 0 THEN "idle" ELSE "controlSet"
      /\ todo' = [todo EXCEPT ![Setter] = v]
      /\ UNCHANGED <<tableVars, handler, requests, ends, events>>
      /\ UNCHANGED <<closing, input, motion, inputGen, motionGen, leaseGen, ended>> /\ TypeOK
  BY DEF SetControlChannel, IInv
<1>2. todo[Setter] = "nothing"
  BY <1>1 DEF IInv, OneThingAtATime
<1>3. TypeOK'
  <2>1. todo' \in [Actors -> {"nothing", "close", "bump", "release", "write"}]
    BY <1>1 DEF TypeOK
  <2>2. TableTypes'
    BY <1>1, TableStays
  <2> QED
    BY <1>1, <2>1, <2>2 DEF TypeOK, TableTypes
<1>4. (Bumping => Bumping') /\ (Releasing => Releasing')
  BY <1>1, <1>2, OneTodo, ActorsDiffer DEF Waiting
<1>5. OneThingAtATime'
  <2>1. setter' = "idle" => todo'[Setter] = "nothing"
    BY <1>1, ActorsDiffer DEF TypeOK
  <2>2. \A c \in Controls : todo'[Handler(c)] = todo[Handler(c)]
    BY <1>1, ActorsDiffer DEF TypeOK
  <2> QED
    BY <1>1, <2>1, <2>2 DEF IInv, OneThingAtATime
<1>6. control' # 0
  BY <1>1 DEF TypeOK
<1>7. TodoStep
  BY <1>1, <1>4, <1>6 DEF TodoStep, Complete
<1> QED
  BY <1>3, <1>5, <1>7, TodoStepInv

\* A step of onDataChannel or of a cleanup that advances the lease generation: it
\* is about to release the lease when it has taken a channel away.
ChannelStep ==
  /\ UNCHANGED tableVars /\ handler' = handler /\ leaseGen' = leaseGen + 1
  /\ Releasing => Releasing'
  /\ Complete => Complete' \/ Releasing'

\* Such a step keeps the invariant: every stamp is stale after it.
LEMMA ChannelStepInv ==
  ASSUME IInv, TypeOK', OneThingAtATime', ChannelStep
  PROVE  IInv'
<1>1. lease' = lease /\ notices' \subseteq notices /\ SeenKept
  BY TableStays DEF ChannelStep, IInv
<1>2. HandlersKept /\ LeaseWatched
  BY <1>1 DEF HandlersKept, LeaseWatched, ChannelStep
<1>3. Stamped' /\ CallIsFresh' /\ LossIsStamped' /\ DueMeansLost'
  BY <1>1, <1>2, Advance DEF ChannelStep
<1>4. LeaseNeedsChannels'
  BY <1>2, NeedStays DEF ChannelStep
<1> QED
  BY <1>3, <1>4 DEF IInv

\* A new input channel, or a new input-motion channel.
LEMMA SetInputsInv ==
  ASSUME IInv, SetInputChannel \/ SetMotionChannel
  PROVE  IInv'
<1>1. /\ setter = "idle" /\ leaseGen' = leaseGen + 1 /\ TypeOK
      /\ UNCHANGED <<tableVars, handler, requests, ends, events>>
      /\ UNCHANGED <<closing, control, opened, ended>>
  BY DEF SetInputChannel, SetMotionChannel, IInv
<1>2. \/ /\ input' = inputGen + 1 /\ inputGen' = inputGen + 1 /\ UNCHANGED <<motion, motionGen>>
         /\ setter' = IF input = 0 THEN "idle" ELSE "inputSet"
         /\ todo' = [todo EXCEPT ![Setter] = IF input = 0 THEN "nothing" ELSE "release"]
      \/ /\ motion' = motionGen + 1 /\ motionGen' = motionGen + 1 /\ UNCHANGED <<input, inputGen>>
         /\ setter' = IF motion = 0 THEN "idle" ELSE "motionSet"
         /\ todo' = [todo EXCEPT ![Setter] = IF motion = 0 THEN "nothing" ELSE "release"]
  BY DEF SetInputChannel, SetMotionChannel
<1>3. TypeOK'
  BY <1>1, <1>2 DEF TypeOK, tableVars
<1>4. Releasing => Releasing'
  <2>1. todo[Setter] \notin Waiting
    BY <1>1 DEF IInv, OneThingAtATime, Waiting
  <2> QED
    BY <1>1, <1>2, <2>1, OneTodo, ActorsDiffer
<1>5. OneThingAtATime'
  <2>1. setter' = "idle" => todo'[Setter] = "nothing"
    BY <1>1, <1>2, ActorsDiffer DEF TypeOK
  <2>2. \A c \in Controls : todo'[Handler(c)] = todo[Handler(c)]
    BY <1>1, <1>2, ActorsDiffer DEF TypeOK
  <2> QED
    BY <1>1, <2>1, <2>2 DEF IInv, OneThingAtATime
<1>6. input' \in {input, inputGen + 1} /\ motion' \in {motion, motionGen + 1}
  BY <1>2
<1>7. Complete => Complete'
  BY <1>1, <1>6 DEF Complete, TypeOK
<1>8. ChannelStep
  BY <1>1, <1>4, <1>7 DEF ChannelStep
<1> QED
  BY <1>3, <1>5, <1>8, ChannelStepInv

\* A channel that ends only waits for its cleanup.
LEMMA ChannelEndsInv ==
  ASSUME IInv, NEW ch \in Channels, ChannelEnds(ch)
  PROVE  IInv'
<1>1. /\ ended' = ended \cup {ch} /\ ends' = ends + 1 /\ TypeOK
      /\ UNCHANGED <<tableVars, setter, handler, todo, requests, events>>
      /\ UNCHANGED <<closing, control, input, motion, inputGen, motionGen, leaseGen, opened>>
  BY DEF ChannelEnds, IInv
<1>2. TypeOK'
  BY <1>1 DEF TypeOK, tableVars
<1>3. OneThingAtATime' /\ (Bumping => Bumping') /\ (Releasing => Releasing')
  BY <1>1 DEF IInv, OneThingAtATime, Bumping, Releasing
<1>4. TodoStep
  BY <1>1, <1>3 DEF TodoStep, Complete
<1> QED
  BY <1>2, <1>3, <1>4, TodoStepInv

\* The cleanup of the current control channel has the advance still to do.
LEMMA CleanupControlInv ==
  ASSUME IInv, NEW ch \in Channels, CleanupControl(ch)
  PROVE  IInv'
<1>1. /\ control' = 0 /\ todo' = [todo EXCEPT ![ch] = "bump"] /\ TypeOK
      /\ UNCHANGED <<tableVars, setter, handler, requests, ends, events>>
      /\ ended' = ended \ {ch}
      /\ UNCHANGED <<closing, input, motion, inputGen, motionGen, leaseGen, opened>>
  BY DEF CleanupControl, AfterCleanup, IInv
<1>2. TypeOK'
  <2>1. todo' \in [Actors -> {"nothing", "close", "bump", "release", "write"}]
    BY <1>1 DEF TypeOK
  <2>2. TableTypes'
    BY <1>1, TableStays
  <2> QED
    BY <1>1, <2>1, <2>2 DEF TypeOK, TableTypes
<1>3. Bumping' /\ Releasing'
  BY <1>1, OneTodo, ActorsDiffer DEF Waiting
<1>4. OneThingAtATime'
  BY <1>1, ActorsDiffer DEF IInv, OneThingAtATime, TypeOK
<1>5. TodoStep
  BY <1>1, <1>3 DEF TodoStep
<1> QED
  BY <1>2, <1>4, <1>5, TodoStepInv

\* The cleanup of a current input channel has the release still to do.
LEMMA CleanupInputInv ==
  ASSUME IInv, NEW ch \in Channels, CleanupInput(ch)
  PROVE  IInv'
<1>1. /\ input' \in {0, input} /\ motion' \in {0, motion} /\ leaseGen' = leaseGen + 1
      /\ todo' = [todo EXCEPT ![ch] = "release"] /\ TypeOK
      /\ UNCHANGED <<tableVars, setter, handler, requests, ends, events>>
      /\ ended' = ended \ {ch}
      /\ UNCHANGED <<closing, control, inputGen, motionGen, opened>>
  BY DEF CleanupInput, AfterCleanup, IInv
<1>2. TypeOK'
  <2>1. todo' \in [Actors -> {"nothing", "close", "bump", "release", "write"}]
    BY <1>1 DEF TypeOK
  <2>2. TableTypes'
    BY <1>1, TableStays
  <2> QED
    BY <1>1, <2>1, <2>2 DEF TypeOK, TableTypes
<1>3. Releasing'
  BY <1>1, OneTodo, ActorsDiffer DEF Waiting
<1>4. OneThingAtATime'
  BY <1>1, ActorsDiffer DEF IInv, OneThingAtATime, TypeOK
<1>5. ChannelStep
  BY <1>1, <1>3 DEF ChannelStep
<1> QED
  BY <1>2, <1>4, <1>5, ChannelStepInv

-----------------------------------------------------------------------------
(* Requests.                                                               *)

Works == [pc : Pcs, input : Nat, motion : Nat, call : Callbacks]

\* A handler that goes on, or leaves with something to do, without a look at its
\* lease: no stamp is made, and only one that is judging has to leave the release.
HandlerStep(c) ==
  /\ handler \in [Controls -> Works] /\ handler' \in [Controls -> Works]
  /\ \A d \in Controls : d # c => handler'[d] = handler[d]
  /\ handler'[c].pc \notin {"acquire", "lookControl", "lookInput"}
  /\ handler'[c].call \in {handler[c].call, NoCallback}
  /\ \A a \in Actors : a # Handler(c) => todo'[a] = todo[a]
  /\ todo[Handler(c)] = "nothing"
  /\ handler'[c].pc # "idle" => todo'[Handler(c)] = "nothing"
  /\ handler'[c].pc = "stamp" => handler'[c].input # 0 /\ handler'[c].motion # 0
  /\ setter' = setter

\* Such a step keeps the calls and everything that others are about to do.
LEMMA HandlerStepKeeps ==
  ASSUME IInv, NEW c \in Controls, HandlerStep(c)
  PROVE  /\ HandlersKept /\ OneThingAtATime'
         /\ Bumping => Bumping'
         /\ Releasing => Releasing'
<1>1. HandlersKept
  BY DEF HandlerStep, HandlersKept
<1>2. OneThingAtATime'
  <2>1. setter' = "idle" => todo'[Setter] = "nothing"
    BY ActorsDiffer DEF HandlerStep, IInv, OneThingAtATime
  <2>2. \A d \in Controls : handler'[d].pc # "idle" => todo'[Handler(d)] = "nothing"
    BY ActorsDiffer DEF HandlerStep, IInv, OneThingAtATime
  <2>3. \A d \in Controls :
          handler'[d].pc = "stamp" => handler'[d].input # 0 /\ handler'[d].motion # 0
    BY DEF HandlerStep, IInv, OneThingAtATime
  <2> QED
    BY <2>1, <2>2, <2>3 DEF OneThingAtATime
<1>3. (Bumping => Bumping') /\ (Releasing => Releasing')
  <2>1. \A a \in Actors : todo[a] \in {"close", "bump", "release"} => todo'[a] = todo[a]
    BY DEF HandlerStep
  <2> QED
    BY <2>1 DEF Bumping, Releasing
<1> QED
  BY <1>1, <1>2, <1>3

\* A handler step that leaves the table and the peer alone, and leaves the release
\* to do if the handler was judging.
QuietHandler(c) ==
  /\ HandlerStep(c) /\ UNCHANGED <<tableVars, peerVars>>
  /\ Judging(c) => todo'[Handler(c)] = "bump"

\* Such a step keeps the invariant.
LEMMA QuietHandlerInv ==
  ASSUME IInv, TypeOK', NEW c \in Controls, QuietHandler(c)
  PROVE  IInv'
<1>1. HandlersKept /\ OneThingAtATime' /\ (Bumping => Bumping') /\ (Releasing => Releasing')
  BY HandlerStepKeeps DEF QuietHandler
<1>2. lease' = lease /\ notices' \subseteq notices /\ SeenKept
  BY TableStays DEF QuietHandler, IInv
<1>3. Judging(c) => Releasing'
  BY ActorsDiffer DEF QuietHandler, Releasing
<1>4. LeaseWatched
  BY <1>1, <1>2, <1>3 DEF LeaseWatched, QuietHandler, HandlerStep
<1>5. Complete => Complete'
  BY DEF Complete, QuietHandler, peerVars
<1>6. Stamped' /\ CallIsFresh' /\ LossIsStamped'
  BY <1>1, <1>2, Stay DEF QuietHandler, peerVars
<1>7. DueMeansLost' /\ LeaseNeedsChannels'
  BY <1>2, <1>4, <1>5, DueStays, NeedStays DEF QuietHandler, peerVars
<1> QED
  BY <1>1, <1>6, <1>7 DEF IInv

\* What Leaves does.
LEMMA LeavesStep ==
  ASSUME TypeOK, NEW c \in Controls, NEW rest \in {"nothing", "bump", "write"}, Leaves(c, rest),
         todo[Handler(c)] = "nothing", setter' = setter
  PROVE  /\ HandlerStep(c) /\ todo'[Handler(c)] = rest
         /\ handler' \in [Controls -> Works]
         /\ todo' \in [Actors -> {"nothing", "close", "bump", "release", "write"}]
<1>1. handler \in [Controls -> Works] /\ NoWork \in Works
  BY DEF TypeOK, Works, NoWork, NoCallback, Callback, Callbacks, Pcs
<1>2. /\ handler' = [handler EXCEPT ![c] = NoWork]
      /\ todo' = [todo EXCEPT ![Handler(c)] = rest]
  BY DEF Leaves
<1>3. todo \in [Actors -> {"nothing", "close", "bump", "release", "write"}] /\ Handler(c) \in Actors
  BY ActorsDiffer DEF TypeOK
<1>4. handler'[c] = NoWork /\ NoWork.pc = "idle" /\ NoWork.call = NoCallback
  BY <1>1, <1>2 DEF NoWork
<1>5. handler' \in [Controls -> Works] /\ \A d \in Controls : d # c => handler'[d] = handler[d]
  BY <1>1, <1>2
<1>6. /\ todo' \in [Actors -> {"nothing", "close", "bump", "release", "write"}]
      /\ todo'[Handler(c)] = rest
      /\ \A a \in Actors : a # Handler(c) => todo'[a] = todo[a]
  BY <1>2, <1>3
<1> QED
  BY <1>1, <1>4, <1>5, <1>6 DEF HandlerStep

\* What Goes does.
LEMMA GoesStep ==
  ASSUME TypeOK, NEW c \in Controls, NEW pc \in Pcs, Goes(c, pc), UNCHANGED <<todo, setter>>
  PROVE  /\ handler' \in [Controls -> Works] /\ handler'[c].pc = pc
         /\ handler'[c].input = handler[c].input /\ handler'[c].motion = handler[c].motion
         /\ handler'[c].call = handler[c].call
         /\ \A d \in Controls : d # c => handler'[d] = handler[d]
         /\ pc \notin {"stamp", "acquire", "lookControl", "lookInput"} /\ todo[Handler(c)] = "nothing" =>
              HandlerStep(c)
<1>1. handler \in [Controls -> Works]
  BY DEF TypeOK, Works
<1>2. handler' = [handler EXCEPT ![c].pc = pc]
  BY DEF Goes
<1>3. /\ handler' \in [Controls -> Works] /\ handler'[c] = [handler[c] EXCEPT !.pc = pc]
      /\ \A d \in Controls : d # c => handler'[d] = handler[d]
  BY <1>1, <1>2 DEF Works
<1>4. handler[c] \in Works
  BY <1>1
<1>5. /\ handler'[c].pc = pc /\ handler'[c].call = handler[c].call
      /\ handler'[c].input = handler[c].input /\ handler'[c].motion = handler[c].motion
  BY <1>3, <1>4 DEF Works
<1> QED
  BY <1>1, <1>3, <1>5 DEF HandlerStep

\* The steps in which a handler leaves what it does, but for a release of its own.
LEMMA HandlerLeavesInv ==
  ASSUME IInv, NEW c \in Controls, NEW rest \in {"nothing", "bump", "write"}, Leaves(c, rest),
         todo[Handler(c)] = "nothing", Judging(c) => rest = "bump",
         UNCHANGED <<tableVars, peerVars, setter, ends, events>>, requests' \in Nat
  PROVE  IInv'
<1>1. /\ HandlerStep(c) /\ todo'[Handler(c)] = rest
      /\ handler' \in [Controls -> Works]
      /\ todo' \in [Actors -> {"nothing", "close", "bump", "release", "write"}]
  BY LeavesStep DEF IInv
<1>2. TypeOK'
  BY <1>1 DEF IInv, TypeOK, Works, tableVars, peerVars
<1>3. QuietHandler(c)
  BY <1>1 DEF QuietHandler
<1> QED
  BY <1>2, <1>3, QuietHandlerInv

\* The steps in which a handler goes on to what needs no channels.
LEMMA HandlerGoesInv ==
  ASSUME IInv, NEW c \in Controls, NEW pc \in Pcs \ {"stamp", "acquire", "lookControl", "lookInput"},
         Goes(c, pc), todo[Handler(c)] = "nothing", ~Judging(c),
         UNCHANGED <<todo, tableVars, peerVars, setter, ends, events>>, requests' \in Nat
  PROVE  IInv'
<1>1. HandlerStep(c) /\ handler' \in [Controls -> Works]
  BY GoesStep DEF IInv
<1>2. TypeOK'
  BY <1>1 DEF IInv, TypeOK, Works, tableVars, peerVars
<1>3. QuietHandler(c)
  BY <1>1 DEF QuietHandler
<1> QED
  BY <1>2, <1>3, QuietHandlerInv

\* A request begins.
LEMMA RequestInv ==
  ASSUME IInv, NEW c \in Controls, Request(c)
  PROVE  IInv'
<1>1. /\ Idle(c) /\ UNCHANGED <<tableVars, peerVars, setter, ends, events>> /\ requests' \in Nat
  BY DEF Request, SelectTarget, AcquireBegin, ReleaseBegin, Begins, IInv, TypeOK
<1>2. todo[Handler(c)] = "nothing" /\ ~Judging(c)
  BY <1>1 DEF Idle, Judging
<1>3. CASE SelectTarget(c)
  BY <1>1, <1>2, <1>3, HandlerLeavesInv DEF SelectTarget
<1>4. CASE AcquireBegin(c)
  BY <1>1, <1>2, <1>4, HandlerGoesInv DEF AcquireBegin, Pcs
<1>5. CASE ReleaseBegin(c)
  BY <1>1, <1>2, <1>5, HandlerGoesInv DEF ReleaseBegin, Pcs
<1> QED
  BY <1>3, <1>4, <1>5 DEF Request

\* The steps in which a handler gives up, is refused or answers.
LEMMA HandlerEndsInv ==
  ASSUME IInv, NEW c \in Controls,
         \/ ChannelRequired(c) \/ AcquireSkipped(c) \/ AcquireFails(c)
         \/ GiveUp(c) \/ Answer(c)
  PROVE  IInv'
<1>1. /\ handler[c].pc \in {"read", "acquire", "answer"} /\ requests' \in Nat
      /\ UNCHANGED <<tableVars, peerVars, setter, ends, events>>
  BY DEF ChannelRequired, AcquireSkipped, AcquireFails, GiveUp, Answer, IInv, TypeOK
<1>2. todo[Handler(c)] = "nothing" /\ ~Judging(c)
  BY <1>1 DEF IInv, OneThingAtATime, Judging
<1>3. \E rest \in {"nothing", "bump", "write"} : Leaves(c, rest)
  BY DEF ChannelRequired, AcquireSkipped, AcquireFails, GiveUp, Answer
<1> QED
  BY <1>1, <1>2, <1>3, HandlerLeavesInv

\* Reading the channels goes on to the stamp.
LEMMA ReadChannelsInv ==
  ASSUME IInv, NEW c \in Controls, ReadChannels(c)
  PROVE  IInv'
<1>1. /\ handler[c].pc = "read" /\ TypeOK
      /\ handler' = [handler EXCEPT ![c].pc = "stamp", ![c].input = input, ![c].motion = motion]
      /\ UNCHANGED <<tableVars, peerVars, setter, todo, requests, ends, events>>
  BY DEF ReadChannels, IInv
<1>2. handler \in [Controls -> Works] /\ input \in Nat /\ motion \in Nat
  BY <1>1 DEF TypeOK, Works
<1>3. /\ handler' \in [Controls -> Works]
      /\ handler'[c].pc = "stamp" /\ handler'[c].call = handler[c].call
      /\ handler'[c].input = input /\ handler'[c].motion = motion
      /\ \A d \in Controls : d # c => handler'[d] = handler[d]
  BY <1>1, <1>2 DEF Works, Pcs
<1>4. todo[Handler(c)] = "nothing" /\ ~Judging(c)
  BY <1>1 DEF IInv, OneThingAtATime, Judging
<1>5. TypeOK'
  BY <1>1, <1>3 DEF TypeOK, Works, tableVars, peerVars
<1>6. HandlerStep(c)
  BY <1>1, <1>2, <1>3, <1>4 DEF HandlerStep, ReadChannels, BothOpen
<1>7. QuietHandler(c)
  BY <1>1, <1>4, <1>6 DEF QuietHandler
<1> QED
  BY <1>5, <1>7, QuietHandlerInv

\* input.release leaves the peer without a lease.
LEMMA ReleaseOwnInv ==
  ASSUME IInv, NEW c \in Controls, ReleaseOwn(c)
  PROVE  IInv'
<1>1. /\ handler[c].pc = "releaseOwn" /\ Leaves(c, "write") /\ TypeOK
      /\ UNCHANGED <<peerVars, setter, requests, ends, events>>
  BY DEF ReleaseOwn, IInv
<1>2. TableTypes' /\ lease'[Peer] = 0 /\ SeenKept
  BY TableEnds DEF ReleaseOwn, IInv
<1>3. todo[Handler(c)] = "nothing"
  BY <1>1 DEF IInv, OneThingAtATime
<1>4. /\ HandlerStep(c) /\ handler' \in [Controls -> Works]
      /\ todo' \in [Actors -> {"nothing", "close", "bump", "release", "write"}]
  BY <1>1, <1>3, LeavesStep
<1>5. TypeOK'
  BY <1>1, <1>2, <1>4 DEF TypeOK, TableTypes, Works, peerVars
<1>6. HandlersKept /\ OneThingAtATime' /\ (Bumping => Bumping')
  BY <1>4, HandlerStepKeeps
<1>7. Stamped' /\ CallIsFresh' /\ LossIsStamped'
  BY <1>1, <1>2, <1>5, <1>6, Stay DEF peerVars
<1>8. DueMeansLost' /\ LeaseNeedsChannels'
  BY <1>2 DEF DueMeansLost, LeaseNeedsChannels
<1> QED
  BY <1>5, <1>6, <1>7, <1>8 DEF IInv

\* An answer that cannot be written closes the peer.
LEMMA AnswerFailsInv ==
  ASSUME IInv, NEW c \in Controls, AnswerFails(c)
  PROVE  IInv'
<1> DEFINE W == {"nothing", "close", "bump", "release", "write"}
<1>1. /\ handler[c].pc = "answer" /\ handler' = [handler EXCEPT ![c] = NoWork]
      /\ closing' = TRUE /\ TypeOK
      /\ todo' = IF closing /\ todo[Closer] # "close" THEN todo
                 ELSE [todo EXCEPT ![Closer] = "bump"]
      /\ UNCHANGED <<tableVars, setter, requests, ends, events>>
      /\ UNCHANGED <<control, input, motion, inputGen, motionGen, leaseGen, opened, ended>>
  BY DEF AnswerFails, StartClose, IInv
<1>2. handler \in [Controls -> Works] /\ todo \in [Actors -> W]
  BY <1>1 DEF TypeOK, Works
<1>3. NoWork \in Works /\ NoWork.pc = "idle" /\ NoWork.call = NoCallback
  BY DEF Works, NoWork, NoCallback, Callback, Callbacks, Pcs
<1>4. /\ handler' \in [Controls -> Works] /\ handler'[c] = NoWork
      /\ \A d \in Controls : d # c => handler'[d] = handler[d]
  BY <1>1, <1>2, <1>3
<1>5. todo' \in [Actors -> W]
  BY <1>1, <1>2
<1>6. \A b \in Actors : todo'[b] = todo[b] \/ (b = Closer /\ todo'[b] = "bump")
  BY <1>1, <1>2
<1>7. closing \/ todo'[Closer] = "bump"
  BY <1>1, <1>2, ActorsDiffer
<1>8. TableTypes' /\ lease' = lease /\ notices' \subseteq notices /\ SeenKept
  BY <1>1, TableStays
<1>9. TypeOK'
  BY <1>1, <1>4, <1>5, <1>8 DEF TypeOK, TableTypes, Works
<1>10. HandlersKept
  BY <1>3, <1>4 DEF HandlersKept
<1>11. OneThingAtATime'
  BY <1>1, <1>3, <1>4, <1>6, ActorsDiffer DEF IInv, OneThingAtATime
<1>12. (Bumping => Bumping') /\ (Releasing => Releasing')
  BY <1>6 DEF Bumping, Releasing
<1>13. closing \/ (Bumping' /\ Releasing')
  BY <1>7, ActorsDiffer DEF Bumping, Releasing
<1>14. LeaseWatched
  BY <1>1, <1>4, <1>8, <1>12 DEF LeaseWatched, Judging
<1>15. Stamped' /\ CallIsFresh' /\ LossIsStamped'
  BY <1>1, <1>8, <1>9, <1>10, <1>12, <1>13, Stay
<1>16. DueMeansLost'
  BY <1>1, <1>8, <1>14, DueStays
<1>17. LeaseNeedsChannels'
  <2>1. Complete => Complete' \/ Releasing'
    BY <1>13 DEF Complete
  <2> QED
    BY <1>14, <2>1, NeedStays
<1> QED
  BY <1>9, <1>11, <1>15, <1>16, <1>17 DEF IInv

-----------------------------------------------------------------------------
(* The stamp, Acquire, and the two looks after it.                         *)

\* A stamp is the newest there is, and is made only while both channels are the
\* ones that were read and the peer is not closing.
LEMMA StampInv ==
  ASSUME IInv, NEW c \in Controls, Stamp(c)
  PROVE  IInv'
<1> DEFINE call == Callback(inputGen, motionGen, leaseGen + 1)
           ok == handler[c].input = input /\ handler[c].motion = motion /\ ~closing
           w == IF ok THEN [handler[c] EXCEPT !.pc = "acquire", !.call = call] ELSE NoWork
<1>1. /\ handler[c].pc = "stamp" /\ leaseGen' = leaseGen + 1 /\ TypeOK
      /\ UNCHANGED <<tableVars, setter, todo, requests, ends, events>>
      /\ UNCHANGED <<closing, control, input, motion, inputGen, motionGen, opened, ended>>
  BY DEF Stamp, IInv
<1>2. handler \in [Controls -> Works] /\ {leaseGen, inputGen, motionGen} \subseteq Nat
  BY <1>1 DEF TypeOK, Works
<1>3. call \in Callbacks /\ call.lease = leaseGen + 1
  BY <1>2 DEF Callbacks, Callback
<1>4. handler' = [handler EXCEPT ![c] = w]
  BY <1>2 DEF Stamp, Works
<1> HIDE DEF call
<1>5. CASE ~ok
  <2>1. handler' = [handler EXCEPT ![c] = NoWork]
    BY <1>4, <1>5
  <2>2. NoWork \in Works /\ NoWork.pc = "idle" /\ NoWork.call = NoCallback
    BY DEF Works, NoWork, NoCallback, Callback, Callbacks, Pcs
  <2>3. /\ handler' \in [Controls -> Works] /\ handler'[c] = NoWork
        /\ \A d \in Controls : d # c => handler'[d] = handler[d]
    BY <1>2, <2>1, <2>2
  <2>4. TableTypes' /\ lease' = lease /\ notices' \subseteq notices /\ SeenKept
    BY <1>1, TableStays
  <2>5. TypeOK'
    BY <1>1, <2>3, <2>4 DEF TypeOK, TableTypes, Works
  <2>6. HandlersKept /\ OneThingAtATime' /\ (Releasing => Releasing')
    BY <1>1, <2>2, <2>3 DEF HandlersKept, IInv, OneThingAtATime, Releasing
  <2>7. Stamped' /\ CallIsFresh' /\ LossIsStamped' /\ DueMeansLost'
    BY <1>1, <2>4, <2>5, <2>6, Advance
  <2>8. LeaseWatched /\ (Complete => Complete')
    BY <1>1, <2>3, <2>4, <2>6 DEF LeaseWatched, Judging, Complete
  <2>9. LeaseNeedsChannels'
    BY <2>8, NeedStays
  <2> QED
    BY <2>5, <2>6, <2>7, <2>9 DEF IInv
<1>6. CASE ok
  <2>1. /\ w \in Works /\ w.pc = "acquire" /\ w.call = call
        /\ handler' \in [Controls -> Works] /\ handler'[c] = w
        /\ \A d \in Controls : d # c => handler'[d] = handler[d]
    BY <1>2, <1>3, <1>4, <1>6 DEF Works, Pcs
  <2> HIDE DEF w
  <2>2. TableTypes' /\ UNCHANGED tableVars
    BY <1>1, TableStays
  <2>3. TypeOK'
    BY <1>1, <2>1, <2>2 DEF TypeOK, TableTypes, Works
  <2>4. /\ revoke[Peer].lease \in Nat /\ revoke[Peer].lease <= leaseGen
        /\ \A n \in notices : n.revoke.lease \in Nat /\ n.revoke.lease <= leaseGen
        /\ \A d \in Controls : handler[d].call.lease \in Nat /\ handler[d].call.lease <= leaseGen
    BY <1>1 DEF IInv, TypeOK, Stamped, Callbacks
  <2>5. revoke' = revoke /\ notices' = notices /\ lease' = lease
    BY <2>2 DEF tableVars
  <2>6. \A d \in Controls \ {c} : handler'[d] = handler[d] /\ handler'[d].call.lease <= leaseGen
    BY <2>1, <2>4
  <2>7. handler'[c].call.lease = leaseGen'
    BY <1>1, <1>3, <2>1
  <2>8. Stamped'
    <3>1. revoke'[Peer].lease <= leaseGen' /\ \A n \in notices' : n.revoke.lease <= leaseGen'
      BY <1>1, <1>2, <2>4, <2>5
    <3>2. \A d \in Controls : handler'[d].call.lease <= leaseGen'
      BY <1>1, <1>2, <2>1, <2>4, <2>7
    <3> QED
      BY <3>1, <3>2 DEF Stamped
  <2>9. CallIsFresh'
    <3> SUFFICES ASSUME NEW x \in Controls, handler'[x].pc = "acquire"
                 PROVE  /\ revoke'[Peer].lease # handler'[x].call.lease
                        /\ \A n \in notices' : n.revoke.lease # handler'[x].call.lease
                        /\ \A d \in Controls : handler'[d].pc = "acquire" /\ d # x =>
                             handler'[d].call.lease # handler'[x].call.lease
                        /\ handler'[x].call.lease # 0
      BY DEF CallIsFresh
    <3>1. CASE x = c
      BY <1>1, <1>2, <2>1, <2>4, <2>5, <2>7, <3>1
    <3>2. CASE x # c
      <4>1. handler[x].pc = "acquire" /\ handler'[x] = handler[x]
        BY <2>6, <3>2
      <4>2. /\ revoke[Peer].lease # handler[x].call.lease
            /\ \A n \in notices : n.revoke.lease # handler[x].call.lease
            /\ \A d \in Controls : handler[d].pc = "acquire" /\ d # x =>
                 handler[d].call.lease # handler[x].call.lease
            /\ handler[x].call.lease # 0
        BY <4>1 DEF IInv, CallIsFresh
      <4>3. handler'[c].call.lease # handler[x].call.lease
        BY <1>1, <1>2, <2>4, <2>7
      <4> QED
        BY <2>5, <2>6, <4>1, <4>2, <4>3
    <3> QED
      BY <3>1, <3>2
  <2>10. OneThingAtATime'
    BY <1>1, <2>1 DEF IInv, OneThingAtATime
  <2>11. \A d \in Controls \ {c} : Stale(d)'
    BY <1>1, <1>2, <2>4, <2>6 DEF Stale
  <2>12. LossIsStamped'
    <3>1. input' # 0 /\ motion' # 0 /\ ~closing'
      BY <1>1, <1>6 DEF IInv, OneThingAtATime
    <3>2. \A d \in Controls : handler'[d].pc = "lookInput" => Stale(d)'
      BY <2>1, <2>11
    <3> QED
      BY <3>1, <3>2 DEF LossIsStamped
  <2>13. DueMeansLost'
    <3>1. \A n \in notices' : n.revoke.lease # leaseGen'
      BY <1>1, <1>2, <2>4, <2>5
    <3> QED
      BY <3>1 DEF DueMeansLost
  <2>14. LeaseWatched /\ (Complete => Complete')
    BY <1>1, <2>1, <2>5 DEF LeaseWatched, Judging, Complete, Releasing
  <2>15. LeaseNeedsChannels'
    BY <2>14, NeedStays
  <2> QED
    BY <2>3, <2>8, <2>9, <2>10, <2>12, <2>13, <2>15 DEF IInv
<1> QED
  BY <1>5, <1>6

\* Acquire shows the controller the handler's callback, which was fresh, and the
\* handler has its looks still to make.
LEMMA AcquireInv ==
  ASSUME IInv, NEW c \in Controls, Acquire(c)
  PROVE  IInv'
<1> DEFINE call == handler[c].call
<1>1. /\ handler[c].pc = "acquire" /\ TypeOK /\ Goes(c, "lookControl")
      /\ UNCHANGED <<peerVars, setter, todo, requests, ends, events>>
      /\ Table!Grant(Peer, call) \/ Table!Regrant(Peer, call)
  BY DEF Acquire, IInv
<1>2. call \in Callbacks /\ "lookControl" \in Pcs
  BY <1>1 DEF TypeOK, Pcs
<1>3. TableTypes' /\ notices' = notices /\ revoke'[Peer] = call
  BY <1>1, <1>2, TableGrants
<1>4. /\ handler' \in [Controls -> Works] /\ handler'[c].pc = "lookControl"
      /\ handler'[c].call = call
      /\ \A d \in Controls : d # c => handler'[d] = handler[d]
  BY <1>1, <1>2, GoesStep
<1>5. TypeOK'
  BY <1>1, <1>3, <1>4 DEF TypeOK, TableTypes, Works, peerVars
<1>6. leaseGen' = leaseGen /\ \A d \in Controls : handler'[d].call = handler[d].call
  BY <1>1, <1>4 DEF peerVars
<1>7. Stamped'
  BY <1>3, <1>6 DEF IInv, Stamped
<1>8. \A d \in Controls : handler'[d].pc = "acquire" => d # c /\ handler[d].pc = "acquire"
  BY <1>4
<1>9. CallIsFresh'
  BY <1>1, <1>3, <1>6, <1>8 DEF IInv, CallIsFresh
<1>10. OneThingAtATime'
  BY <1>1, <1>4 DEF IInv, OneThingAtATime
<1>11. (Bumping' <=> Bumping) /\ (\A d \in Controls : Stale(d)' <=> Stale(d))
  BY <1>1, <1>6 DEF Bumping, Stale
<1>12. LossIsStamped'
  <2>1. UNCHANGED <<input, motion, closing, control>>
    BY <1>1 DEF peerVars
  <2>2. \A d \in Controls : handler'[d].pc \in {"acquire", "lookControl", "lookInput"} =>
                              handler[d].pc \in {"acquire", "lookControl", "lookInput"}
    BY <1>1, <1>4
  <2>3. \A d \in Controls : handler'[d].pc = "lookInput" => handler[d].pc = "lookInput"
    BY <1>4
  <2> QED
    BY <1>11, <2>1, <2>2, <2>3 DEF IInv, LossIsStamped
<1>13. Judging(c)'
  BY <1>4 DEF Judging
<1>14. DueMeansLost'
  <2> SUFFICES ASSUME NEW n \in notices', n.revoke.lease = leaseGen'
               PROVE  \E d \in Controls : Judging(d)' /\ Stale(d)'
    BY DEF DueMeansLost, Judging
  <2>1. n.revoke.lease # call.lease
    BY <1>1, <1>3 DEF IInv, CallIsFresh
  <2>2. Stale(c)'
    BY <1>4, <2>1 DEF Stale
  <2> QED
    BY <1>13, <2>2
<1>15. LeaseNeedsChannels'
  BY <1>13 DEF LeaseNeedsChannels, Unjudged, Judging
<1> QED
  BY <1>5, <1>7, <1>9, <1>10, <1>12, <1>14, <1>15 DEF IInv

\* The first look: the handler's control channel is still the current one.
LEMMA LookControlInv ==
  ASSUME IInv, NEW c \in Controls, LookControl(c)
  PROVE  IInv'
<1>1. /\ handler[c].pc = "lookControl" /\ TypeOK
      /\ UNCHANGED <<tableVars, peerVars, setter, requests, ends, events>>
  BY DEF LookControl, IInv
<1>2. todo[Handler(c)] = "nothing" /\ requests' \in Nat
  BY <1>1 DEF IInv, OneThingAtATime, TypeOK
<1>3. CASE control # c
  BY <1>1, <1>2, <1>3, HandlerLeavesInv DEF LookControl
<1>4. CASE control = c
  <2>1. Goes(c, "lookInput") /\ UNCHANGED todo /\ "lookInput" \in Pcs
    BY <1>4 DEF LookControl, Pcs
  <2>2. /\ handler' \in [Controls -> Works] /\ handler'[c].pc = "lookInput"
        /\ handler'[c].call = handler[c].call
        /\ \A d \in Controls : d # c => handler'[d] = handler[d]
    BY <1>1, <2>1, GoesStep
  <2>3. TypeOK'
    BY <1>1, <2>1, <2>2 DEF TypeOK, Works, tableVars, peerVars
  <2>4. UNCHANGED <<lease, revoke, notices, leaseGen, input, motion, closing, control>>
    BY <1>1 DEF tableVars, peerVars
  <2>5. /\ \A d \in Controls : handler'[d].call = handler[d].call
        /\ \A d \in Controls : handler'[d].pc = "acquire" => handler[d].pc = "acquire"
        /\ \A d \in Controls : Judging(d)' <=> Judging(d)
        /\ \A d \in Controls : Stale(d)' <=> Stale(d)
    BY <1>1, <2>2, <2>4 DEF Judging, Stale
  <2>6. Stamped' /\ CallIsFresh'
    BY <2>4, <2>5 DEF IInv, Stamped, CallIsFresh
  <2>7. OneThingAtATime'
    BY <1>1, <2>1, <2>2 DEF IInv, OneThingAtATime
  <2>8. (Bumping' <=> Bumping) /\ (Releasing' <=> Releasing)
    BY <2>1 DEF Bumping, Releasing
  <2>9. LossIsStamped'
    <3>1. control # 0
      BY <1>4 DEF Controls
    <3>2. \A d \in Controls : handler'[d].pc \in {"acquire", "lookControl", "lookInput"} =>
                                handler[d].pc \in {"acquire", "lookControl", "lookInput"}
      BY <1>1, <2>2
    <3> QED
      BY <2>4, <2>5, <2>8, <3>1, <3>2 DEF IInv, LossIsStamped
  <2>10. DueMeansLost'
    BY <2>4, <2>5, <2>8 DEF IInv, DueMeansLost, Judging
  <2>11. LeaseNeedsChannels'
    BY <2>4, <2>5, <2>8 DEF IInv, LeaseNeedsChannels, Complete, Unjudged, Judging
  <2> QED
    BY <2>3, <2>6, <2>7, <2>9, <2>10, <2>11 DEF IInv
<1> QED
  BY <1>3, <1>4

\* The second look: a stamp that is still current vouches for the channels.
LEMMA LookInputInv ==
  ASSUME IInv, NEW c \in Controls, LookInput(c)
  PROVE  IInv'
<1>1. /\ handler[c].pc = "lookInput" /\ TypeOK
      /\ UNCHANGED <<tableVars, peerVars, setter, requests, ends, events>>
  BY DEF LookInput, IInv
<1>2. todo[Handler(c)] = "nothing" /\ requests' \in Nat
  BY <1>1 DEF IInv, OneThingAtATime, TypeOK
<1>3. CASE ~StillCurrent(handler[c])
  BY <1>1, <1>2, <1>3, HandlerLeavesInv DEF LookInput
<1>4. CASE StillCurrent(handler[c])
  <2>1. Goes(c, "answer") /\ UNCHANGED todo /\ "answer" \in Pcs
    BY <1>4 DEF LookInput, Pcs
  <2>2. /\ handler' \in [Controls -> Works] /\ handler'[c].pc = "answer"
        /\ handler'[c].call = handler[c].call
        /\ \A d \in Controls : d # c => handler'[d] = handler[d]
        /\ HandlerStep(c)
    BY <1>1, <1>2, <2>1, GoesStep
  <2>3. TypeOK'
    BY <1>1, <2>1, <2>2 DEF TypeOK, Works, tableVars, peerVars
  <2>4. HandlersKept /\ OneThingAtATime' /\ (Bumping => Bumping') /\ (Releasing => Releasing')
    BY <2>2, HandlerStepKeeps
  <2>5. lease' = lease /\ notices' \subseteq notices /\ SeenKept
    BY <1>1, TableStays
  <2>6. Stamped' /\ CallIsFresh' /\ LossIsStamped'
    BY <1>1, <2>3, <2>4, <2>5, Stay DEF peerVars
  <2>7. ~Stale(c)
    BY <1>4 DEF StillCurrent, Stale, Callback
  <2>8. DueMeansLost'
    <3> SUFFICES ASSUME \E n \in notices' : n.revoke.lease = leaseGen', lease'[Peer] # 0
                 PROVE  \/ Releasing'
                        \/ \E d \in Controls : Judging(d)' /\ Stale(d)'
      BY DEF DueMeansLost, Judging
    <3>1. leaseGen' = leaseGen
      BY <1>1 DEF peerVars
    <3>2. Releasing \/ \E d \in Controls : Judging(d) /\ Stale(d)
      BY <2>5, <3>1 DEF IInv, DueMeansLost, Judging
    <3>3. ASSUME NEW d \in Controls, Judging(d), Stale(d)
          PROVE  Judging(d)' /\ Stale(d)'
      BY <2>2, <2>7, <3>1, <3>3 DEF Judging, Stale
    <3> QED
      BY <2>4, <3>2, <3>3
  <2>9. Complete \/ Bumping
    BY <1>1, <2>7 DEF IInv, LossIsStamped, Complete
  <2>10. LeaseNeedsChannels'
    BY <1>1, <2>4, <2>9 DEF LeaseNeedsChannels, Complete, Bumping, Releasing, peerVars
  <2> QED
    BY <2>3, <2>4, <2>6, <2>8, <2>10 DEF IInv
<1> QED
  BY <1>3, <1>4

-----------------------------------------------------------------------------
(* The inductive invariant.                                                *)

\* Nothing is wrong before anything has happened.
LEMMA InitInv == Init => IInv
<1> SUFFICES ASSUME Init
             PROVE  IInv
  OBVIOUS
<1> USE DEF Init, Table!Init, NoCallback, Callback
<1>1. TypeOK
  <2>1. handler \in [Controls -> Works] /\ todo \in [Actors -> {"nothing"}]
    BY DEF NoWork, Works, Pcs, Callbacks
  <2>2. TableTypes
    BY DEF TableTypes, Callbacks
  <2>3. todo \in [Actors -> {"nothing", "close", "bump", "release", "write"}]
    BY <2>1
  <2> QED
    BY <2>1, <2>2, <2>3 DEF TypeOK, TableTypes, Works
<1>2. Stamped
  BY DEF Stamped, NoWork
<1>3. CallIsFresh /\ LossIsStamped
  BY DEF CallIsFresh, LossIsStamped, NoWork
<1>4. OneThingAtATime
  BY ActorsDiffer DEF OneThingAtATime, NoWork
<1>5. DueMeansLost /\ LeaseNeedsChannels
  BY DEF DueMeansLost, LeaseNeedsChannels
<1> QED
  BY <1>1, <1>2, <1>3, <1>4, <1>5 DEF IInv

\* A step that changes nothing.
LEMMA StutterInv ==
  ASSUME IInv, UNCHANGED vars
  PROVE  IInv'
<1>1. TypeOK' /\ Stamped' /\ CallIsFresh' /\ OneThingAtATime'
  BY DEF vars, tableVars, peerVars, workVars, IInv, TypeOK, Stamped, CallIsFresh, OneThingAtATime
<1>2. LossIsStamped' /\ DueMeansLost' /\ LeaseNeedsChannels'
  BY DEF vars, tableVars, peerVars, workVars, IInv, LossIsStamped, DueMeansLost,
         LeaseNeedsChannels, Bumping, Releasing, Stale, Complete, Unjudged
<1> QED
  BY <1>1, <1>2 DEF IInv

\* Every step of Next keeps the invariant.
LEMMA NextInv == IInv /\ [Next]_vars => IInv'
<1> SUFFICES ASSUME IInv, [Next]_vars
             PROVE  IInv'
  OBVIOUS
<1>1. ASSUME NEW a \in Actors, Finish(a)
      PROVE  IInv'
  BY <1>1, BumpInv, ReleaseStepInv, WriteOkInv, ClosingInv DEF Finish
<1>2. ASSUME NEW ch \in Channels, ChannelEnds(ch) \/ Cleanup(ch)
      PROVE  IInv'
  BY <1>2, ChannelEndsInv, CleanupControlInv, CleanupInputInv DEF Cleanup
<1>3. ASSUME NEW c \in Controls, Request(c)
      PROVE  IInv'
  BY <1>3, RequestInv
<1>4. ASSUME NEW c \in Controls, Handle(c)
      PROVE  IInv'
  BY <1>4, ReleaseOwnInv, ReadChannelsInv, StampInv, AcquireInv, LookControlInv, LookInputInv,
     HandlerEndsInv, AnswerFailsInv DEF Handle
<1>5. CASE OnDataChannel
  BY <1>5, SetControlInv, SetInputsInv DEF OnDataChannel
<1>6. CASE Close \/ ServiceCancels \/ TargetEvent
  BY <1>6, ClosingInv, ServiceCancelsInv, TargetEventInv, ActorsDiffer
<1>7. CASE Revocation
  BY <1>7, OnInputRevokedInv, RevocationIgnoredInv DEF Revocation
<1>8. CASE ControllerRevokes \/ ControllerCloses
  BY <1>8, ControllerInv
<1>9. CASE UNCHANGED vars
  BY <1>9, StutterInv
<1> QED
  BY <1>1, <1>2, <1>3, <1>4, <1>5, <1>6, <1>7, <1>8, <1>9 DEF Next

\* The inductive invariant holds in every reachable state, for any numbers of
\* channels, requests, ends and events.
THEOREM PeerInputInvariant == Spec => []IInv
<1> QED
  BY InitInv, NextInv, PTL DEF Spec

\* A peer that is closing, or that lacks one of its three channels, has no lease
\* that nobody is about to release (setInputChannel, handleControlMessage, close).
THEOREM LeaseHasChannels == Spec => []LeaseNeedsChannels
<1>1. IInv => LeaseNeedsChannels
  BY DEF IInv
<1> QED
  BY <1>1, PeerInputInvariant, PTL

\* A revocation takes the channels away only from a peer whose lease is lost or
\* about to be: a late callback hits no newer lease (onInputRevoked).
THEOREM RevocationIsLate == Spec => RevocationHitsNoLease
<1> DEFINE A == \A n \in notices : OnInputRevoked(n) => lease[Peer] = 0 \/ Unjudged \/ Releasing
<1>1. IInv /\ [Next]_vars => A
  BY RevocationFindsLoss
<1> QED
  BY <1>1, PeerInputInvariant, PTL DEF Spec, RevocationHitsNoLease

=============================================================================
