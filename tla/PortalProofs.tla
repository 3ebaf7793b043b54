--------------------------- MODULE PortalProofs ----------------------------
(***************************************************************************)
(* The portal session keeps its promises for any callers, subscribers,     *)
(* configurations, selections and number of runs: IInv is inductive, and   *)
(* so is SelectionInv, which is about the clipboard, on top of it.         *)
(***************************************************************************)
EXTENDS PortalSession, TLAPS

USE SyncAssumption, PortalAssumption
USE DEF portalVars, controllerVars, historyVars, syncVars, serviceVars, tokenVars, Rest,
        SyncButSignals

-----------------------------------------------------------------------------
(* The steps of Open.                                                      *)

\* The steps up to the answer to Start, by name.
LEMMA AfterSteps ==
  /\ DOMAIN After = {"connect", "requests", "closures", "clipboard", "register", "load",
                     "create", "sources", "devices", "access", "start"}
  /\ After["connect"] = "requests" /\ After["requests"] = "closures"
  /\ After["closures"] = "clipboard" /\ After["clipboard"] = "register"
  /\ After["register"] = "load" /\ After["load"] = "create"
  /\ After["create"] = "sources" /\ After["sources"] = "devices"
  /\ After["devices"] = "access" /\ After["access"] = "start" /\ After["start"] = "token"
  BY DEF After

Early == {"connect", "requests", "closures", "clipboard", "register", "load",
          "create", "sources", "devices", "access", "start"}

\* GoOn stays before the token, or comes to it.
LEMMA GoesOn ==
  ASSUME service \in Early, GoOn
  PROVE  /\ service' \in {"requests", "closures", "clipboard", "register", "load", "create",
                          "sources", "devices", "access", "start", "token"}
  BY AfterSteps DEF GoOn, Early

\* All steps of Open, by name.
LEMMA OpenStepsAre ==
  OpenSteps = {"connect", "requests", "closures", "clipboard", "register", "load",
               "create", "sources", "devices", "access", "start", "token", "write",
               "sync", "rename", "check", "eis"}
  BY AfterSteps DEF OpenSteps

-----------------------------------------------------------------------------
(* The queue of signals.                                                   *)

Waiting == \E i \in 1 .. Len(signals) : signals[i].kind = "closed"

\* A signal behind another waits while that one is added or, being of another
\* kind, is taken.
LEMMA StillWaits ==
  ASSUME SignalTypes, Waiting, NEW s,
         \/ signals' = Append(signals, s)
         \/ signals # <<>> /\ Head(signals).kind # "closed" /\ signals' = Tail(signals)
  PROVE  Waiting'
<1>1. PICK i \in 1 .. Len(signals) : signals[i].kind = "closed"
  BY DEF Waiting
<1>2. signals \in Seq([kind : Kinds, number : Nat])
  BY DEF SignalTypes
<1>3. CASE signals' = Append(signals, s)
  <2>1. i \in 1 .. Len(signals') /\ signals'[i] = signals[i]
    BY <1>1, <1>2, <1>3
  <2>2. QED
    BY <1>1, <2>1 DEF Waiting
<1>4. CASE signals # <<>> /\ Head(signals).kind # "closed" /\ signals' = Tail(signals)
  <2>1. i # 1
    BY <1>1, <1>2, <1>4
  <2>2. i - 1 \in 1 .. Len(signals') /\ signals'[i - 1] = signals[i]
    BY <1>1, <1>2, <1>4, <2>1
  <2>3. QED
    BY <1>1, <2>2 DEF Waiting
<1>5. QED
  BY <1>3, <1>4

\* The next selection.
LEMMA Selected ==
  ASSUME selection \in [number : Nat, own : BOOLEAN]
  PROVE  /\ selection.number \in Nat /\ selection.number + 1 \in Nat
         /\ [number |-> selection.number + 1, own |-> FALSE] \in [number : Nat, own : BOOLEAN]
         /\ [number |-> selection.number + 1, own |-> TRUE] \in [number : Nat, own : BOOLEAN]
<1>1. selection.number \in Nat /\ selection.number + 1 \in Nat
  OBVIOUS
<1>2. \A n \in Nat : /\ [number |-> n, own |-> FALSE] \in [number : Nat, own : BOOLEAN]
                     /\ [number |-> n, own |-> TRUE] \in [number : Nat, own : BOOLEAN]
  OBVIOUS
<1>3. QED
  BY <1>1, <1>2

\* The head of a queue is an element of its kind.
LEMMA HeadIn ==
  ASSUME NEW S, NEW q \in Seq(S), q # <<>>
  PROVE  Head(q) \in S
  OBVIOUS

\* What is added is a signal, and what is left are signals.
LEMMA SignalsTyped ==
  ASSUME signals \in Seq([kind : Kinds, number : Nat])
  PROVE  /\ \A s \in [kind : Kinds, number : Nat] :
              Append(signals, s) \in Seq([kind : Kinds, number : Nat])
         /\ signals # <<>> => Tail(signals) \in Seq([kind : Kinds, number : Nat])
         /\ signals # <<>> => Head(signals).number \in Nat
<1> DEFINE S == [kind : Kinds, number : Nat]
<1>1. \A s \in S : Append(signals, s) \in Seq(S)
  OBVIOUS
<1>2. signals # <<>> => Tail(signals) \in Seq(S)
  OBVIOUS
<1>3. signals # <<>> => Head(signals) \in S
  BY HeadIn
<1>4. QED
  BY <1>1, <1>2, <1>3

-----------------------------------------------------------------------------
(* Open keeps the invariant.                                               *)

\* The initial state.
LEMMA InitIInv == Init => IInv
<1> SUFFICES ASSUME Init PROVE IInv
  OBVIOUS
<1> USE OpenStepsAre DEF Init, SyncInit, Volatile, NoSet, NoRun
<1>1. SignalTypes /\ ClipboardTypes
  BY DEF SignalTypes, ClipboardTypes, SetSteps, RunSteps
<1>2. SessionTypes /\ TokenTypes
  BY DEF SessionTypes, TokenTypes, Files, NoFile
<1>3. FilesWhole
  BY DEF FilesWhole, NoFile, SessionSteps
<1>4. HeldInOrder
  BY DEF HeldInOrder, SessionSteps
<1>5. NothingUnderWay /\ BeforeSession /\ ClosureNoticed
  BY DEF NothingUnderWay, BeforeSession, ClosureNoticed
<1>6. QED
  BY <1>1, <1>2, <1>3, <1>4, <1>5 DEF IInv, TypeOK

\* A step of Open that leaves the clipboard and the queue alone.
QuietOpen ==
  \/ OpenCalls \/ OpenLoads \/ OpenFails \/ RequestCalls \/ StoreCreates \/ StoreWrites
  \/ StoreSyncs \/ StoreRenames \/ OpenChecks \/ OpenConnectsEIS

\* Such a step says nothing about the clipboard.
LEMMA QuietOpenStep ==
  ASSUME IInv, QuietOpen
  PROVE  /\ UNCHANGED <<syncVars, config, runs, valid, granted>>
         /\ service \in OpenSteps /\ finish = "open"
         /\ service' \in OpenSteps \cup {"failed", "attach"}
         /\ desk' = desk \/ service' = "failed"
<1> USE OpenStepsAre, GoesOn DEF Early
<1>1. service \in OpenSteps /\ UNCHANGED <<syncVars, config, runs, valid, granted>>
  BY DEF QuietOpen, OpenCalls, OpenLoads, OpenFails, RequestCalls, Requests, StoreCreates,
         StoreWrites, StoreSyncs, StoreRenames, OpenChecks, OpenConnectsEIS
<1>2. finish = "open"
  BY <1>1 DEF IInv, HeldInOrder, SessionSteps
<1>3. service' \in OpenSteps \cup {"failed", "attach"}
  BY DEF QuietOpen, OpenCalls, OpenLoads, OpenFails, RequestCalls, Requests, StoreCreates,
         StoreWrites, StoreSyncs, StoreRenames, OpenChecks, OpenConnectsEIS
<1>4. desk' = desk \/ service' = "failed"
  BY DEF QuietOpen, OpenCalls, OpenLoads, OpenFails, RequestCalls, StoreCreates,
         StoreWrites, StoreSyncs, StoreRenames, OpenChecks, OpenConnectsEIS
<1>5. QED
  BY <1>1, <1>2, <1>3, <1>4

\* It keeps the parts that speak of the clipboard and of the queue.
LEMMA QuietOpenClipboard ==
  ASSUME IInv, QuietOpen
  PROVE  /\ SignalTypes' /\ ClipboardTypes'
         /\ NothingUnderWay' /\ BeforeSession' /\ ClosureNoticed'
<1> USE QuietOpenStep, OpenStepsAre
<1>1. SignalTypes' /\ ClipboardTypes'
  BY DEF IInv, TypeOK, SignalTypes, ClipboardTypes
<1>2. BeforeSession'
  BY DEF IInv, BeforeSession, SessionSteps
<1>3. NothingUnderWay'
  BY DEF IInv, NothingUnderWay, BeforeSession, SessionSteps
<1>4. ClosureNoticed'
  BY DEF IInv, ClosureNoticed, Open, SessionSteps
<1>5. QED
  BY <1>1, <1>2, <1>3, <1>4

\* Its own part: what is held, and the files.
LEMMA QuietOpenHolds ==
  ASSUME IInv, QuietOpen
  PROVE  SessionTypes' /\ HeldInOrder'
<1> USE OpenStepsAre, QuietOpenStep, GoesOn
    DEF IInv, TypeOK, SessionTypes, HeldInOrder, SessionSteps, Early
<1>1. CASE OpenCalls
  BY <1>1 DEF OpenCalls
<1>2. CASE OpenLoads
  BY <1>2 DEF OpenLoads
<1>3. CASE OpenFails
  BY <1>3 DEF OpenFails, Closed
<1>4. CASE RequestCalls
  BY <1>4 DEF RequestCalls
<1>5. CASE StoreCreates \/ StoreWrites \/ StoreSyncs \/ StoreRenames
  BY <1>5 DEF StoreCreates, StoreWrites, StoreSyncs, StoreRenames
<1>6. CASE OpenChecks
  BY <1>6 DEF OpenChecks
<1>7. CASE OpenConnectsEIS
  BY <1>7 DEF OpenConnectsEIS
<1>8. QED
  BY <1>1, <1>2, <1>3, <1>4, <1>5, <1>6, <1>7 DEF QuietOpen

LEMMA QuietOpenFiles ==
  ASSUME IInv, QuietOpen
  PROVE  TokenTypes' /\ FilesWhole'
<1> USE OpenStepsAre, QuietOpenStep, GoesOn
    DEF IInv, TypeOK, TokenTypes, FilesWhole, SessionSteps, Early, Files, TempOf, NoFile
<1>1. CASE OpenCalls
  BY <1>1 DEF OpenCalls
<1>2. CASE OpenLoads
  BY <1>2 DEF OpenLoads
<1>3. CASE OpenFails
  BY <1>3 DEF OpenFails
<1>4. CASE RequestCalls
  BY <1>4 DEF RequestCalls
<1>5. CASE StoreCreates
  <2>1. CASE granted # 0
    <3>1. service' = "write" /\ temp' = TempOf(FALSE, FALSE) /\ UNCHANGED <<file, durable>>
      BY <1>5, <2>1 DEF StoreCreates
    <3>2. TempOf(FALSE, FALSE) \in Files
      BY ONLY IInv DEF IInv, TypeOK, TokenTypes, TempOf, Files
    <3>3. TokenTypes'
      BY <3>1, <3>2
    <3>4. FilesWhole'
      BY <3>1
    <3>5. QED
      BY <3>3, <3>4
  <2>2. CASE granted = 0
    BY <1>5, <2>2 DEF StoreCreates
  <2>3. QED
    BY <2>1, <2>2
<1>6. CASE StoreWrites
  BY <1>6 DEF StoreWrites
<1>7. CASE StoreSyncs
  BY <1>7 DEF StoreSyncs
<1>8. CASE StoreRenames
  BY <1>8 DEF StoreRenames
<1>9. CASE OpenChecks
  BY <1>9 DEF OpenChecks
<1>10. CASE OpenConnectsEIS
  BY <1>10 DEF OpenConnectsEIS
<1>11. QED
  BY <1>1, <1>2, <1>3, <1>4, <1>5, <1>6, <1>7, <1>8, <1>9, <1>10 DEF QuietOpen

\* The portal answers, and the answer is taken.
LEMMA AnswersKeep ==
  ASSUME IInv, PortalAnswers \/ RequestAnswered
  PROVE  IInv'
<1> USE OpenStepsAre
<1>1. /\ service \in {"create", "sources", "devices", "start"} /\ finish = "open"
      /\ service' \in OpenSteps \ (SessionSteps \cup {"check", "eis", "connect"})
      /\ service' \notin {"sync", "rename"}
      /\ UNCHANGED <<SyncButSignals, file, durable, temp, config, runs>>
  BY GoesOn, AfterSteps
     DEF PortalAnswers, RequestAnswered, Requests, IInv, HeldInOrder, SessionSteps, Early, GoOn
<1>2. SignalTypes' /\ ClipboardTypes'
  <2>1. signals' \in Seq([kind : Kinds, number : Nat])
    <3>1. [kind |-> "response", number |-> 0] \in [kind : Kinds, number : Nat]
      BY DEF Kinds
    <3>2. QED
      BY <3>1, SignalsTyped
         DEF IInv, TypeOK, SignalTypes, PortalAnswers, RequestAnswered, Signal
  <2>2. QED
    BY <1>1, <2>1 DEF IInv, TypeOK, SignalTypes, ClipboardTypes
<1>3. SessionTypes'
  BY <1>1 DEF IInv, TypeOK, SessionTypes, PortalAnswers, RequestAnswered
<1>4. TokenTypes'
  BY <1>1 DEF IInv, TypeOK, TokenTypes, PortalAnswers, RequestAnswered
<1>5. FilesWhole'
  BY <1>1 DEF IInv, TypeOK, TokenTypes, FilesWhole, SessionSteps, PortalAnswers, RequestAnswered
<1>6. HeldInOrder'
  BY <1>1 DEF IInv, HeldInOrder, SessionSteps, PortalAnswers, RequestAnswered
<1>7. BeforeSession' /\ NothingUnderWay'
  BY <1>1 DEF IInv, BeforeSession, NothingUnderWay, SessionSteps
<1>8. Waiting \/ desk # "closed"
  BY <1>1 DEF IInv, ClosureNoticed, Waiting, Open
<1>9. desk' = "closed" => desk = "closed"
  BY <1>1 DEF PortalAnswers, RequestAnswered
<1>10. Waiting => Waiting'
  BY StillWaits DEF IInv, TypeOK, PortalAnswers, RequestAnswered, Signal
<1>11. ClosureNoticed'
  BY <1>8, <1>9, <1>10 DEF ClosureNoticed, Waiting
<1>12. QED
  BY <1>2, <1>3, <1>4, <1>5, <1>6, <1>7, <1>11 DEF IInv, TypeOK

\* The portal closes the session, and its signal waits.
LEMMA CloseKeeps ==
  ASSUME IInv, PortalCloses
  PROVE  IInv'
<1>1. SignalTypes' /\ ClipboardTypes'
  BY SignalsTyped
     DEF IInv, TypeOK, SignalTypes, ClipboardTypes, PortalCloses, Signal, Kinds
<1>2. SessionTypes' /\ TokenTypes'
  BY DEF IInv, TypeOK, SessionTypes, TokenTypes, PortalCloses
<1>3. FilesWhole' /\ HeldInOrder'
  BY DEF IInv, FilesWhole, HeldInOrder, PortalCloses, TempOf
<1>4. BeforeSession' /\ NothingUnderWay'
  BY DEF IInv, BeforeSession, NothingUnderWay, PortalCloses
<1>5. Len(signals') \in 1 .. Len(signals') /\ signals'[Len(signals')].kind = "closed"
  BY DEF IInv, TypeOK, SignalTypes, PortalCloses, Signal
<1>6. ClosureNoticed'
  BY <1>5 DEF ClosureNoticed
<1>7. QED
  BY <1>1, <1>2, <1>3, <1>4, <1>6 DEF IInv, TypeOK

-----------------------------------------------------------------------------
(* Run and finish keep it.                                                 *)

\* A step of Run that leaves the queue alone.
LEMMA RunningKeeps ==
  ASSUME IInv, Running, ~WatchCloses
  PROVE  IInv'
<1> USE OpenStepsAre
<1>1. /\ UNCHANGED <<tokenVars, config, runs, signals, set, run, serving, selection, asked,
                     generation, content, changes>>
      /\ service \in SessionSteps /\ service' \in SessionSteps \cup {"ended"}
  BY DEF Running, RunAttaches, RunAcquiresEIS, RunStartsSender, AcquireStream, MediaReturns,
         CloseInput, CloseSession, FinishBegins, FinishEnds, FinishCloses, RunReturns, Attach,
         SessionSteps, IInv, HeldInOrder
<1>2. TypeOK'
  <2>1. SignalTypes' /\ ClipboardTypes' /\ TokenTypes'
    BY <1>1 DEF IInv, TypeOK, SignalTypes, ClipboardTypes, TokenTypes
  <2>2. SessionTypes'
    BY <1>1 DEF IInv, TypeOK, SessionTypes, Running, RunAttaches, RunAcquiresEIS,
                RunStartsSender, AcquireStream, MediaReturns, CloseInput, CloseSession, Closed,
                FinishReleases, FinishBegins, FinishEnds, FinishCloses, RunReturns, Attach
  <2>3. QED
    BY <2>1, <2>2 DEF TypeOK
<1>3. FilesWhole'
  BY <1>1 DEF IInv, FilesWhole, SessionSteps
<1>4. BeforeSession' /\ ClosureNoticed'
  <2>1. desk' = "closed" /\ Open' => desk = "closed" /\ Open
    BY DEF Running, RunAttaches, RunAcquiresEIS, RunStartsSender, AcquireStream, MediaReturns,
           CloseInput, CloseSession, Open, FinishBegins, FinishEnds, FinishCloses, RunReturns,
           Attach
  <2>2. QED
    BY <1>1, <2>1 DEF IInv, BeforeSession, ClosureNoticed
<1>5. HeldInOrder'
  <2> USE <1>1 DEF IInv, TypeOK, SessionTypes, HeldInOrder, SessionSteps
  <2>1. CASE RunAttaches
    BY <2>1 DEF RunAttaches, Attach
  <2>2. CASE RunAcquiresEIS
    <3>1. CASE Open
      BY <2>2, <3>1 DEF RunAcquiresEIS
    <3>2. CASE ~Open
      BY <2>2, <3>2 DEF RunAcquiresEIS
    <3>3. QED
      BY <3>1, <3>2
  <2>3. CASE RunStartsSender
    <3>1. CASE service' = "media" /\ UNCHANGED held
      BY <2>3, <3>1 DEF RunStartsSender
    <3>2. CASE service' = "closeInput" /\ held' = held \ {"sender"}
      BY <2>3, <3>2 DEF RunStartsSender
    <3>3. QED
      BY <2>3, <3>1, <3>2 DEF RunStartsSender
  <2>4. CASE AcquireStream
    BY <2>4 DEF AcquireStream
  <2>5. CASE MediaReturns \/ CloseInput
    BY <2>5 DEF MediaReturns, CloseInput
  <2>6. CASE CloseSession
    BY <2>6 DEF CloseSession, FinishBegins, FinishReleases, Closed, Open
  <2>7. CASE FinishEnds
    BY <2>7 DEF FinishEnds, FinishCloses
  <2>8. CASE RunReturns
    BY <2>8 DEF RunReturns
  <2>9. QED
    BY <2>1, <2>2, <2>3, <2>4, <2>5, <2>6, <2>7, <2>8 DEF Running
<1>6. NothingUnderWay'
  <2>1. CASE FinishEnds
    BY <2>1 DEF FinishEnds, FinishCloses, FinishReady, NothingUnderWay
  <2>2. CASE finish' = finish \/ finish' = "waiting"
    BY <1>1, <2>2 DEF IInv, NothingUnderWay, SessionSteps
  <2>3. QED
    BY <2>1, <2>2
       DEF Running, RunAttaches, RunAcquiresEIS, RunStartsSender, AcquireStream, MediaReturns,
           CloseInput, CloseSession, FinishBegins, RunReturns, Attach
<1>7. QED
  BY <1>2, <1>3, <1>4, <1>5, <1>6 DEF IInv

\* watch ends the session, before or after it has taken the signal.
LEMMA WatchKeeps ==
  ASSUME IInv, WatchCloses
  PROVE  IInv'
<1> USE OpenStepsAre
<1>1. /\ UNCHANGED <<tokenVars, config, runs, set, run, serving, selection, asked,
                     generation, content, changes, service>>
      /\ service \in SessionSteps /\ finish' = "waiting" /\ desk' = "closed" /\ finish = "open"
      /\ held' = held \ {"session", "eis", "closures", "clipboard"}
  BY DEF WatchCloses, FinishBegins, FinishReleases
<1>2. SignalTypes'
  <2>1. signals' \in Seq([kind : Kinds, number : Nat])
    <3>1. CASE signals' = <<>>
      BY <3>1
    <3>2. CASE signals # <<>> /\ signals' = Tail(signals)
      BY <3>2, SignalsTyped DEF IInv, TypeOK, SignalTypes
    <3>3. QED
      BY <3>1, <3>2 DEF WatchCloses
  <2>2. QED
    BY <1>1, <2>1 DEF IInv, TypeOK, SignalTypes
<1>3. ClipboardTypes' /\ SessionTypes' /\ TokenTypes'
  BY <1>1 DEF IInv, TypeOK, ClipboardTypes, SessionTypes, TokenTypes
<1>4. FilesWhole' /\ BeforeSession' /\ ClosureNoticed'
  BY <1>1 DEF IInv, FilesWhole, BeforeSession, ClosureNoticed, Open, TempOf
<1>5. HeldInOrder'
  BY <1>1 DEF IInv, HeldInOrder, SessionSteps
<1>6. NothingUnderWay'
  BY <1>1 DEF NothingUnderWay
<1>7. QED
  BY <1>2, <1>3, <1>4, <1>5, <1>6 DEF IInv, TypeOK

-----------------------------------------------------------------------------
(* The clipboard keeps it.                                                 *)

\* What a step of the clipboard has to keep: its types, what is under way once
\* finish has closed, and the signal of a closure.
LEMMA ClipboardFrame ==
  ASSUME IInv, UNCHANGED <<serviceVars, Rest>>, finish' = finish,
         SignalTypes', ClipboardTypes',
         service \in SessionSteps \/ UNCHANGED <<serving, run, set>>,
         finish = "closed" =>
           /\ serving' \subseteq serving /\ (run'.at = "call" => run.at = "call")
           /\ \A c \in Callers : set'[c].at \in {"lock", "call", "called"} =>
                                   set[c].at \in {"lock", "call", "called"},
         Waiting => Waiting'
  PROVE  IInv'
<1> USE OpenStepsAre
<1>1. TypeOK'
  BY DEF IInv, TypeOK, SessionTypes, TokenTypes
<1>2. FilesWhole' /\ HeldInOrder'
  BY DEF IInv, FilesWhole, HeldInOrder, TempOf
<1>3. BeforeSession'
  BY DEF IInv, BeforeSession, SessionSteps
<1>4. NothingUnderWay'
  BY DEF IInv, NothingUnderWay, SessionSteps
<1>5. ClosureNoticed'
  BY DEF IInv, ClosureNoticed, Waiting, Open
<1>6. QED
  BY <1>1, <1>2, <1>3, <1>4, <1>5 DEF IInv

\* A step of a caller of Set, and of Write below it.
SetStep(c) ==
  \/ SetBegins(c) \/ SetRefused(c) \/ WriteLocks(c) \/ WriteTakesEffect(c) \/ WriteFails(c)
  \/ WriteReturns(c) \/ SetLatest(c) \/ SetReturns(c)

LEMMA SetKeeps ==
  ASSUME IInv, UNCHANGED <<serviceVars, Rest>>, service \in SessionSteps,
         NEW c \in Callers, SetStep(c)
  PROVE  IInv'
<1> DEFINE S == [at : SetSteps, base : Nat, number : Nat]
<1>1. /\ UNCHANGED <<signals, asked, changes, serving, finish, run>>
  BY DEF SetStep, SetBegins, SetRefused, WriteLocks, WriteTakesEffect, WriteFails,
         WriteReturns, SetLatest, SetReturns
<1>2. set \in [Callers -> S] /\ generation \in Nat /\ content \in Nat
      /\ selection \in [number : Nat, own : BOOLEAN] /\ set[c] \in S
  BY DEF IInv, TypeOK, ClipboardTypes, SignalTypes
<1>3. set' \in [Callers -> S] /\ \A d \in Callers \ {c} : set'[d] = set[d]
  <2> USE <1>2
  <2>1. ASSUME NEW where \in SetSteps, SetAt(c, where)
        PROVE  set' \in [Callers -> S] /\ \A d \in Callers \ {c} : set'[d] = set[d]
    BY <2>1 DEF SetAt
  <2>2. CASE SetBegins(c) \/ SetRefused(c) \/ WriteFails(c) \/ WriteReturns(c) \/ SetLatest(c)
    BY <2>1, <2>2 DEF SetBegins, SetRefused, WriteFails, WriteReturns, SetLatest, SetSteps
  <2>3. CASE WriteLocks(c)
    BY <2>3 DEF WriteLocks, SetSteps
  <2>4. CASE WriteTakesEffect(c)
    <3>1. selection.number + 1 \in Nat
      BY Selected
    <3>2. QED
      BY <2>4, <3>1 DEF WriteTakesEffect, SetSteps
  <2>5. CASE SetReturns(c)
    BY <2>5 DEF SetReturns, NoSet, SetSteps
  <2>6. QED
    BY <2>2, <2>3, <2>4, <2>5 DEF SetStep
<1>4. SignalTypes' /\ ClipboardTypes'
  <2>1. selection' \in [number : Nat, own : BOOLEAN] /\ generation' \in Nat /\ content' \in Nat
    <3>1. CASE WriteTakesEffect(c)
      BY <1>2, <3>1, Selected DEF WriteTakesEffect
    <3>2. CASE WriteReturns(c)
      BY <1>2, <3>2 DEF WriteReturns
    <3>3. CASE UNCHANGED <<selection, generation, content>>
      BY <1>2, <3>3
    <3>4. QED
      BY <3>1, <3>2, <3>3
         DEF SetStep, SetBegins, SetRefused, WriteLocks, WriteFails, SetLatest, SetReturns
  <2>2. QED
    BY <1>1, <1>3, <2>1 DEF IInv, TypeOK, ClipboardTypes, SignalTypes
<1>5. ASSUME finish = "closed"
      PROVE  set'[c].at \notin {"lock", "call", "called"}
  <2>1. set[c].at \notin {"lock", "call", "called"}
    BY <1>5 DEF IInv, NothingUnderWay
  <2>2. QED
    BY <1>2, <1>5, <2>1
       DEF SetStep, SetBegins, SetRefused, WriteLocks, WriteTakesEffect, WriteFails,
           WriteReturns, SetLatest, SetReturns, SetAt, NoSet, Open
<1>6. Waiting => Waiting'
  BY <1>1 DEF Waiting
<1>7. QED
  BY <1>1, <1>3, <1>4, <1>5, <1>6, ClipboardFrame

\* A step of Controller.run.
RunStep ==
  \/ RunReceives \/ RunAdmitted \/ RunReads \/ RunReadFails \/ RunChecks \/ RunPublishes
  \/ RunEnds

LEMMA RunKeeps ==
  ASSUME IInv, UNCHANGED <<serviceVars, Rest>>, service \in SessionSteps, RunStep
  PROVE  IInv'
<1> DEFINE R == [at : RunSteps, generation : Nat, data : Nat]
<1>1. UNCHANGED <<selection, asked, signals, generation, content, serving, finish, set>>
  BY DEF RunStep, RunReceives, RunAdmitted, RunReads, RunReadFails, RunChecks, RunPublishes,
         RunEnds
<1>2. run \in R /\ changes \in Nat /\ selection \in [number : Nat, own : BOOLEAN]
  BY DEF IInv, TypeOK, ClipboardTypes, SignalTypes
<1>3. run' \in R /\ changes' \in Nat
  <2> USE <1>2 DEF RunSteps, NoRun
  <2>1. CASE RunReceives
    BY <2>1 DEF RunReceives
  <2>2. CASE RunAdmitted \/ RunChecks
    BY <2>2 DEF RunAdmitted, RunChecks
  <2>3. CASE RunReads
    BY <2>3, Selected DEF RunReads
  <2>4. CASE RunReadFails \/ RunPublishes \/ RunEnds
    BY <2>4 DEF RunReadFails, RunPublishes, RunEnds
  <2>5. QED
    BY <2>1, <2>2, <2>3, <2>4 DEF RunStep
<1>4. SignalTypes' /\ ClipboardTypes'
  BY <1>1, <1>3 DEF IInv, TypeOK, ClipboardTypes, SignalTypes
<1>5. finish = "closed" => run'.at # "call"
  <2>1. finish = "closed" => run.at # "call"
    BY DEF IInv, NothingUnderWay
  <2>2. QED
    BY <1>2, <2>1 DEF RunStep, RunReceives, RunAdmitted, RunReads, RunReadFails, RunChecks,
                      RunPublishes, RunEnds, NoRun, Open
<1>6. Waiting => Waiting'
  BY <1>1 DEF Waiting
<1>7. QED
  BY <1>1, <1>4, <1>5, <1>6, ClipboardFrame

\* A step of watch about the clipboard, and the end of a transfer.
LEMMA WatchSignalKeeps ==
  ASSUME IInv, UNCHANGED <<serviceVars, Rest>>, service \in SessionSteps,
         WatchChange \/ WatchTransfer \/ \E t \in serving : Served(t)
  PROVE  IInv'
<1>1. UNCHANGED <<selection, asked, content, finish, set, run>>
  BY DEF WatchChange, WatchTransfer, Served
<1>2. \/ UNCHANGED signals
      \/ signals # <<>> /\ Head(signals).kind # "closed" /\ signals' = Tail(signals)
  BY DEF WatchChange, WatchTransfer, Served
<1>3. /\ signals \in Seq([kind : Kinds, number : Nat])
      /\ generation \in Nat /\ changes \in Nat /\ content \in Nat
      /\ serving \subseteq [wanted : Nat, content : Nat]
  BY DEF IInv, TypeOK, ClipboardTypes, SignalTypes
<1>4. generation' \in Nat /\ changes' \in Nat
  BY <1>3 DEF WatchChange, WatchTransfer, Served
<1>5. serving' \subseteq [wanted : Nat, content : Nat]
  <2>1. signals # <<>> => Head(signals).number \in Nat
    BY <1>3, SignalsTyped
  <2>2. QED
    BY <1>3, <2>1 DEF WatchChange, WatchTransfer, Served
<1>6. SignalTypes' /\ ClipboardTypes'
  BY <1>1, <1>2, <1>3, <1>4, <1>5, SignalsTyped DEF IInv, TypeOK, ClipboardTypes, SignalTypes
<1>7. finish = "closed" => serving' \subseteq serving
  BY DEF WatchChange, WatchTransfer, Served, Open
<1>8. Waiting => Waiting'
  <2>1. CASE UNCHANGED signals
    BY <2>1 DEF Waiting
  <2>2. QED
    BY <1>2, <2>1, StillWaits DEF IInv, TypeOK
<1>9. QED
  BY <1>1, <1>6, <1>7, <1>8, ClipboardFrame

\* The desktop copies or pastes.
LEMMA DesktopKeeps ==
  ASSUME IInv, Desktop
  PROVE  IInv'
<1>1. UNCHANGED <<generation, content, changes, finish, set, run, serving, serviceVars, Rest>>
  BY DEF Desktop, DesktopCopies, DesktopPastes
<1>2. PICK s \in [kind : Kinds, number : Nat] : signals' = Append(signals, s)
  <2>1. selection.number \in Nat
    BY DEF IInv, TypeOK, SignalTypes
  <2>2. /\ [kind |-> "changed", number |-> 0] \in [kind : Kinds, number : Nat]
        /\ [kind |-> "transfer", number |-> selection.number] \in [kind : Kinds, number : Nat]
    BY <2>1 DEF Kinds
  <2>3. QED
    BY <2>2 DEF Desktop, DesktopCopies, DesktopPastes
<1>3. selection' \in [number : Nat, own : BOOLEAN] /\ asked' \in Nat
  <2>1. CASE DesktopCopies
    BY <2>1, Selected DEF IInv, TypeOK, SignalTypes, DesktopCopies
  <2>2. CASE DesktopPastes
    BY <2>2 DEF IInv, TypeOK, SignalTypes, DesktopPastes
  <2>3. QED
    BY <2>1, <2>2 DEF Desktop
<1>4. SignalTypes' /\ ClipboardTypes'
  BY <1>1, <1>2, <1>3, SignalsTyped DEF IInv, TypeOK, SignalTypes, ClipboardTypes
<1>5. Waiting => Waiting'
  BY <1>2, StillWaits DEF IInv, TypeOK
<1>6. QED
  BY <1>1, <1>4, <1>5, ClipboardFrame

\* A subscriber comes, goes or receives.
LEMMA SubscriptionKeeps ==
  ASSUME IInv, Subscription
  PROVE  IInv'
<1>1. UNCHANGED <<portalVars, set, run, serviceVars, Rest>>
  BY DEF Subscription, Subscribe, Unsubscribe, Receive
<1>2. SignalTypes' /\ ClipboardTypes'
  BY <1>1 DEF IInv, TypeOK, SignalTypes, ClipboardTypes
<1>3. Waiting => Waiting'
  BY <1>1 DEF Waiting
<1>4. QED
  BY <1>1, <1>2, <1>3, ClipboardFrame

-----------------------------------------------------------------------------
(* A crash keeps it, and so does every step.                               *)

\* The process starts again, with the token file that is left.
LEMMA RestartKeeps ==
  ASSUME IInv, Restart
  PROVE  IInv'
<1> USE OpenStepsAre
<1>1. /\ service' = "connect" /\ held' = {} /\ desk' = "none" /\ temp' = NoFile /\ granted' = 0
      /\ config' \in Configs /\ UNCHANGED valid
      /\ signals' = <<>> /\ generation' = 0 /\ content' = 0 /\ changes' = 0 /\ serving' = {}
      /\ finish' = "open" /\ UNCHANGED asked /\ run' = NoRun
      /\ set' = [c \in Callers |-> NoSet]
      /\ selection' = [selection EXCEPT !.own = FALSE]
  BY DEF Restart, SyncRestart
<1>2. file' \in {file, durable} /\ durable' \in {file, durable}
  BY DEF Restart, AfterPowerLoss, IInv, FilesWhole
<1>3. SignalTypes'
  <2>1. <<>> \in Seq([kind : Kinds, number : Nat])
    OBVIOUS
  <2>2. QED
    BY <1>1, <2>1 DEF IInv, TypeOK, SignalTypes
<1>4. ClipboardTypes'
  BY <1>1 DEF ClipboardTypes, NoSet, NoRun, SetSteps, RunSteps
<1>5. SessionTypes'
  BY <1>1 DEF SessionTypes
<1>6. TokenTypes'
  BY <1>1, <1>2 DEF IInv, TypeOK, TokenTypes, Files, NoFile
<1>7. FilesWhole'
  BY <1>1, <1>2 DEF IInv, FilesWhole, SessionSteps
<1>8. HeldInOrder'
  BY <1>1 DEF HeldInOrder, SessionSteps
<1>9. NothingUnderWay' /\ BeforeSession' /\ ClosureNoticed'
  BY <1>1 DEF NothingUnderWay, BeforeSession, ClosureNoticed, NoSet, NoRun
<1>10. QED
  BY <1>3, <1>4, <1>5, <1>6, <1>7, <1>8, <1>9 DEF IInv, TypeOK

\* Every step keeps the invariant.
LEMMA NextIInv == IInv /\ [Next]_vars => IInv'
<1> SUFFICES ASSUME IInv, [Next]_vars PROVE IInv'
  OBVIOUS
<1>1. CASE Opening
  <2>1. CASE QuietOpen
    BY <2>1, QuietOpenClipboard, QuietOpenHolds, QuietOpenFiles DEF IInv, TypeOK
  <2>2. QED
    BY <1>1, <2>1, AnswersKeep DEF Opening, QuietOpen
<1>2. CASE Running
  BY <1>2, RunningKeeps, WatchKeeps
<1>3. CASE PeerSets
  <2>1. PICK c \in Callers : SetStep(c)
    BY <1>3 DEF PeerSets, SetStep
  <2>2. service \in SessionSteps /\ UNCHANGED <<serviceVars, Rest>>
    BY <1>3 DEF PeerSets, SessionSteps
  <2>3. QED
    BY <2>1, <2>2, SetKeeps
<1>4. CASE Clipboard
  <2>1. service \in SessionSteps /\ UNCHANGED <<serviceVars, Rest>>
    BY <1>4 DEF Clipboard
  <2>2. CASE \E c \in Callers : SetStep(c)
    BY <2>1, <2>2, SetKeeps
  <2>3. CASE RunStep
    BY <2>1, <2>3, RunKeeps
  <2>4. CASE WatchChange \/ WatchTransfer \/ \E t \in serving : Served(t)
    BY <2>1, <2>4, WatchSignalKeeps
  <2>5. QED
    BY <1>4, <2>2, <2>3, <2>4 DEF Clipboard, SetStep, RunStep
<1>5. CASE UNCHANGED vars
  BY <1>5 DEF IInv, TypeOK, SignalTypes, ClipboardTypes, SessionTypes, TokenTypes,
              FilesWhole, HeldInOrder, NothingUnderWay, BeforeSession, ClosureNoticed, Open,
              TempOf, vars
<1>6. QED
  BY <1>1, <1>2, <1>3, <1>4, <1>5, CloseKeeps, DesktopKeeps, SubscriptionKeeps, RestartKeeps
     DEF Next

\* IInv holds in every reachable state.
THEOREM PortalInvariant == Spec => []IInv
<1> QED
  BY InitIInv, NextIInv, PTL DEF Spec

\* The token file is never half of one, whenever the process is killed or power is
\* lost, and once Open has stored a token it is the next one that the portal
\* accepts (storeRestoreToken, loadRestoreToken).
THEOREM TokenIsKept == Spec => []TokenKept
<1>1. IInv => TokenKept
  BY DEF IInv, FilesWhole, TokenKept
<1> QED
  BY <1>1, PortalInvariant, PTL

\* A closure by the portal is noticed, or its signal waits, whoever reads the
\* queue (request, watch).
THEOREM ClosureIsNoticed == Spec => []ClosureNoticed
<1>1. IInv => ClosureNoticed
  BY DEF IInv
<1> QED
  BY <1>1, PortalInvariant, PTL

\* Nothing that was acquired is left when Open has failed or Run has returned
\* (the deferred functions of Open and Run, finish).
THEOREM NothingIsLeft == Spec => []NothingLeft
<1>1. IInv => NothingLeft
  BY DEF IInv, HeldInOrder, TypeOK, SessionTypes, NothingLeft
<1> QED
  BY <1>1, PortalInvariant, PTL

\* The connection is there as long as a call on it is under way (admit, finish).
THEOREM ConnectionIsKept == Spec => []ConnectionOutlives
<1>1. IInv => ConnectionOutlives
  BY DEF IInv, HeldInOrder, NothingUnderWay, ConnectionOutlives
<1> QED
  BY <1>1, PortalInvariant, PTL

-----------------------------------------------------------------------------
(* The selection, its signals and its readers.                             *)

\* The types that the proofs about the selection need.
Numbers ==
  /\ selection.number \in Nat /\ selection.own \in BOOLEAN
  /\ content \in Nat /\ generation \in Nat /\ changes \in Nat /\ latest \in Nat
  /\ failed \in Nat /\ run.generation \in Nat /\ run.data \in Nat
  /\ \A c \in Callers : set[c].base \in Nat /\ set[c].number \in Nat
  /\ \A s \in Subscribers : updates[s] \in Nat /\ heard[s] \in Nat /\ since[s] \in Int

LEMMA NumbersAre ==
  ASSUME IInv, SelectionInv
  PROVE  Numbers
<1>1. selection \in [number : Nat, own : BOOLEAN] /\ content \in Nat /\ generation \in Nat
      /\ changes \in Nat /\ run \in [at : RunSteps, generation : Nat, data : Nat]
      /\ set \in [Callers -> [at : SetSteps, base : Nat, number : Nat]]
  BY DEF IInv, TypeOK, SignalTypes, ClipboardTypes
<1>2. /\ latest \in Nat /\ failed \in Nat /\ updates \in [Subscribers -> Nat]
      /\ heard \in [Subscribers -> Nat] /\ since \in [Subscribers -> Int]
  BY DEF SelectionInv, HistoryTypes
<1>3. \A c \in Callers : set[c].base \in Nat /\ set[c].number \in Nat
  BY <1>1
<1>4. \A s \in Subscribers : updates[s] \in Nat /\ heard[s] \in Nat /\ since[s] \in Int
  BY <1>2
<1>5. QED
  BY <1>1, <1>2, <1>3, <1>4 DEF Numbers

\* The initial state.
LEMMA InitSelection == Init => SelectionInv
<1> SUFFICES ASSUME Init PROVE SelectionInv
  OBVIOUS
<1> USE DEF Init, SyncInit, Volatile, NoSet, NoRun
<1>1. HistoryTypes /\ OneWrite /\ NothingNewer
  BY DEF HistoryTypes, OneWrite, NothingNewer, Writing
<1>2. PastesAccounted /\ PasteIsNotOlder /\ ReadsInOrder /\ NotPassed
  BY DEF PastesAccounted, PasteIsNotOlder, ReadsInOrder, NotPassed, HasData
<1>3. CopyComes /\ \A s \in subscribers : NotOlder(s)
  BY DEF CopyComes, Delivered
<1>4. QED
  BY <1>1, <1>2, <1>3 DEF SelectionInv

\* No signal of a transfer is made up, and no waiting change is lost.
NoNewTransfer ==
  \A i \in 1 .. Len(signals') : signals'[i].kind = "transfer" =>
    \E j \in 1 .. Len(signals) : signals[j] = signals'[i]

LEMMA Appended ==
  ASSUME SignalTypes, NEW s \in [kind : Kinds, number : Nat], signals' = Append(signals, s)
  PROVE  /\ ChangeWaits => ChangeWaits'
         /\ s.kind = "changed" => ChangeWaits'
         /\ s.kind # "transfer" => NoNewTransfer
         /\ \A i \in 1 .. Len(signals') :
              signals'[i] = s \/ (i \in 1 .. Len(signals) /\ signals'[i] = signals[i])
<1>1. signals \in Seq([kind : Kinds, number : Nat])
  BY DEF SignalTypes
<1>2. /\ Len(signals') = Len(signals) + 1 /\ Len(signals) \in Nat
      /\ signals'[Len(signals) + 1] = s
      /\ \A i \in 1 .. Len(signals) : signals'[i] = signals[i]
  BY <1>1
<1>3. Len(signals) + 1 \in 1 .. Len(signals')
      /\ \A i \in 1 .. Len(signals) : i \in 1 .. Len(signals')
  BY <1>2
<1>4. \A i \in 1 .. Len(signals') :
        signals'[i] = s \/ (i \in 1 .. Len(signals) /\ signals'[i] = signals[i])
  BY <1>2
<1>5. ChangeWaits => ChangeWaits'
  BY <1>2, <1>3 DEF ChangeWaits
<1>6. s.kind = "changed" => ChangeWaits'
  BY <1>2, <1>3 DEF ChangeWaits
<1>7. s.kind # "transfer" => NoNewTransfer
  BY <1>4 DEF NoNewTransfer
<1>8. QED
  BY <1>4, <1>5, <1>6, <1>7

LEMMA Taken ==
  ASSUME SignalTypes, signals # <<>>, signals' = Tail(signals)
  PROVE  /\ NoNewTransfer
         /\ Head(signals).kind # "changed" => (ChangeWaits => ChangeWaits')
         /\ 1 \in 1 .. Len(signals) /\ Head(signals) = signals[1]
<1>1. signals \in Seq([kind : Kinds, number : Nat])
  BY DEF SignalTypes
<1>2. /\ Len(signals) \in Nat \ {0} /\ Len(signals') = Len(signals) - 1
      /\ Head(signals) = signals[1]
      /\ \A i \in 1 .. Len(signals') : signals'[i] = signals[i + 1]
  BY <1>1
<1>3. /\ \A i \in 1 .. Len(signals') : i + 1 \in 1 .. Len(signals)
      /\ \A i \in 1 .. Len(signals) : i # 1 => i - 1 \in 1 .. Len(signals') /\ (i - 1) + 1 = i
  BY <1>2
<1>4. NoNewTransfer
  BY <1>2, <1>3 DEF NoNewTransfer
<1>5. ASSUME Head(signals).kind # "changed", ChangeWaits PROVE ChangeWaits'
  <2>1. PICK i \in 1 .. Len(signals) : signals[i].kind = "changed"
    BY <1>5 DEF ChangeWaits
  <2>2. i # 1
    BY <1>2, <1>5, <2>1
  <2>3. i - 1 \in 1 .. Len(signals') /\ signals'[i - 1] = signals[i]
    BY <1>2, <1>3, <2>2
  <2>4. QED
    BY <2>1, <2>3 DEF ChangeWaits
<1>6. QED
  BY <1>2, <1>4, <1>5

\* What a step about the session, the queue or finish has to keep.
LEMMA SelectionFrame ==
  ASSUME SelectionInv, Numbers,
         UNCHANGED <<selection, generation, content, changes, writeMu, serving, set, run,
                     attached, subscribers, updates, historyVars>>,
         latest' \in {latest, 0}, NoNewTransfer,
         Open' => Open /\ (ChangeWaits => ChangeWaits'),
         attached' \/ BeforeAttach' => attached \/ BeforeAttach,
         BeforeAttach' => ~attached'
  PROVE  SelectionInv'
<1>1. HistoryTypes'
  BY DEF SelectionInv, HistoryTypes
<1>2. OneWrite' /\ ReadsInOrder' /\ PasteIsNotOlder' /\ \A s \in subscribers' : NotOlder(s)'
  BY DEF SelectionInv, OneWrite, Writing, ReadsInOrder, PasteIsNotOlder, NotOlder, HasData
<1>3. NothingNewer'
  <2>1. 0 <= selection.number /\ latest <= selection.number
    BY DEF Numbers, SelectionInv, NothingNewer
  <2>2. QED
    BY <2>1 DEF SelectionInv, NothingNewer
<1>4. PastesAccounted'
  <2>1. Accounted' = Accounted
    BY DEF Accounted
  <2>2. QED
    BY <2>1 DEF SelectionInv, PastesAccounted, NoNewTransfer
<1>5. NotPassed'
  BY DEF SelectionInv, NotPassed, HasData
<1>6. CopyComes'
  BY DEF SelectionInv, CopyComes, ReadUnderWay, ReadFailed, Delivered
<1>7. QED
  BY <1>1, <1>2, <1>3, <1>4, <1>5, <1>6 DEF SelectionInv

-----------------------------------------------------------------------------
(* The session and the compositor keep it.                                 *)

\* Open keeps it.
LEMMA OpeningSelection ==
  ASSUME IInv, SelectionInv, Opening
  PROVE  SelectionInv'
<1> USE OpenStepsAre, NumbersAre
<1>1. CASE QuietOpen
  <2>1. UNCHANGED syncVars /\ BeforeAttach
        /\ service' \in OpenSteps \cup {"failed", "attach"}
    BY <1>1, QuietOpenStep DEF BeforeAttach
  <2>2. NoNewTransfer /\ (ChangeWaits => ChangeWaits')
    BY <2>1 DEF NoNewTransfer, ChangeWaits
  <2>3. ~attached
    BY <2>1 DEF SelectionInv, CopyComes
  <2>4. QED
    BY <2>1, <2>2, <2>3, SelectionFrame DEF Open
<1>2. CASE PortalAnswers
  <2>1. /\ UNCHANGED SyncButSignals /\ UNCHANGED service
        /\ signals' = Append(signals, [kind |-> "response", number |-> 0])
    BY <1>2 DEF PortalAnswers, Signal
  <2>2. [kind |-> "response", number |-> 0] \in [kind : Kinds, number : Nat]
    BY DEF Kinds
  <2>3. NoNewTransfer /\ (ChangeWaits => ChangeWaits')
    BY <2>1, <2>2, Appended DEF IInv, TypeOK
  <2>4. (BeforeAttach' <=> BeforeAttach) /\ (BeforeAttach => ~attached)
    BY <2>1 DEF SelectionInv, CopyComes, BeforeAttach
  <2>5. QED
    BY <2>1, <2>3, <2>4, SelectionFrame DEF Open
<1>3. CASE RequestAnswered
  <2>1. /\ UNCHANGED SyncButSignals /\ signals # <<>> /\ signals' = Tail(signals)
        /\ Head(signals).kind = "response"
    BY <1>3 DEF RequestAnswered
  <2>2. BeforeAttach /\ BeforeAttach'
    BY <1>3, GoesOn DEF RequestAnswered, BeforeAttach, Requests, Early
  <2>3. NoNewTransfer /\ (ChangeWaits => ChangeWaits')
    BY <2>1, Taken DEF IInv, TypeOK
  <2>4. ~attached
    BY <2>2 DEF SelectionInv, CopyComes
  <2>5. QED
    BY <2>1, <2>2, <2>3, <2>4, SelectionFrame DEF Open
<1>4. QED
  BY <1>1, <1>2, <1>3 DEF Opening, QuietOpen

\* So does the portal when it closes the session.
LEMMA ClosesSelection ==
  ASSUME IInv, SelectionInv, PortalCloses
  PROVE  SelectionInv'
<1>1. /\ UNCHANGED SyncButSignals /\ UNCHANGED service
      /\ signals' = Append(signals, [kind |-> "closed", number |-> 0])
  BY DEF PortalCloses, Signal
<1>2. [kind |-> "closed", number |-> 0] \in [kind : Kinds, number : Nat]
  BY DEF Kinds
<1>3. NoNewTransfer /\ (ChangeWaits => ChangeWaits')
  BY <1>1, <1>2, Appended DEF IInv, TypeOK
<1>4. (BeforeAttach' <=> BeforeAttach) /\ (BeforeAttach => ~attached)
  BY <1>1 DEF SelectionInv, CopyComes, BeforeAttach
<1>5. QED
  BY <1>1, <1>3, <1>4, SelectionFrame, NumbersAre DEF Open

\* Run and finish keep it.  A step after attach does not go back before it.
LEMMA RunningSelection ==
  ASSUME IInv, SelectionInv, Running
  PROVE  SelectionInv'
<1> USE OpenStepsAre, NumbersAre
<1>1. /\ UNCHANGED <<selection, generation, content, changes, writeMu, serving, set, run,
                     subscribers, updates, historyVars>>
      /\ latest' \in {latest, 0}
  BY DEF Running, RunAttaches, RunAcquiresEIS, RunStartsSender, AcquireStream, MediaReturns,
         CloseInput, CloseSession, FinishBegins, WatchCloses, FinishEnds, FinishCloses,
         RunReturns, Attach
<1>2. CASE RunAttaches
  <2>1. service = "attach" /\ service' = "acquire" /\ attached' /\ UNCHANGED <<signals, finish>>
    BY <1>2 DEF RunAttaches, Attach
  <2>2. BeforeAttach /\ ~BeforeAttach' /\ (Open' => Open)
    BY <2>1 DEF BeforeAttach, Open
  <2>3. NoNewTransfer /\ (ChangeWaits => ChangeWaits')
    BY <2>1 DEF NoNewTransfer, ChangeWaits
  <2>4. HistoryTypes' /\ OneWrite' /\ ReadsInOrder' /\ PasteIsNotOlder'
        /\ \A s \in subscribers' : NotOlder(s)'
    BY <1>1, <1>2
       DEF RunAttaches, Attach, SelectionInv, HistoryTypes, OneWrite, Writing, ReadsInOrder,
           PasteIsNotOlder, NotOlder, HasData
  <2>5. NothingNewer' /\ NotPassed'
    BY <1>1, <2>1, <2>2, <2>3
       DEF SelectionInv, NothingNewer, NotPassed, HasData, Numbers, ChangeWaits, Open
  <2>6. PastesAccounted'
    BY <1>1, <2>1 DEF SelectionInv, PastesAccounted, Accounted
  <2>7. CopyComes'
    BY <1>1, <2>1, <2>2, <2>3
       DEF SelectionInv, CopyComes, ReadUnderWay, ReadFailed, Delivered
  <2>8. QED
    BY <2>4, <2>5, <2>6, <2>7 DEF SelectionInv
<1>3. CASE ~RunAttaches
  <2>1. UNCHANGED attached
    BY <1>3 DEF Running, RunAcquiresEIS, RunStartsSender, AcquireStream, MediaReturns,
           CloseInput, CloseSession, FinishBegins, WatchCloses, FinishEnds, FinishCloses,
           RunReturns
  <2>2. BeforeAttach' => BeforeAttach
    BY <1>3 DEF BeforeAttach, Running, RunAcquiresEIS, RunStartsSender, AcquireStream,
           MediaReturns, CloseInput, CloseSession, WatchCloses, FinishEnds, RunReturns
  <2>3. BeforeAttach' => ~attached'
    BY <2>1, <2>2 DEF SelectionInv, CopyComes
  <2>4. CASE WatchCloses
    <3>1. ~Open'
      BY <2>4 DEF WatchCloses, FinishBegins, Open
    <3>2. NoNewTransfer
      <4>1. CASE signals' = <<>>
        BY <4>1 DEF NoNewTransfer
      <4>2. CASE signals # <<>> /\ signals' = Tail(signals)
        BY <4>2, Taken DEF IInv, TypeOK
      <4>3. QED
        BY <2>4, <4>1, <4>2 DEF WatchCloses
    <3>3. QED
      BY <1>1, <2>1, <2>2, <2>3, <3>1, <3>2, SelectionFrame
  <2>5. CASE ~WatchCloses
    <3>1. UNCHANGED signals /\ (Open' => Open)
      BY <1>3, <2>5
         DEF Running, RunAcquiresEIS, RunStartsSender, AcquireStream, MediaReturns,
           CloseInput, CloseSession, FinishBegins, FinishEnds, FinishCloses, RunReturns, Open
    <3>2. NoNewTransfer /\ (ChangeWaits => ChangeWaits')
      BY <3>1 DEF NoNewTransfer, ChangeWaits
    <3>3. QED
      BY <1>1, <2>1, <2>2, <2>3, <3>1, <3>2, SelectionFrame
  <2>6. QED
    BY <2>4, <2>5
<1>4. QED
  BY <1>2, <1>3

\* The compositor's steps.
LEMMA DesktopSelection ==
  ASSUME IInv, SelectionInv, Desktop
  PROVE  SelectionInv'
<1> USE NumbersAre
<1>1. /\ UNCHANGED <<generation, content, changes, writeMu, serving, finish, controllerVars,
                     historyVars, service>>
      /\ selection.number <= selection'.number /\ selection'.number \in Nat
  <2>1. CASE DesktopCopies
    <3>1. selection'.number = selection.number + 1
      BY <2>1 DEF DesktopCopies
    <3>2. QED
      BY <2>1, <3>1 DEF Desktop, DesktopCopies, Numbers
  <2>2. CASE DesktopPastes
    BY <2>2 DEF Desktop, DesktopPastes, Numbers
  <2>3. QED
    BY <2>1, <2>2 DEF Desktop
<1>2. SignalTypes
  BY DEF IInv, TypeOK
<1>3. HistoryTypes' /\ ReadsInOrder' /\ PasteIsNotOlder' /\ \A s \in subscribers' : NotOlder(s)'
  BY <1>1 DEF SelectionInv, HistoryTypes, ReadsInOrder, PasteIsNotOlder, NotOlder, HasData
<1>4. OneWrite' /\ NothingNewer'
  BY <1>1 DEF SelectionInv, OneWrite, Writing, NothingNewer, Numbers
<1>5. Accounted' = Accounted
  BY <1>1 DEF Accounted
<1>6. CASE DesktopCopies
  <2>1. /\ selection' = [number |-> selection.number + 1, own |-> FALSE]
        /\ signals' = Append(signals, [kind |-> "changed", number |-> 0])
    BY <1>6 DEF DesktopCopies
  <2>2. [kind |-> "changed", number |-> 0] \in [kind : Kinds, number : Nat]
    BY DEF Kinds
  <2>3. ChangeWaits' /\ NoNewTransfer
    BY <1>2, <2>1, <2>2, Appended
  <2>4. PastesAccounted'
    BY <1>5, <2>1, <2>3 DEF SelectionInv, PastesAccounted, NoNewTransfer
  <2>5. NotPassed'
    BY <2>3 DEF NotPassed
  <2>6. CopyComes'
    BY <1>1, <2>3 DEF SelectionInv, CopyComes, ReadUnderWay, BeforeAttach
  <2>7. QED
    BY <1>3, <1>4, <2>4, <2>5, <2>6 DEF SelectionInv
<1>7. CASE DesktopPastes
  <2>1. /\ UNCHANGED selection /\ selection.own
        /\ signals' = Append(signals, [kind |-> "transfer", number |-> selection.number])
    BY <1>7 DEF DesktopPastes
  <2>2. [kind |-> "transfer", number |-> selection.number] \in [kind : Kinds, number : Nat]
    BY DEF Kinds, Numbers
  <2>3. PastesAccounted'
    <3>1. selection.number \in Accounted
      BY <2>1 DEF SelectionInv, PastesAccounted
    <3>2. \A i \in 1 .. Len(signals') :
            \/ signals'[i].number = selection.number
            \/ i \in 1 .. Len(signals) /\ signals'[i] = signals[i]
      BY <1>2, <2>1, <2>2, Appended
    <3>3. QED
      BY <1>5, <2>1, <3>1, <3>2 DEF SelectionInv, PastesAccounted
  <2>4. NotPassed'
    BY <2>1 DEF NotPassed
  <2>5. CopyComes'
    BY <1>1, <2>1 DEF SelectionInv, CopyComes, BeforeAttach
  <2>6. QED
    BY <1>3, <1>4, <2>3, <2>4, <2>5 DEF SelectionInv
<1>8. QED
  BY <1>6, <1>7 DEF Desktop

\* A crash.
LEMMA RestartSelection ==
  ASSUME IInv, SelectionInv, Restart
  PROVE  SelectionInv'
<1> USE NumbersAre, OpenStepsAre DEF NoSet, NoRun
<1>1. /\ SyncRestart /\ service' = "connect"
      /\ selection'.number = selection.number /\ selection'.own = FALSE
  BY DEF Restart, SyncRestart, IInv, TypeOK, SignalTypes
<1>2. HistoryTypes' /\ OneWrite' /\ NothingNewer'
  BY <1>1 DEF SyncRestart, HistoryTypes, OneWrite, Writing, NothingNewer, Numbers
<1>3. PastesAccounted' /\ PasteIsNotOlder' /\ ReadsInOrder' /\ NotPassed'
  BY <1>1 DEF SyncRestart, PastesAccounted, PasteIsNotOlder, ReadsInOrder, NotPassed, HasData
<1>4. CopyComes' /\ \A s \in subscribers' : NotOlder(s)'
  BY <1>1 DEF SyncRestart, CopyComes, Delivered
<1>5. QED
  BY <1>2, <1>3, <1>4 DEF SelectionInv

-----------------------------------------------------------------------------
(* A Write keeps it.                                                       *)

\* A caller of Set that is not in the middle of a Write.
LEMMA QuietSetSelection ==
  ASSUME IInv, SelectionInv, UNCHANGED serviceVars, NEW c \in Callers,
         SetBegins(c) \/ SetRefused(c) \/ SetLatest(c) \/ SetReturns(c)
  PROVE  SelectionInv'
<1> USE NumbersAre
<1>1. UNCHANGED <<portalVars, run, attached, subscribers, updates, historyVars>>
  BY DEF SetBegins, SetRefused, SetLatest, SetReturns
<1>2. set \in [Callers -> [at : SetSteps, base : Nat, number : Nat]]
  BY DEF IInv, TypeOK, ClipboardTypes
<1>3. /\ \A d \in Callers \ {c} : set'[d] = set[d]
      /\ set[c].at \notin Writing /\ set'[c].at \notin Writing
      /\ set'[c].number \in {set[c].number, 0}
  <2>1. CASE SetBegins(c) \/ SetRefused(c) \/ SetLatest(c)
    BY <1>2, <2>1 DEF SetBegins, SetRefused, SetLatest, SetAt, Writing
  <2>2. CASE SetReturns(c)
    BY <1>2, <2>2 DEF SetReturns, NoSet, Writing
  <2>3. QED
    BY <2>1, <2>2
<1>4. latest' \in {latest, set[c].number}
  BY DEF SetBegins, SetRefused, SetLatest, SetReturns
<1>5. HistoryTypes' /\ ReadsInOrder' /\ PasteIsNotOlder' /\ \A s \in subscribers' : NotOlder(s)'
  BY <1>1, <1>4
     DEF SelectionInv, HistoryTypes, ReadsInOrder, PasteIsNotOlder, NotOlder, HasData, Numbers
<1>6. OneWrite'
  <2>1. \A d \in Callers :
          /\ set'[d].number \in {set[d].number, 0}
          /\ set'[d].at \in Writing => set'[d] = set[d]
    BY <1>3
  <2>2. QED
    BY <1>1, <2>1 DEF SelectionInv, OneWrite, Writing, Numbers
<1>7. NothingNewer'
  <2>1. set[c].number <= selection.number
    BY DEF SelectionInv, OneWrite
  <2>2. QED
    BY <1>1, <1>4, <2>1 DEF SelectionInv, NothingNewer
<1>8. Accounted' = Accounted
  BY <1>1, <1>3 DEF Accounted, Writing
<1>9. PastesAccounted'
  BY <1>1, <1>8 DEF SelectionInv, PastesAccounted
<1>10. NotPassed'
  BY <1>1, <1>3 DEF SelectionInv, NotPassed, HasData, Writing, ChangeWaits, Open
<1>11. CopyComes'
  BY <1>1 DEF SelectionInv, CopyComes, ReadUnderWay, ChangeWaits, ReadFailed, Delivered,
              BeforeAttach, Open
<1>12. QED
  BY <1>5, <1>6, <1>7, <1>9, <1>10, <1>11 DEF SelectionInv

\* Write takes the lock, with the generation of now.
LEMMA LockSelection ==
  ASSUME IInv, SelectionInv, UNCHANGED serviceVars, NEW c \in Callers, WriteLocks(c)
  PROVE  SelectionInv'
<1> USE NumbersAre
<1>1. /\ UNCHANGED <<selection, asked, signals, generation, content, changes, serving, finish,
                     run, attached, latest, subscribers, updates, historyVars>>
      /\ writeMu = "none" /\ writeMu' = c
  BY DEF WriteLocks
<1>2. /\ \A d \in Callers \ {c} : set'[d] = set[d]
      /\ set[c].at = "lock"
      /\ set'[c] = [at |-> "call", base |-> generation, number |-> 0]
  BY DEF WriteLocks, IInv, TypeOK, ClipboardTypes
<1>3. \A d \in Callers : set[d].at \notin Writing
  BY <1>1 DEF SelectionInv, OneWrite
<1>4. HistoryTypes' /\ ReadsInOrder' /\ PasteIsNotOlder' /\ \A s \in subscribers' : NotOlder(s)'
  BY <1>1
     DEF SelectionInv, HistoryTypes, ReadsInOrder, PasteIsNotOlder, NotOlder, HasData
<1>5. OneWrite' /\ NothingNewer'
  <2>1. NothingNewer'
    BY <1>1 DEF SelectionInv, NothingNewer
  <2>2. \A d \in Callers \ {c} : set'[d].number <= selection.number /\ set'[d].at \notin Writing
    BY <1>2, <1>3 DEF SelectionInv, OneWrite
  <2>3. set'[c].number <= selection.number /\ set'[c].base <= generation /\ set'[c].at = "call"
    BY <1>2 DEF Numbers
  <2>4. OneWrite'
    BY <1>1, <2>2, <2>3 DEF OneWrite, Writing
  <2>5. QED
    BY <2>1, <2>4
<1>6. \A d \in Callers : set[d].at # "called" /\ set'[d].at # "called"
  BY <1>2, <1>3 DEF Writing
<1>7. Accounted' = Accounted
  BY <1>1, <1>6 DEF Accounted
<1>8. PastesAccounted'
  BY <1>1, <1>7 DEF SelectionInv, PastesAccounted
<1>9. NotPassed'
  BY <1>1, <1>6 DEF SelectionInv, NotPassed, HasData, ChangeWaits, Open
<1>10. CopyComes'
  BY <1>1 DEF SelectionInv, CopyComes, ReadUnderWay, ChangeWaits, ReadFailed, Delivered,
              BeforeAttach, Open
<1>11. QED
  BY <1>4, <1>5, <1>8, <1>9, <1>10 DEF SelectionInv

\* SetSelection takes effect: the session owns a selection that is newer than all.
LEMMA EffectSelection ==
  ASSUME IInv, SelectionInv, UNCHANGED serviceVars, NEW c \in Callers, WriteTakesEffect(c)
  PROVE  SelectionInv'
<1> USE NumbersAre
<1>1. /\ UNCHANGED <<asked, signals, generation, content, changes, writeMu, serving, finish,
                     run, attached, latest, subscribers, updates, historyVars>>
      /\ set[c].at = "call"
      /\ selection'.number = selection.number + 1 /\ selection'.own = TRUE
  BY DEF WriteTakesEffect
<1>2. /\ \A d \in Callers \ {c} : set'[d] = set[d]
      /\ set'[c].at = "called" /\ set'[c].base = set[c].base
      /\ set'[c].number = selection.number + 1
  BY DEF WriteTakesEffect, IInv, TypeOK, ClipboardTypes
<1>3. writeMu = c /\ c # "none" /\ set[c].base <= generation
  BY <1>1 DEF SelectionInv, OneWrite, Writing
<1>4. HistoryTypes' /\ ReadsInOrder' /\ PasteIsNotOlder' /\ \A s \in subscribers' : NotOlder(s)'
  BY <1>1
     DEF SelectionInv, HistoryTypes, ReadsInOrder, PasteIsNotOlder, NotOlder, HasData
<1>5. NothingNewer'
  BY <1>1 DEF SelectionInv, NothingNewer, Numbers
<1>6. OneWrite'
  <2>1. ASSUME NEW d \in Callers \ {c}
        PROVE  /\ set'[d].number <= selection'.number /\ set'[d].at \notin Writing
    BY <1>1, <1>2, <1>3 DEF SelectionInv, OneWrite, Numbers
  <2>2. set'[c].number <= selection'.number /\ content <= set'[c].number
    BY <1>1, <1>2 DEF SelectionInv, NothingNewer, Numbers
  <2>3. QED
    BY <1>1, <1>2, <1>3, <2>1, <2>2 DEF OneWrite, Writing
<1>7. \A n \in Accounted : n \in Accounted'
  <2>1. \A d \in Callers : set[d].at = "called" =>
          set'[d].at = "called" /\ set'[d].number = set[d].number
    BY <1>1, <1>2
  <2>2. QED
    BY <1>1, <2>1 DEF Accounted
<1>8. selection'.number \in Accounted'
  BY <1>1, <1>2 DEF Accounted, Numbers
<1>9. PastesAccounted'
  BY <1>1, <1>7, <1>8 DEF SelectionInv, PastesAccounted
<1>10. NotPassed' /\ CopyComes'
  BY <1>1 DEF SelectionInv, NotPassed, CopyComes, BeforeAttach
<1>11. QED
  BY <1>4, <1>5, <1>6, <1>9, <1>10 DEF SelectionInv

\* Write fails: what took effect is lost.
LEMMA FailSelection ==
  ASSUME IInv, SelectionInv, UNCHANGED serviceVars, NEW c \in Callers, WriteFails(c)
  PROVE  SelectionInv'
<1> USE NumbersAre
<1>1. /\ UNCHANGED <<selection, asked, signals, generation, content, changes, serving, finish,
                     run, attached, latest, subscribers, updates, failed, since, heard>>
      /\ set[c].at \in Writing
      /\ lost' = IF set[c].at = "called" THEN lost \cup {set[c].number} ELSE lost
  BY DEF WriteFails, Writing
<1>2. /\ \A d \in Callers \ {c} : set'[d] = set[d]
      /\ set'[c].at = "failed" /\ set'[c].number = set[c].number
  BY DEF WriteFails, SetAt, IInv, TypeOK, ClipboardTypes
<1>3. \A d \in Callers \ {c} : set[d].at \notin Writing
  BY <1>1 DEF SelectionInv, OneWrite
<1>4. HistoryTypes' /\ ReadsInOrder' /\ \A s \in subscribers' : NotOlder(s)'
  BY <1>1 DEF SelectionInv, HistoryTypes, ReadsInOrder, NotOlder, HasData
<1>5. PasteIsNotOlder'
  BY <1>1 DEF SelectionInv, PasteIsNotOlder
<1>6. NothingNewer' /\ OneWrite'
  BY <1>1, <1>2, <1>3 DEF SelectionInv, NothingNewer, OneWrite, Writing
<1>7. \A n \in Accounted : n \in Accounted'
  <2>1. \A d \in Callers : set[d].at = "called" => d = c
    BY <1>3 DEF Writing
  <2>2. QED
    BY <1>1, <2>1 DEF Accounted
<1>8. PastesAccounted'
  BY <1>1, <1>7 DEF SelectionInv, PastesAccounted
<1>9. NotPassed'
  BY <1>1, <1>2 DEF SelectionInv, NotPassed, HasData, ChangeWaits, Open
<1>10. CopyComes'
  BY <1>1 DEF SelectionInv, CopyComes, ReadUnderWay, ChangeWaits, ReadFailed, Delivered,
              BeforeAttach, Open
<1>11. QED
  BY <1>4, <1>5, <1>6, <1>8, <1>9, <1>10 DEF SelectionInv

\* Write returns: the content is kept, or lost since a change was seen.
LEMMA ReturnSelection ==
  ASSUME IInv, SelectionInv, UNCHANGED serviceVars, NEW c \in Callers, WriteReturns(c)
  PROVE  SelectionInv'
<1> USE NumbersAre
<1>1. /\ UNCHANGED <<selection, asked, signals, changes, serving, finish, run, attached,
                     latest, subscribers, updates, failed, since, heard>>
      /\ set[c].at = "called" /\ set[c].at \in Writing
  BY DEF WriteReturns, Writing
<1>2. /\ \A d \in Callers \ {c} : set'[d] = set[d]
      /\ set'[c].at = "written" /\ set'[c].number = set[c].number
  BY DEF WriteReturns, SetAt, IInv, TypeOK, ClipboardTypes
<1>3. /\ \A d \in Callers \ {c} : set[d].at \notin Writing
      /\ set[c].number <= selection.number /\ content <= set[c].number
  BY <1>1 DEF SelectionInv, OneWrite
<1>4. \/ /\ generation = set[c].base /\ generation' = generation + 1
         /\ content' = set[c].number /\ lost' = lost
      \/ lost' = lost \cup {set[c].number} /\ UNCHANGED <<generation, content>>
  BY DEF WriteReturns, MayKeep
<1>5. generation <= generation' /\ content <= content' /\ content' <= selection.number
  BY <1>3, <1>4 DEF Numbers, SelectionInv, NothingNewer
<1>6. HistoryTypes' /\ \A s \in subscribers' : NotOlder(s)'
  BY <1>1 DEF SelectionInv, HistoryTypes, NotOlder, HasData
<1>7. ReadsInOrder'
  BY <1>1, <1>4 DEF SelectionInv, ReadsInOrder, Numbers
<1>8. PasteIsNotOlder'
  BY <1>1, <1>4 DEF SelectionInv, PasteIsNotOlder
<1>9. NothingNewer' /\ OneWrite'
  BY <1>1, <1>2, <1>3, <1>5 DEF SelectionInv, NothingNewer, OneWrite, Writing
<1>10. \A n \in Accounted : n \in Accounted'
  <2>1. \A d \in Callers : set[d].at = "called" => d = c
    BY <1>3 DEF Writing
  <2>2. ASSUME NEW n \in Accounted PROVE n <= content' \/ n \in lost'
    BY <1>3, <1>4, <2>1 DEF Accounted, Numbers
  <2>3. QED
    BY <2>2 DEF Accounted
<1>11. PastesAccounted'
  BY <1>1, <1>10 DEF SelectionInv, PastesAccounted
<1>12. (Open /\ ~selection.own /\ ~ChangeWaits) => UNCHANGED generation
  BY <1>1, <1>4 DEF SelectionInv, NotPassed
<1>13. NotPassed'
  <2>1. \A d \in Callers : set'[d].at # "called"
    BY <1>2, <1>3 DEF Writing
  <2>2. QED
    BY <1>1, <1>12, <2>1 DEF SelectionInv, NotPassed, HasData, ChangeWaits, Open
<1>14. CopyComes'
  BY <1>1, <1>12
     DEF SelectionInv, CopyComes, ReadUnderWay, ChangeWaits, ReadFailed, Delivered,
         BeforeAttach, Open
<1>15. QED
  BY <1>6, <1>7, <1>8, <1>9, <1>11, <1>13, <1>14 DEF SelectionInv

-----------------------------------------------------------------------------
(* Controller.run and watch keep it.                                       *)

\* What a step of run leaves alone.
LEMMA RunLeaves ==
  ASSUME SelectionInv, Numbers, RunStep, UNCHANGED serviceVars
  PROVE  /\ UNCHANGED <<selection, asked, signals, generation, content, writeMu, serving,
                        finish, set, subscribers, lost, since, heard>>
         /\ OneWrite' /\ PasteIsNotOlder' /\ PastesAccounted'
         /\ (ChangeWaits' <=> ChangeWaits) /\ (Open' <=> Open)
         /\ (BeforeAttach' <=> BeforeAttach)
<1>1. /\ UNCHANGED <<selection, asked, signals, generation, content, writeMu, serving,
                     finish, set, subscribers, lost, since, heard>>
  BY DEF RunStep, RunReceives, RunAdmitted, RunReads, RunReadFails, RunChecks, RunPublishes,
         RunEnds
<1>2. OneWrite' /\ PasteIsNotOlder' /\ PastesAccounted'
  BY <1>1 DEF SelectionInv, OneWrite, PasteIsNotOlder, PastesAccounted, Accounted
<1>3. /\ (ChangeWaits' <=> ChangeWaits) /\ (Open' <=> Open)
      /\ (BeforeAttach' <=> BeforeAttach)
  BY <1>1 DEF ChangeWaits, Open, BeforeAttach
<1>4. QED
  BY <1>1, <1>2, <1>3

\* run takes a change, is admitted, or gives one up.
LEMMA RunTakesSelection ==
  ASSUME IInv, SelectionInv, UNCHANGED serviceVars,
         RunReceives \/ RunAdmitted \/ RunReadFails \/ RunChecks \/ RunEnds
  PROVE  SelectionInv'
<1> USE NumbersAre
<1>1. RunStep
  BY DEF RunStep
<1> USE <1>1, RunLeaves
<1>2. UNCHANGED updates /\ latest' \in {latest, 0} /\ (attached' => attached)
      /\ failed' \in {failed, run.generation}
  BY DEF RunReceives, RunAdmitted, RunReadFails, RunChecks, RunEnds
<1>3. run \in [at : RunSteps, generation : Nat, data : Nat]
  BY DEF IInv, TypeOK, ClipboardTypes
<1>4. /\ run'.data \in {run.data, 0}
      /\ run'.at \in {"check", "publish"} =>
           run.at = "check" /\ run'.data = run.data /\ run'.generation = run.generation
  BY <1>3 DEF RunReceives, RunAdmitted, RunReadFails, RunChecks, RunEnds, NoRun
<1>5. HistoryTypes' /\ NothingNewer'
  BY <1>2, <1>4 DEF SelectionInv, HistoryTypes, NothingNewer, Numbers
<1>6. \A s \in subscribers' : NotOlder(s)'
  BY <1>2, <1>4 DEF SelectionInv, NotOlder, HasData
<1>7. NotPassed'
  BY <1>4 DEF SelectionInv, NotPassed, HasData
<1>8. ReadsInOrder'
  <2> USE <1>3 DEF SelectionInv, ReadsInOrder, Numbers
  <2>1. CASE RunReceives
    BY <2>1 DEF RunReceives
  <2>2. CASE RunAdmitted
    BY <2>2 DEF RunAdmitted
  <2>3. CASE RunReadFails
    BY <2>3 DEF RunReadFails, NoRun
  <2>4. CASE RunChecks
    BY <2>4 DEF RunChecks, NoRun
  <2>5. CASE RunEnds
    BY <2>5 DEF RunEnds
  <2>6. QED
    BY <2>1, <2>2, <2>3, <2>4, <2>5
<1>9. ~ReadFailed' => ~ReadFailed
  <2>1. CASE RunReadFails /\ run.at = "call"
    BY <2>1 DEF RunReadFails, ReadFailed, SelectionInv, ReadsInOrder, Numbers
  <2>2. CASE UNCHANGED failed
    BY <2>2 DEF ReadFailed
  <2>3. QED
    BY <2>1, <2>2 DEF RunReceives, RunAdmitted, RunReadFails, RunChecks, RunEnds
<1>10. (Open' /\ ~ReadFailed' /\ (attached' \/ BeforeAttach')) => (ReadUnderWay => ReadUnderWay')
  <2> SUFFICES ASSUME Open', ~ReadFailed', attached' \/ BeforeAttach', ReadUnderWay
               PROVE  ReadUnderWay'
    OBVIOUS
  <2> USE DEF ReadUnderWay
  <2>1. CASE RunReceives
    BY <2>1, <1>3 DEF RunReceives
  <2>2. CASE RunAdmitted
    BY <2>2, <1>3 DEF RunAdmitted
  <2>3. CASE RunReadFails
    <3>1. CASE run.at = "read"
      BY <2>3, <3>1 DEF RunReadFails, Open
    <3>2. CASE run.at = "call"
      <4>1. run.generation # generation \/ run.generation = 0
        BY <2>3, <3>2 DEF RunReadFails, ReadFailed
      <4>2. run.generation # 0
        BY <3>2 DEF SelectionInv, ReadsInOrder, Numbers
      <4>3. QED
        BY <2>3, <3>2, <4>1, <4>2 DEF RunReadFails
    <3>3. QED
      BY <2>3, <3>1, <3>2 DEF RunReadFails
  <2>4. CASE RunChecks
    BY <2>4, <1>3 DEF RunChecks
  <2>5. CASE RunEnds
    BY <2>5 DEF RunEnds, SelectionInv, CopyComes
  <2>6. QED
    BY <2>1, <2>2, <2>3, <2>4, <2>5
<1>11. CopyComes'
  <2>1. BeforeAttach' => ~attached'
    BY <1>2 DEF SelectionInv, CopyComes
  <2>2. Delivered => Delivered'
    BY <1>2 DEF Delivered
  <2>3. QED
    BY <1>2, <1>9, <1>10, <2>1, <2>2 DEF SelectionInv, CopyComes
<1>12. QED
  BY <1>5, <1>6, <1>7, <1>8, <1>11 DEF SelectionInv

\* run reads the selection of now.
LEMMA ReadSelection ==
  ASSUME IInv, SelectionInv, UNCHANGED serviceVars, RunReads
  PROVE  SelectionInv'
<1> USE NumbersAre
<1>1. RunStep
  BY DEF RunStep
<1> USE <1>1, RunLeaves
<1>2. /\ UNCHANGED <<changes, updates, latest, attached, failed>>
      /\ run.at = "call" /\ run'.at = "check"
      /\ run'.generation = run.generation /\ run'.data = selection.number
  BY DEF RunReads, IInv, TypeOK, ClipboardTypes
<1>3. HistoryTypes' /\ ReadsInOrder'
  BY <1>2 DEF SelectionInv, HistoryTypes, ReadsInOrder
<1>4. NothingNewer'
  BY <1>2 DEF SelectionInv, NothingNewer, Numbers
<1>5. NotPassed'
  BY <1>2 DEF SelectionInv, NotPassed
<1>6. \A s \in subscribers' : NotOlder(s)'
  <2>1. ASSUME NEW s \in subscribers PROVE NotOlder(s)'
    <3>1. s \in Subscribers /\ updates[s] <= selection.number /\ heard[s] <= selection.number
      BY DEF SelectionInv, HistoryTypes, NothingNewer
    <3>2. NotOlder(s)
      BY DEF SelectionInv
    <3>3. QED
      BY <1>2, <3>1, <3>2 DEF NotOlder
  <2>2. QED
    BY <2>1
<1>7. CopyComes'
  BY <1>2 DEF SelectionInv, CopyComes, ReadUnderWay, ReadFailed, Delivered
<1>8. QED
  BY <1>3, <1>4, <1>5, <1>6, <1>7 DEF SelectionInv

\* run publishes what it read: a subscriber that waited for it has it.
LEMMA PublishSelection ==
  ASSUME IInv, SelectionInv, UNCHANGED serviceVars, RunPublishes
  PROVE  SelectionInv'
<1> USE NumbersAre
<1>1. RunStep
  BY DEF RunStep
<1> USE <1>1, RunLeaves
<1>2. /\ UNCHANGED <<changes, attached, failed>>
      /\ run.at = "publish" /\ HasData /\ latest' = run.data /\ run' = NoRun
      /\ updates' = [s \in Subscribers |-> IF s \in subscribers THEN run.data ELSE updates[s]]
  BY DEF RunPublishes, HasData
<1>3. HistoryTypes' /\ ReadsInOrder'
  BY <1>2 DEF SelectionInv, HistoryTypes, ReadsInOrder, NoRun, Numbers
<1>4. NothingNewer'
  BY <1>2 DEF SelectionInv, NothingNewer, Numbers, NoRun
<1>5. NotPassed'
  BY <1>2 DEF SelectionInv, NotPassed, HasData, NoRun
<1>6. \A s \in subscribers' : s \in Subscribers /\ updates'[s] = run.data
  BY <1>2 DEF SelectionInv, HistoryTypes
<1>7. \A s \in subscribers' : NotOlder(s)'
  <2>1. ASSUME NEW s \in subscribers PROVE NotOlder(s)'
    <3>1. NotOlder(s)
      BY DEF SelectionInv
    <3>2. QED
      BY <1>2, <1>6, <3>1 DEF NotOlder, HasData, NoRun
  <2>2. QED
    BY <2>1
<1>8. CopyComes'
  <2>1. BeforeAttach' => ~attached'
    BY <1>2 DEF SelectionInv, CopyComes
  <2> SUFFICES ASSUME attached' \/ BeforeAttach', Open', ~selection'.own, ~ReadFailed',
                      ~ReadUnderWay'
               PROVE  Delivered'
    BY <2>1 DEF CopyComes
  <2>2. ReadUnderWay \/ Delivered
    BY <1>2 DEF SelectionInv, CopyComes, ReadFailed
  <2>3. CASE run.generation = generation
    <3>1. run.data = selection.number
      BY <1>2, <2>3 DEF SelectionInv, NotPassed, ReadUnderWay
    <3>2. QED
      BY <1>6, <3>1 DEF Delivered
  <2>4. CASE run.generation # generation
    <3>1. Delivered
      BY <1>2, <2>2, <2>4 DEF ReadUnderWay
    <3>2. ASSUME NEW s \in subscribers, selection.number > since[s],
                 selection.number = updates[s]
          PROVE  run.data = selection.number
      <4>1. NotOlder(s) /\ s \in Subscribers /\ run.data <= selection.number
        BY DEF SelectionInv, HistoryTypes, NothingNewer
      <4>2. updates[s] <= run.data
        BY <1>2, <3>2, <4>1 DEF NotOlder
      <4>3. QED
        BY <3>2, <4>1, <4>2 DEF Numbers
    <3>3. QED
      BY <1>6, <3>1, <3>2 DEF Delivered
  <2>5. QED
    BY <2>3, <2>4
<1>9. QED
  BY <1>3, <1>4, <1>5, <1>7, <1>8 DEF SelectionInv

\* watch takes a change: the generation moves on.
LEMMA ChangeSelection ==
  ASSUME IInv, SelectionInv, UNCHANGED serviceVars, WatchChange
  PROVE  SelectionInv'
<1> USE NumbersAre
<1>1. /\ UNCHANGED <<selection, asked, content, writeMu, serving, finish, controllerVars,
                     historyVars>>
      /\ generation' = generation + 1 /\ changes' = generation + 1
      /\ signals # <<>> /\ signals' = Tail(signals)
  BY DEF WatchChange
<1>2. HistoryTypes' /\ PasteIsNotOlder' /\ NothingNewer' /\ \A s \in subscribers' : NotOlder(s)'
  BY <1>1 DEF SelectionInv, HistoryTypes, PasteIsNotOlder, NothingNewer, NotOlder, HasData
<1>3. OneWrite'
  BY <1>1 DEF SelectionInv, OneWrite, Writing, Numbers
<1>4. PastesAccounted'
  <2>1. NoNewTransfer
    BY <1>1, Taken DEF IInv, TypeOK
  <2>2. Accounted' = Accounted
    BY <1>1 DEF Accounted
  <2>3. QED
    BY <1>1, <2>1, <2>2 DEF SelectionInv, PastesAccounted, NoNewTransfer
<1>6. ReadsInOrder'
  BY <1>1 DEF SelectionInv, ReadsInOrder, Numbers
<1>7. NotPassed'
  <2>1. \A c \in Callers : set[c].at = "called" => set[c].base # generation + 1
    BY DEF SelectionInv, OneWrite, Writing, Numbers
  <2>2. run.generation # generation + 1
    BY DEF SelectionInv, ReadsInOrder, Numbers
  <2>3. QED
    BY <1>1, <2>1, <2>2 DEF NotPassed, HasData
<1>8. CopyComes'
  BY <1>1 DEF SelectionInv, CopyComes, ReadUnderWay, BeforeAttach, Numbers
<1>9. QED
  BY <1>2, <1>3, <1>4, <1>6, <1>7, <1>8 DEF SelectionInv

\* watch takes a transfer when no Write is under way, or a transfer is through.
LEMMA TransferSelection ==
  ASSUME IInv, SelectionInv, UNCHANGED serviceVars,
         WatchTransfer \/ \E t \in serving : Served(t)
  PROVE  SelectionInv'
<1> USE NumbersAre
<1>1. /\ UNCHANGED <<selection, asked, generation, content, changes, writeMu, finish,
                     controllerVars, historyVars>>
  BY DEF WatchTransfer, Served
<1>2. NoNewTransfer /\ (ChangeWaits => ChangeWaits')
  <2>1. CASE WatchTransfer
    BY <2>1, Taken DEF WatchTransfer, IInv, TypeOK
  <2>2. CASE UNCHANGED signals
    BY <2>2 DEF NoNewTransfer, ChangeWaits
  <2>3. QED
    BY <2>1, <2>2 DEF Served
<1>3. PasteIsNotOlder'
  <2>1. CASE WatchTransfer
    <3>1. Head(signals).number \in Accounted
      <4>1. 1 \in 1 .. Len(signals) /\ Head(signals) = signals[1]
        BY <2>1, Taken DEF WatchTransfer, IInv, TypeOK
      <4>2. QED
        BY <2>1, <4>1 DEF WatchTransfer, SelectionInv, PastesAccounted
    <3>2. \A c \in Callers : set[c].at # "called"
      BY <2>1 DEF WatchTransfer, MayCopy, SelectionInv, OneWrite, Writing
    <3>3. Head(signals).number <= content \/ Head(signals).number \in lost
      BY <3>1, <3>2 DEF Accounted
    <3>4. serving' \subseteq serving \cup {[wanted |-> Head(signals).number,
                                            content |-> content]}
      BY <2>1 DEF WatchTransfer
    <3>5. content >= Head(signals).number \/ Head(signals).number \in lost
      BY <3>1, <3>3 DEF Accounted, Numbers
    <3>6. QED
      BY <1>1, <3>4, <3>5 DEF SelectionInv, PasteIsNotOlder
  <2>2. CASE serving' \subseteq serving
    BY <1>1, <2>2 DEF SelectionInv, PasteIsNotOlder
  <2>3. QED
    BY <2>1, <2>2 DEF Served
<1>4. HistoryTypes' /\ OneWrite' /\ NothingNewer' /\ ReadsInOrder'
      /\ \A s \in subscribers' : NotOlder(s)'
  BY <1>1 DEF SelectionInv, HistoryTypes, OneWrite, Writing, NothingNewer, ReadsInOrder,
              NotOlder, HasData
<1>5. PastesAccounted'
  <2>1. Accounted' = Accounted
    BY <1>1 DEF Accounted
  <2>2. QED
    BY <1>1, <1>2, <2>1 DEF SelectionInv, PastesAccounted, NoNewTransfer
<1>6. NotPassed'
  BY <1>1, <1>2 DEF SelectionInv, NotPassed, HasData, Open
<1>7. CopyComes'
  BY <1>1, <1>2 DEF SelectionInv, CopyComes, ReadUnderWay, ReadFailed, Delivered,
                    BeforeAttach, Open
<1>8. QED
  BY <1>3, <1>4, <1>5, <1>6, <1>7 DEF SelectionInv

-----------------------------------------------------------------------------
(* Subscribers keep it, and so does every step.                            *)

\* A subscriber comes, goes or receives.
LEMMA SubscriptionSelection ==
  ASSUME IInv, SelectionInv, Subscription
  PROVE  SelectionInv'
<1> USE NumbersAre
<1>1. UNCHANGED <<portalVars, set, run, attached, latest, lost, failed, service>>
  BY DEF Subscription, Subscribe, Unsubscribe, Receive
<1>2. OneWrite' /\ PasteIsNotOlder' /\ ReadsInOrder' /\ NotPassed'
  BY <1>1 DEF SelectionInv, OneWrite, PasteIsNotOlder, ReadsInOrder, NotPassed, HasData,
              ChangeWaits, Open
<1>3. PastesAccounted'
  BY <1>1 DEF SelectionInv, PastesAccounted, Accounted
<1>4. PICK s \in Subscribers : Subscribe(s) \/ Unsubscribe(s) \/ Receive(s)
  BY DEF Subscription
<1>5. /\ updates \in [Subscribers -> Nat] /\ heard \in [Subscribers -> Nat]
      /\ since \in [Subscribers -> Int] /\ subscribers \subseteq Subscribers
  BY DEF SelectionInv, HistoryTypes
<1>6. \A r \in Subscribers \ {s} :
        /\ updates'[r] = updates[r] /\ heard'[r] = heard[r] /\ since'[r] = since[r]
        /\ r \in subscribers' <=> r \in subscribers
  BY <1>4, <1>5 DEF Subscribe, Unsubscribe, Receive
<1>7. /\ updates' \in [Subscribers -> Nat] /\ heard' \in [Subscribers -> Nat]
      /\ since' \in [Subscribers -> Int] /\ subscribers' \subseteq Subscribers
  <2>1. CASE Subscribe(s)
    BY <1>5, <2>1 DEF Subscribe, Numbers
  <2>2. CASE Unsubscribe(s)
    BY <1>5, <2>2 DEF Unsubscribe
  <2>3. CASE Receive(s)
    BY <1>5, <2>3 DEF Receive, Numbers
  <2>4. QED
    BY <1>4, <2>1, <2>2, <2>3
<1>8. HistoryTypes'
  BY <1>1, <1>7 DEF SelectionInv, HistoryTypes
<1>9. \A r \in subscribers' \ {s} : r \in subscribers /\ r \in Subscribers /\ NotOlder(r)
  BY <1>6, <1>7 DEF SelectionInv
<1>10. \A r \in subscribers' \ {s} : NotOlder(r)'
  <2>1. ASSUME NEW r \in subscribers' \ {s} PROVE NotOlder(r)'
    BY <1>1, <1>6, <1>7, <1>9 DEF NotOlder, HasData
  <2>2. QED
    BY <2>1
<1>11. CASE Subscribe(s)
  <2>1. /\ updates'[s] = latest /\ heard'[s] = heard[s] /\ since'[s] = selection.number
        /\ subscribers' = subscribers \cup {s}
    BY <1>5, <1>11 DEF Subscribe
  <2>2. updates'[s] <= selection.number /\ heard'[s] <= selection.number
    BY <2>1 DEF SelectionInv, NothingNewer
  <2>3. NothingNewer'
    BY <1>1, <1>6, <2>2 DEF SelectionInv, NothingNewer
  <2>4. NotOlder(s)'
    BY <2>1, <2>2, <1>1, <1>7 DEF NotOlder, Numbers
  <2>5. CopyComes'
    <3>1. Delivered => Delivered'
      BY <1>1, <1>6, <1>9, <2>1 DEF Delivered, Numbers
    <3>2. QED
      BY <1>1, <3>1 DEF SelectionInv, CopyComes, ReadUnderWay, ChangeWaits, ReadFailed,
                        BeforeAttach, Open
  <2>6. QED
    BY <1>2, <1>3, <1>8, <1>10, <2>3, <2>4, <2>5 DEF SelectionInv
<1>12. CASE Unsubscribe(s)
  <2>1. /\ updates'[s] = 0 /\ heard'[s] = 0 /\ s \notin subscribers'
    BY <1>5, <1>12 DEF Unsubscribe
  <2>2. NothingNewer'
    BY <1>1, <1>6, <2>1 DEF SelectionInv, NothingNewer, Numbers
  <2>3. CopyComes'
    <3>1. Delivered => Delivered'
      BY <1>1, <1>6, <1>9, <2>1 DEF Delivered
    <3>2. QED
      BY <1>1, <3>1 DEF SelectionInv, CopyComes, ReadUnderWay, ChangeWaits, ReadFailed,
                        BeforeAttach, Open
  <2>4. QED
    BY <1>2, <1>3, <1>8, <1>10, <2>1, <2>2, <2>3 DEF SelectionInv
<1>13. CASE Receive(s)
  <2>1. /\ updates[s] # 0 /\ updates'[s] = 0 /\ heard'[s] = updates[s] /\ since'[s] = since[s]
        /\ subscribers' = subscribers
    BY <1>5, <1>13 DEF Receive
  <2>2. NothingNewer'
    BY <1>1, <1>6, <2>1 DEF SelectionInv, NothingNewer, Numbers
  <2>3. s \in subscribers => NotOlder(s)'
    BY <1>1, <2>1 DEF SelectionInv, NotOlder, HasData, Numbers
  <2>4. CopyComes'
    <3>1. Delivered => Delivered'
      <4> SUFFICES ASSUME Delivered PROVE Delivered'
        OBVIOUS
      <4>1. ASSUME s \in subscribers, selection.number > since[s]
            PROVE  selection.number = heard'[s]
        <5>1. NotOlder(s) /\ updates[s] <= selection.number
          BY <1>5, <4>1 DEF SelectionInv, NothingNewer
        <5>2. heard[s] = selection.number => heard[s] <= updates[s]
          BY <2>1, <4>1, <5>1 DEF NotOlder
        <5>3. QED
          BY <2>1, <4>1, <5>1, <5>2 DEF Delivered, Numbers
      <4>2. QED
        BY <1>1, <1>6, <1>9, <2>1, <4>1 DEF Delivered
    <3>2. QED
      BY <1>1, <3>1 DEF SelectionInv, CopyComes, ReadUnderWay, ChangeWaits, ReadFailed,
                        BeforeAttach, Open
  <2>5. QED
    BY <1>2, <1>3, <1>8, <1>10, <2>1, <2>2, <2>3, <2>4 DEF SelectionInv
<1>14. QED
  BY <1>4, <1>11, <1>12, <1>13

\* Every step keeps the invariant of the selection.
LEMMA NextSelection == IInv /\ SelectionInv /\ [Next]_vars => SelectionInv'
<1> SUFFICES ASSUME IInv, SelectionInv, [Next]_vars PROVE SelectionInv'
  OBVIOUS
<1>1. ASSUME NEW c \in Callers, SetStep(c), UNCHANGED serviceVars PROVE SelectionInv'
  BY <1>1, QuietSetSelection, LockSelection, EffectSelection, FailSelection, ReturnSelection
     DEF SetStep
<1>2. ASSUME RunStep, UNCHANGED serviceVars PROVE SelectionInv'
  BY <1>2, RunTakesSelection, ReadSelection, PublishSelection DEF RunStep
<1>3. CASE PeerSets
  <2>1. UNCHANGED serviceVars /\ \E c \in Callers : SetStep(c)
    BY <1>3 DEF PeerSets, SetStep
  <2>2. QED
    BY <1>1, <2>1
<1>4. CASE Clipboard
  <2>1. /\ UNCHANGED serviceVars
        /\ \/ WatchChange \/ WatchTransfer \/ RunStep
           \/ \E t \in serving : Served(t)
           \/ \E c \in Callers : SetStep(c)
    BY <1>4 DEF Clipboard, SetStep, RunStep
  <2>2. QED
    BY <1>1, <1>2, <2>1, ChangeSelection, TransferSelection
<1>5. CASE UNCHANGED vars
  <2>1. UNCHANGED <<syncVars, service>>
    BY <1>5 DEF vars
  <2>2. NoNewTransfer /\ (ChangeWaits => ChangeWaits')
    BY <2>1 DEF NoNewTransfer, ChangeWaits
  <2>3. BeforeAttach' <=> BeforeAttach
    BY <2>1 DEF BeforeAttach
  <2>4. BeforeAttach => ~attached
    BY DEF SelectionInv, CopyComes
  <2>5. QED
    BY <2>1, <2>2, <2>3, <2>4, NumbersAre, SelectionFrame DEF Open
<1>6. QED
  BY <1>3, <1>4, <1>5, OpeningSelection, RunningSelection, ClosesSelection, DesktopSelection,
     SubscriptionSelection, RestartSelection
     DEF Next

\* Both invariants hold in every reachable state.
THEOREM SelectionInvariant == Spec => [](IInv /\ SelectionInv)
<1> QED
  BY InitIInv, NextIInv, InitSelection, NextSelection, PTL DEF Spec

\* A program that pastes gets the content of the selection it asked for, or of a
\* newer one, unless Write did not keep it (portal.go: watch, Write).
THEOREM PasteIsFresh == Spec => []PasteIsNotOlder
<1>1. SelectionInv => PasteIsNotOlder
  BY DEF SelectionInv
<1> QED
  BY <1>1, SelectionInvariant, PTL

\* A copy on the desktop is under way to every channel that subscribed before it,
\* or has arrived (portal.go: watch, Read; controller.go: run).
THEOREM CopyArrives == Spec => []CopyUnderWay
<1>1. SelectionInv => CopyUnderWay
  BY DEF SelectionInv, CopyComes, CopyUnderWay
<1> QED
  BY <1>1, SelectionInvariant, PTL
=============================================================================
