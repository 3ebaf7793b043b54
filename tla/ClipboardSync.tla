--------------------------- MODULE ClipboardSync ----------------------------
(***************************************************************************)
(* The desktop clipboard: the selection part of capture.Session (watch,    *)
(* Read, Write, writeSelection, admit, finish) and clipboard.Controller    *)
(* with its goroutine run (capture/portal.go, clipboard/controller.go).    *)
(*                                                                         *)
(* The selections that the compositor has had are numbered in their order, *)
(* and a content is the number of its selection: a greater number is a     *)
(* newer content.  A call on D-Bus is sent, takes effect at the compositor *)
(* and returns in three steps, and signals wait in a queue, so everything  *)
(* in this module may be overtaken by the compositor.                      *)
(***************************************************************************)
EXTENDS Integers, Sequences, FiniteSets

CONSTANTS
  Callers,        \* the callers of Controller.Set
  Subscribers,    \* the callers of Controller.Subscribe
  MaxSelections,  \* bound: selections of the compositor
  MaxTransfers    \* bound: transfers that other programs ask the session for

ASSUME SyncAssumption ==
  /\ MaxSelections \in Nat /\ MaxTransfers \in Nat
  /\ IsFiniteSet(Callers) /\ "none" \notin Callers /\ IsFiniteSet(Subscribers)

VARIABLES
  selection,   \* of the compositor: its number, and whether the session owns it
  asked,       \* transfers the compositor has asked for
  signals,     \* Session.signals, in order
  generation,  \* Session.clipboardGeneration
  content,     \* Session.clipboardContent, 0 when none was written
  changes,     \* Session.clipboardChanges: a generation, 0 when empty
  writeMu,     \* who holds Session.clipboardWriteMu
  serving,     \* the transfers that writeSelection is at work on
  finish       \* where Session.finish is

portalVars == <<selection, asked, signals, generation, content, changes, writeMu,
                serving, finish>>

VARIABLES
  set,         \* where each caller is in Set and in Session.Write below it
  run,         \* where Controller.run is
  attached,    \* Controller.backend is the session
  latest,      \* Controller.latest, 0 when nil
  subscribers, \* Controller.subscribers
  updates      \* the channel of each subscriber, 0 when empty

controllerVars == <<set, run, attached, latest, subscribers, updates>>

VARIABLES
  lost,        \* history: selections whose content Write did not keep
  failed,      \* history: the last generation whose content could not be read
  since,       \* history: the selection when each subscribed, -1 before that
  heard        \* history: the newest content each subscriber received

historyVars == <<lost, failed, since, heard>>

syncVars == <<portalVars, controllerVars, historyVars>>

Contents == 1 .. MaxSelections
NoSet == [at |-> "idle", base |-> 0, number |-> 0]
NoRun == [at |-> "idle", generation |-> 0, data |-> 0]

\* The session still takes calls: closing is set first in finish.
Open == finish = "open"

SetAt(c, where) == set' = [set EXCEPT ![c].at = where]

SyncInit ==
  /\ selection = [number |-> 0, own |-> FALSE] /\ asked = 0
  /\ signals = <<>> /\ generation = 0 /\ content = 0 /\ changes = 0
  /\ writeMu = "none" /\ serving = {} /\ finish = "open"
  /\ set = [c \in Callers |-> NoSet]
  /\ run = NoRun /\ attached = FALSE /\ latest = 0
  /\ subscribers = {} /\ updates = [s \in Subscribers |-> 0]
  /\ lost = {} /\ failed = 0
  /\ since = [s \in Subscribers |-> -1] /\ heard = [s \in Subscribers |-> 0]

\* The process starts again; the compositor goes on.
SyncRestart ==
  /\ selection' = [selection EXCEPT !.own = FALSE] /\ UNCHANGED asked
  /\ signals' = <<>> /\ generation' = 0 /\ content' = 0 /\ changes' = 0
  /\ writeMu' = "none" /\ serving' = {} /\ finish' = "open"
  /\ set' = [c \in Callers |-> NoSet]
  /\ run' = NoRun /\ attached' = FALSE /\ latest' = 0
  /\ subscribers' = {} /\ updates' = [s \in Subscribers |-> 0]
  /\ lost' = {} /\ failed' = 0
  /\ since' = [s \in Subscribers |-> -1] /\ heard' = [s \in Subscribers |-> 0]

-----------------------------------------------------------------------------
(* The compositor.                                                         *)

\* Another program takes the selection.
DesktopCopies ==
  /\ selection.number < MaxSelections
  /\ selection' = [number |-> selection.number + 1, own |-> FALSE]
  /\ signals' = Append(signals, [kind |-> "changed", number |-> 0])
  /\ UNCHANGED <<asked, generation, content, changes, writeMu, serving, finish,
                 controllerVars, historyVars>>

\* Another program pastes what the session owns.
DesktopPastes ==
  /\ selection.own /\ asked < MaxTransfers
  /\ asked' = asked + 1
  /\ signals' = Append(signals, [kind |-> "transfer", number |-> selection.number])
  /\ UNCHANGED <<selection, generation, content, changes, writeMu, serving, finish,
                 controllerVars, historyVars>>

-----------------------------------------------------------------------------
(* Session.watch.  It handles one signal at a time.                        *)

\* SelectionOwnerChanged by another program; an older change that nobody has
\* received yet is dropped.
WatchChange ==
  /\ signals # <<>> /\ Head(signals).kind = "changed"
  /\ signals' = Tail(signals)
  /\ generation' = generation + 1
  /\ changes' = generation + 1
  /\ UNCHANGED <<selection, asked, content, writeMu, serving, finish, controllerVars,
                 historyVars>>

\* SelectionTransfer: the content is copied once no Write is under way, and
\* admit starts a goroutine that gives it to the program, unless the session is
\* closing.
MayCopy_Unlocked == TRUE
MayCopy == writeMu = "none"

WatchTransfer ==
  /\ signals # <<>> /\ Head(signals).kind = "transfer" /\ MayCopy
  /\ signals' = Tail(signals)
  /\ serving' = IF Open
       THEN serving \cup {[wanted |-> Head(signals).number, content |-> content]}
       ELSE serving
  /\ UNCHANGED <<selection, asked, generation, content, changes, writeMu, finish,
                 controllerVars, historyVars>>

\* writeSelection is through, and releases its admission.
Served(t) ==
  /\ t \in serving
  /\ serving' = serving \ {t}
  /\ UNCHANGED <<selection, asked, signals, generation, content, changes, writeMu,
                 finish, controllerVars, historyVars>>

-----------------------------------------------------------------------------
(* Controller.Set, and Session.Write below it.                             *)

\* Set finds the backend, and admit lets Write in.
SetBegins(c) ==
  /\ set[c].at = "idle" /\ attached /\ Open
  /\ SetAt(c, "lock")
  /\ UNCHANGED <<portalVars, run, attached, latest, subscribers, updates, historyVars>>

\* No backend, or the session is closing: Set fails at once.
SetRefused(c) ==
  /\ set[c].at = "idle" /\ (~attached \/ ~Open)
  /\ SetAt(c, "failed")
  /\ UNCHANGED <<portalVars, run, attached, latest, subscribers, updates, historyVars>>

\* clipboardWriteMu, then the generation, then SetSelection is called.
WriteLocks(c) ==
  /\ set[c].at = "lock" /\ writeMu = "none"
  /\ writeMu' = c
  /\ set' = [set EXCEPT ![c] = [at |-> "call", base |-> generation, number |-> 0]]
  /\ UNCHANGED <<selection, asked, signals, generation, content, changes, serving, finish,
                 run, attached, latest, subscribers, updates, historyVars>>

\* The compositor makes the session the owner.
WriteTakesEffect(c) ==
  /\ set[c].at = "call" /\ selection.number < MaxSelections
  /\ selection' = [number |-> selection.number + 1, own |-> TRUE]
  /\ set' = [set EXCEPT ![c].at = "called", ![c].number = selection.number + 1]
  /\ UNCHANGED <<asked, signals, generation, content, changes, writeMu, serving, finish,
                 run, attached, latest, subscribers, updates, historyVars>>

\* SetSelection fails, or its context ends before or after it took effect.
WriteFails(c) ==
  /\ set[c].at \in {"call", "called"}
  /\ SetAt(c, "failed")
  /\ writeMu' = "none"
  /\ lost' = IF set[c].at = "called" THEN lost \cup {set[c].number} ELSE lost
  /\ UNCHANGED <<selection, asked, signals, generation, content, changes, serving, finish,
                 run, attached, latest, subscribers, updates, failed, since, heard>>

\* SetSelection has returned.  The content is kept, and the generation moves on,
\* when no change was seen since the lock was taken.
MayKeep_Always(c) == TRUE
MayKeep(c) == generation = set[c].base

WriteReturns(c) ==
  /\ set[c].at = "called"
  /\ IF MayKeep(c)
       THEN generation' = generation + 1 /\ content' = set[c].number /\ lost' = lost
       ELSE lost' = lost \cup {set[c].number} /\ UNCHANGED <<generation, content>>
  /\ SetAt(c, "written")
  /\ writeMu' = "none"
  /\ UNCHANGED <<selection, asked, signals, changes, serving, finish, run, attached,
                 latest, subscribers, updates, failed, since, heard>>

\* Back in Set: the content becomes the latest one, if the backend is still there.
SetLatest(c) ==
  /\ set[c].at = "written"
  /\ SetAt(c, IF attached THEN "done" ELSE "failed")
  /\ latest' = IF attached THEN set[c].number ELSE latest
  /\ UNCHANGED <<portalVars, run, attached, subscribers, updates, historyVars>>

\* The caller goes on; what it does with the result is its own.
SetReturns(c) ==
  /\ set[c].at \in {"done", "failed"}
  /\ set' = [set EXCEPT ![c] = NoSet]
  /\ UNCHANGED <<portalVars, run, attached, latest, subscribers, updates, historyVars>>

-----------------------------------------------------------------------------
(* Controller.run, its subscribers, and the end of the session.            *)

Attach ==
  /\ ~attached
  /\ attached' = TRUE /\ latest' = 0
  /\ UNCHANGED <<portalVars, set, run, subscribers, updates, historyVars>>

RunReceives ==
  /\ run.at = "idle" /\ attached /\ changes # 0
  /\ run' = [at |-> "read", generation |-> changes, data |-> 0]
  /\ changes' = 0
  /\ UNCHANGED <<selection, asked, signals, generation, content, writeMu, serving, finish,
                 set, attached, latest, subscribers, updates, historyVars>>

\* admit and the check of the generation in Session.Read.
RunAdmitted ==
  /\ run.at = "read" /\ Open /\ generation = run.generation
  /\ run' = [run EXCEPT !.at = "call"]
  /\ UNCHANGED <<portalVars, set, attached, latest, subscribers, updates, historyVars>>

\* SelectionRead and the transfer: the content is that of the selection now.
RunReads ==
  /\ run.at = "call"
  /\ run' = [run EXCEPT !.at = "check", !.data = selection.number]
  /\ UNCHANGED <<portalVars, set, attached, latest, subscribers, updates, historyVars>>

\* Every format was refused or failed: the change is not published.
RunReadFails ==
  /\ \/ run.at = "read" /\ (~Open \/ generation # run.generation)
     \/ run.at = "call"
  /\ run' = NoRun
  /\ failed' = IF run.at = "call" THEN run.generation ELSE failed
  /\ UNCHANGED <<portalVars, set, attached, latest, subscribers, updates, lost, since,
                 heard>>

\* CurrentGeneration is compared before the mutex is taken.
RunChecks ==
  /\ run.at = "check"
  /\ run' = IF generation = run.generation THEN [run EXCEPT !.at = "publish"] ELSE NoRun
  /\ UNCHANGED <<portalVars, set, attached, latest, subscribers, updates, historyVars>>

\* A subscriber that has not taken an older content loses that one.
RunPublishes ==
  /\ run.at = "publish"
  /\ latest' = run.data
  /\ updates' = [s \in Subscribers |-> IF s \in subscribers THEN run.data ELSE updates[s]]
  /\ run' = NoRun
  /\ UNCHANGED <<portalVars, set, attached, subscribers, historyVars>>

\* The context of Attach is done.
RunEnds ==
  /\ run.at = "idle" /\ attached
  /\ attached' = FALSE /\ latest' = 0
  /\ UNCHANGED <<portalVars, set, run, subscribers, updates, historyVars>>

Subscribe(s) ==
  /\ since[s] = -1
  /\ subscribers' = subscribers \cup {s}
  /\ updates' = [updates EXCEPT ![s] = latest]
  /\ since' = [since EXCEPT ![s] = selection.number]
  /\ UNCHANGED <<portalVars, set, run, attached, latest, lost, failed, heard>>

Unsubscribe(s) ==
  /\ s \in subscribers
  /\ subscribers' = subscribers \ {s}
  /\ updates' = [updates EXCEPT ![s] = 0]
  /\ since' = [since EXCEPT ![s] = 0] /\ heard' = [heard EXCEPT ![s] = 0]
  /\ UNCHANGED <<portalVars, set, run, attached, latest, lost, failed>>

\* A subscriber receives what is in its channel.
Receive(s) ==
  /\ updates[s] # 0
  /\ heard' = [heard EXCEPT ![s] = updates[s]]
  /\ updates' = [updates EXCEPT ![s] = 0]
  /\ UNCHANGED <<portalVars, set, run, attached, latest, subscribers, lost, failed, since>>

\* Session.finish sets closing, stops watch and cancels the transfers.
FinishBegins ==
  /\ finish = "open"
  /\ finish' = "waiting"
  /\ UNCHANGED <<selection, asked, generation, content, changes, writeMu, serving,
                 controllerVars, historyVars>>

\* Then it waits for all of them, and closes the connection.
FinishReady_NoWait == TRUE
FinishReady ==
  /\ \A c \in Callers : set[c].at \notin {"lock", "call", "called"}
  /\ run.at # "call" /\ serving = {}

FinishCloses ==
  /\ finish = "waiting" /\ FinishReady
  /\ finish' = "closed"
  /\ UNCHANGED <<selection, asked, signals, generation, content, changes, writeMu, serving,
                 controllerVars, historyVars>>
=============================================================================
