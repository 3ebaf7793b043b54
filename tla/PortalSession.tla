--------------------------- MODULE PortalSession ----------------------------
(***************************************************************************)
(* The life of the desktop portal session: capture.Open with its requests  *)
(* and its restore token, the session with its clipboard (ClipboardSync),  *)
(* desktop.Service.Run on top of it, and Session.finish.  The process may  *)
(* be killed, or the machine lose power, at any time; it then starts again *)
(* with the token file that is left (capture/portal.go,                    *)
(* desktop/service.go).  Input and clipboard are configured.               *)
(***************************************************************************)
EXTENDS ClipboardSync

CONSTANTS
  Configs,  \* the configurations that the process is started with
  MaxRuns   \* bound: starts of the process

ASSUME PortalAssumption == Configs # {} /\ MaxRuns \in Nat \ {0}

VARIABLES
  service,  \* where desktop.Service.Run is, Open included
  calling,  \* of a request: it was called, and the portal has not answered
  held,     \* what the process has acquired and not yet given back
  desk,     \* the session at the portal: "none", "open", "closed"
  file,     \* the token file, as the process sees it
  durable,  \* the token file that a power loss would leave, if the name is lost
  temp,     \* the temporary file of storeRestoreToken
  valid,    \* the restore token that the portal accepts
  granted,  \* the restore token in the answer to Start, 0 when there is none
  config, runs

serviceVars == <<service, calling, held, desk>>
tokenVars == <<file, durable, temp, valid, granted>>
vars == <<syncVars, serviceVars, tokenVars, config, runs>>

\* A token file: the configuration and the token, and whether all of it is there
\* and on the disk.
NoFile == [config |-> "none", token |-> 0, whole |-> TRUE, synced |-> TRUE]
Torn == [NoFile EXCEPT !.whole = FALSE]

Volatile ==
  /\ service = "connect" /\ calling = FALSE /\ held = {}
  /\ desk = "none" /\ temp = NoFile /\ granted = 0

Init ==
  /\ SyncInit /\ Volatile
  /\ file = NoFile /\ durable = NoFile /\ valid = 0
  /\ config \in Configs /\ runs = 1

-----------------------------------------------------------------------------
(* Open, up to the session.                                                *)

\* The order of the steps.
After == [connect |-> "requests", requests |-> "closures", closures |-> "clipboard",
          clipboard |-> "register", register |-> "load", load |-> "create",
          create |-> "sources", sources |-> "devices", devices |-> "access",
          access |-> "start", start |-> "token"]

GoOn == service' = After[service]

\* A step that only calls, or that acquires what it is named for: the connection
\* and the three matches.
OpenCalls ==
  /\ service \in {"connect", "requests", "closures", "clipboard", "register", "access"}
  /\ GoOn
  /\ held' = IF service \in {"register", "access"} THEN held ELSE held \cup {service}
  /\ UNCHANGED <<calling, desk, tokenVars, syncVars, config, runs>>

\* loadRestoreToken: a file of another configuration is removed, one that cannot
\* be decoded fails Open.
OpenLoads ==
  /\ service = "load" /\ file.whole
  /\ GoOn
  /\ file' = IF file.config = config THEN file ELSE NoFile
  /\ UNCHANGED <<calling, held, desk, durable, temp, valid, granted, syncVars,
                 config, runs>>

OpenSteps == DOMAIN After \cup {"token", "write", "sync", "rename", "check", "eis"}

\* Any step may fail.  The deferred function closes the session if its path is
\* known, removes the matches and closes the connection; a session whose path is
\* not known yet goes with the connection.
Closed_Never == desk
Closed == IF "session" \in held THEN "closed"
          ELSE IF desk = "open" THEN "dropped" ELSE desk

OpenFails ==
  /\ service \in OpenSteps
  /\ service' = "failed" /\ calling' = FALSE
  /\ held' = {} /\ temp' = NoFile
  /\ desk' = Closed
  /\ UNCHANGED <<file, durable, valid, granted, syncVars, config, runs>>

-----------------------------------------------------------------------------
(* portalClient.request, and the portal.                                   *)

Requests == {"create", "sources", "devices", "start"}

Signal(kind) == signals' = Append(signals, [kind |-> kind, number |-> 0])
SyncButSignals == <<selection, asked, generation, content, changes, writeMu, serving, finish,
                    controllerVars, historyVars>>

RequestCalls ==
  /\ service \in Requests /\ ~calling
  /\ calling' = TRUE
  /\ UNCHANGED <<service, held, desk, tokenVars, syncVars, config, runs>>

\* The portal answers.  CreateSession makes the session, and Start uses the token
\* up that it was given and may grant a new one.
PortalAnswers ==
  /\ service \in Requests /\ calling
  /\ \A i \in 1 .. Len(signals) : signals[i].kind # "response"
  /\ (service = "create" \/ desk = "open")
  /\ Signal("response")
  /\ desk' = IF service = "create" THEN "open" ELSE desk
  /\ \/ service = "start" /\ granted' = valid + 1 /\ valid' = valid + 1
     \/ UNCHANGED <<valid, granted>>
  /\ UNCHANGED <<service, calling, held, file, durable, temp, SyncButSignals, config,
                 runs>>

\* The user or the compositor ends the session.
PortalCloses ==
  /\ desk = "open"
  /\ desk' = "closed"
  /\ Signal("closed")
  /\ UNCHANGED <<service, calling, held, tokenVars, SyncButSignals, config, runs>>

\* The answer in the loop of request.  Closed of the session, which may come first,
\* ends the request: OpenFails.  No other signal can be for the process yet.
RequestAnswered_SkipsClosed ==
  /\ service \in Requests /\ calling /\ signals # <<>>
  /\ signals' = Tail(signals)
  /\ IF Head(signals).kind = "response"
       THEN GoOn /\ calling' = FALSE /\ held' = held \cup {"session"}
       ELSE UNCHANGED <<service, calling, held>>
  /\ UNCHANGED <<desk, tokenVars, SyncButSignals, config, runs>>
RequestAnswered ==
  /\ service \in Requests /\ calling /\ signals # <<>> /\ Head(signals).kind = "response"
  /\ signals' = Tail(signals)
  /\ GoOn /\ calling' = FALSE
  /\ held' = held \cup {"session"}
  /\ UNCHANGED <<desk, tokenVars, SyncButSignals, config, runs>>

-----------------------------------------------------------------------------
(* storeRestoreToken and the rest of Open.                                 *)

TempOf(whole, synced) ==
  [config |-> config, token |-> granted, whole |-> whole, synced |-> synced]

\* The answer to Start has a token, and a temporary file is created; or it has
\* none, and the file stays as it is.
StoreCreates ==
  /\ service = "token"
  /\ IF granted # 0 THEN service' = "write" /\ temp' = TempOf(FALSE, FALSE)
     ELSE service' = "check" /\ UNCHANGED temp
  /\ UNCHANGED <<calling, held, desk, file, durable, valid, granted, syncVars, config,
                 runs>>

StoreWrites ==
  /\ service = "write" /\ service' = "sync"
  /\ temp' = TempOf(TRUE, FALSE)
  /\ UNCHANGED <<calling, held, desk, file, durable, valid, granted, syncVars, config,
                 runs>>

StoreSyncs_Skipped ==
  /\ service = "sync" /\ service' = "rename"
  /\ UNCHANGED <<temp, calling, held, desk, file, durable, valid, granted, syncVars,
                 config, runs>>
StoreSyncs ==
  /\ service = "sync" /\ service' = "rename"
  /\ temp' = TempOf(TRUE, TRUE)
  /\ UNCHANGED <<calling, held, desk, file, durable, valid, granted, syncVars, config,
                 runs>>

\* The name is not synced: durable stays what it was.
StoreRenames ==
  /\ service = "rename" /\ service' = "check"
  /\ file' = temp /\ temp' = NoFile
  /\ UNCHANGED <<calling, held, desk, durable, valid, granted, syncVars, config,
                 runs>>

\* The streams, the devices and the clipboard of the answer are good, and the
\* match of the requests is removed.
OpenChecks ==
  /\ service = "check" /\ service' = "eis"
  /\ held' = held \ {"requests"}
  /\ UNCHANGED <<calling, desk, tokenVars, syncVars, config, runs>>

\* ConnectToEIS; the session is made, and watch started.
OpenConnectsEIS ==
  /\ service = "eis" /\ service' = "attach"
  /\ held' = held \cup {"eis"}
  /\ UNCHANGED <<calling, desk, tokenVars, syncVars, config, runs>>

-----------------------------------------------------------------------------
(* desktop.Service.Run, and Session.finish.                                *)

Rest == <<tokenVars, config, runs>>

RunAttaches ==
  /\ service = "attach" /\ service' = "acquire"
  /\ Attach
  /\ UNCHANGED <<calling, held, desk, Rest>>

\* AcquireEIS refuses when the session is closing.
RunAcquiresEIS ==
  /\ service = "acquire"
  /\ IF Open THEN service' = "sender" /\ held' = held \cup {"sender"}
     ELSE service' = "closeInput" /\ UNCHANGED held
  /\ UNCHANGED <<calling, desk, syncVars, Rest>>

\* eis.New and input.Attach: what fails closes the descriptor.
RunStartsSender ==
  /\ service = "sender"
  /\ \/ service' = "media" /\ UNCHANGED held
     \/ service' = "closeInput" /\ held' = held \ {"sender"}
  /\ UNCHANGED <<calling, desk, syncVars, Rest>>

\* A pipeline of media.Run acquires the stream, unless the session is closing.
AcquireStream ==
  /\ service = "media" /\ Open /\ "stream" \notin held
  /\ held' = held \cup {"stream"}
  /\ UNCHANGED <<service, calling, desk, syncVars, Rest>>

\* media.Run has returned, of itself or after the sender has stopped; it has
\* closed its streams.
MediaReturns ==
  /\ service = "media" /\ service' = "closeInput"
  /\ held' = held \ {"stream"}
  /\ UNCHANGED <<calling, desk, syncVars, Rest>>

CloseInput ==
  /\ service = "closeInput" /\ service' = "closeSession"
  /\ held' = held \ {"sender"}
  /\ UNCHANGED <<calling, desk, syncVars, Rest>>

\* The part of finish before it waits.
FinishReleases == held' = held \ {"session", "eis", "closures", "clipboard"}

\* Session.Close: it closes the session at the portal, unless finish has begun.
CloseSession ==
  /\ service = "closeSession" /\ service' = "closing"
  /\ \/ FinishBegins /\ FinishReleases /\ desk' = Closed /\ UNCHANGED signals
     \/ ~Open /\ UNCHANGED <<held, desk, syncVars>>
  /\ UNCHANGED <<calling, Rest>>

SessionSteps == {"attach", "acquire", "sender", "media", "closeInput", "closeSession",
                 "closing"}

\* watch sees Closed, or the end of the connection.
WatchCloses ==
  /\ service \in SessionSteps /\ FinishBegins /\ FinishReleases
  /\ \/ signals # <<>> /\ Head(signals).kind = "closed" /\ signals' = Tail(signals)
     \/ signals' = <<>>
  /\ desk' = "closed"
  /\ UNCHANGED <<service, calling, Rest>>

FinishEnds ==
  /\ FinishCloses
  /\ held' = held \ {"connect"}
  /\ UNCHANGED <<service, calling, desk, Rest>>

RunReturns ==
  /\ service = "closing" /\ finish = "closed"
  /\ service' = "ended"
  /\ UNCHANGED <<calling, held, desk, syncVars, Rest>>

-----------------------------------------------------------------------------
(* The process is killed, or ends, and starts again.                       *)

\* A power loss leaves the token file with the old or with the new name, and
\* without its data when it was not synced.
AfterPowerLoss == {durable, IF file.synced THEN file ELSE Torn}

Restart ==
  /\ runs < MaxRuns /\ runs' = runs + 1
  /\ config' \in Configs
  /\ \/ UNCHANGED <<file, durable>>
     \/ file' \in AfterPowerLoss /\ durable' = file'
  /\ service' = "connect" /\ calling' = FALSE /\ held' = {} /\ desk' = "none"
  /\ temp' = NoFile /\ granted' = 0
  /\ SyncRestart
  /\ UNCHANGED valid

-----------------------------------------------------------------------------
Opening ==
  \/ OpenCalls \/ OpenLoads \/ OpenFails \/ RequestCalls \/ PortalAnswers
  \/ RequestAnswered \/ StoreCreates \/ StoreWrites \/ StoreSyncs \/ StoreRenames
  \/ OpenChecks \/ OpenConnectsEIS

Running ==
  \/ RunAttaches \/ RunAcquiresEIS \/ RunStartsSender \/ AcquireStream
  \/ MediaReturns \/ CloseInput \/ CloseSession \/ WatchCloses \/ FinishEnds \/ RunReturns

\* A peer sets the clipboard only while it owns the input, which it can from the
\* time the sender is attached until the input is closed.
PeerSets ==
  /\ service \in {"media", "closeInput"}
  /\ \E c \in Callers : SetBegins(c) \/ SetRefused(c)
  /\ UNCHANGED <<serviceVars, Rest>>

\* The clipboard of the session, which watch looks after once Open has returned.
Clipboard ==
  /\ service \in SessionSteps
  /\ \/ WatchChange \/ WatchTransfer \/ RunReceives \/ RunAdmitted \/ RunReads
     \/ RunReadFails \/ RunChecks \/ RunPublishes \/ RunEnds
     \/ \E t \in serving : Served(t)
     \/ \E c \in Callers : WriteLocks(c) \/ WriteTakesEffect(c) \/ WriteFails(c)
                             \/ WriteReturns(c) \/ SetLatest(c) \/ SetReturns(c)
  /\ UNCHANGED <<serviceVars, Rest>>

\* The desktop reports its selection from the time that Start has granted it.
Desktop ==
  /\ desk = "open" /\ (service \in SessionSteps \/ service \in OpenSteps \ DOMAIN After)
  /\ DesktopCopies \/ DesktopPastes
  /\ UNCHANGED <<serviceVars, Rest>>

Subscription ==
  /\ \E s \in Subscribers : Subscribe(s) \/ Unsubscribe(s) \/ Receive(s)
  /\ UNCHANGED <<serviceVars, Rest>>

Next ==
  Opening \/ Running \/ PortalCloses \/ PeerSets \/ Clipboard \/ Desktop \/ Subscription \/ Restart

Spec == Init /\ [][Next]_vars

-----------------------------------------------------------------------------
(* What the session promises.                                              *)

\* What Session serves to a program that pastes (portal.go: watch, Write) is the
\* content of the selection the program asked for, or of a newer one, although the
\* content is stored only after SetSelection has returned.  The exception is a
\* selection whose content Write did not keep.
PasteIsNotOlder ==
  \A t \in serving : t.content >= t.wanted \/ t.wanted \in lost

\* Where a copy on the desktop can be: in a signal, in the one place of Changes, in
\* run, or with its subscribers.
ChangeWaits == \E i \in 1 .. Len(signals) : signals[i].kind = "changed"
ReadUnderWay ==
  \/ ChangeWaits
  \/ changes # 0 /\ changes = generation
  \/ run.at # "idle" /\ run.generation = generation
ReadFailed == failed # 0 /\ failed = generation

Delivered ==
  \A s \in subscribers :
    selection.number > since[s] => selection.number \in {heard[s], updates[s]}

\* A copy on the desktop that came after a channel has subscribed is not forgotten
\* (portal.go: watch; controller.go: run): the channel has received it, or it is
\* under way in a signal, in the one place of Changes, in run, or in the one place
\* of the subscriber.  The exceptions are a failed read and a session that ends.
CopyUnderWay ==
  (attached /\ Open /\ ~selection.own /\ ~ReadFailed) => ReadUnderWay \/ Delivered

\* The token file is never half of one, whenever the process is killed or power is
\* lost, so what a crash leaves never keeps Open from going on; and once Open has
\* stored a token, the file has the one the portal will accept next (portal.go:
\* storeRestoreToken, loadRestoreToken).
TokenKept ==
  /\ file.whole
  /\ (service \in SessionSteps \cup {"check", "eis"} /\ granted # 0) =>
       file.token = valid /\ file.config = config

\* A closure of the session by the portal is not missed, though the signals of
\* Open are read by several requests that skip what is not theirs, and then by
\* watch: it is noticed, or its signal still waits (portal.go: request, watch).
ClosureNoticed ==
  (desk = "closed" /\ service \in OpenSteps \cup SessionSteps /\ Open) =>
    \E i \in 1 .. Len(signals) : signals[i].kind = "closed"

\* Whatever step fails or ends Run, nothing that was acquired is left, and the
\* session is closed at the portal (portal.go: the deferred function of Open,
\* finish; service.go: the deferred functions of Run).
NothingLeft ==
  service \in {"failed", "ended"} => held = {} /\ desk # "open"

\* The connection is there as long as a call on it is under way: finish waits for
\* everything that admit has let in (portal.go: admit, finish).
ConnectionOutlives ==
  \/ "connect" \in held
  \/ /\ serving = {} /\ run.at # "call"
     /\ \A c \in Callers : set[c].at \notin {"call", "called"}

-----------------------------------------------------------------------------
(* The inductive invariant behind the last four of them.                   *)

Kinds == {"changed", "transfer", "response", "closed"}
SetSteps == {"idle", "lock", "call", "called", "written", "done", "failed"}
RunSteps == {"idle", "read", "call", "check", "publish"}
Files == [config : Configs \cup {"none"}, token : Nat, whole : BOOLEAN, synced : BOOLEAN]

\* The types that the proofs need.
SignalTypes ==
  /\ selection \in [number : Nat, own : BOOLEAN] /\ asked \in Nat
  /\ signals \in Seq([kind : Kinds, number : Nat])
ClipboardTypes ==
  /\ generation \in Nat /\ content \in Nat /\ changes \in Nat
  /\ serving \subseteq [wanted : Nat, content : Nat]
  /\ set \in [Callers -> [at : SetSteps, base : Nat, number : Nat]]
  /\ run \in [at : RunSteps, generation : Nat, data : Nat]
SessionTypes ==
  /\ service \in OpenSteps \cup SessionSteps \cup {"failed", "ended"}
  /\ held \subseteq {"connect", "requests", "closures", "clipboard", "session", "eis",
                     "sender", "stream"}
  /\ desk \in {"none", "open", "closed", "dropped"}
  /\ finish \in {"open", "waiting", "closed"}
TokenTypes ==
  /\ file \in Files /\ durable \in Files /\ temp \in Files
  /\ valid \in Nat /\ granted \in Nat /\ config \in Configs
TypeOK == SignalTypes /\ ClipboardTypes /\ SessionTypes /\ TokenTypes

\* Only a whole and synced file gets the name, and nothing else is ever left.
FilesWhole ==
  /\ file.whole /\ file.synced /\ durable.whole /\ durable.synced
  /\ service = "sync" => temp = TempOf(TRUE, FALSE)
  /\ service = "rename" => temp = TempOf(TRUE, TRUE)
  /\ granted # 0 => granted = valid
  /\ (service \in SessionSteps \cup {"check", "eis"} /\ granted # 0) =>
       file.token = granted /\ file.config = config

\* What is held at each step of Run, and of finish.
HeldInOrder ==
  /\ service \in SessionSteps \cup {"eis", "ended"} => "requests" \notin held
  /\ "stream" \in held => service = "media"
  /\ "sender" \in held => service \in {"sender", "media", "closeInput"}
  /\ service = "failed" => held = {} /\ desk # "open"
  /\ finish # "open" =>
       /\ service \in SessionSteps \cup {"ended"} /\ desk # "open"
       /\ held \cap {"session", "eis", "closures", "clipboard"} = {}
  /\ service = "closing" => finish # "open"
  /\ service = "ended" => finish = "closed"
  /\ finish = "closed" <=> (service \in SessionSteps \cup {"ended"} /\ "connect" \notin held)
  /\ service \in OpenSteps \ {"connect"} => "connect" \in held

\* Nothing is under way before the session and after finish.
NothingUnderWay ==
  (finish = "closed" \/ service \notin SessionSteps \cup {"ended"}) =>
    /\ serving = {} /\ run.at # "call"
    /\ \A c \in Callers : set[c].at \notin {"lock", "call", "called"}
BeforeSession ==
  service \notin SessionSteps \cup {"ended"} =>
    run.at = "idle" /\ \A c \in Callers : set[c].at = "idle"

IInv ==
  /\ TypeOK /\ FilesWhole /\ HeldInOrder /\ NothingUnderWay /\ BeforeSession
  /\ ClosureNoticed

-----------------------------------------------------------------------------
(* The inductive invariant behind the first two.                           *)

HistoryTypes ==
  /\ latest \in Nat /\ failed \in Nat /\ subscribers \subseteq Subscribers
  /\ updates \in [Subscribers -> Nat] /\ heard \in [Subscribers -> Nat]
  /\ since \in [Subscribers -> Int]

\* Nothing is newer than the selection, and a Write in the middle is the only one
\* and newer than the content that was kept.
Writing == {"call", "called"}
OneWrite ==
  \A c \in Callers :
    /\ set[c].number <= selection.number
    /\ set[c].at \in Writing => writeMu = c /\ set[c].base <= generation
    /\ set[c].at = "called" => content <= set[c].number
NothingNewer ==
  /\ content <= selection.number /\ latest <= selection.number
  /\ run.data <= selection.number
  /\ \A s \in Subscribers : updates[s] <= selection.number /\ heard[s] <= selection.number

\* The content of each selection of the session is kept, lost or about to be, as
\* long as the desktop may ask for it.
Accounted ==
  {number \in Nat :
     \/ number <= content \/ number \in lost
     \/ \E c \in Callers : set[c].at = "called" /\ set[c].number = number}
PastesAccounted ==
  /\ selection.own => selection.number \in Accounted
  /\ \A i \in 1 .. Len(signals) :
       signals[i].kind = "transfer" => signals[i].number \in Accounted

\* Generations are read in their order, each once.
ReadsInOrder ==
  /\ changes <= generation /\ run.generation <= generation /\ failed <= generation
  /\ run.at # "idle" => failed < run.generation
  /\ changes # 0 => failed < changes /\ (run.at # "idle" => run.generation < changes)

\* While a copy on the desktop is the newest, a Write that would move the
\* generation on past it, or a read that was before it, has its signal to come.
HasData == run.at \in {"check", "publish"}
NotPassed ==
  (Open /\ ~selection.own /\ ~ChangeWaits) =>
    /\ \A c \in Callers : set[c].at = "called" => set[c].base # generation
    /\ (HasData /\ run.generation = generation) => run.data = selection.number

\* A subscriber is not given an older content than it has.
NotOlder(s) ==
  LET Older(a, b) == a > since[s] => a <= b IN
  /\ updates[s] # 0 => Older(heard[s], updates[s])
  /\ HasData => Older(heard[s], run.data) /\ Older(updates[s], run.data)

BeforeAttach == service \in OpenSteps \cup {"attach"}
CopyComes ==
  /\ BeforeAttach => ~attached
  /\ ((attached \/ BeforeAttach) /\ Open /\ ~selection.own /\ ~ReadFailed) =>
       ReadUnderWay \/ Delivered

SelectionInv ==
  /\ HistoryTypes /\ OneWrite /\ NothingNewer /\ PastesAccounted /\ PasteIsNotOlder
  /\ ReadsInOrder /\ NotPassed /\ CopyComes
  /\ \A s \in subscribers : NotOlder(s)
=============================================================================
