-------------------------- MODULE EncoderPipeline --------------------------
(***************************************************************************)
(* The video pipeline of media.Service: one encoder branch delivers the    *)
(* encoded samples, and ReplaceQuality starts a candidate beside it that   *)
(* takes over at its first keyframe or is rolled back.                     *)
(*                                                                         *)
(* Each branch has a streaming thread (handleSample), a pump that feeds    *)
(* it, a monitor of its bus and a watcher of its end; they may fail at any *)
(* time.  Run waits for the pipeline's end and closes it while an update   *)
(* may be at work.  A branch is named by its generation, and the quality   *)
(* it was made with likewise.  GStreamer is external: what it produces,    *)
(* reports or refuses is a free choice.                                    *)
(***************************************************************************)
EXTENDS Naturals

CONSTANTS
  MaxGeneration,  \* bound: encoder branches made
  MaxFaults       \* bound: errors that GStreamer reports

ASSUME EncoderAssumption == MaxGeneration \in Nat \ {0} /\ MaxFaults \in Nat

Generations == 1 .. MaxGeneration

VARIABLES
  branch,      \* persistentVideoPipeline.branch, 0 when nil
  candidate,   \* persistentVideoPipeline.candidate, 0 when nil
  next,        \* nextGeneration
  keepalive,   \* the branch whose frame rate pipewiresrc keeps up, 0 for an overlap
  capture,     \* the pipeline's monitor and bus: "running", "ended"
  slotOpen,    \* the slot takes and hands out samples
  ended,       \* persistentVideoPipeline.done is closed
  joins        \* the branches that Close has to wait for

pipelineVars == <<branch, candidate, next, keepalive, capture, slotOpen, ended, joins>>

VARIABLES
  failed,      \* branches with an error
  stopped,     \* branches whose stop channel is closed
  activated,   \* branches whose active channel is closed
  ready,       \* branches whose ready channel is closed
  done,        \* branches whose done channel is closed
  flowing,     \* branches whose streaming thread may pull samples
  sink,        \* where the streaming thread of each branch is
  key,         \* whether the sample it has is a keyframe
  pump,        \* pumpInput of each branch
  monitor,     \* monitor of each branch
  watch,       \* watchBranch of each branch
  close        \* videoEncoderBranch.Close of each branch

flagVars == <<failed, stopped, activated, ready, done, flowing>>
threadVars == <<sink, key, pump, monitor, watch, close>>
branchVars == <<flagVars, threadVars>>

VARIABLES
  running,     \* Service.running, and Service.pipeline is set
  quality,     \* Service.quality, as the generation made for it
  emitting,    \* stopSamples is not closed
  runner,      \* where Service.Run is
  update,      \* where UpdateQuality and ReplaceQuality are
  refused,     \* pipewiresrc has refused a property at some time
  last,        \* the branch that delivered the latest sample, 0 at first
  faults       \* number of errors that GStreamer has reported

runVars == <<running, quality, emitting, runner, update, refused, last>>
serviceVars == <<runVars, faults>>
vars == <<pipelineVars, branchVars, serviceVars>>

\* The latest branch made: what ReplaceQuality calls candidate.
Latest == next - 1

\* newPersistentVideoPipeline: the first branch is active before it starts.
Init ==
  /\ branch = 1 /\ candidate = 0 /\ next = 2 /\ keepalive = 1
  /\ capture = "running" /\ slotOpen = TRUE /\ ended = FALSE /\ joins = {}
  /\ failed = {} /\ stopped = {} /\ activated = {1} /\ ready = {} /\ done = {}
  /\ flowing = {}
  /\ sink = [g \in Generations |-> "idle"] /\ key = [g \in Generations |-> FALSE]
  /\ pump = [g \in Generations |-> "none"]
  /\ monitor = [g \in Generations |-> IF g = 1 THEN "running" ELSE "none"]
  /\ watch = [g \in Generations |-> IF g = 1 THEN "waiting" ELSE "none"]
  /\ close = [g \in Generations |-> "open"]
  /\ running = FALSE /\ quality = 1 /\ emitting = TRUE
  /\ runner = "new" /\ update = "idle" /\ refused = FALSE /\ last = 0 /\ faults = 0

-----------------------------------------------------------------------------
(* The mutexes.                                                            *)

\* ReplaceQuality has replaceMu until it returns, Close until its end.
Replacing == update \notin {"idle", "asked", "store"}
Closing == runner \in {"stopping", "joining"}

\* activateIfHealthy waits in old.Stop() with branchMu and the candidate's errMu.
BranchMuFree == update # "switching"
ErrMuFree(g) == update = "switching" => g # Latest

\* stopOnce: Stop returns when no emit is under way.
EmitMuFree(g) == sink[g] # "emitting"

\* GStreamer reports an error.
Fault == faults < MaxFaults /\ faults' = faults + 1

\* videoEncoderBranch.Close begins once: the branch is stopped.
AskClose(S) ==
  /\ stopped' = stopped \cup S
  /\ close' = [g \in Generations |-> IF g \in S /\ close[g] = "open" THEN "asked" ELSE close[g]]

-----------------------------------------------------------------------------
(* The streaming thread of a branch: handleSample.  A return other than OK *)
(* ends the flow of the branch.                                            *)

SinkAt(g, from, to) ==
  /\ sink[g] = from /\ sink' = [sink EXCEPT ![g] = to]
  /\ UNCHANGED <<pipelineVars, failed, stopped, activated, done, pump, monitor, watch,
                 close, running, quality, emitting, runner, update, refused>>

\* A branch that is not stopped pulls a sample: an active branch goes on with
\* it, a candidate holds its first keyframe and drops what comes before it.
PullActive(g, k) ==
  /\ g \in flowing \ stopped /\ g \in activated /\ SinkAt(g, "idle", "mapped")
  /\ key' = [key EXCEPT ![g] = k] /\ UNCHANGED <<ready, flowing, last, faults>>
Holds(k) == k
PullCandidate(g, k) ==
  /\ g \in flowing \ stopped /\ g \notin activated /\ Holds(k) /\ SinkAt(g, "idle", "held")
  /\ key' = [key EXCEPT ![g] = k] /\ ready' = ready \cup {g}
  /\ UNCHANGED <<flowing, last, faults>>

HeldActive(g) ==
  g \in activated /\ SinkAt(g, "held", "mapped") /\ UNCHANGED <<key, ready, flowing, last, faults>>

SinkEnds(g, from) ==
  /\ SinkAt(g, from, "idle") /\ flowing' = flowing \ {g}
  /\ key' = [key EXCEPT ![g] = FALSE] /\ UNCHANGED <<ready, last>>

HeldWakes_Never(g) == FALSE
HeldWakes(g) == g \in stopped
HeldStopped(g) == HeldWakes(g) /\ SinkEnds(g, "held") /\ UNCHANGED faults

\* The sample cannot be read.
MapFails(g) == SinkEnds(g, "mapped") /\ Fault

\* Under emitMu: nothing is emitted by a stopped branch.
MayEmit(g) == g \notin stopped
EmitBegin(g) ==
  MayEmit(g) /\ SinkAt(g, "mapped", "emitting") /\ UNCHANGED <<key, ready, flowing, last, faults>>
EmitSkipped(g) == ~MayEmit(g) /\ SinkEnds(g, "mapped") /\ UNCHANGED faults

\* emitSample: the reader of Samples takes it, or stop or stopSamples ends the wait.
EmitTaken(g) ==
  /\ SinkAt(g, "emitting", "idle") /\ last' = g
  /\ key' = [key EXCEPT ![g] = FALSE] /\ UNCHANGED <<ready, flowing, faults>>
EmitStopped(g) ==
  (g \in stopped \/ ~emitting) /\ SinkEnds(g, "emitting") /\ UNCHANGED faults

-----------------------------------------------------------------------------
(* The pump and the monitor of a branch, and Fail, which either may call.  *)

PumpAt(g, from, to) ==
  /\ pump[g] = from /\ pump' = [pump EXCEPT ![g] = to]
  /\ UNCHANGED <<pipelineVars, activated, ready, flowing, sink, key, monitor, watch, close,
                 runVars>>
MonitorAt(g, from, to) ==
  /\ monitor[g] = from /\ monitor' = [monitor EXCEPT ![g] = to]
  /\ UNCHANGED <<pipelineVars, activated, ready, flowing, sink, key, pump, watch, close,
                 runVars>>

\* setErr and close(stop); then the end of Stop, and the signals of failed and
\* done.  The caller has looked at stop before, which may be closed since.
FailBegin(g) ==
  /\ ErrMuFree(g) /\ Fault
  /\ failed' = failed \cup {g} /\ stopped' = stopped \cup {g} /\ UNCHANGED done
FailEnd(g) == EmitMuFree(g) /\ done' = done \cup {g} /\ UNCHANGED <<failed, stopped, faults>>

\* appsrc rejects a sample; the slot is closed or the branch stopped.
PumpFails(g) == PumpAt(g, "running", "failing") /\ FailBegin(g)
PumpFailed(g) == PumpAt(g, "failing", "ended") /\ FailEnd(g)
PumpEnds(g) ==
  /\ g \in stopped \/ ~slotOpen
  /\ PumpAt(g, "running", "ended") /\ UNCHANGED <<failed, stopped, done, faults>>

\* The bus has an error or the end of the stream; the branch is stopped.
MonitorFails(g) == runner # "new" /\ MonitorAt(g, "running", "failing") /\ FailBegin(g)
MonitorFailed(g) == MonitorAt(g, "failing", "ended") /\ FailEnd(g)
MonitorEnds(g) ==
  /\ g \in stopped /\ MonitorAt(g, "running", "ended")
  /\ UNCHANGED <<failed, stopped, done, faults>>

\* watchBranch: the error of a branch that is active ends the pipeline.
WatchDone(g) ==
  /\ watch[g] = "waiting" /\ g \in done
  /\ watch' = [watch EXCEPT ![g] = IF g \in failed THEN "checking" ELSE "ended"]
  /\ UNCHANGED <<pipelineVars, flagVars, sink, key, pump, monitor, close, serviceVars>>
WatchCheck(g) ==
  /\ watch[g] = "checking" /\ BranchMuFree
  /\ watch' = [watch EXCEPT ![g] = "ended"]
  /\ \/ branch = g /\ ended' = TRUE
     \/ branch # g /\ UNCHANGED ended
  /\ UNCHANGED <<branch, candidate, next, keepalive, capture, slotOpen, joins, flagVars,
                 sink, key, pump, monitor, close, serviceVars>>

-----------------------------------------------------------------------------
(* The rest of videoEncoderBranch.Close, in the goroutine that called it.  *)

CloseAt(g, from, to) ==
  /\ close[g] = from /\ close' = [close EXCEPT ![g] = to]
  /\ UNCHANGED <<pipelineVars, activated, ready, sink, key, pump, monitor, watch, runVars>>

\* SetState(NULL) returns when the streaming thread is back; it may fail.
CloseNull(g) ==
  /\ CloseAt(g, "asked", "null") /\ sink[g] = "idle"
  /\ flowing' = flowing \ {g}
  /\ \/ UNCHANGED <<faults, failed>>
     \/ Fault /\ failed' = failed \cup {g}
  /\ UNCHANGED <<stopped, done>>

CloseJoin(g) ==
  /\ CloseAt(g, "null", "closed")
  /\ pump[g] \in {"none", "ended"} /\ monitor[g] = "ended"
  /\ done' = done \cup {g} /\ UNCHANGED <<failed, stopped, flowing, faults>>

-----------------------------------------------------------------------------
(* UpdateQuality and ReplaceQuality.  One update runs at a time (updateMu).*)

UpdateAt(from, to) ==
  /\ update = from /\ update' = to
  /\ UNCHANGED <<capture, slotOpen, ended, failed, ready, done, sink, key,
                 running, emitting, runner, last>>

ThreadsKept == UNCHANGED <<activated, flowing, pump, monitor, watch>>

UpdateQuality ==
  /\ running /\ next \in Generations /\ UpdateAt("idle", "asked") /\ ThreadsKept /\ UNCHANGED stopped
  /\ UNCHANGED <<branch, candidate, next, keepalive, joins, close, quality, refused, faults>>

\* replaceMu is taken; no branch, or the candidate cannot be made.
ReplaceRefused ==
  /\ ~Closing /\ UpdateAt("asked", "idle") /\ ThreadsKept /\ UNCHANGED stopped
  /\ UNCHANGED <<branch, candidate, next, keepalive, joins, close, quality, refused, faults>>

\* newVideoEncoderBranch, whose monitor runs, and the first part of Start.
ReplaceBegin ==
  /\ ~Closing /\ branch # 0 /\ UpdateAt("asked", "starting")
  /\ next' = next + 1
  /\ flowing' = flowing \cup {next}
  /\ monitor' = [monitor EXCEPT ![next] = "running"]
  /\ UNCHANGED <<branch, candidate, keepalive, joins, stopped, activated, pump, watch, close,
                 quality, refused, faults>>

\* The rest of Start: the pump runs and the candidate is watched.
CandidateStarts ==
  /\ Latest \notin stopped /\ UpdateAt("starting", "publish")
  /\ pump' = [pump EXCEPT ![Latest] = "running"]
  /\ watch' = [watch EXCEPT ![Latest] = "waiting"]
  /\ UNCHANGED <<branch, candidate, next, keepalive, joins, stopped, activated, flowing,
                 monitor, close, quality, refused, faults>>

\* The candidate is closed before ReplaceQuality returns its error.
GiveUp(from) ==
  /\ UpdateAt(from, "closing") /\ AskClose({Latest})
  /\ ThreadsKept /\ UNCHANGED <<branch, next, joins, quality>>

StartFails == GiveUp("starting") /\ UNCHANGED <<candidate, keepalive, refused, faults>>

\* Under branchMu: a candidate that is healthy is published.
Publish ==
  /\ Latest \notin failed /\ UpdateAt("publish", "overlap") /\ ThreadsKept /\ UNCHANGED stopped
  /\ candidate' = Latest
  /\ UNCHANGED <<branch, next, keepalive, joins, close, quality, refused, faults>>
PublishFails == Latest \in failed /\ GiveUp("publish") /\ UNCHANGED <<candidate, keepalive, refused, faults>>

\* pipewiresrc keeps up the higher frame rate of the two, or refuses.
Overlap ==
  /\ UpdateAt("overlap", "waiting") /\ ThreadsKept /\ UNCHANGED stopped
  /\ keepalive' = 0
  /\ UNCHANGED <<branch, candidate, next, joins, close, quality, refused, faults>>
OverlapFails ==
  GiveUp("overlap") /\ candidate' = 0 /\ Fault /\ refused' = TRUE /\ UNCHANGED keepalive

\* rollback: the candidate goes and the old frame rate is kept up again.
Restored == branch
Rollback(from) ==
  /\ GiveUp(from) /\ candidate' = 0
  /\ \/ keepalive' = Restored /\ UNCHANGED <<refused, faults>>
     \/ keepalive' = keepalive /\ Fault /\ refused' = TRUE

\* The candidate failed, the pipeline ended, or the time is over.
WaitFails == Rollback("waiting")

\* The candidate has a keyframe; pipewiresrc takes its frame rate, or refuses.
WaitReady ==
  /\ Latest \in ready /\ UpdateAt("waiting", "promote") /\ ThreadsKept /\ UNCHANGED stopped
  /\ keepalive' = Latest
  /\ UNCHANGED <<branch, candidate, next, joins, close, quality, refused, faults>>

\* Under branchMu and the candidate's errMu: a healthy candidate becomes the
\* branch and the old one is stopped.
Healthy_Unchecked == TRUE
Healthy == Latest \notin failed \cup stopped
StopOld == stopped \cup {branch}
Promote ==
  /\ Healthy /\ UpdateAt("promote", "switching")
  /\ branch' = Latest /\ candidate' = 0
  /\ stopped' = StopOld /\ joins' = joins \cup {branch}
  /\ UNCHANGED <<next, keepalive, activated, flowing, pump, monitor, watch, close, quality,
                 refused, faults>>
PromoteFails == ~Healthy /\ Rollback("promote")

\* old.Stop() has returned: the candidate is active and the old branch retires.
Retiring == {g \in joins : close[g] = "open"}
StopWaits_Not(g) == TRUE
StopWaits(g) == EmitMuFree(g)
Switch ==
  /\ \A g \in Retiring : StopWaits(g)
  /\ UpdateAt("switching", "store")
  /\ activated' = activated \cup {Latest} /\ AskClose(Retiring)
  /\ UNCHANGED <<branch, candidate, next, keepalive, joins, flowing, pump, monitor, watch,
                 quality, refused, faults>>

\* ReplaceQuality returns its error once the candidate is closed.
AfterFailure_Stores == "store"
AfterFailure == "idle"
ReplaceFails ==
  /\ close[Latest] = "closed" /\ UpdateAt("closing", AfterFailure) /\ ThreadsKept /\ UNCHANGED stopped
  /\ UNCHANGED <<branch, candidate, next, keepalive, joins, close, quality, refused, faults>>

\* UpdateQuality stores the quality of a service that still runs.
StoreQuality ==
  /\ UpdateAt("store", "idle") /\ ThreadsKept /\ UNCHANGED stopped
  /\ quality' = IF running THEN Latest ELSE quality
  /\ UNCHANGED <<branch, candidate, next, keepalive, joins, close, refused, faults>>

-----------------------------------------------------------------------------
(* Service.Run and the pipeline's Start and Close.                         *)

RunAt(from, to) ==
  /\ runner = from /\ runner' = to
  /\ UNCHANGED <<next, keepalive, failed, activated, ready, done, sink, key, monitor,
                 watch, quality, update, refused, last, faults>>

StartPlaying ==
  /\ RunAt("new", "starting") /\ flowing' = flowing \cup {1}
  /\ UNCHANGED <<stopped, branch, candidate, capture, slotOpen, ended, joins, pump, close, running,
                 emitting>>

\* The pump of the first branch starts; then the capture does, or fails to.
StartOk ==
  /\ 1 \notin stopped /\ RunAt("starting", "capture")
  /\ pump' = [pump EXCEPT ![1] = "running"]
  /\ UNCHANGED <<stopped, branch, candidate, capture, slotOpen, ended, joins, flowing, close, running,
                 emitting>>
FirstFails ==
  /\ RunAt("starting", "aborting") /\ AskClose({1})
  /\ UNCHANGED <<branch, candidate, capture, slotOpen, ended, joins, flowing, pump, running,
                 emitting>>
Aborted ==
  /\ close[1] = "closed" /\ RunAt("aborting", "over")
  /\ UNCHANGED <<stopped, branch, candidate, capture, slotOpen, ended, joins, flowing, pump, close,
                 running, emitting>>
CaptureStarts ==
  /\ RunAt("capture", "running") /\ running' = TRUE
  /\ UNCHANGED <<stopped, branch, candidate, capture, slotOpen, ended, joins, flowing, pump, close,
                 emitting>>
CaptureRefused ==
  /\ RunAt("capture", "over")
  /\ UNCHANGED <<stopped, branch, candidate, capture, slotOpen, ended, joins, flowing, pump, close,
                 running, emitting>>

\* The bus of the capture has an error or the end of the stream.
CaptureFails ==
  /\ capture = "running" /\ runner \in {"running", "over"}
  /\ capture' = "ended" /\ ended' = TRUE /\ Fault
  /\ UNCHANGED <<branch, candidate, next, keepalive, slotOpen, joins, branchVars, runVars>>

\* The context or the source is done, or the pipeline has ended.
RunLeaves ==
  /\ RunAt("running", "over") /\ running' = FALSE /\ emitting' = FALSE
  /\ UNCHANGED <<stopped, branch, candidate, capture, slotOpen, ended, joins, flowing, pump, close>>
RunEnded == ended /\ RunLeaves

\* Close takes replaceMu, stops the capture and waits for its monitor.
CloseBegin ==
  /\ ~Replacing /\ RunAt("over", "stopping")
  /\ slotOpen' = FALSE /\ capture' = "ended"
  /\ UNCHANGED <<stopped, branch, candidate, ended, joins, flowing, pump, close, running, emitting>>

\* The branches are taken and closed.
Taken == {branch, candidate} \ {0}
CloseTakes ==
  /\ RunAt("stopping", "joining")
  /\ joins' = joins \cup Taken
  /\ AskClose(joins')
  /\ branch' = 0 /\ candidate' = 0
  /\ UNCHANGED <<capture, slotOpen, ended, flowing, pump, running, emitting>>

\* The branches and the retirements are waited for; Run closes Samples.
WaitedFor_Current == {g \in joins : g = Latest}
WaitedFor == joins
CloseEnd ==
  /\ \A g \in WaitedFor : close[g] = "closed"
  /\ RunAt("joining", "returned") /\ ended' = TRUE
  /\ UNCHANGED <<stopped, branch, candidate, capture, slotOpen, joins, flowing, pump, close, running,
                 emitting>>

-----------------------------------------------------------------------------
Deliver(g) ==
  HeldActive(g) \/ HeldStopped(g) \/ EmitBegin(g) \/ EmitSkipped(g) \/ EmitStopped(g)

Ends(g) == PumpFailed(g) \/ PumpEnds(g) \/ MonitorFailed(g) \/ MonitorEnds(g)
Watch(g) == WatchDone(g) \/ WatchCheck(g)
CloseBranch(g) == CloseNull(g) \/ CloseJoin(g)

Replace ==
  \/ ReplaceRefused \/ ReplaceBegin \/ CandidateStarts \/ StartFails \/ Publish \/ PublishFails
  \/ Overlap \/ OverlapFails \/ WaitFails \/ WaitReady \/ Promote \/ PromoteFails \/ Switch
  \/ ReplaceFails \/ StoreQuality

Run ==
  \/ StartPlaying \/ StartOk \/ FirstFails \/ Aborted \/ CaptureStarts \/ CaptureRefused
  \/ RunEnded \/ CloseBegin \/ CloseTakes \/ CloseEnd

Next ==
  \/ \E g \in Generations :
       \/ \E k \in BOOLEAN : PullActive(g, k) \/ PullCandidate(g, k)
       \/ Deliver(g) \/ MapFails(g) \/ EmitTaken(g)
       \/ PumpFails(g) \/ MonitorFails(g) \/ Ends(g) \/ Watch(g) \/ CloseBranch(g)
  \/ UpdateQuality \/ Replace \/ CaptureFails \/ RunLeaves \/ Run

Spec == Init /\ [][Next]_vars

\* Every goroutine and every streaming thread that can go on does.  Nothing is
\* assumed of what the encoder produces or of the reader of Samples, and the
\* timer of ReplaceQuality fires.
Fairness ==
  /\ \A g \in Generations :
       /\ WF_vars(Deliver(g)) /\ WF_vars(PumpFailed(g) \/ PumpEnds(g))
       /\ WF_vars(MonitorFailed(g) \/ MonitorEnds(g))
       /\ WF_vars(Watch(g)) /\ WF_vars(CloseBranch(g))
  /\ WF_vars(Replace) /\ SF_vars(Run)

FairSpec == Spec /\ Fairness

-----------------------------------------------------------------------------
(* Properties.                                                             *)

Threads == {"none", "running", "failing", "ended"}

\* Every variable has the type of the field, channel or goroutine it stands for.
TypeOK ==
  /\ branch \in {0} \cup Generations /\ candidate \in {0} \cup Generations
  /\ next \in 2 .. MaxGeneration + 1 /\ keepalive \in {0} \cup Generations
  /\ capture \in {"running", "ended"} /\ slotOpen \in BOOLEAN /\ ended \in BOOLEAN
  /\ joins \subseteq Generations
  /\ failed \subseteq Generations /\ stopped \subseteq Generations
  /\ activated \subseteq Generations /\ ready \subseteq Generations
  /\ done \subseteq Generations /\ flowing \subseteq Generations
  /\ sink \in [Generations -> {"idle", "held", "mapped", "emitting"}]
  /\ key \in [Generations -> BOOLEAN]
  /\ pump \in [Generations -> Threads] /\ monitor \in [Generations -> Threads]
  /\ watch \in [Generations -> {"none", "waiting", "checking", "ended"}]
  /\ close \in [Generations -> {"open", "asked", "null", "closed"}]
  /\ running \in BOOLEAN /\ quality \in Generations /\ emitting \in BOOLEAN
  /\ runner \in {"new", "starting", "aborting", "capture", "running", "over", "stopping",
                 "joining", "returned"}
  /\ update \in {"idle", "asked", "starting", "publish", "overlap", "waiting", "promote",
                 "switching", "closing", "store"}
  /\ refused \in BOOLEAN /\ last \in {0} \cup Generations /\ faults \in Nat

\* What the reader of Samples sees of a change of the encoder: once a sample of
\* a branch was delivered none of an older one follows, however the old branch
\* was interrupted, and the first sample of a replacement is a keyframe.
SwitchIsClean ==
  [][\A g \in Generations : EmitTaken(g) =>
       g >= last /\ (g > last /\ g # 1 => key[g])]_vars

\* Run closes Samples only when no streaming thread can send on it any more, be
\* it of the active branch, of a retired one or of a candidate.
SamplesClosedLast ==
  runner = "returned" => \A g \in Generations : sink[g] = "idle" /\ g \notin flowing

\* A replacement that is over has left the candidate as the branch, or nothing of
\* it: one branch, its frame rate at pipewiresrc, its quality told by Quality(),
\* and every other branch closed or waited for by Close.
ReplacementSettles ==
  ~Replacing /\ branch # 0 =>
    /\ candidate = 0 /\ (refused \/ keepalive = branch)
    /\ (update = "idle" /\ running => quality = branch)
    /\ \A g \in 1 .. Latest : g = branch \/ close[g] = "closed" \/ g \in joins

\* The failure of the branch that delivers is on its way to end the pipeline: a
\* candidate that fails just when it is promoted is not kept as a silent encoder.
FailureIsReported ==
  running /\ ~ended /\ branch \in failed =>
    \/ pump[branch] = "failing" \/ monitor[branch] = "failing"
    \/ branch \in done /\ watch[branch] \in {"waiting", "checking"}

\* The branch that delivers, until Run begins to take the pipeline down.
InUse == branch # 0 /\ (running \/ update # "idle" \/ runner \in {"new", "starting", "capture"})

\* Where the update is says what has become of its candidate.
Phases ==
  /\ branch <= Latest
  /\ update = "asked" => next \in Generations
  /\ Replacing /\ update # "switching" =>
       branch # 0 /\ branch < Latest /\ Latest \notin activated /\ Latest \notin joins
  /\ update \in {"starting", "publish", "overlap", "waiting", "promote", "switching"} =>
       close[Latest] = "open"
  /\ update \in {"promote", "switching"} => Latest \in ready
  /\ update = "switching" =>
       /\ branch = Latest /\ Latest \notin activated \cup failed /\ activated \subseteq stopped
       /\ \A g \in activated : sink[g] = "emitting" => g \in Retiring
  /\ branch # 0 /\ update # "switching" => branch \in activated
  /\ branch # 0 => \A g \in joins : g < branch
  /\ branch = 0 \/ Closing => ~Replacing
  /\ runner \in {"new", "starting", "aborting", "capture"} =>
       ~running /\ update = "idle" /\ next = 2 /\ branch = 1
  /\ running => runner = "running"
  /\ runner = "new" => ready = {} /\ flowing = {}
  /\ runner \in {"joining", "returned"} => branch = 0
  /\ InUse => close[branch] = "open"
  /\ \A g \in Generations : g > Latest => close[g] = "open" /\ monitor[g] = "none"

\* The branches that were made, and the one that may emit: the newest active one.
Streams ==
  /\ activated \subseteq 1 .. Latest /\ ready \subseteq 1 .. Latest /\ 1 \in activated
  /\ flowing \subseteq 1 .. Latest /\ joins \subseteq 1 .. Latest
  /\ \A g \in activated : branch # 0 => g <= branch
  /\ \A g \in activated \ stopped : \A h \in activated : h <= g
  /\ \A g \in Generations : sink[g] \in {"mapped", "emitting"} => g \in activated
  /\ \A g \in Generations : sink[g] = "emitting" => \A h \in activated : h <= g
  /\ last \in activated \cup {0}

\* The sample that a replacement delivers first is the keyframe it was held with.
Keyframes ==
  /\ \A g \in Generations : sink[g] = "held" => key[g] /\ g \in ready
  /\ \A g \in ready \ activated : g \in flowing => sink[g] = "held"
  /\ \A g \in activated \ {1} : g \in flowing /\ sink[g] # "held" /\ last < g =>
       sink[g] \in {"mapped", "emitting"} /\ key[g]
  /\ \A g \in Generations : sink[g] # "idle" => g \in flowing

\* A failed branch signals done, and its watcher is there to see it.
Reports ==
  /\ \A g \in failed : \/ pump[g] = "failing" \/ monitor[g] = "failing" \/ g \in done
                        \/ close[g] = "null"
  /\ \A g \in done \ failed : close[g] = "closed"
  /\ \A g \in Generations : watch[g] = "checking" => g \in failed /\ g \in done
  /\ \A g \in Generations : pump[g] = "failing" \/ monitor[g] = "failing" =>
       g \in failed /\ g \in stopped
  /\ InUse /\ ~ended => watch[branch] \in {"waiting", "checking"}
  /\ update \in {"publish", "overlap", "waiting", "promote"} /\ Latest \notin failed =>
       watch[Latest] = "waiting"
  /\ update = "switching" => watch[Latest] = "waiting"

\* What a replacement has done so far with the candidate, the frame rate and the quality.
Settled ==
  /\ candidate = IF update \in {"overlap", "waiting", "promote"} THEN Latest ELSE 0
  /\ \/ refused \/ branch = 0 \/ update = "waiting"
     \/ keepalive = IF update = "promote" THEN Latest ELSE branch
  /\ running => branch # 0
  /\ running \/ runner \in {"new", "starting", "capture"} =>
       quality = branch \/ update \in {"switching", "store"}
  /\ update = "store" /\ branch # 0 => branch = Latest

\* A branch is in use, closed, or among those that Close waits for, and one that
\* is closed has no streaming thread.
Closes ==
  /\ \A g \in 1 .. Latest :
       g = branch \/ close[g] = "closed" \/ g \in joins \/ (Replacing /\ g = Latest)
  /\ \A g \in Generations : close[g] \in {"null", "closed"} => sink[g] = "idle" /\ g \notin flowing
  /\ runner = "returned" => \A g \in joins : close[g] = "closed"

\* The inductive invariant.
IInv == TypeOK /\ Phases /\ Streams /\ Keyframes /\ Reports /\ Settled /\ Closes

\* An update returns: no candidate, however it fails, keeps it.
UpdateReturns == update = "asked" ~> update = "idle"

\* Run returns once the pipeline is to be closed, also during a replacement.
RunReturns == runner = "over" ~> runner = "returned"

\* No wait of the update and of Run closes a circle: both return.
WaitsEnd == UpdateReturns /\ RunReturns
=============================================================================
