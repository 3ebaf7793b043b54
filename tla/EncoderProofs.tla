--------------------------- MODULE EncoderProofs ---------------------------
(***************************************************************************)
(* The safety of the encoder replacement, for any number of replacements   *)
(* and of errors.  IInv is inductive: there is one lemma per action, and   *)
(* the properties follow from it.                                          *)
(***************************************************************************)
EXTENDS EncoderPipeline, TLAPS

USE EncoderAssumption
USE DEF Generations, Latest, pipelineVars, flagVars, threadVars, branchVars, runVars, serviceVars

\* newPersistentVideoPipeline establishes the invariant.
LEMMA InitInv == Init => IInv
  <1> SUFFICES ASSUME Init PROVE IInv
    OBVIOUS
  <1> USE DEF Init
  <1>1. TypeOK
    <2>1. 1 \in Generations /\ 2 \in 2 .. MaxGeneration + 1
      OBVIOUS
    <2>2. /\ slotOpen \in BOOLEAN /\ ended \in BOOLEAN /\ running \in BOOLEAN
          /\ emitting \in BOOLEAN /\ refused \in BOOLEAN
      OBVIOUS
    <2>3. /\ sink \in [Generations -> {"idle", "held", "mapped", "emitting"}]
          /\ key \in [Generations -> BOOLEAN]
          /\ pump \in [Generations -> Threads] /\ monitor \in [Generations -> Threads]
          /\ watch \in [Generations -> {"none", "waiting", "checking", "ended"}]
          /\ close \in [Generations -> {"open", "asked", "null", "closed"}]
      BY DEF Threads
    <2>4. QED
      BY <2>1, <2>2, <2>3 DEF TypeOK
  <1>2. Phases
    BY DEF Phases, InUse, Replacing, Closing, Retiring
  <1>3. Streams /\ Keyframes
    BY DEF Streams, Keyframes
  <1>4. Reports
    BY DEF Reports, InUse
  <1>5. Settled /\ Closes
    BY DEF Settled, Closes, Replacing
  <1> QED BY <1>1, <1>2, <1>3, <1>4, <1>5 DEF IInv


-----------------------------------------------------------------------------
(* The streaming thread of a branch preserves the invariant.               *)

LEMMA PullActiveInv ==
  ASSUME IInv, NEW g \in Generations, NEW k \in BOOLEAN, PullActive(g, k)
  PROVE  IInv'
  <1> USE DEF PullActive, SinkAt, IInv, TypeOK, Phases, Streams, InUse, Threads, Replacing
  <1>1. TypeOK'
    OBVIOUS
  <1>2. Phases'
    BY DEF Closing, Retiring
  <1>3. Streams' /\ Keyframes'
    BY DEF Keyframes
  <1>4. Reports'
    BY DEF Reports
  <1>5. Settled' /\ Closes'
    BY DEF Keyframes, Settled, Closes, Closing
  <1> QED BY <1>1, <1>2, <1>3, <1>4, <1>5

LEMMA PullCandidateInv ==
  ASSUME IInv, NEW g \in Generations, NEW k \in BOOLEAN, PullCandidate(g, k)
  PROVE  IInv'
  <1> USE DEF PullCandidate, SinkAt, Holds, IInv, TypeOK, Phases, Streams, InUse, Threads,
         Replacing
  <1>1. TypeOK'
    OBVIOUS
  <1>2. Phases'
    BY DEF Closing, Retiring
  <1>3. Streams' /\ Keyframes'
    BY DEF Keyframes
  <1>4. Reports'
    BY DEF Reports
  <1>5. Settled' /\ Closes'
    BY DEF Keyframes, Settled, Closes, Closing
  <1> QED BY <1>1, <1>2, <1>3, <1>4, <1>5

LEMMA HeldActiveInv ==
  ASSUME IInv, NEW g \in Generations, HeldActive(g)
  PROVE  IInv'
  <1> USE DEF HeldActive, SinkAt, IInv, TypeOK, Phases, Streams, InUse, Threads, Replacing
  <1>1. TypeOK'
    OBVIOUS
  <1>2. Phases'
    BY DEF Closing, Retiring
  <1>3. Streams' /\ Keyframes'
    BY DEF Keyframes
  <1>4. Reports'
    BY DEF Reports
  <1>5. Settled' /\ Closes'
    BY DEF Keyframes, Settled, Closes, Closing
  <1> QED BY <1>1, <1>2, <1>3, <1>4, <1>5

LEMMA HeldStoppedInv ==
  ASSUME IInv, NEW g \in Generations, HeldStopped(g)
  PROVE  IInv'
  <1> USE DEF HeldStopped, SinkEnds, SinkAt, HeldWakes, IInv, TypeOK, Phases, Streams, InUse,
         Threads, Replacing
  <1>1. TypeOK'
    OBVIOUS
  <1>2. Phases'
    BY DEF Closing, Retiring
  <1>3. Streams' /\ Keyframes'
    BY DEF Keyframes
  <1>4. Reports'
    BY DEF Reports
  <1>5. Settled' /\ Closes'
    BY DEF Keyframes, Settled, Closes, Closing
  <1> QED BY <1>1, <1>2, <1>3, <1>4, <1>5

LEMMA MapFailsInv ==
  ASSUME IInv, NEW g \in Generations, MapFails(g)
  PROVE  IInv'
  <1> USE DEF MapFails, SinkEnds, SinkAt, Fault, IInv, TypeOK, Phases, Streams, InUse, Threads,
         Replacing
  <1>1. TypeOK'
    OBVIOUS
  <1>2. Phases'
    BY DEF Closing, Retiring
  <1>3. Streams' /\ Keyframes'
    BY DEF Keyframes
  <1>4. Reports'
    BY DEF Reports
  <1>5. Settled' /\ Closes'
    BY DEF Keyframes, Settled, Closes, Closing
  <1> QED BY <1>1, <1>2, <1>3, <1>4, <1>5

LEMMA EmitBeginInv ==
  ASSUME IInv, NEW g \in Generations, EmitBegin(g)
  PROVE  IInv'
  <1> USE DEF EmitBegin, SinkAt, MayEmit, IInv, TypeOK, Phases, Streams, InUse, Threads,
         Replacing
  <1>1. TypeOK'
    OBVIOUS
  <1>2. Phases'
    BY DEF Closing, Retiring
  <1>3. Streams' /\ Keyframes'
    BY DEF Keyframes
  <1>4. Reports'
    BY DEF Reports
  <1>5. Settled' /\ Closes'
    BY DEF Keyframes, Settled, Closes, Closing
  <1> QED BY <1>1, <1>2, <1>3, <1>4, <1>5

LEMMA EmitSkippedInv ==
  ASSUME IInv, NEW g \in Generations, EmitSkipped(g)
  PROVE  IInv'
  <1> USE DEF EmitSkipped, SinkEnds, SinkAt, MayEmit, IInv, TypeOK, Phases, Streams, InUse,
         Threads, Replacing
  <1>1. TypeOK'
    OBVIOUS
  <1>2. Phases'
    BY DEF Closing, Retiring
  <1>3. Streams' /\ Keyframes'
    BY DEF Keyframes
  <1>4. Reports'
    BY DEF Reports
  <1>5. Settled' /\ Closes'
    BY DEF Keyframes, Settled, Closes, Closing
  <1> QED BY <1>1, <1>2, <1>3, <1>4, <1>5

LEMMA EmitTakenInv ==
  ASSUME IInv, NEW g \in Generations, EmitTaken(g)
  PROVE  IInv'
  <1> USE DEF EmitTaken, SinkAt, IInv, TypeOK, Phases, Streams, InUse, Threads, Replacing
  <1>1. TypeOK'
    OBVIOUS
  <1>2. Phases'
    BY DEF Closing, Retiring
  <1>3. Streams' /\ Keyframes'
    BY DEF Keyframes
  <1>4. Reports'
    BY DEF Reports
  <1>5. Settled' /\ Closes'
    BY DEF Keyframes, Settled, Closes, Closing
  <1> QED BY <1>1, <1>2, <1>3, <1>4, <1>5

LEMMA EmitStoppedInv ==
  ASSUME IInv, NEW g \in Generations, EmitStopped(g)
  PROVE  IInv'
  <1> USE DEF EmitStopped, SinkEnds, SinkAt, IInv, TypeOK, Phases, Streams, InUse, Threads,
         Replacing
  <1>1. TypeOK'
    OBVIOUS
  <1>2. Phases'
    BY DEF Closing, Retiring
  <1>3. Streams' /\ Keyframes'
    BY DEF Keyframes
  <1>4. Reports'
    BY DEF Reports
  <1>5. Settled' /\ Closes'
    BY DEF Keyframes, Settled, Closes, Closing
  <1> QED BY <1>1, <1>2, <1>3, <1>4, <1>5

-----------------------------------------------------------------------------
(* So do the pump, the monitor and the watcher of a branch,                *)

LEMMA PumpFailsInv ==
  ASSUME IInv, NEW g \in Generations, PumpFails(g)
  PROVE  IInv'
  BY DEF PumpFails, PumpAt, FailBegin, ErrMuFree, Fault, IInv, TypeOK, Phases, Streams,
         Keyframes, Reports, Settled, Closes, InUse, Threads, Replacing, Closing, Retiring

LEMMA PumpFailedInv ==
  ASSUME IInv, NEW g \in Generations, PumpFailed(g)
  PROVE  IInv'
  <1> USE DEF PumpFailed, PumpAt, FailEnd, EmitMuFree, IInv, TypeOK, Phases, Streams, InUse,
         Threads, Replacing
  <1>1. TypeOK'
    OBVIOUS
  <1>2. Phases'
    BY DEF Closing, Retiring
  <1>3. Streams' /\ Keyframes'
    BY DEF Keyframes
  <1>4. Reports'
    BY DEF Reports
  <1>5. Settled' /\ Closes'
    BY DEF Keyframes, Settled, Closes, Closing
  <1> QED BY <1>1, <1>2, <1>3, <1>4, <1>5

LEMMA PumpEndsInv ==
  ASSUME IInv, NEW g \in Generations, PumpEnds(g)
  PROVE  IInv'
  <1> USE DEF PumpEnds, PumpAt, IInv, TypeOK, Phases, Streams, InUse, Threads, Replacing
  <1>1. TypeOK'
    OBVIOUS
  <1>2. Phases'
    BY DEF Closing, Retiring
  <1>3. Streams' /\ Keyframes'
    BY DEF Keyframes
  <1>4. Reports'
    BY DEF Reports
  <1>5. Settled' /\ Closes'
    BY DEF Keyframes, Settled, Closes, Closing
  <1> QED BY <1>1, <1>2, <1>3, <1>4, <1>5

LEMMA MonitorFailsInv ==
  ASSUME IInv, NEW g \in Generations, MonitorFails(g)
  PROVE  IInv'
  <1> USE DEF MonitorFails, MonitorAt, FailBegin, ErrMuFree, Fault, IInv, TypeOK, Phases,
         Streams, InUse, Threads, Replacing
  <1>1. TypeOK'
    OBVIOUS
  <1>2. Phases'
    BY DEF Closing, Retiring
  <1>3. Streams' /\ Keyframes'
    BY DEF Keyframes
  <1>4. Reports'
    BY DEF Reports
  <1>5. Settled' /\ Closes'
    BY DEF Keyframes, Settled, Closes, Closing
  <1> QED BY <1>1, <1>2, <1>3, <1>4, <1>5

LEMMA MonitorFailedInv ==
  ASSUME IInv, NEW g \in Generations, MonitorFailed(g)
  PROVE  IInv'
  <1> USE DEF MonitorFailed, MonitorAt, FailEnd, EmitMuFree, IInv, TypeOK, Phases, Streams,
         InUse, Threads, Replacing
  <1>1. TypeOK'
    OBVIOUS
  <1>2. Phases'
    BY DEF Closing, Retiring
  <1>3. Streams' /\ Keyframes'
    BY DEF Keyframes
  <1>4. Reports'
    BY DEF Reports
  <1>5. Settled' /\ Closes'
    BY DEF Keyframes, Settled, Closes, Closing
  <1> QED BY <1>1, <1>2, <1>3, <1>4, <1>5

LEMMA MonitorEndsInv ==
  ASSUME IInv, NEW g \in Generations, MonitorEnds(g)
  PROVE  IInv'
  <1> USE DEF MonitorEnds, MonitorAt, IInv, TypeOK, Phases, Streams, InUse, Threads, Replacing
  <1>1. TypeOK'
    OBVIOUS
  <1>2. Phases'
    BY DEF Closing, Retiring
  <1>3. Streams' /\ Keyframes'
    BY DEF Keyframes
  <1>4. Reports'
    BY DEF Reports
  <1>5. Settled' /\ Closes'
    BY DEF Keyframes, Settled, Closes, Closing
  <1> QED BY <1>1, <1>2, <1>3, <1>4, <1>5

LEMMA WatchDoneInv ==
  ASSUME IInv, NEW g \in Generations, WatchDone(g)
  PROVE  IInv'
  <1> USE DEF WatchDone, IInv, TypeOK, Phases, Streams, InUse, Threads, Replacing
  <1>1. TypeOK'
    OBVIOUS
  <1>2. Phases'
    BY DEF Closing, Retiring
  <1>3. Streams' /\ Keyframes'
    BY DEF Keyframes
  <1>4. Reports'
    BY DEF Reports
  <1>5. Settled' /\ Closes'
    BY DEF Keyframes, Settled, Closes, Closing
  <1> QED BY <1>1, <1>2, <1>3, <1>4, <1>5

LEMMA WatchCheckInv ==
  ASSUME IInv, NEW g \in Generations, WatchCheck(g)
  PROVE  IInv'
  <1>1. watch[g] = "checking" /\ watch'[g] = "ended"
    BY DEF WatchCheck, IInv, TypeOK
  <1>2. \A h \in Generations : h # g => watch'[h] = watch[h]
    BY DEF WatchCheck, IInv, TypeOK
  <1>3. UNCHANGED <<branch, candidate, next, keepalive, capture, slotOpen, joins, flagVars,
                    sink, key, pump, monitor, close, serviceVars>>
    BY DEF WatchCheck
  <1>4. (branch # g => ended' = ended) /\ (branch = g => ended') /\ ended' \in BOOLEAN
    BY DEF WatchCheck, IInv, TypeOK
  <1>5. watch' \in [Generations -> {"none", "waiting", "checking", "ended"}]
    BY DEF WatchCheck, IInv, TypeOK
  <1>6. TypeOK'
    BY <1>3, <1>4, <1>5 DEF IInv, TypeOK
  <1>7. (InUse /\ ~ended => watch[branch] \in {"waiting", "checking"})'
    BY <1>1, <1>2, <1>3, <1>4 DEF IInv, TypeOK, Reports, InUse
  <1>8. update # "switching" /\ g \in failed /\ g \in done
    BY <1>1 DEF WatchCheck, BranchMuFree, IInv, Reports
  <1>9. Reports'
    BY <1>1, <1>2, <1>3, <1>7, <1>8 DEF IInv, TypeOK, Reports
  <1>10. Phases' /\ Streams' /\ Keyframes' /\ Settled' /\ Closes'
    BY <1>3 DEF IInv, Phases, Streams, Keyframes, Settled, Closes, InUse, Replacing, Closing, Retiring
  <1> QED BY <1>6, <1>9, <1>10 DEF IInv

-----------------------------------------------------------------------------
(* the close of a branch,                                                  *)

LEMMA CloseNullInv ==
  ASSUME IInv, NEW g \in Generations, CloseNull(g)
  PROVE  IInv'
  <1>1. \/ UNCHANGED <<faults, failed>>
        \/ faults' = faults + 1 /\ failed' = failed \cup {g}
    BY DEF CloseNull, Fault
  <1>2. failed \subseteq Generations /\ faults \in Nat
    BY DEF IInv, TypeOK
  <1>3. /\ failed' \subseteq Generations /\ failed \subseteq failed'
        /\ failed' \subseteq failed \cup {g}
    BY <1>1, <1>2
  <1>4. faults' \in Nat
    BY <1>1, <1>2
  <1>5. TypeOK'
    BY <1>3, <1>4 DEF CloseNull, CloseAt, IInv, TypeOK
  <1>6. Reports'
    BY <1>3 DEF CloseNull, CloseAt, IInv, TypeOK, Threads, Phases, Reports, InUse
  <1>7. g \in failed' \ failed => update # "switching" \/ g # Latest
    BY DEF CloseNull, CloseAt, IInv, TypeOK, Phases
  <1>8. Retiring' = Retiring
    BY DEF CloseNull, CloseAt, IInv, TypeOK, Retiring
  <1>9. Phases'
    BY <1>3, <1>7, <1>8 DEF CloseNull, CloseAt, IInv, TypeOK, Phases, InUse, Replacing, Closing
  <1>10. Streams' /\ Keyframes' /\ Settled' /\ Closes'
    BY DEF CloseNull, CloseAt, IInv, TypeOK, Streams, Keyframes, Settled, Closes, Replacing
  <1> QED BY <1>5, <1>6, <1>9, <1>10 DEF IInv

LEMMA CloseJoinInv ==
  ASSUME IInv, NEW g \in Generations, CloseJoin(g)
  PROVE  IInv'
  <1>1. close[g] = "null" /\ close'[g] = "closed"
    BY DEF CloseJoin, CloseAt, IInv, TypeOK
  <1>2. \A h \in Generations : h # g => close'[h] = close[h]
    BY DEF CloseJoin, CloseAt, IInv, TypeOK
  <1>3. UNCHANGED <<pipelineVars, failed, stopped, activated, ready, flowing, sink, key, pump,
                    monitor, watch, serviceVars>>
    BY DEF CloseJoin, CloseAt
  <1>4. TypeOK'
    BY DEF CloseJoin, CloseAt, IInv, TypeOK
  <1>5. Replacing' = Replacing /\ Closing' = Closing /\ Latest' = Latest
    BY <1>3 DEF Replacing, Closing
  <1>5a. Retiring' = Retiring
    BY <1>1, <1>2, <1>3 DEF IInv, TypeOK, Retiring
  <1>6. (InUse => close[branch] = "open")'
    BY <1>1, <1>2, <1>3 DEF IInv, TypeOK, Phases, InUse
  <1>7. (update \in {"starting", "publish", "overlap", "waiting", "promote", "switching"} =>
           close[Latest] = "open")'
    BY <1>1, <1>2, <1>3 DEF IInv, TypeOK, Phases
  <1>8. (\A h \in Generations : h > Latest => close[h] = "open" /\ monitor[h] = "none")'
    BY <1>1, <1>2, <1>3 DEF IInv, TypeOK, Phases
  <1>9. Phases'
    BY <1>3, <1>5, <1>6, <1>7, <1>8, <1>5a DEF IInv, Phases
  <1>10. Reports'
    BY DEF CloseJoin, CloseAt, IInv, TypeOK, Phases, Reports, InUse
  <1>11. Streams' /\ Keyframes' /\ Settled' /\ Closes'
    BY <1>1, <1>2, <1>3, <1>5 DEF IInv, TypeOK, Streams, Keyframes, Settled, Closes
  <1> QED BY <1>4, <1>9, <1>10, <1>11 DEF IInv

-----------------------------------------------------------------------------
(* UpdateQuality and ReplaceQuality,                                       *)

LEMMA UpdateQualityInv ==
  ASSUME IInv, UpdateQuality
  PROVE  IInv'
  BY DEF UpdateQuality, UpdateAt, ThreadsKept, IInv, TypeOK, Phases, Streams, Keyframes,
         Reports, Settled, Closes, InUse, Threads, Replacing, Closing, Retiring

LEMMA ReplaceRefusedInv ==
  ASSUME IInv, ReplaceRefused
  PROVE  IInv'
  BY DEF ReplaceRefused, UpdateAt, ThreadsKept, Closing, IInv, TypeOK, Phases, Streams,
         Keyframes, Reports, Settled, Closes, InUse, Threads, Replacing, Retiring

LEMMA ReplaceBeginInv ==
  ASSUME IInv, ReplaceBegin
  PROVE  IInv'
  <1>1. /\ next \in Generations /\ branch < next /\ monitor'[next] = "running"
        /\ \A h \in Generations : h # next => monitor'[h] = monitor[h]
    BY DEF ReplaceBegin, UpdateAt, IInv, TypeOK, Phases
  <1>2. monitor[next] = "none" /\ close[next] = "open"
    BY <1>1 DEF IInv, TypeOK, Phases
  <1>3. Reports'
    BY <1>1, <1>2 DEF ReplaceBegin, UpdateAt, IInv, TypeOK, Phases, Reports, InUse
  <1> USE <1>1, <1>2 DEF ReplaceBegin, UpdateAt, IInv, TypeOK
  <1>4. TypeOK'
    BY DEF Threads
  <1>5. Phases'
    BY DEF Phases, Streams, Closes, InUse, Replacing, Closing, Retiring
  <1>6. Streams' /\ Keyframes'
    BY DEF Phases, Streams, Keyframes
  <1>7. Settled' /\ Closes'
    BY DEF Phases, Streams, Keyframes, Settled, Closes, Replacing
  <1> QED BY <1>3, <1>4, <1>5, <1>6, <1>7

LEMMA CandidateStartsInv ==
  ASSUME IInv, CandidateStarts
  PROVE  IInv'
  <1>1. Latest \in Generations /\ branch # Latest
    BY DEF CandidateStarts, UpdateAt, IInv, TypeOK, Phases, Replacing
  <1>2. Reports'
    BY <1>1 DEF CandidateStarts, UpdateAt, IInv, TypeOK, Phases, Reports, InUse
  <1>3. TypeOK'
    BY <1>1 DEF CandidateStarts, UpdateAt, IInv, TypeOK, Threads
  <1>4. Phases' /\ Streams'
    BY <1>1 DEF CandidateStarts, UpdateAt, IInv, TypeOK, Phases, Streams, InUse, Replacing, Closing,
                Retiring
  <1>5. Keyframes' /\ Settled' /\ Closes'
    BY DEF CandidateStarts, UpdateAt, IInv, TypeOK, Phases, Keyframes, Settled, Closes, Replacing
  <1> QED BY <1>2, <1>3, <1>4, <1>5 DEF IInv

LEMMA StartFailsInv ==
  ASSUME IInv, StartFails
  PROVE  IInv'
  BY DEF StartFails, GiveUp, UpdateAt, AskClose, ThreadsKept, IInv, TypeOK, Phases, Streams,
         Keyframes, Reports, Settled, Closes, InUse, Threads, Replacing, Closing, Retiring

LEMMA PublishInv ==
  ASSUME IInv, Publish
  PROVE  IInv'
  BY DEF Publish, UpdateAt, ThreadsKept, IInv, TypeOK, Phases, Streams, Keyframes, Reports,
         Settled, Closes, InUse, Threads, Replacing, Closing, Retiring

LEMMA PublishFailsInv ==
  ASSUME IInv, PublishFails
  PROVE  IInv'
  BY DEF PublishFails, GiveUp, UpdateAt, AskClose, ThreadsKept, IInv, TypeOK, Phases, Streams,
         Keyframes, Reports, Settled, Closes, InUse, Threads, Replacing, Closing, Retiring

LEMMA OverlapInv ==
  ASSUME IInv, Overlap
  PROVE  IInv'
  BY DEF Overlap, UpdateAt, ThreadsKept, IInv, TypeOK, Phases, Streams, Keyframes, Reports,
         Settled, Closes, InUse, Threads, Replacing, Closing, Retiring

LEMMA OverlapFailsInv ==
  ASSUME IInv, OverlapFails
  PROVE  IInv'
  BY DEF OverlapFails, GiveUp, UpdateAt, AskClose, ThreadsKept, Fault, IInv, TypeOK, Phases,
         Streams, Keyframes, Reports, Settled, Closes, InUse, Threads, Replacing, Closing,
         Retiring

LEMMA WaitFailsInv ==
  ASSUME IInv, WaitFails
  PROVE  IInv'
  <1>1. \/ keepalive' = branch /\ UNCHANGED <<refused, faults>>
        \/ keepalive' = keepalive /\ faults' = faults + 1 /\ refused' = TRUE
    BY DEF WaitFails, Rollback, Restored, Fault
  <1>2. /\ keepalive \in {0} \cup Generations /\ branch \in {0} \cup Generations
        /\ refused \in BOOLEAN /\ faults \in Nat /\ Latest \in Generations
    BY DEF IInv, TypeOK
  <1>3. keepalive' \in {0} \cup Generations /\ (refused' \/ keepalive' = branch)
    BY <1>1, <1>2
  <1>4. refused' \in BOOLEAN
    BY <1>1, <1>2
  <1>5. faults' \in Nat
    BY <1>1, <1>2
  <1> USE DEF WaitFails, Rollback, GiveUp, UpdateAt, AskClose, ThreadsKept, IInv, TypeOK
  <1>6. TypeOK'
    BY <1>2, <1>3, <1>4, <1>5 DEF Threads
  <1>7. Phases' /\ Streams'
    BY <1>2 DEF Phases, Streams, InUse, Replacing, Closing, Retiring
  <1>8. Keyframes' /\ Reports'
    BY <1>2 DEF Phases, Streams, Keyframes, Reports, InUse, Replacing
  <1>9. Settled' /\ Closes'
    BY <1>2, <1>3 DEF Phases, Settled, Closes, Replacing
  <1> QED BY <1>6, <1>7, <1>8, <1>9

LEMMA WaitReadyInv ==
  ASSUME IInv, WaitReady
  PROVE  IInv'
  <1> USE DEF WaitReady, UpdateAt, ThreadsKept, IInv, TypeOK, Phases, Streams, InUse, Threads,
         Replacing
  <1>1. TypeOK'
    OBVIOUS
  <1>2. Phases'
    BY DEF Closing, Retiring
  <1>3. Streams' /\ Keyframes'
    BY DEF Keyframes
  <1>4. Reports'
    BY DEF Reports
  <1>5. Settled' /\ Closes'
    BY DEF Keyframes, Settled, Closes, Closing
  <1> QED BY <1>1, <1>2, <1>3, <1>4, <1>5

LEMMA PromoteInv ==
  ASSUME IInv, Promote
  PROVE  IInv'
  <1> USE DEF Promote, UpdateAt, Healthy, StopOld, IInv, TypeOK, Phases, Streams, InUse,
         Threads, Replacing
  <1>1. TypeOK'
    OBVIOUS
  <1>2. Phases'
    BY DEF Closing, Retiring
  <1>3. Streams' /\ Keyframes'
    BY DEF Keyframes
  <1>4. Reports'
    BY DEF Reports
  <1>5. Settled' /\ Closes'
    BY DEF Keyframes, Settled, Closes, Closing
  <1> QED BY <1>1, <1>2, <1>3, <1>4, <1>5

LEMMA PromoteFailsInv ==
  ASSUME IInv, PromoteFails
  PROVE  IInv'
  <1>1. \/ keepalive' = branch /\ UNCHANGED <<refused, faults>>
        \/ keepalive' = keepalive /\ faults' = faults + 1 /\ refused' = TRUE
    BY DEF PromoteFails, Rollback, Restored, Fault
  <1>2. /\ keepalive \in {0} \cup Generations /\ branch \in {0} \cup Generations
        /\ refused \in BOOLEAN /\ faults \in Nat /\ Latest \in Generations
    BY DEF IInv, TypeOK
  <1>3. keepalive' \in {0} \cup Generations /\ (refused' \/ keepalive' = branch)
    BY <1>1, <1>2
  <1>4. refused' \in BOOLEAN
    BY <1>1, <1>2
  <1>5. faults' \in Nat
    BY <1>1, <1>2
  <1> USE DEF PromoteFails, Rollback, GiveUp, UpdateAt, AskClose, ThreadsKept, IInv, TypeOK
  <1>6. TypeOK'
    BY <1>2, <1>3, <1>4, <1>5 DEF Threads
  <1>7. Phases' /\ Streams'
    BY <1>2 DEF Phases, Streams, InUse, Replacing, Closing, Retiring
  <1>8. Keyframes' /\ Reports'
    BY <1>2 DEF Phases, Streams, Keyframes, Reports, InUse, Replacing
  <1>9. Settled' /\ Closes'
    BY <1>2, <1>3 DEF Phases, Settled, Closes, Replacing
  <1> QED BY <1>6, <1>7, <1>8, <1>9

LEMMA SwitchInv ==
  ASSUME IInv, Switch
  PROVE  IInv'
  <1>1. Latest \in Generations
    BY DEF IInv, TypeOK
  <1>2. activated' \subseteq Generations /\ stopped' \subseteq Generations
    BY <1>1 DEF Switch, AskClose, IInv, TypeOK, Retiring
  <1>3. close' \in [Generations -> {"open", "asked", "null", "closed"}]
    BY DEF Switch, AskClose, IInv, TypeOK
  <1>4. TypeOK'
    BY <1>2, <1>3 DEF Switch, UpdateAt, IInv, TypeOK
  <1> USE DEF Switch, StopWaits, EmitMuFree, UpdateAt, AskClose, IInv, TypeOK, Retiring
  <1>5. Phases'
    BY <1>1 DEF Phases, Streams, InUse, Replacing, Closing
  <1>6. Streams'
    BY <1>1 DEF Phases, Streams, Replacing
  <1>7. Keyframes'
    BY <1>1 DEF Phases, Streams, Keyframes, Replacing
  <1>8. Reports'
    BY <1>1 DEF Phases, Reports, InUse
  <1>9. Settled' /\ Closes'
    BY <1>1 DEF Phases, Settled, Closes, Replacing
  <1> QED BY <1>4, <1>5, <1>6, <1>7, <1>8, <1>9

LEMMA ReplaceFailsInv ==
  ASSUME IInv, ReplaceFails
  PROVE  IInv'
  <1> USE DEF ReplaceFails, UpdateAt, AfterFailure, ThreadsKept, IInv, TypeOK, Phases, Streams,
         InUse, Threads, Replacing
  <1>1. TypeOK'
    OBVIOUS
  <1>2. Phases'
    BY DEF Closing, Retiring
  <1>3. Streams' /\ Keyframes'
    BY DEF Keyframes
  <1>4. Reports'
    BY DEF Reports
  <1>5. Settled' /\ Closes'
    BY DEF Keyframes, Settled, Closes, Closing
  <1> QED BY <1>1, <1>2, <1>3, <1>4, <1>5

LEMMA StoreQualityInv ==
  ASSUME IInv, StoreQuality
  PROVE  IInv'
  BY DEF StoreQuality, UpdateAt, ThreadsKept, IInv, TypeOK, Phases, Streams, Keyframes, Reports,
         Settled, Closes, InUse, Threads, Replacing, Closing, Retiring

-----------------------------------------------------------------------------
(* and Run, Start and Close of the pipeline.                               *)

LEMMA StartPlayingInv ==
  ASSUME IInv, StartPlaying
  PROVE  IInv'
  BY DEF StartPlaying, RunAt, IInv, TypeOK, Phases, Streams, Keyframes, Reports, Settled,
         Closes, InUse, Threads, Replacing, Closing, Retiring

LEMMA StartOkInv ==
  ASSUME IInv, StartOk
  PROVE  IInv'
  BY DEF StartOk, RunAt, IInv, TypeOK, Phases, Streams, Keyframes, Reports, Settled, Closes,
         InUse, Threads, Replacing, Closing, Retiring

LEMMA FirstFailsInv ==
  ASSUME IInv, FirstFails
  PROVE  IInv'
  BY DEF FirstFails, RunAt, AskClose, IInv, TypeOK, Phases, Streams, Keyframes, Reports,
         Settled, Closes, InUse, Threads, Replacing, Closing, Retiring

LEMMA AbortedInv ==
  ASSUME IInv, Aborted
  PROVE  IInv'
  BY DEF Aborted, RunAt, IInv, TypeOK, Phases, Streams, Keyframes, Reports, Settled, Closes,
         InUse, Threads, Replacing, Closing, Retiring

LEMMA CaptureStartsInv ==
  ASSUME IInv, CaptureStarts
  PROVE  IInv'
  BY DEF CaptureStarts, RunAt, IInv, TypeOK, Phases, Streams, Keyframes, Reports, Settled,
         Closes, InUse, Threads, Replacing, Closing, Retiring

LEMMA CaptureRefusedInv ==
  ASSUME IInv, CaptureRefused
  PROVE  IInv'
  BY DEF CaptureRefused, RunAt, IInv, TypeOK, Phases, Streams, Keyframes, Reports, Settled,
         Closes, InUse, Threads, Replacing, Closing, Retiring

LEMMA CaptureFailsInv ==
  ASSUME IInv, CaptureFails
  PROVE  IInv'
  BY DEF CaptureFails, Fault, IInv, TypeOK, Phases, Streams, Keyframes, Reports, Settled,
         Closes, InUse, Threads, Replacing, Closing, Retiring

LEMMA RunLeavesInv ==
  ASSUME IInv, RunLeaves
  PROVE  IInv'
  <1>1. running' \in BOOLEAN /\ emitting' \in BOOLEAN
    BY DEF RunLeaves
  <1>2. /\ UNCHANGED <<branchVars, pipelineVars, quality, update, refused, last, faults>>
        /\ runner = "running" /\ runner' = "over" /\ ~running'
    BY DEF RunLeaves, RunAt
  <1>3. TypeOK'
    BY <1>1, <1>2 DEF IInv, TypeOK
  <1>4. Phases'
    BY <1>2 DEF IInv, Phases, InUse, Replacing, Closing, Retiring
  <1>5. Streams' /\ Keyframes' /\ Reports' /\ Settled' /\ Closes'
    BY <1>2 DEF IInv, Streams, Keyframes, Reports, Settled, Closes, InUse, Replacing
  <1> QED BY <1>3, <1>4, <1>5 DEF IInv

LEMMA CloseBeginInv ==
  ASSUME IInv, CloseBegin
  PROVE  IInv'
  <1>1. slotOpen' \in BOOLEAN
    BY DEF CloseBegin
  <1>2. /\ UNCHANGED <<branchVars, branch, candidate, next, keepalive, ended, joins, running,
                       quality, emitting, update, refused, last, faults>>
        /\ ~Replacing /\ runner = "over" /\ runner' = "stopping" /\ capture' = "ended"
    BY DEF CloseBegin, RunAt
  <1>3. TypeOK'
    BY <1>1, <1>2 DEF IInv, TypeOK
  <1>4. Phases'
    BY <1>2 DEF IInv, Phases, InUse, Replacing, Closing, Retiring
  <1>5. Streams' /\ Keyframes' /\ Reports' /\ Settled' /\ Closes'
    BY <1>2 DEF IInv, Streams, Keyframes, Reports, Settled, Closes, InUse, Replacing
  <1> QED BY <1>3, <1>4, <1>5 DEF IInv

LEMMA CloseTakesInv ==
  ASSUME IInv, CloseTakes
  PROVE  IInv'
  <1>1. candidate = 0 /\ ~running /\ update \in {"idle", "asked", "store"}
    BY DEF CloseTakes, RunAt, IInv, TypeOK, Phases, Settled, Replacing, Closing
  <1>2. joins' = joins \cup ({branch} \ {0}) /\ joins' \subseteq 1 .. Latest
    BY <1>1 DEF CloseTakes, Taken, IInv, TypeOK, Phases, Streams
  <1>3. \A g \in Generations :
          close'[g] = IF g \in joins' /\ close[g] = "open" THEN "asked" ELSE close[g]
    BY DEF CloseTakes, AskClose
  <1> USE <1>1, <1>2, <1>3 DEF CloseTakes, RunAt, IInv, TypeOK
  <1>4. TypeOK'
    BY DEF AskClose, Taken
  <1>5. Phases'
    BY DEF Phases, InUse, Replacing, Closing, AskClose
  <1>6. Streams'
    BY DEF Streams, AskClose
  <1>7. Keyframes'
    BY DEF Keyframes
  <1>8. Reports'
    BY DEF Reports, InUse, AskClose
  <1>9. Settled' /\ Closes'
    BY DEF Settled, Closes, Replacing
  <1> QED BY <1>4, <1>5, <1>6, <1>7, <1>8, <1>9

LEMMA CloseEndInv ==
  ASSUME IInv, CloseEnd
  PROVE  IInv'
  BY DEF CloseEnd, RunAt, WaitedFor, IInv, TypeOK, Phases, Streams, Keyframes, Reports, Settled,
         Closes, InUse, Threads, Replacing, Closing, Retiring

-----------------------------------------------------------------------------
(* The theorems.                                                           *)

\* Every step preserves it.
LEMMA NextInv ==
  ASSUME IInv, [Next]_vars
  PROVE  IInv'
  <1>1. ASSUME NEW g \in Generations, NEW k \in BOOLEAN, PullActive(g, k) \/ PullCandidate(g, k)
        PROVE  IInv'
    BY <1>1, PullActiveInv, PullCandidateInv
  <1>2. ASSUME NEW g \in Generations, Deliver(g) \/ MapFails(g) \/ EmitTaken(g)
        PROVE  IInv'
    BY <1>2, HeldActiveInv, HeldStoppedInv, EmitBeginInv, EmitSkippedInv, EmitStoppedInv,
       MapFailsInv, EmitTakenInv DEF Deliver
  <1>3. ASSUME NEW g \in Generations,
               PumpFails(g) \/ MonitorFails(g) \/ Ends(g) \/ Watch(g) \/ CloseBranch(g)
        PROVE  IInv'
    BY <1>3, PumpFailsInv, PumpFailedInv, PumpEndsInv, MonitorFailsInv, MonitorFailedInv,
       MonitorEndsInv, WatchDoneInv, WatchCheckInv, CloseNullInv, CloseJoinInv
       DEF Ends, Watch, CloseBranch
  <1>4. CASE UpdateQuality \/ Replace
    BY <1>4, UpdateQualityInv, ReplaceRefusedInv, ReplaceBeginInv, CandidateStartsInv,
       StartFailsInv, PublishInv, PublishFailsInv, OverlapInv, OverlapFailsInv, WaitFailsInv,
       WaitReadyInv, PromoteInv, PromoteFailsInv, SwitchInv, ReplaceFailsInv, StoreQualityInv
       DEF Replace
  <1>5. CASE CaptureFails \/ RunLeaves \/ Run
    BY <1>5, StartPlayingInv, StartOkInv, FirstFailsInv, AbortedInv, CaptureStartsInv,
       CaptureRefusedInv, CaptureFailsInv, RunLeavesInv, CloseBeginInv, CloseTakesInv,
       CloseEndInv DEF Run, RunEnded
  <1>6. CASE UNCHANGED vars
    BY <1>6 DEF vars, IInv, TypeOK, Phases, Streams, Keyframes, Reports, Settled, Closes, InUse,
       Replacing, Closing, Retiring
  <1> QED BY <1>1, <1>2, <1>3, <1>4, <1>5, <1>6 DEF Next

\* The inductive invariant holds in every reachable state, however the streaming
\* threads, the goroutines of the branches, an update and Run interleave.
THEOREM EncoderInvariant == Spec => []IInv
  BY InitInv, NextInv, PTL DEF Spec

\* Every variable keeps its type.
THEOREM EncoderTypes == Spec => []TypeOK
  <1>1. IInv => TypeOK
    BY DEF IInv
  <1> QED BY <1>1, EncoderInvariant, PTL

\* Run closes Samples when no streaming thread can send on it any more: a branch
\* that is not closed is one that Close waits for.
THEOREM SamplesAreClosedLast == Spec => []SamplesClosedLast
  <1>1. IInv => SamplesClosedLast
    BY DEF IInv, TypeOK, Phases, Streams, Keyframes, Closes, SamplesClosedLast, Closing
  <1> QED BY <1>1, EncoderInvariant, PTL

\* A replacement that is over has taken over or left nothing behind.
THEOREM ReplacementIsSettled == Spec => []ReplacementSettles
  <1>1. IInv => ReplacementSettles
    BY DEF IInv, TypeOK, Phases, Settled, Closes, ReplacementSettles, Replacing
  <1> QED BY <1>1, EncoderInvariant, PTL

\* An active branch that has failed is reported to Run: between its setErr and
\* the end of the pipeline somebody is always at work on it.
THEOREM FailureReachesRun == Spec => []FailureIsReported
  <1>1. IInv => FailureIsReported
    BY DEF IInv, TypeOK, Phases, Reports, InUse, Settled, FailureIsReported
  <1> QED BY <1>1, EncoderInvariant, PTL

\* The samples go over from one encoder to the next at a keyframe, and never back.
THEOREM SamplesSwitchCleanly == Spec => SwitchIsClean
  <1>1. ASSUME IInv, NEW g \in Generations, EmitTaken(g)
        PROVE  g >= last /\ (g > last /\ g # 1 => key[g])
    BY <1>1 DEF EmitTaken, SinkAt, IInv, TypeOK, Streams, Keyframes
  <1>2. IInv /\ [Next]_vars =>
          [\A g \in Generations : EmitTaken(g) => g >= last /\ (g > last /\ g # 1 => key[g])]_vars
    BY <1>1
  <1> QED BY <1>2, EncoderInvariant, PTL DEF Spec, SwitchIsClean
=============================================================================
