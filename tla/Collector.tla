----------------------------- MODULE Collector -----------------------------
(***************************************************************************)
(* internal/app/runner.go runCollector with internal/app/runtime_status.go:*)
(* the sampling loop, its deferred clean-up, and what status.json says of  *)
(* it, over several runs of the program.                                   *)
(*                                                                         *)
(* A sample is abstracted to whether it has activity and whether it came   *)
(* without error; the backend and the worklog to whether a call succeeds   *)
(* (LinuxBackend and WorkLog model how); time to the choices it makes: is  *)
(* a reset due, is the sleep over.  status.json is replaced by a rename    *)
(* (status/store.go 67-104), so a failed write leaves the former one.      *)
(***************************************************************************)
EXTENDS Naturals, SequencesExt

CONSTANTS Days, None,
          MaxRuns, MaxSamples   \* bounds: runs, and samples of one run

VARIABLES
    run,      \* the number of this run
    qa,       \* --qa-console
    ctxDone,  \* ctx is cancelled
    pc,       \* where runCollector is
    defers,   \* its deferred calls, last in first out
    sample,   \* the last sample
    written,  \* it was written
    warnings, \* initialWarnings is not empty
    day,      \* output.currentWorkLogPath
    value,    \* the tracker's value
    store,    \* status.json
    fails,    \* runCollector's result is an error
    acked,    \* history: rows flushed to a worklog, by run and sample
    count,    \* history: samples of this run
    warned    \* history: a sample or a reset of this run failed

vars == <<run, qa, ctxDone, pc, defers, sample, written, warnings, day, value,
          store, fails, acked, count, warned>>

Samples == [active : BOOLEAN, ok : BOOLEAN]
Status  == [run : 1..MaxRuns, stopped : BOOLEAN, samples : 0..MaxSamples,
            good : 0..MaxSamples, path : Days, warning : BOOLEAN, error : BOOLEAN]

ASSUME NoneAssumption   == None \notin Days /\ None \notin Status
ASSUME BoundsAssumption == MaxRuns \in Nat /\ MaxSamples \in Nat

TypeOK ==
    /\ run \in 0..MaxRuns /\ qa \in BOOLEAN /\ ctxDone \in BOOLEAN
    /\ pc \in {"off", "delay", "backend", "first", "output", "start", "warn", "loop",
               "reset", "sample", "write", "flush", "record", "sleep", "unwind", "returned"}
    /\ defers \in Seq({"backend", "output", "status"})
    /\ sample \in Samples /\ written \in BOOLEAN /\ warnings \in BOOLEAN
    /\ day \in Days \cup {None}
    /\ value \in Status \cup {None} /\ store \in Status \cup {None}
    /\ fails \in BOOLEAN
    /\ acked \subseteq (1..MaxRuns) \X (1..MaxSamples)
    /\ count \in 0..MaxSamples /\ warned \in BOOLEAN

Init ==
    /\ run = 0 /\ qa = FALSE /\ ctxDone = FALSE /\ pc = "off" /\ defers = <<>>
    /\ sample = [active |-> FALSE, ok |-> FALSE] /\ written = FALSE /\ warnings = FALSE
    /\ day = None /\ value = None /\ store = None /\ fails = FALSE
    /\ acked = {} /\ count = 0 /\ warned = FALSE

-----------------------------------------------------------------------------
(* The surroundings. *)

(* The locals of a new run. *)
Fresh ==
    /\ sample' = [active |-> FALSE, ok |-> FALSE] /\ written' = FALSE
    /\ warnings' = FALSE /\ day' = None /\ value' = None /\ fails' = FALSE
    /\ count' = 0 /\ warned' = FALSE

(* A delay is optional. *)
Launch ==
    /\ pc = "off" /\ run < MaxRuns
    /\ run' = run + 1 /\ qa' \in BOOLEAN /\ ctxDone' = FALSE
    /\ pc' \in {"delay", "backend"}
    /\ Fresh
    /\ UNCHANGED <<defers, store, acked>>

Cancel ==
    /\ pc # "off" /\ ~ctxDone /\ ctxDone' = TRUE
    /\ UNCHANGED <<run, qa, pc, defers, sample, written, warnings, day, value, store,
                   fails, acked, count, warned>>

(* The process dies, or exits after the collector returned. *)
Gone ==
    /\ pc # "off"
    /\ pc' = "off" /\ defers' = <<>>
    /\ UNCHANGED <<run, qa, ctxDone, sample, written, warnings, day, value, store,
                   fails, acked, count, warned>>

-----------------------------------------------------------------------------
Unwind(failing) == pc' = "unwind" /\ fails' = failing

(* Mutant: the tracker does not know of QA console mode. *)
TrackedAlways == TRUE

(* runtimeStatusTracker.write: its failure is only logged.  There is no    *)
(* tracker in QA console mode.                                             *)
Tracked == ~qa
Persist(v) == value' = v /\ store' \in {store, v}

RecordWarning ==
    IF Tracked THEN Persist([value EXCEPT !.warning = TRUE]) ELSE UNCHANGED <<value, store>>

(* Mutant: the error is returned but not recorded. *)
RecordErrorNot == UNCHANGED <<value, store>>

RecordError ==
    IF Tracked THEN Persist([value EXCEPT !.error = TRUE]) ELSE UNCHANGED <<value, store>>

(* StartDelay (35-44) *)
Delay ==
    /\ pc = "delay"
    /\ \/ pc' = "backend" /\ UNCHANGED fails
       \/ ctxDone /\ Unwind(FALSE)
    /\ UNCHANGED <<run, qa, ctxDone, defers, sample, written, warnings, day, value,
                   store, acked, count, warned>>

(* NewBackend (46-55) *)
OpenBackend ==
    /\ pc = "backend"
    /\ \/ pc' = "first" /\ defers' = Append(defers, "backend") /\ UNCHANGED fails
       \/ Unwind(TRUE) /\ UNCHANGED defers
    /\ UNCHANGED <<run, qa, ctxDone, sample, written, warnings, day, value, store,
                   acked, count, warned>>

(* The initial sample is only looked at for warnings (57-73). *)
FirstSample ==
    /\ pc = "first"
    /\ warnings' \in BOOLEAN
    /\ pc' = "output"
    /\ UNCHANGED <<run, qa, ctxDone, defers, sample, written, day, value, store, fails,
                   acked, count, warned>>

(* openCSVOutput (75-79, 199-231): standard output cannot fail to open. *)
OpenOutput ==
    /\ pc = "output"
    /\ \/ /\ pc' = IF Tracked THEN "start" ELSE "loop"
          /\ defers' = Append(defers, "output")
          /\ IF qa THEN UNCHANGED day ELSE day' \in Days
          /\ UNCHANGED fails
       \/ ~qa /\ Unwind(TRUE) /\ UNCHANGED <<defers, day>>
    /\ UNCHANGED <<run, qa, ctxDone, sample, written, warnings, value, store, acked,
                   count, warned>>

(* newCollectorStatusTracker and Start (81-84) *)
StartTracker ==
    /\ pc = "start"
    /\ Persist([run |-> run, stopped |-> FALSE, samples |-> 0, good |-> 0, path |-> day,
                warning |-> FALSE, error |-> FALSE])
    /\ defers' = Append(defers, "status")
    /\ pc' = "warn"
    /\ UNCHANGED <<run, qa, ctxDone, sample, written, warnings, day, fails, acked, count,
                   warned>>

InitialWarnings ==
    /\ pc = "warn"
    /\ IF warnings THEN RecordWarning ELSE UNCHANGED <<value, store>>
    /\ warned' = warnings
    /\ pc' = "loop"
    /\ UNCHANGED <<run, qa, ctxDone, defers, sample, written, warnings, day, fails, acked,
                   count>>

(* Mutant: the context is only looked at while sleeping. *)
LoopUnchecked ==
    /\ pc = "loop" /\ count < MaxSamples
    /\ pc' \in {"reset", "sample"}
    /\ UNCHANGED <<run, qa, ctxDone, defers, sample, written, warnings, day, value, store,
                   fails, acked, count, warned>>

(* The top of the loop (96-102). *)
Loop ==
    /\ pc = "loop"
    /\ IF ctxDone THEN Unwind(FALSE)
                  ELSE /\ count < MaxSamples
                       /\ pc' \in {"reset", "sample"} /\ UNCHANGED fails
    /\ UNCHANGED <<run, qa, ctxDone, defers, sample, written, warnings, day, value, store,
                   acked, count, warned>>

(* 103-112 *)
Reset ==
    /\ pc = "reset"
    /\ \/ UNCHANGED <<value, store, warned>>
       \/ RecordWarning /\ warned' = TRUE
    /\ pc' = "sample"
    /\ UNCHANGED <<run, qa, ctxDone, defers, sample, written, warnings, day, fails, acked,
                   count>>

(* 114-121 *)
Sample ==
    /\ pc = "sample"
    /\ sample' \in Samples
    /\ count' = count + 1
    /\ IF sample'.ok THEN UNCHANGED <<value, store>> ELSE RecordWarning
    /\ warned' = (warned \/ ~sample'.ok)
    /\ pc' = "write"
    /\ UNCHANGED <<run, qa, ctxDone, defers, written, warnings, day, fails, acked>>

(* Mutant: a row is recorded before it is flushed, in the next round. *)
WriteUnflushed ==
    /\ pc = "write"
    /\ pc' = "record" /\ written' = sample.active
    /\ UNCHANGED <<run, qa, ctxDone, defers, sample, warnings, day, value, store, fails,
                   acked, count, warned>>

(* writeActivitySample (123-130, 162-170); WriteSample may change the file. *)
Write ==
    /\ pc = "write"
    /\ \/ /\ ~sample.active
          /\ pc' = "record" /\ written' = FALSE
          /\ UNCHANGED <<day, value, store, fails>>
       \/ /\ sample.active
          /\ pc' = "flush" /\ written' = TRUE
          /\ IF qa THEN UNCHANGED day ELSE day' \in Days
          /\ UNCHANGED <<value, store, fails>>
       \/ /\ sample.active
          /\ RecordError /\ Unwind(TRUE)
          /\ UNCHANGED <<written, day>>
    /\ UNCHANGED <<run, qa, ctxDone, defers, sample, warnings, acked, count, warned>>

(* Mutant: the inner err shadows the one that is returned. *)
FlushShadowed ==
    /\ pc = "flush"
    /\ \/ /\ acked' = IF qa THEN acked ELSE acked \cup {<<run, count>>}
          /\ pc' = "record" /\ UNCHANGED <<value, store, fails>>
       \/ RecordError /\ Unwind(FALSE) /\ UNCHANGED acked
    /\ UNCHANGED <<run, qa, ctxDone, defers, sample, written, warnings, day, count, warned>>

(* 131-139 *)
Flush ==
    /\ pc = "flush"
    /\ \/ /\ acked' = IF qa THEN acked ELSE acked \cup {<<run, count>>}
          /\ pc' = "record" /\ UNCHANGED <<value, store, fails>>
       \/ RecordError /\ Unwind(TRUE) /\ UNCHANGED acked
    /\ UNCHANGED <<run, qa, ctxDone, defers, sample, written, warnings, day, count, warned>>

(* Mutant: a good sample clears the warning. *)
RecordedClearing ==
    [value EXCEPT !.path = day, !.samples = @ + 1, !.warning = ~sample.ok,
                  !.good = IF sample.ok /\ written THEN count ELSE @]

(* SetCurrentWorkLogPath and RecordSample (140-143) *)
Recorded ==
    [value EXCEPT !.path = day, !.samples = @ + 1,
                  !.good = IF sample.ok /\ written THEN count ELSE @]

Record ==
    /\ pc = "record"
    /\ IF Tracked THEN Persist(Recorded) ELSE UNCHANGED <<value, store>>
    /\ pc' = "sleep"
    /\ UNCHANGED <<run, qa, ctxDone, defers, sample, written, warnings, day, fails, acked,
                   count, warned>>

(* 145-153 *)
Sleep ==
    /\ pc = "sleep"
    /\ \/ pc' = "loop" /\ UNCHANGED fails
       \/ ctxDone /\ Unwind(FALSE)
    /\ UNCHANGED <<run, qa, ctxDone, defers, sample, written, warnings, day, value, store,
                   acked, count, warned>>

(* The deferred calls: tracker Stop, output.close, backend Close. *)
RunDeferred ==
    /\ pc = "unwind"
    /\ IF defers = <<>>
       THEN pc' = "returned" /\ UNCHANGED <<defers, value, store>>
       ELSE /\ defers' = Front(defers)
            /\ IF Last(defers) = "status" THEN Persist([value EXCEPT !.stopped = TRUE])
                                          ELSE UNCHANGED <<value, store>>
            /\ UNCHANGED pc
    /\ UNCHANGED <<run, qa, ctxDone, sample, written, warnings, day, fails, acked, count,
                   warned>>

-----------------------------------------------------------------------------
Running ==
    \/ Delay \/ OpenBackend \/ FirstSample \/ OpenOutput \/ StartTracker
    \/ InitialWarnings \/ Loop \/ Reset \/ Sample \/ Write \/ Flush \/ Record
    \/ Sleep \/ RunDeferred

Done == pc = "off" /\ run = MaxRuns /\ UNCHANGED vars

Next == Launch \/ Cancel \/ Gone \/ Running \/ Done

(* Calls return and timers fire. *)
Spec == Init /\ [][Next]_vars /\ WF_vars(Running)

-----------------------------------------------------------------------------
(* status.json never shows a last successful sample whose row is not in    *)
(* the worklog: the row is flushed before it is recorded (123-143).        *)
GoodSampleIsLogged ==
    /\ store # None /\ store.good > 0 => <<store.run, store.good>> \in acked
    /\ value # None /\ value.good > 0 => <<value.run, value.good>> \in acked

(* Between two samples the tracker knows this run's story: every sample    *)
(* counted, every warning kept though later samples succeed, the worklog   *)
(* that rows now go to (runtime_status.go 58-90, linux.md 68-70).          *)
StatusMatchesRun ==
    pc = "sleep" /\ Tracked =>
        /\ value.run = run /\ value.samples = count /\ value.path = day
        /\ value.warning = warned
        /\ ~value.stopped /\ ~value.error

(* A collector that returned left nothing open, and its last status says   *)
(* that it stopped and whether writing failed; without a status it never   *)
(* opened a worklog (76-84, 126-138, runtime_status.go 49-56, 92-99).      *)
EndIsRecorded ==
    pc = "returned" =>
        /\ defers = <<>>
        /\ value # None => value.stopped /\ value.error = fails
        /\ value = None => \A c \in 1..MaxSamples : <<run, c>> \notin acked

(* QA console mode leaves worklogs and status.json alone (linux.md 54).    *)
QALeavesNoTrace ==
    [][qa /\ qa' => store' = store /\ acked' = acked /\ value' = None]_vars

Abstract == INSTANCE RunnerFunc
    WITH NoError <- "nil", Failure <- "failed", Pending <- "pending",
         phase   <- IF pc \in {"off", "returned"} THEN pc ELSE "running",
         holding <- defers # <<>>,
         outcome <- IF pc # "returned" THEN "pending" ELSE IF fails THEN "failed" ELSE "nil"

(* runCollector is the RunnerFunc that Controller and the tray rely on: a  *)
(* call of it ends at most once, with an error unless its context is       *)
(* cancelled, and with nothing left open (runner.go 30-156;                *)
(* controller.go 12, 61-75; tray.go 106-112).                              *)
ImplementsRunnerFunc == Abstract!Spec

(* A cancelled collector returns: what Controller asks of its RunnerFunc.  *)
CancelEndsTheRun == ctxDone ~> pc \in {"off", "returned"}

(* linux.md:36-37: Status shows the running collector's last successful    *)
(* sample.                                                                 *)
StatusIsOfTheRunningCollector ==
    pc \notin {"off", "returned"} /\ ~qa /\ store # None /\ store.good > 0 => store.run = run
=============================================================================
