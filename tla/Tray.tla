-------------------------------- MODULE Tray --------------------------------
(***************************************************************************)
(* internal/tray/tray.go: runner.Run.  The tray driver owns the main       *)
(* thread and calls back into Run; five goroutines wait for the collector, *)
(* the parent context and the three menu items; the controller is the      *)
(* module Controller, started once by onReady and awaited by whichever     *)
(* thread executes shutdown.                                               *)
(*                                                                         *)
(* Threads: "main" (Run, the driver's callbacks), "err" (106-112), "ctx"   *)
(* (114-118), "quit" (120-127), and one per page, "about" (129-140) and    *)
(* "status" (142-153).                                                     *)
(*                                                                         *)
(* The driver is external.  As tray_test.go's driver does, it calls        *)
(* onReady first and its loop after that; a quit ends the loop; it calls   *)
(* onExit when the quit came from outside (the session, the dock) and may  *)
(* or may not call it when the tray itself asked for the quit.             *)
(***************************************************************************)
EXTENDS Naturals, Sequences, FiniteSets

CONSTANTS Errors, NoError, Canceled, Pending,
          Pages      \* the menu items that show a page: "about", "status"

ASSUME ErrorsAssumption ==
    /\ NoError \notin Errors /\ Canceled \notin Errors /\ Pending \notin Errors
    /\ NoError # Canceled /\ NoError # Pending /\ Canceled # Pending
ASSUME PagesAssumption == Pages \cap {"main", "err", "ctx", "quit"} = {}

VARIABLES ctxDone,   \* here: collectorCtx is done
          once, done, errCh, errBuf, result, run, err, outcome,
          launches, starter, got, waiter, waited

VARIABLES
    parentDone,    \* ctx, the context Run was given, is done
    pc,            \* where each thread is
    shutdownOnce,  \* "idle", "running", "done"
    quitOnce,      \* driver.Quit was called by quitTray
    resultCh,      \* the buffer of resultCh
    resultOnce,    \* finish has sent its value
    quitAsked,     \* external: the driver was told to quit
    clicked,       \* external: menu items with an unread click
    exit           \* what Run returned

Shutters == {"main", "ctx", "quit"}   \* threads that call shutdown
Threads  == Shutters \cup Pages \cup {"err"}

C == INSTANCE Controller
    WITH Starters <- {"tray"}, Listeners <- {"tray"}, Waiters <- Shutters

controller == <<ctxDone, once, done, errCh, errBuf, result, run, err, outcome,
                launches, starter, got, waiter, waited>>
onces == <<shutdownOnce, quitOnce, resultOnce, resultCh>>
vars == <<controller, parentDone, pc, onces, quitAsked, clicked, exit>>

TypeOK ==
    /\ C!TypeOK
    /\ parentDone \in BOOLEAN
    /\ pc \in [Threads -> {"off", "onReady", "loop", "select", "showing", "shutdown",
                           "wait", "finish", "quitTray", "result", "end"}]
    /\ shutdownOnce \in {"idle", "running", "done"}
    /\ quitOnce \in BOOLEAN /\ resultOnce \in BOOLEAN
    /\ resultCh \in Seq(C!Values) /\ Len(resultCh) <= 1
    /\ quitAsked \in BOOLEAN
    /\ clicked \subseteq Pages \cup {"quit"}
    /\ exit \in C!Values \cup {Pending}

Init ==
    /\ C!Init
    /\ parentDone = FALSE
    /\ pc = [t \in Threads |-> IF t = "main" THEN "onReady" ELSE "off"]
    /\ shutdownOnce = "idle" /\ quitOnce = FALSE
    /\ resultOnce = FALSE /\ resultCh = <<>>
    /\ quitAsked = FALSE /\ clicked = {} /\ exit = Pending

Goto(t, l) == pc' = [pc EXCEPT ![t] = l]

-----------------------------------------------------------------------------
(* Surroundings: signals, the session manager, the user's clicks. *)

ParentCancel ==
    /\ ~parentDone /\ parentDone' = TRUE
    /\ UNCHANGED <<controller, pc, onces, quitAsked, clicked, exit>>

(* context: a cancelled parent cancels collectorCtx, after its own Done. *)
Propagate ==
    /\ parentDone /\ C!Cancel
    /\ UNCHANGED <<parentDone, pc, onces, quitAsked, clicked, exit>>

ExternalQuit ==
    /\ ~quitAsked /\ quitAsked' = TRUE
    /\ UNCHANGED <<controller, parentDone, pc, onces, clicked, exit>>

(* A menu item's channel holds one click until its goroutine reads it. *)
Click(i) ==
    /\ pc["main"] = "loop" /\ i \notin clicked
    /\ clicked' = clicked \cup {i}
    /\ UNCHANGED <<controller, parentDone, pc, onces, quitAsked, exit>>

-----------------------------------------------------------------------------
(* onReady: the menu, collector.Start, and the goroutines (95-153). *)
StartCollector ==
    /\ pc["main"] = "onReady"
    /\ \/ C!EnterOnce("tray") \/ C!MakeDone("tray") \/ C!MakeErrCh("tray")
       \/ C!Spawn("tray")
    /\ pc' = IF starter'["tray"] = "listening"
             THEN [t \in Threads |-> IF t = "main" THEN "loop" ELSE "select"]
             ELSE pc
    /\ UNCHANGED <<parentDone, onces, quitAsked, clicked, exit>>

(* The driver's loop ends. *)
LoopEnds ==
    /\ pc["main"] = "loop" /\ quitAsked
    /\ \/ Goto("main", "shutdown")
       \/ quitOnce /\ Goto("main", "result")
    /\ UNCHANGED <<controller, parentDone, onces, quitAsked, clicked, exit>>

(* return <-resultCh, and the deferred cancel (72, 158). *)
ReturnResult ==
    /\ pc["main"] = "result" /\ resultCh # <<>>
    /\ exit' = Head(resultCh) /\ resultCh' = Tail(resultCh)
    /\ Goto("main", "end")
    /\ ctxDone' = TRUE
    /\ UNCHANGED <<once, done, errCh, errBuf, result, run, err, outcome, launches,
                   starter, got, waiter, waited, parentDone, shutdownOnce, quitOnce,
                   resultOnce, quitAsked, clicked>>

-----------------------------------------------------------------------------
(* finish: the first verdict wins (78-82). *)
Send(v) ==
    /\ resultOnce' = TRUE
    /\ resultCh' = IF resultOnce THEN resultCh ELSE Append(resultCh, v)

AfterShutdown(t) == IF t = "main" THEN "result" ELSE "quitTray"

(* shutdown (88-93): the first caller cancels, waits for the collector and *)
(* hands its result to finish; any other blocks until that is done.        *)
EnterShutdown(t) ==
    /\ pc[t] = "shutdown" /\ shutdownOnce = "idle"
    /\ shutdownOnce' = "running"
    /\ ctxDone' = TRUE
    /\ Goto(t, "wait")
    /\ UNCHANGED <<once, done, errCh, errBuf, result, run, err, outcome, launches,
                   starter, got, waiter, waited, parentDone, quitOnce, resultOnce,
                   resultCh, quitAsked, clicked, exit>>

AwaitCollector(t) ==
    /\ pc[t] = "wait"
    /\ C!WaitStep(t)
    /\ IF waiter'[t] \in {"returned", "unstarted"} THEN Goto(t, "finish") ELSE UNCHANGED pc
    /\ UNCHANGED <<parentDone, onces, quitAsked, clicked, exit>>

(* Mutant: shutdown waits but does not look at the result. *)
FinishWithNil(t) ==
    /\ pc[t] = "finish"
    /\ Send(NoError)
    /\ shutdownOnce' = "done"
    /\ Goto(t, AfterShutdown(t))
    /\ UNCHANGED <<controller, parentDone, quitOnce, quitAsked, clicked, exit>>

FinishShutdown(t) ==
    /\ pc[t] = "finish"
    /\ Send(waited[t])
    /\ shutdownOnce' = "done"
    /\ Goto(t, AfterShutdown(t))
    /\ UNCHANGED <<controller, parentDone, quitOnce, quitAsked, clicked, exit>>

(* Mutant: a flag instead of a Once; whoever comes second passes. *)
PassWhileRunning(t) ==
    /\ pc[t] = "shutdown" /\ shutdownOnce # "idle"
    /\ Goto(t, AfterShutdown(t))
    /\ UNCHANGED <<controller, parentDone, onces, quitAsked, clicked, exit>>

PassShutdown(t) ==
    /\ pc[t] = "shutdown" /\ shutdownOnce = "done"
    /\ Goto(t, AfterShutdown(t))
    /\ UNCHANGED <<controller, parentDone, onces, quitAsked, clicked, exit>>

Shutdown(t) == EnterShutdown(t) \/ AwaitCollector(t) \/ FinishShutdown(t) \/ PassShutdown(t)

(* quitTray (83-87): one call of driver.Quit, whoever asks. *)
QuitTray(t) ==
    /\ pc[t] = "quitTray"
    /\ quitOnce' = TRUE
    /\ quitAsked' = TRUE
    /\ Goto(t, "end")
    /\ UNCHANGED <<controller, parentDone, shutdownOnce, resultOnce, resultCh, clicked, exit>>

-----------------------------------------------------------------------------
(* Mutant: the failure is logged and forgotten. *)
FailureForgotten ==
    /\ pc["err"] = "select"
    /\ C!Receive("tray")
    /\ Goto("err", "end")
    /\ UNCHANGED <<parentDone, onces, quitAsked, clicked, exit>>

(* The collector ended: a failure is the verdict, a clean end is left to   *)
(* whoever asked for it (106-112).                                         *)
CollectorEnded ==
    /\ pc["err"] = "select"
    /\ C!Receive("tray")
    /\ Goto("err", IF got'["tray"] = NoError THEN "end" ELSE "finish")
    /\ UNCHANGED <<parentDone, onces, quitAsked, clicked, exit>>

ReportFailure ==
    /\ pc["err"] = "finish"
    /\ Send(got["tray"])
    /\ Goto("err", "quitTray")
    /\ UNCHANGED <<controller, parentDone, shutdownOnce, quitOnce, quitAsked, clicked, exit>>

(* Mutant: quitTray before shutdown. *)
ParentEndedQuits ==
    /\ pc["ctx"] = "select" /\ parentDone
    /\ Goto("ctx", "quitTray")
    /\ UNCHANGED <<controller, parentDone, onces, quitAsked, clicked, exit>>

(* 115 *)
ParentEnded ==
    /\ pc["ctx"] = "select" /\ parentDone
    /\ Goto("ctx", "shutdown")
    /\ UNCHANGED <<controller, parentDone, onces, quitAsked, clicked, exit>>

(* 121-126: with both ready, select picks either. *)
QuitSelect ==
    /\ pc["quit"] = "select"
    /\ \/ "quit" \in clicked /\ clicked' = clicked \ {"quit"} /\ Goto("quit", "shutdown")
       \/ ctxDone /\ Goto("quit", "end") /\ UNCHANGED clicked
    /\ UNCHANGED <<controller, parentDone, onces, quitAsked, exit>>

(* 129-153, one goroutine per page: preparing a page may take for ever,    *)
(* and its failure is only logged.                                         *)
PageSelect(p) ==
    /\ pc[p] = "select"
    /\ \/ p \in clicked /\ clicked' = clicked \ {p} /\ Goto(p, "showing")
       \/ ctxDone /\ Goto(p, "end") /\ UNCHANGED clicked
    /\ UNCHANGED <<controller, parentDone, onces, quitAsked, exit>>

PageShown(p) ==
    /\ pc[p] = "showing"
    /\ Goto(p, "select")
    /\ UNCHANGED <<controller, parentDone, onces, quitAsked, clicked, exit>>

RunnerReturns ==
    /\ \E o \in C!Outcomes : C!RunnerReturns(o)
    /\ UNCHANGED <<parentDone, pc, onces, quitAsked, clicked, exit>>

CollectorFinishing ==
    /\ C!Finishing
    /\ UNCHANGED <<parentDone, pc, onces, quitAsked, clicked, exit>>

-----------------------------------------------------------------------------
Up == exit = Pending

(* After Run the process exits, and with it every goroutine: at once, or   *)
(* some steps later.                                                       *)
Exited == ~Up /\ UNCHANGED vars

Next ==
    \/ ParentCancel \/ Propagate \/ ExternalQuit
    \/ \E i \in Pages \cup {"quit"} : Click(i)
    \/ StartCollector \/ LoopEnds \/ ReturnResult
    \/ \E t \in Shutters : Shutdown(t)
    \/ \E t \in {"err", "ctx", "quit"} : QuitTray(t)
    \/ CollectorEnded \/ ReportFailure \/ ParentEnded \/ QuitSelect
    \/ \E p \in Pages : PageSelect(p) \/ PageShown(p)
    \/ RunnerReturns \/ CollectorFinishing
    \/ Exited

(***************************************************************************)
(* Goroutines and the driver's loop run until the process exits; a         *)
(* cancelled collector returns.  Nobody has to click or cancel, and a page *)
(* may be shown for ever.                                                  *)
(***************************************************************************)
Fairness ==
    /\ WF_vars(Up /\ Propagate)
    /\ WF_vars(Up /\ (StartCollector \/ LoopEnds \/ ReturnResult))
    /\ \A t \in Shutters : WF_vars(Up /\ Shutdown(t))
    /\ \A t \in {"err", "ctx", "quit"} : WF_vars(Up /\ QuitTray(t))
    /\ WF_vars(Up /\ (CollectorEnded \/ ReportFailure))
    /\ WF_vars(Up /\ ParentEnded)
    /\ WF_vars(Up /\ QuitSelect)
    /\ WF_vars(Up /\ ctxDone /\ RunnerReturns)
    /\ WF_vars(Up /\ CollectorFinishing)

Spec == Init /\ [][Next]_vars /\ Fairness

-----------------------------------------------------------------------------
App == INSTANCE AppRun
    WITH collector <- IF run = "none" THEN "idle"
                      ELSE IF run = "running" THEN "running" ELSE "ended",
         verdict   <- IF run \in {"none", "running"} THEN Pending
                      ELSE C!Normalise(outcome)

(* However quit clicks, signals, a session that ends and a failing         *)
(* collector interleave, Run returns once, after the collector, and        *)
(* reports its failure if it had one: no race of finish's callers turns a  *)
(* failure into nil (78-93, 106-127).                                      *)
ImplementsAppRun == App!Spec

(* When the driver's thread is through with onExit the process may end:    *)
(* by then the collector has run its deferred calls, even if another       *)
(* thread is the one that executes shutdown (88-93, 154-156).              *)
OnExitWaitsForCollector ==
    pc["main"] \in {"result", "end"} => run \notin {"none", "running"}

(* The tray tells the driver to quit only once Run's result is decided, so *)
(* that Run cannot block on resultCh even if the driver skips onExit       *)
(* (78-87, 106-127, 158).                                                  *)
QuitHasAResult ==
    /\ quitOnce => resultOnce
    /\ resultOnce => resultCh # <<>> \/ ~Up
    /\ pc["main"] = "result" => resultCh # <<>>

(* The user's Quit, a signal, the session's quit and a failing collector   *)
(* each end the program, whatever else happens at the same time, and also  *)
(* while a page is being shown (106-127, 154-158).                         *)
EveryWayOutEnds ==
    ("quit" \in clicked \/ parentDone \/ quitAsked \/ outcome \in Errors) ~> ~Up
=============================================================================
