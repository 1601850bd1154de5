----------------------------- MODULE Foreground -----------------------------
(***************************************************************************)
(* internal/app/runner.go Run: collection in the foreground (--no-tray and *)
(* --qa-console).  One goroutine starts the controller, drops the channel  *)
(* Start returns and waits; SIGINT and SIGTERM cancel its context (main.go *)
(* 80).  The controller is the module Controller with that goroutine as    *)
(* its only caller.                                                        *)
(***************************************************************************)
EXTENDS Naturals, Sequences

CONSTANTS Errors, NoError, Canceled, Pending

VARIABLES ctxDone, once, done, errCh, errBuf, result, run, err, outcome,
          launches, starter, got, waiter, waited

VARIABLES pc,      \* Run: "check", "start", "wait", "returned"
          exit     \* what Run returned

C == INSTANCE Controller
    WITH Starters <- {"main"}, Listeners <- {}, Waiters <- {"main"}

controller == <<ctxDone, once, done, errCh, errBuf, result, run, err, outcome,
                launches, starter, got, waiter, waited>>
vars == <<controller, pc, exit>>

Init == C!Init /\ pc = "check" /\ exit = Pending

(* Ctrl+C, or the service manager. *)
Signal == pc # "returned" /\ C!Cancel /\ UNCHANGED <<pc, exit>>

(* A context that is already cancelled starts nothing. *)
Check ==
    /\ pc = "check"
    /\ IF ctxDone THEN pc' = "returned" /\ exit' = NoError
                  ELSE pc' = "start" /\ UNCHANGED exit
    /\ UNCHANGED controller

Start ==
    /\ pc = "start"
    /\ \/ C!EnterOnce("main") \/ C!MakeDone("main") \/ C!MakeErrCh("main")
       \/ C!Spawn("main")
    /\ pc' = IF starter'["main"] = "listening" THEN "wait" ELSE pc
    /\ UNCHANGED exit

Wait ==
    /\ pc = "wait" /\ waiter["main"] # "returned"
    /\ C!WaitStep("main")
    /\ UNCHANGED <<pc, exit>>

(* Mutant: Run does not wait. *)
ReturnAtOnce ==
    /\ pc = "wait"
    /\ pc' = "returned" /\ exit' = NoError
    /\ UNCHANGED controller

Return ==
    /\ pc = "wait" /\ waiter["main"] = "returned"
    /\ pc' = "returned" /\ exit' = waited["main"]
    /\ UNCHANGED controller

(* The collector goroutine runs until Run has returned and main exits. *)
Collector ==
    /\ pc # "returned"
    /\ C!Finishing \/ \E o \in C!Outcomes : C!RunnerReturns(o)
    /\ UNCHANGED <<pc, exit>>

Exited == pc = "returned" /\ UNCHANGED vars

Next == Signal \/ Check \/ Start \/ Wait \/ Return \/ Collector \/ Exited

(* Its goroutines are scheduled fairly where a launch is: module Program. *)
Spec == Init /\ [][Next]_vars

-----------------------------------------------------------------------------
App == INSTANCE AppRun
    WITH collector <- IF run = "none" THEN "idle"
                      ELSE IF run = "running" THEN "running" ELSE "ended",
         verdict   <- IF run \in {"none", "running"} THEN Pending
                      ELSE C!Normalise(outcome)

(* Run returns only after the collector has, with its failure or nil.      *)
ImplementsAppRun == App!Spec
=============================================================================
