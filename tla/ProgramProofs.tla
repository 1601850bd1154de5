---------------------------- MODULE ProgramProofs ----------------------------
(***************************************************************************)
(* Proofs about Program, for any set of failures, of visitors and any      *)
(* length of a command line.  The model composes parts that keep to        *)
(* themselves, and so does Inv: ForegroundInv rests on ControllerProofs,   *)
(* TrayInv is what a caller of AppRun may assume, PageInv is the page's,   *)
(* StageInv says which part may have been touched at which stage of a      *)
(* launch, ExitInv what the exit code was made from, and OptionsInv with   *)
(* WordsInv what the words of the command line have to do with it: what    *)
(* the parse makes of any number of words is proved by induction.          *)
(***************************************************************************)
EXTENDS Program, WellFoundedInduction, SequenceTheorems, TLAPS

CP == INSTANCE ControllerProofs
    WITH Starters <- {"main"}, Listeners <- {}, Waiters <- {"main"}

Values == Errors \cup {NoError}
Ended  == run \notin {"none", "running"}

(* Run of runner.go: it waits for the run it started and returns how that  *)
(* ended, or it has started nothing.                                       *)
ForegroundInv ==
    /\ pc \in {"check", "start", "wait", "returned"}
    /\ exit = Pending <=> pc # "returned"
    /\ pc \in {"check", "start"} =>
           starter["main"] \notin CP!Past /\ waiter["main"] = "idle" /\ run = "none"
    /\ pc = "wait" => starter["main"] \in CP!Past
    /\ waiter["main"] # "unstarted"
    /\ ~Ended => outcome = Pending
    /\ pc = "returned" => \/ run = "none" /\ exit = NoError
                          \/ Ended /\ exit = F!C!Normalise(outcome)

(* The tray as its caller sees it: AppRun's own invariant. *)
TrayInv ==
    /\ trayCollector \in {"idle", "running", "ended"}
    /\ trayVerdict \in Values \cup {Pending}
    /\ trayVerdict = Pending <=> trayCollector # "ended"
    /\ trayExit # Pending =>
           trayExit = IF trayCollector = "idle" THEN NoError ELSE trayVerdict
    /\ trayExit # Pending => trayCollector # "running"

(* A page's server stops early only when somebody was given the page. *)
PageInv ==
    /\ request \in [Visitors -> Page!Methods \cup
                        {"none", "refused", "page", "lost", "headers", "not allowed"}]
    /\ served \in BOOLEAN
    /\ served = TRUE => \E v \in Visitors : request[v] \in {"page", "lost"}
    /\ server \in {"draining", "closed"} => served = TRUE \/ expired = TRUE

(* What a launch has touched by each stage, and what its options say. *)
StageInv ==
    /\ stage \in {"parse", "doctor", "logger", "mode", "foreground", "executable", "prepared",
                  "dialog", "login", "accessibility", "tray", "exited"}
    /\ stage \notin {"foreground", "exited"} => pc = "check"
    /\ stage \notin {"tray", "exited"} =>
           trayCollector = "idle" /\ trayVerdict = Pending /\ trayExit = Pending
    /\ stage \notin {"prepared", "exited"} => prepared = "unknown"
    /\ stage = "prepared" => prepared \in {"stop", "error"}
    /\ stage = "parse" => report = Pending
    /\ stage = "doctor" => cmd.kind = "doctor"
    /\ stage \notin {"parse", "doctor", "exited"} => cmd.kind = "run"

(* Exit code 1 stands for exactly three things, and they exclude each      *)
(* other. *)
ExitInv ==
    /\ stage # "exited" => code = Pending
    /\ stage = "exited" =>
           (code = 1 <=> \/ cmd.kind = "invalid"
                         \/ prepared = "error"
                         \/ outcome \in Errors
                         \/ trayVerdict \in Errors)

(* A report is one of the two that Doctor makes, of what was read. *)
ReportInv ==
    report # Pending =>
        \/ \E probe \in Probes : report = Diagnostic(platform, cmd.opts.backend, probe)
        \/ read \in Reads(platform) /\ report = Runtime(platform, cmd.opts.backend, read)

(* What the options decide, wherever the launch has got to. *)
OptionsInv ==
    /\ stage \notin {"parse", "exited", "doctor", "logger", "mode"} =>
           (stage = "foreground" <=> Switched("--qa-console") \/ Switched("--no-tray"))
    /\ pc # "check" \/ trayCollector # "idle" \/ asked # {} \/ errorLog = TRUE =>
           stage # "parse" /\ cmd.kind = "run"
    /\ pc = "check" \/ trayCollector = "idle"
    /\ pc # "check" => Switched("--qa-console") \/ Switched("--no-tray")
    /\ report # Pending => stage # "parse" /\ cmd.kind \in {"doctor", "run"}
    /\ stage \notin {"parse", "exited"} => cmd.opts.backend \in Backends
    /\ trayCollector # "idle" \/ asked # {} =>
           ~Switched("--qa-console") /\ ~Switched("--no-tray")
    /\ errorLog = TRUE => ~Switched("--qa-console")
    /\ stage \in {"parse", "doctor", "logger", "mode", "executable"} => bundle = "unknown"
    /\ stage \in {"login", "accessibility"} => bundle = "installed"
    /\ bundle \in {"installed", "elsewhere"} => platform = "darwin"
    /\ asked # {} => bundle = "installed"
    /\ stage = "login" => asked = {}
    /\ "register" \in asked => loginItem \notin {"enabled", "requires_approval"}

(* The options are those of the command line. *)
WordsInv ==
    /\ args \in Seq(Tokens)
    /\ stage # "parse" => cmd = ParseCommand(args)

Inv == CP!Inv /\ ForegroundInv /\ TrayInv /\ PageInv /\ StageInv /\ ExitInv /\ ReportInv
       /\ OptionsInv /\ WordsInv
-----------------------------------------------------------------------------
(* The two names of the controller's steps stand for the same formulas.    *)
LEMMA SameController ==
    /\ F!C!Init => CP!Init
    /\ [F!C!Next]_(F!C!vars) => [CP!Next]_(CP!vars)
<1>1. F!C!Init => CP!Init
  BY DEF F!C!Init, CP!Init
<1> USE DEF F!C!chans, CP!chans, F!C!runVars, CP!runVars, F!C!callers, CP!callers,
        F!C!vars, CP!vars
<1>2. ASSUME NEW s \in {"main"}, F!C!StartStep(s) PROVE CP!StartStep(s)
  BY <1>2 DEF F!C!StartStep, CP!StartStep, F!C!EnterOnce, CP!EnterOnce, F!C!MakeDone,
     CP!MakeDone, F!C!MakeErrCh, CP!MakeErrCh, F!C!Spawn, CP!Spawn, F!C!PassOnce,
     CP!PassOnce, F!C!Receive, CP!Receive, F!C!ReceiveValue, CP!ReceiveValue,
     F!C!ReceiveClosed, CP!ReceiveClosed
<1>3. ASSUME NEW o \in F!C!Outcomes, F!C!RunnerReturns(o)
      PROVE  o \in CP!Outcomes /\ CP!RunnerReturns(o)
  BY <1>3 DEF F!C!RunnerReturns, CP!RunnerReturns, F!C!Outcomes, CP!Outcomes,
     F!C!Values, CP!Values, F!C!Normalise, CP!Normalise
<1>4. F!C!Finishing => CP!Finishing
  BY DEF F!C!Finishing, CP!Finishing, F!C!StoreResult, CP!StoreResult, F!C!PublishErr,
     CP!PublishErr, F!C!ErrChCapacity, CP!ErrChCapacity, F!C!CloseErrCh, CP!CloseErrCh,
     F!C!CloseDone, CP!CloseDone
<1>5. ASSUME NEW w \in {"main"}, F!C!WaitStep(w) PROVE CP!WaitStep(w)
  BY <1>5 DEF F!C!WaitStep, CP!WaitStep, F!C!WaitUnstarted, CP!WaitUnstarted,
     F!C!WaitBlock, CP!WaitBlock, F!C!WaitWake, CP!WaitWake, F!C!WaitReturn,
     CP!WaitReturn
<1>6. (F!C!Cancel => CP!Cancel) /\ (F!C!Terminated => CP!Terminated)
  BY DEF F!C!Cancel, CP!Cancel, F!C!Terminated, CP!Terminated
<1>7. [F!C!Next]_(F!C!vars) => [CP!Next]_(CP!vars)
  BY <1>2, <1>3, <1>4, <1>5, <1>6 DEF F!C!Next, CP!Next
<1> QED
  BY <1>1, <1>7

(* Every step of the program is a step of its foreground run or leaves it  *)
(* alone; that one's is a step of the controller or leaves it alone.       *)
LEMMA StepsOfForeground ==
    /\ [Next]_vars => [F!Next]_(F!vars)
    /\ [F!Next]_(F!vars) => [F!C!Next]_(F!C!vars)
<1>1. ASSUME [Next]_vars PROVE [F!Next]_(F!vars)
  <2>1. CASE Signal \/ RunForeground \/ RunCollector
    BY <2>1 DEF Signal, RunForeground, RunCollector, F!Next
  <2>2. ASSUME \/ Parse \/ RunDoctor \/ ConfigureLogger \/ SelectRunMode \/ ReturnFromRun
               \/ PrepareLaunch \/ ShowDialog \/ ConfigureLoginItem
               \/ PromptForAccessibility \/ RunTray \/ CollectStatusReport
               \/ ShowStatus \/ RunPage \/ Exited \/ UNCHANGED vars
        PROVE  UNCHANGED foreground
    BY <2>2 DEF Parse, RunDoctor, ConfigureLogger, SelectRunMode, ReturnFromRun,
       PrepareLaunch, ShowDialog, ConfigureLoginItem, PromptForAccessibility, RunTray,
       CollectStatusReport, ShowStatus, RunPage, Exited, vars
  <2>3. UNCHANGED foreground => UNCHANGED F!vars
    BY DEF foreground, F!vars, F!controller
  <2> QED
    BY <1>1, <2>1, <2>2, <2>3 DEF Next
<1>2. ASSUME [F!Next]_(F!vars) PROVE [F!C!Next]_(F!C!vars)
  <2> USE DEF F!controller, F!C!vars
  <2>1. CASE F!Signal \/ F!Start \/ F!Wait \/ F!Collector
    BY <2>1 DEF F!Signal, F!Start, F!Wait, F!Collector, F!C!Next, F!C!StartStep
  <2>2. CASE F!Check \/ F!Return \/ F!Exited \/ UNCHANGED F!vars
    BY <2>2 DEF F!Check, F!Return, F!Exited, F!vars
  <2> QED
    BY <1>2, <2>1, <2>2 DEF F!Next
<1> QED
  BY <1>1, <1>2

(* What the controller's invariant says in the words of this module.       *)
LEMMA ControllerFacts ==
    ASSUME CP!Inv
    PROVE  /\ Ended => F!C!Normalise(outcome) \in Values
           /\ Ended => (F!C!Normalise(outcome) \in Errors <=> outcome \in Errors)
           /\ starter["main"] \in CP!Past => done # "nil" /\ run # "none"
           /\ waiter["main"] = "returned" => Ended /\ waited["main"] = F!C!Normalise(outcome)
           /\ waiter["main"] \in {"idle", "blocked", "woken", "returned", "unstarted"}
           /\ waiter \in [{"main"} -> {"idle", "blocked", "woken", "returned", "unstarted"}]
           /\ starter \in [{"main"} -> {"idle", "makeDone", "makeErrCh", "spawn",
                                        "listening", "received"}]
<1> USE DEF CP!Inv, CP!TypeOK, CP!Outcomes, CP!Values, Values, CP!Normalise, F!C!Normalise,
        Ended
<1>1. Ended => outcome \in CP!Outcomes
  BY DEF CP!RunInv
<1>2. Ended => F!C!Normalise(outcome) \in Values
  BY <1>1
<1>3. Ended => (F!C!Normalise(outcome) \in Errors <=> outcome \in Errors)
  BY <1>1, ErrorsAssumption
<1>4. starter["main"] \in CP!Past => done # "nil" /\ run # "none"
  BY DEF CP!OnceInv, CP!Past
<1>5. waiter["main"] = "returned" => Ended /\ waited["main"] = F!C!Normalise(outcome)
  BY DEF CP!WaitInv, CP!RunInv
<1> QED
  BY <1>2, <1>3, <1>4, <1>5

(* Run waits for what it has started, and its one call of Wait finds it.   *)
LEMMA ForegroundStep ==
    ASSUME CP!Inv, ForegroundInv, [F!Next]_(F!vars)
    PROVE  CP!Inv' /\ ForegroundInv'
<1> USE DEF ForegroundInv
<1>1. CP!Inv'
  BY StepsOfForeground, SameController, CP!NextInv, ErrorsAssumption
<1> SUFFICES ForegroundInv'
  BY <1>1
<1>2. CASE F!Signal
  BY <1>2 DEF F!Signal, F!C!Cancel, F!C!runVars, F!C!callers, Ended
<1>3. CASE F!Check
  BY <1>3, ErrorsAssumption DEF F!Check, F!controller, Ended
<1>4. CASE F!Start
  <2>1. UNCHANGED <<waiter, outcome, exit>>
    BY <1>4 DEF F!Start, F!C!EnterOnce, F!C!MakeDone, F!C!MakeErrCh, F!C!Spawn,
       F!C!runVars, F!C!callers
  <2>2. CASE F!C!Spawn("main")
    <3>1. starter'["main"] = "listening" /\ run' = "running"
      BY <2>2, ControllerFacts DEF F!C!Spawn
    <3>2. pc = "start" /\ pc' = "wait"
      BY <1>4, <3>1 DEF F!Start
    <3> QED
      BY <2>1, <3>1, <3>2 DEF Ended, CP!Past
  <2>3. CASE F!C!EnterOnce("main") \/ F!C!MakeDone("main") \/ F!C!MakeErrCh("main")
    <3>1. starter'["main"] \in {"makeDone", "makeErrCh", "spawn"} /\ run' = run
      BY <2>3, ControllerFacts DEF F!C!EnterOnce, F!C!MakeDone, F!C!MakeErrCh, F!C!runVars
    <3>2. pc = "start" /\ pc' = "start"
      BY <1>4, <3>1 DEF F!Start
    <3> QED
      BY <2>1, <3>1, <3>2 DEF Ended, CP!Past
  <2> QED
    BY <1>4, <2>2, <2>3 DEF F!Start
<1>5. CASE F!Wait
  <2>1. done # "nil"
    BY <1>5, ControllerFacts DEF F!Wait
  <2>2. waiter'["main"] # "unstarted"
    BY <1>5, <2>1, ControllerFacts DEF F!Wait, F!C!WaitStep, F!C!WaitUnstarted,
       F!C!WaitBlock, F!C!WaitWake, F!C!WaitReturn
  <2>3. UNCHANGED <<run, outcome, starter>>
    BY <1>5 DEF F!Wait, F!C!WaitStep, F!C!WaitUnstarted, F!C!WaitBlock, F!C!WaitWake,
       F!C!WaitReturn, F!C!runVars
  <2> QED
    BY <1>5, <2>2, <2>3 DEF F!Wait, Ended
<1>6. CASE F!Return
  <2>1. Ended /\ exit' = F!C!Normalise(outcome)
    BY <1>6, ControllerFacts DEF F!Return
  <2>2. exit' # Pending
    BY <2>1, ControllerFacts, ErrorsAssumption DEF Values
  <2> QED
    BY <1>6, <2>1, <2>2 DEF F!Return, F!controller, Ended
<1>7. CASE F!Collector
  <2>1. pc \in {"check", "start", "wait"} /\ UNCHANGED <<pc, exit>>
    BY <1>7 DEF F!Collector
  <2>2. run # "none" /\ UNCHANGED <<starter, waiter>> /\ Ended'
    BY <1>7 DEF F!Collector, F!C!Finishing, F!C!StoreResult, F!C!PublishErr, F!C!CloseErrCh,
       F!C!CloseDone, F!C!RunnerReturns, F!C!callers, Ended
  <2> QED
    BY <2>1, <2>2
<1>8. CASE F!Exited \/ UNCHANGED F!vars
  BY <1>8 DEF F!Exited, F!vars, F!controller, Ended
<1> QED
  BY <1>2, <1>3, <1>4, <1>5, <1>6, <1>7, <1>8 DEF F!Next

(* The run as main sees it: a step starts the run, ends it, returns its    *)
(* outcome or nothing, or changes none of what AppRun is about.            *)
LEMMA VisibleSteps ==
    ASSUME CP!Inv, ForegroundInv, [F!Next]_(F!vars)
    PROVE  \/ run = "none" /\ run' = "running" /\ exit = Pending /\ exit' = exit
           \/ /\ run = "running" /\ Ended' /\ outcome' \in F!C!Outcomes
              /\ exit = Pending /\ exit' = exit
           \/ Ended /\ UNCHANGED <<run, outcome>> /\ exit = Pending
              /\ exit' = F!C!Normalise(outcome)
           \/ run = "none" /\ run' = run /\ exit = Pending /\ exit' = NoError
           \/ Ended /\ Ended' /\ UNCHANGED <<outcome, exit>>
           \/ UNCHANGED <<run, outcome, exit>>
<1> USE DEF ForegroundInv, Ended
<1>1. CASE F!Signal
  BY <1>1 DEF F!Signal, F!C!Cancel, F!C!runVars
<1>2. CASE F!Check
  BY <1>2 DEF F!Check, F!controller
<1>3. CASE F!Start
  <2>1. run = "none" /\ exit = Pending /\ exit' = exit
    BY <1>3 DEF F!Start
  <2> QED
    BY <1>3, <2>1 DEF F!Start, F!C!EnterOnce, F!C!MakeDone, F!C!MakeErrCh, F!C!Spawn,
       F!C!runVars
<1>4. CASE F!Wait
  BY <1>4 DEF F!Wait, F!C!WaitStep, F!C!WaitUnstarted, F!C!WaitBlock, F!C!WaitWake,
     F!C!WaitReturn, F!C!runVars
<1>5. CASE F!Return
  <2>1. Ended /\ exit' = F!C!Normalise(outcome)
    BY <1>5, ControllerFacts DEF F!Return
  <2> QED
    BY <1>5, <2>1 DEF F!Return, F!controller
<1>6. CASE F!Collector
  <2>1. exit = Pending /\ exit' = exit
    BY <1>6 DEF F!Collector
  <2> QED
    BY <1>6, <2>1 DEF F!Collector, F!C!Finishing, F!C!StoreResult, F!C!PublishErr,
       F!C!CloseErrCh, F!C!CloseDone, F!C!RunnerReturns
<1>7. CASE F!Exited \/ UNCHANGED F!vars
  BY <1>7 DEF F!Exited, F!vars, F!controller
<1> QED
  BY <1>1, <1>2, <1>3, <1>4, <1>5, <1>6, <1>7 DEF F!Next

(* A tray that keeps to AppRun tells its caller how its collector ended.    *)
LEMMA TrayInvStep ==
    ASSUME TrayInv, [Next]_vars
    PROVE  TrayInv'
<1> USE DEF TrayInv
<1>1. CASE Parse
  BY <1>1 DEF Parse, trayRun
<1>2. CASE RunDoctor
  BY <1>2 DEF RunDoctor, trayRun
<1>3. CASE ConfigureLogger
  BY <1>3 DEF ConfigureLogger, trayRun
<1>4. CASE Signal
  BY <1>4 DEF Signal, trayRun
<1>5. CASE SelectRunMode
  BY <1>5 DEF SelectRunMode, trayRun
<1>6. CASE RunForeground
  BY <1>6 DEF RunForeground, trayRun
<1>7. CASE RunCollector
  BY <1>7 DEF RunCollector, trayRun
<1>8. CASE ReturnFromRun
  BY <1>8 DEF ReturnFromRun, trayRun
<1>9. CASE PrepareLaunch
  BY <1>9 DEF PrepareLaunch, trayRun
<1>10. CASE ShowDialog
  BY <1>10 DEF ShowDialog, trayRun
<1>11. CASE ConfigureLoginItem
  BY <1>11 DEF ConfigureLoginItem, trayRun
<1>12. CASE PromptForAccessibility
  BY <1>12 DEF PromptForAccessibility, trayRun
<1>13. CASE RunTray
  BY <1>13, ErrorsAssumption DEF RunTray, T!Next, T!Collect, T!End, T!Exit, T!ExitIdle, Values
<1>14. CASE CollectStatusReport
  BY <1>14 DEF CollectStatusReport, trayRun
<1>15. CASE ShowStatus
  BY <1>15 DEF ShowStatus, trayRun
<1>16. CASE RunPage
  BY <1>16 DEF RunPage, trayRun
<1>17. CASE Exited \/ UNCHANGED vars
  BY <1>17 DEF Exited, vars, trayRun
<1> QED
  BY <1>1, <1>2, <1>3, <1>4, <1>5, <1>6, <1>7, <1>8, <1>9, <1>10, <1>11, <1>12,
     <1>13, <1>14, <1>15, <1>16, <1>17
  DEF Next

(* Only a GET uses a page up, and only a page that is used up or has had   *)
(* its minute is closed.                                                   *)
LEMMA PageInvStep ==
    ASSUME PageInv, [Next]_vars
    PROVE  PageInv'
<1> USE DEF PageInv, Page!Methods
<1>1. CASE Parse
  BY <1>1 DEF Parse, page
<1>2. CASE RunDoctor
  BY <1>2 DEF RunDoctor, page
<1>3. CASE ConfigureLogger
  BY <1>3 DEF ConfigureLogger, page
<1>4. CASE Signal
  BY <1>4 DEF Signal, page
<1>5. CASE SelectRunMode
  BY <1>5 DEF SelectRunMode, page
<1>6. CASE RunForeground
  BY <1>6 DEF RunForeground, page
<1>7. CASE RunCollector
  BY <1>7 DEF RunCollector, page
<1>8. CASE ReturnFromRun
  BY <1>8 DEF ReturnFromRun, page
<1>9. CASE PrepareLaunch
  BY <1>9 DEF PrepareLaunch, page
<1>10. CASE ShowDialog
  BY <1>10 DEF ShowDialog, page
<1>11. CASE ConfigureLoginItem
  BY <1>11 DEF ConfigureLoginItem, page
<1>12. CASE PromptForAccessibility
  BY <1>12 DEF PromptForAccessibility, page
<1>13. CASE RunTray
  BY <1>13 DEF RunTray, page
<1>14. CASE CollectStatusReport
  BY <1>14 DEF CollectStatusReport, page
<1>15. CASE ShowStatus
  BY <1>15 DEF ShowStatus, page, Page!Serve
<1>16. CASE RunPage
  <2>1. ASSUME NEW v \in Visitors, Page!Visit(v) PROVE PageInv'
    BY <2>1 DEF Page!Visit
  <2>2. ASSUME NEW v \in Visitors, Page!Answer(v) PROVE PageInv'
    <3>1. PICK a : /\ request' = [request EXCEPT ![v] = a]
                   /\ a \in {"page", "lost", "headers", "not allowed"}
                   /\ request[v] = "GET" => a \in {"page", "lost"}
      BY <2>2 DEF Page!Answer
    <3>2. request[v] \in Page!Methods /\ UNCHANGED <<server, expired>>
      BY <2>2 DEF Page!Answer
    <3>3. served' = (served \/ request[v] = "GET")
      BY <2>2 DEF Page!Answer, Page!Uses
    <3>4. served' \in BOOLEAN /\ (served = TRUE => served' = TRUE)
      BY <3>3
    <3>5. served' = TRUE => served = TRUE \/ request[v] = "GET"
      BY <3>3
    <3>6. \A u \in Visitors : request[u] \in {"page", "lost"} =>
                                  request'[u] \in {"page", "lost"}
      BY <3>1, <3>2
    <3>7. request[v] = "GET" => request'[v] \in {"page", "lost"}
      BY <3>1
    <3> QED
      BY <3>1, <3>2, <3>4, <3>5, <3>6, <3>7
  <2>3. CASE Page!Expire \/ Page!Shutdown \/ Page!ShutdownEnds
    BY <2>3 DEF Page!Expire, Page!Shutdown, Page!ShutdownEnds
  <2> QED
    BY <1>16, <2>1, <2>2, <2>3 DEF RunPage, Page!Next
<1>17. CASE Exited \/ UNCHANGED vars
  BY <1>17 DEF Exited, vars, page
<1> QED
  BY <1>1, <1>2, <1>3, <1>4, <1>5, <1>6, <1>7, <1>8, <1>9, <1>10, <1>11, <1>12,
     <1>13, <1>14, <1>15, <1>16, <1>17
  DEF Next

(* A launch goes through its stages; each touches its own part.            *)
LEMMA StageStep ==
    ASSUME StageInv, [Next]_vars
    PROVE  StageInv'
<1> USE DEF StageInv
<1>1. CASE Parse
  BY <1>1 DEF Parse, Goto, Exit, foreground, trayRun, launch, shown
<1>2. CASE RunDoctor
  BY <1>2 DEF RunDoctor, Goto, Exit, foreground, trayRun, launch, shown
<1>3. CASE ConfigureLogger
  BY <1>3 DEF ConfigureLogger, Goto, Exit, foreground, trayRun, launch, shown
<1>4. CASE Signal
  BY <1>4 DEF Signal, trayRun, launch, shown, F!Signal
<1>5. CASE SelectRunMode
  BY <1>5 DEF SelectRunMode, Goto, Exit, foreground, trayRun, launch, shown
<1>6. CASE RunForeground
  BY <1>6 DEF RunForeground, trayRun, launch, shown
<1>7. CASE RunCollector
  BY <1>7 DEF RunCollector, trayRun, launch, shown
<1>8. CASE ReturnFromRun
  BY <1>8 DEF ReturnFromRun, Goto, Exit, foreground, trayRun, launch, shown
<1>9. CASE PrepareLaunch
  BY <1>9 DEF PrepareLaunch, Goto, Exit, foreground, trayRun, launch, shown
<1>10. CASE ShowDialog
  BY <1>10 DEF ShowDialog, Goto, Exit, foreground, trayRun, launch, shown
<1>11. CASE ConfigureLoginItem
  BY <1>11 DEF ConfigureLoginItem, Goto, Exit, foreground, trayRun, launch, shown
<1>12. CASE PromptForAccessibility
  BY <1>12 DEF PromptForAccessibility, Goto, Exit, foreground, trayRun, launch, shown
<1>13. CASE RunTray
  BY <1>13 DEF RunTray, foreground, trayRun, launch, shown
<1>14. CASE CollectStatusReport
  BY <1>14 DEF CollectStatusReport, foreground, trayRun, launch, shown
<1>15. CASE ShowStatus
  BY <1>15 DEF ShowStatus, foreground, trayRun, launch, shown
<1>16. CASE RunPage
  BY <1>16 DEF RunPage, foreground, trayRun, launch, shown
<1>17. CASE Exited \/ UNCHANGED vars
  BY <1>17 DEF Exited, vars, foreground, trayRun, launch, shown
<1> QED
  BY <1>1, <1>2, <1>3, <1>4, <1>5, <1>6, <1>7, <1>8, <1>9, <1>10, <1>11, <1>12,
     <1>13, <1>14, <1>15, <1>16, <1>17
  DEF Next

(* The exit code is decided once, from the part that was run.              *)
LEMMA ExitStep ==
    ASSUME CP!Inv, ForegroundInv, TrayInv, StageInv, ExitInv, [Next]_vars
    PROVE  ExitInv'
<1> USE DEF ExitInv
<1>a. /\ pc = "check" => outcome \notin Errors
      /\ trayVerdict = Pending => trayVerdict \notin Errors
  BY ErrorsAssumption DEF ForegroundInv, Ended
<1>1. CASE Parse
  <2>1. cmd'.kind = "invalid" <=> (stage' = "exited" /\ code' = 1)
    BY <1>1 DEF Parse, Goto, Exit
  <2>2. stage' # "exited" => code' = code
    BY <1>1 DEF Parse, Goto, Exit
  <2>3. /\ prepared' = "unknown" /\ outcome' \notin Errors /\ trayVerdict' \notin Errors
    BY <1>1, <1>a DEF Parse, StageInv, foreground, launch, trayRun
  <2>4. code = Pending
    BY <1>1 DEF Parse
  <2> QED
    BY <2>1, <2>2, <2>3, <2>4
<1>2. CASE RunDoctor
  <2>1. stage' = "exited" /\ code' = 0 /\ cmd'.kind = "doctor"
    BY <1>2 DEF RunDoctor, Exit, StageInv
  <2>2. /\ prepared' = "unknown" /\ outcome' \notin Errors /\ trayVerdict' \notin Errors
    BY <1>2, <1>a DEF RunDoctor, StageInv, foreground, launch, trayRun
  <2> QED
    BY <2>1, <2>2
<1>3. CASE ConfigureLogger
  BY <1>3 DEF ConfigureLogger, Goto, Exit, foreground, launch, trayRun
<1>4. CASE Signal
  <2>1. stage' # "exited" /\ code' = code
    BY <1>4 DEF Signal
  <2> QED
    BY <1>4, <2>1 DEF Signal
<1>5. CASE SelectRunMode
  BY <1>5 DEF SelectRunMode, Goto, Exit, foreground, launch, trayRun
<1>6. CASE RunForeground
  <2>1. stage' # "exited" /\ code' = code
    BY <1>6 DEF RunForeground
  <2> QED
    BY <1>6, <2>1 DEF RunForeground
<1>7. CASE RunCollector
  <2>1. stage' # "exited" /\ code' = code
    BY <1>7 DEF RunCollector
  <2> QED
    BY <1>7, <2>1 DEF RunCollector
<1>8. CASE ReturnFromRun
  <2>1. /\ stage' = "exited" /\ cmd'.kind = "run"
        /\ UNCHANGED <<prepared, outcome, trayVerdict>>
    BY <1>8 DEF ReturnFromRun, Exit, StageInv, foreground, launch, trayRun
  <2>2. CASE stage = "foreground"
    <3>1. code' = ExitCode(exit) /\ pc = "returned"
      BY <1>8, <2>2 DEF ReturnFromRun, Exit
    <3>2. exit \in Errors <=> outcome \in Errors
      BY <3>1, ControllerFacts, ErrorsAssumption DEF ForegroundInv, Ended
    <3>3. prepared = "unknown" /\ trayVerdict \notin Errors
      BY <2>2, ErrorsAssumption DEF StageInv
    <3> QED
      BY <2>1, <3>1, <3>2, <3>3 DEF ExitCode
  <2>3. CASE stage = "prepared"
    <3>1. code' = IF prepared = "error" THEN 1 ELSE 0
      BY <1>8, <2>3 DEF ReturnFromRun, Exit
    <3>2. outcome \notin Errors /\ trayVerdict \notin Errors
      BY <2>3, <1>a DEF StageInv
    <3> QED
      BY <2>1, <3>1, <3>2
  <2>4. CASE stage = "tray"
    <3>1. code' = ExitCode(trayExit) /\ trayExit # Pending
      BY <1>8, <2>4 DEF ReturnFromRun, Exit
    <3>2. trayExit \in Errors <=> trayVerdict \in Errors
      BY <3>1, ErrorsAssumption DEF TrayInv
    <3>3. prepared = "unknown" /\ outcome \notin Errors
      BY <2>4, <1>a DEF StageInv
    <3> QED
      BY <2>1, <3>1, <3>2, <3>3 DEF ExitCode
  <2> QED
    BY <1>8, <2>2, <2>3, <2>4 DEF ReturnFromRun
<1>9. CASE PrepareLaunch
  BY <1>9 DEF PrepareLaunch, Goto, Exit, foreground, launch, trayRun
<1>10. CASE ShowDialog
  BY <1>10 DEF ShowDialog, Goto, Exit, foreground, launch, trayRun
<1>11. CASE ConfigureLoginItem
  BY <1>11 DEF ConfigureLoginItem, Goto, Exit, foreground, launch, trayRun
<1>12. CASE PromptForAccessibility
  BY <1>12 DEF PromptForAccessibility, Goto, Exit, foreground, launch, trayRun
<1>13. CASE RunTray
  <2>1. stage' # "exited" /\ code' = code
    BY <1>13 DEF RunTray
  <2> QED
    BY <1>13, <2>1 DEF RunTray
<1>14. CASE CollectStatusReport
  BY <1>14 DEF CollectStatusReport, foreground, launch, trayRun
<1>15. CASE ShowStatus
  BY <1>15 DEF ShowStatus, foreground, launch, trayRun
<1>16. CASE RunPage
  BY <1>16 DEF RunPage, foreground, launch, trayRun
<1>17. CASE Exited \/ UNCHANGED vars
  BY <1>17 DEF Exited, vars, foreground, trayRun, launch
<1> QED
  BY <1>1, <1>2, <1>3, <1>4, <1>5, <1>6, <1>7, <1>8, <1>9, <1>10, <1>11, <1>12,
     <1>13, <1>14, <1>15, <1>16, <1>17
  DEF Next

(* A report goes with what it was made from.                               *)
LEMMA ReportStep ==
    ASSUME StageInv, ReportInv, [Next]_vars
    PROVE  ReportInv'
<1> USE DEF ReportInv
<1>1. CASE Parse
  BY <1>1 DEF Parse, Goto, Exit, shown, StageInv
<1>2. CASE RunDoctor
  BY <1>2 DEF RunDoctor, Goto, Exit, shown
<1>3. CASE ConfigureLogger
  BY <1>3 DEF ConfigureLogger, Goto, Exit, shown
<1>4. CASE Signal
  BY <1>4 DEF Signal, shown
<1>5. CASE SelectRunMode
  BY <1>5 DEF SelectRunMode, Goto, Exit, shown
<1>6. CASE RunForeground
  BY <1>6 DEF RunForeground, shown
<1>7. CASE RunCollector
  BY <1>7 DEF RunCollector, shown
<1>8. CASE ReturnFromRun
  BY <1>8 DEF ReturnFromRun, Goto, Exit, shown
<1>9. CASE PrepareLaunch
  BY <1>9 DEF PrepareLaunch, Goto, Exit, shown
<1>10. CASE ShowDialog
  BY <1>10 DEF ShowDialog, Goto, Exit, shown
<1>11. CASE ConfigureLoginItem
  BY <1>11 DEF ConfigureLoginItem, Goto, Exit, shown
<1>12. CASE PromptForAccessibility
  BY <1>12 DEF PromptForAccessibility, Goto, Exit, shown
<1>13. CASE RunTray
  BY <1>13 DEF RunTray, shown
<1>14. CASE CollectStatusReport
  BY <1>14 DEF CollectStatusReport, shown
<1>15. CASE ShowStatus
  BY <1>15 DEF ShowStatus, shown
<1>16. CASE RunPage
  BY <1>16 DEF RunPage, shown
<1>17. CASE Exited \/ UNCHANGED vars
  BY <1>17 DEF Exited, vars, shown
<1> QED
  BY <1>1, <1>2, <1>3, <1>4, <1>5, <1>6, <1>7, <1>8, <1>9, <1>10, <1>11, <1>12,
     <1>13, <1>14, <1>15, <1>16, <1>17
  DEF Next

(* What parseCommand lets through names a backend.                         *)
LEMMA ParsedIsValid ==
    ASSUME ParseCommand(args).kind \in {"doctor", "run"}
    PROVE  ParseCommand(args).opts.backend \in Backends
  BY DEF ParseCommand, Valid

(* What a launch does, its options ask for.                                *)
LEMMA OptionsStep ==
    ASSUME StageInv, OptionsInv, [Next]_vars
    PROVE  OptionsInv'
<1> USE DEF OptionsInv, StageInv
<1>1. CASE Parse
  <2>1. stage' \notin {"parse", "exited"} => cmd'.opts.backend \in Backends
    BY <1>1, ParsedIsValid DEF Parse, Goto, Exit
  <2>2. /\ pc' = "check" /\ trayCollector' = "idle" /\ asked' = {} /\ errorLog' = FALSE
        /\ bundle' = "unknown" /\ report' = Pending
    BY <1>1 DEF Parse, StageInv, foreground, launch, trayRun, shown
  <2>3. stage' \in {"exited", "doctor", "logger"}
    BY <1>1 DEF Parse, Goto, Exit
  <2> QED
    BY <2>1, <2>2, <2>3
<1>2. CASE RunDoctor
  BY <1>2 DEF RunDoctor, Goto, Exit, foreground, launch, trayRun, shown, Switched
<1>3. CASE ConfigureLogger
  BY <1>3 DEF ConfigureLogger, Goto, Exit, foreground, launch, trayRun, shown, Switched
<1>4. CASE Signal
  BY <1>4 DEF Signal, foreground, launch, trayRun, shown, Switched, F!Signal
<1>5. CASE SelectRunMode
  BY <1>5 DEF SelectRunMode, Goto, Exit, foreground, launch, trayRun, shown, Switched
<1>6. CASE RunForeground
  BY <1>6 DEF RunForeground, foreground, launch, trayRun, shown, Switched
<1>7. CASE RunCollector
  BY <1>7 DEF RunCollector, foreground, launch, trayRun, shown, Switched
<1>8. CASE ReturnFromRun
  BY <1>8 DEF ReturnFromRun, Goto, Exit, foreground, launch, trayRun, shown, Switched
<1>9. CASE PrepareLaunch
  BY <1>9 DEF PrepareLaunch, Goto, Exit, foreground, launch, trayRun, shown, Switched
<1>10. CASE ShowDialog
  BY <1>10 DEF ShowDialog, Goto, Exit, foreground, launch, trayRun, shown, Switched
<1>11. CASE ConfigureLoginItem
  BY <1>11 DEF ConfigureLoginItem, Goto, Exit, foreground, launch, trayRun, shown, Switched
<1>12. CASE PromptForAccessibility
  BY <1>12 DEF PromptForAccessibility, Goto, Exit, foreground, launch, trayRun, shown, Switched
<1>13. CASE RunTray
  BY <1>13 DEF RunTray, foreground, launch, trayRun, shown, Switched
<1>14. CASE CollectStatusReport
  BY <1>14 DEF CollectStatusReport, foreground, launch, trayRun, shown, Switched
<1>15. CASE ShowStatus
  BY <1>15 DEF ShowStatus, foreground, launch, trayRun, shown, Switched
<1>16. CASE RunPage
  BY <1>16 DEF RunPage, foreground, launch, trayRun, shown, Switched
<1>17. CASE Exited \/ UNCHANGED vars
  BY <1>17 DEF Exited, vars, foreground, launch, trayRun, shown, Switched
<1> QED
  BY <1>1, <1>2, <1>3, <1>4, <1>5, <1>6, <1>7, <1>8, <1>9, <1>10, <1>11, <1>12,
     <1>13, <1>14, <1>15, <1>16, <1>17
  DEF Next

-----------------------------------------------------------------------------
(* Induction over 0..N: a set of numbers that holds 0, and with each number *)
(* the next, holds all of them.                                            *)
LEMMA Induction ==
    ASSUME NEW N \in Nat, NEW A, 0 \in A, \A n \in 0..(N - 1) : n \in A => n + 1 \in A
    PROVE  0..N \subseteq A
<1> DEFINE Missing == {n \in Nat : n <= N /\ n \notin A}
<1>1. CASE Missing = {}
  BY <1>1
<1>2. CASE Missing # {}
  <2>1. PICK m \in Missing : \A k \in Missing : ~(<<k, m>> \in OpToRel(<, Nat))
    <3>1. Missing \subseteq Nat
      OBVIOUS
    <3>2. IsWellFoundedOn(OpToRel(<, Nat), Nat)
      BY NatLessThanWellFounded
    <3> HIDE DEF Missing
    <3> QED
      BY <1>2, <3>1, <3>2, WFMin
  <2>2. \A k \in Missing : ~(k < m)
    <3>1. Missing \subseteq Nat /\ m \in Nat
      OBVIOUS
    <3> HIDE DEF Missing
    <3>2. \A k \in Missing : <<k, m>> \in Nat \X Nat
      BY <3>1
    <3> QED
      BY <2>1, <3>2, Zenon DEF OpToRel
  <2>3. m \in Nat /\ m # 0 /\ m <= N /\ m \notin A
    BY <2>1
  <2>4. m - 1 \in A
    BY <2>2, <2>3
  <2>5. (m - 1) + 1 \in A
    BY <2>3, <2>4
  <2> QED
    BY <2>3, <2>5
<1> QED
  BY <1>1, <1>2

(* The fold of ParseOptions is well defined: the options after no word are *)
(* the defaults, and after each word what Read makes of those before it.   *)
LEMMA ParseRuns ==
    ASSUME NEW words \in Seq(Tokens)
    PROVE  \E g : /\ g = [n \in 0..Len(words) |->
                             IF n = 0 THEN DefaultOptions ELSE Read(g[n - 1], words[n])]
                  /\ ParseOptions(words) = g[Len(words)]
<1> DEFINE Is(g, m) == g = [n \in 0..m |->
                              IF n = 0 THEN DefaultOptions ELSE Read(g[n - 1], words[n])]
           S == {m \in Nat : \E g : Is(g, m)}
<1>1. 0 \in S
  <2>1. Is([n \in 0..0 |-> DefaultOptions], 0)
    OBVIOUS
  <2> QED
    BY <2>1
<1>2. ASSUME NEW m \in 0..(Len(words) - 1), m \in S PROVE m + 1 \in S
  <2>1. PICK g : Is(g, m)
    BY <1>2
  <2> DEFINE h == [n \in 0..(m + 1) |-> IF n = m + 1 THEN Read(g[m], words[m + 1]) ELSE g[n]]
  <2>2. \A n \in 0..m : g[n] = IF n = 0 THEN DefaultOptions ELSE Read(g[n - 1], words[n])
    BY <2>1
  <2>3. \A n \in 0..(m + 1) : h[n] = IF n = 0 THEN DefaultOptions ELSE Read(h[n - 1], words[n])
    BY <2>2
  <2>4. Is(h, m + 1)
    <3> HIDE DEF h
    <3>1. h = [n \in 0..(m + 1) |-> h[n]]
      BY DEF h
    <3> QED
      BY <2>3, <3>1
  <2>5. m + 1 \in Nat
    OBVIOUS
  <2> HIDE DEF Is, h
  <2> QED
    BY <2>4, <2>5
<1>3. Len(words) \in S
  <2>1. Len(words) \in Nat
    OBVIOUS
  <2> HIDE DEF S
  <2>2. 0..Len(words) \subseteq S
    BY <1>1, <1>2, <2>1, Induction
  <2> QED
    BY <2>1, <2>2
<1>4. PICK g : Is(g, Len(words))
  BY <1>3
<1> DEFINE chosen == CHOOSE f : Is(f, Len(words))
<1>5. Is(chosen, Len(words))
  <2> HIDE DEF Is
  <2> QED
    BY <1>4
<1>6. ParseOptions(words) = chosen[Len(words)]
  BY DEF ParseOptions
<1> QED
  BY <1>5, <1>6

(* Flags and values alternate: what follows a flag that takes a value is    *)
(* one, and nothing else is.                                               *)
LEMMA Alternate ==
    ASSUME NEW words \in Seq(Tokens), NEW n \in Nat \ {0}
    PROVE  /\ IsFlag(words, 1)
           /\ IsFlag(words, n + 1) <=> ~(IsFlag(words, n) /\ words[n] \in Valued)
<1> DEFINE Starts(s, m) == /\ s \in 1..m
                           /\ s = 1 \/ words[s - 1] \notin Valued
                           /\ \A k \in s..(m - 1) : words[k] \in Valued
           S == {m \in Nat : \E s \in 1..(m + 1) : Starts(s, m + 1)}
<1>1. 0 \in S
  <2>1. Starts(1, 1)
    OBVIOUS
  <2> HIDE DEF Starts
  <2> QED
    BY <2>1
<1>2. ASSUME NEW m \in 0..(n - 1), m \in S PROVE m + 1 \in S
  <2>1. PICK s \in 1..(m + 1) : Starts(s, m + 1)
    BY <1>2
  <2>2. CASE words[m + 1] \in Valued
    <3>1. Starts(s, m + 2)
      <4>1. \A k \in s..(m + 2 - 1) : k \in s..(m + 1 - 1) \/ k = m + 1
        OBVIOUS
      <4> QED
        BY <2>1, <2>2, <4>1
    <3> HIDE DEF Starts
    <3> QED
      BY <3>1
  <2>3. CASE words[m + 1] \notin Valued
    <3>1. Starts(m + 2, m + 2)
      BY <2>3
    <3> HIDE DEF Starts
    <3> QED
      BY <3>1
  <2> QED
    BY <2>2, <2>3
<1>3. PICK s \in 1..n : Starts(s, n)
  <2>1. n - 1 \in 0..n /\ n \in Nat
    OBVIOUS
  <2>2. 0..n \subseteq S
    <3> HIDE DEF S
    <3> QED
      BY <1>1, <1>2, Induction
  <2>3. n - 1 \in S
    BY <2>1, <2>2
  <2> HIDE DEF Starts
  <2>4. \E s \in 1..(n - 1 + 1) : Starts(s, n - 1 + 1)
    BY <2>3
  <2> QED
    BY <2>4
<1>4. ASSUME NEW r \in 1..n, Starts(r, n) PROVE r = s
  BY <1>3, <1>4
<1>5. IsFlag(words, n) <=> (n - s) % 2 = 0
  BY <1>3, <1>4 DEF IsFlag
<1>8. IsFlag(words, 1)
  BY DEF IsFlag
<1>6. CASE words[n] \notin Valued
  <2>1. Starts(n + 1, n + 1) /\ (n + 1 - (n + 1)) % 2 = 0
    BY <1>6
  <2> QED
    BY <1>6, <1>8, <2>1 DEF IsFlag
<1>7. CASE words[n] \in Valued
  <2>1. Starts(s, n + 1)
    <3>1. \A k \in s..(n + 1 - 1) : k \in s..(n - 1) \/ k = n
      OBVIOUS
    <3> QED
      BY <1>3, <1>7, <3>1
  <2>2. ASSUME NEW r \in 1..(n + 1), Starts(r, n + 1) PROVE r = s
    <3>1. r # n + 1
      BY <1>7, <2>2
    <3> QED
      BY <1>3, <2>2, <3>1
  <2>3. IsFlag(words, n + 1) <=> (n + 1 - s) % 2 = 0
    BY <2>1, <2>2 DEF IsFlag
  <2>4. (n + 1 - s) % 2 = 0 <=> ~((n - s) % 2 = 0)
    OBVIOUS
  <2> QED
    BY <1>5, <1>7, <1>8, <2>3, <2>4, Zenon
<1> QED
  BY <1>6, <1>7, <1>8

(* Between two words the parse knows the switches given so far, the last    *)
(* backend, and whether the next word is a value.                          *)
Overridden(words, i, n) ==
    \E k \in (i + 1)..n : words[k] = "--backend" /\ IsFlag(words, k)

Knows(words, n, opts) ==
    /\ opts.wants \in Valued \cup {"none"}
    /\ opts.wants = "none" <=> IsFlag(words, n + 1)
    /\ opts.wants # "none" => n > 0 /\ opts.wants = words[n] /\ IsFlag(words, n)
    /\ \A t \in Switches :
           t \in opts.switches <=> \E i \in 1..n : words[i] = t /\ IsFlag(words, i)
    /\ \A i \in 1..n : IsFlag(words, i) => words[i] \in Switches \cup Valued
    /\ \A i \in 1..(n - 1) :
           words[i] = "--backend" /\ IsFlag(words, i) /\ ~Overridden(words, i, n - 1)
               => opts.backend = words[i + 1]

OptionsType == [switches : SUBSET Switches, rate : Tokens, delay : Tokens, backend : Tokens,
                wants : Valued \cup {"none", "error"}]

(* What one word makes of the options.                                     *)
LEMMA ReadFields ==
    ASSUME NEW opts \in OptionsType, NEW word \in Tokens
    PROVE  LET next == Read(opts, word)
           IN  /\ next \in OptionsType
               /\ opts.wants = "error" => next.wants = "error"
               /\ opts.wants = "none" /\ word \in Switches =>
                      /\ next.wants = "none" /\ next.backend = opts.backend
                      /\ next.switches = opts.switches \cup {word}
               /\ opts.wants = "none" /\ word \in Valued =>
                      /\ next.wants = word /\ next.backend = opts.backend
                      /\ next.switches = opts.switches
               /\ opts.wants = "none" /\ word \notin Switches \cup Valued =>
                      next.wants = "error"
               /\ opts.wants \in Valued => /\ next.wants \in {"none", "error"}
                                           /\ next.switches = opts.switches
               /\ opts.wants = "--backend" => next.backend = word
               /\ opts.wants \in Valued \ {"--backend"} => next.backend = opts.backend
<1> DEFINE next == Read(opts, word)
<1> USE DEF OptionsType
<1>1. CASE opts.wants = "error"
  BY <1>1 DEF Read, Valued
<1>2. CASE opts.wants = "none" /\ word \in Switches
  BY <1>2 DEF Read, Valued, Switches
<1>3. CASE opts.wants = "none" /\ word \in Valued
  BY <1>3 DEF Read, Valued, Switches
<1>4. CASE opts.wants = "none" /\ word \notin Switches \cup Valued
  BY <1>4 DEF Read, Valued, Switches
<1>5. CASE opts.wants = "--backend"
  BY <1>5 DEF Read, Valued
<1>6. CASE opts.wants = "--rate"
  BY <1>6 DEF Read, Valued, Number
<1>7. CASE opts.wants = "--start-delay"
  BY <1>7 DEF Read, Valued, Number
<1>8. opts.wants \in {"error", "none", "--backend", "--rate", "--start-delay"}
  BY DEF Valued
<1> QED
  BY <1>1, <1>2, <1>3, <1>4, <1>5, <1>6, <1>7, <1>8

(* One more word keeps what the parse knows, unless it is an error.         *)
LEMMA ReadStep ==
    ASSUME NEW words \in Seq(Tokens), NEW n \in 0..(Len(words) - 1),
           NEW opts \in OptionsType, Knows(words, n, opts),
           Read(opts, words[n + 1]).wants # "error"
    PROVE  Knows(words, n + 1, Read(opts, words[n + 1]))
<1> DEFINE word == words[n + 1]
           next == Read(opts, word)
<1>1. word \in Tokens /\ n \in Nat /\ n + 1 \in Nat \ {0}
  OBVIOUS
<1>2. IsFlag(words, n + 2) <=> ~(IsFlag(words, n + 1) /\ word \in Valued)
  BY <1>1, Alternate
<1>3. opts.wants = "none" <=> IsFlag(words, n + 1)
  BY DEF Knows
<1>4. opts.wants = "none" => word \in Switches \cup Valued
  BY <1>1, ReadFields
<1>5. opts.wants \in Valued \cup {"none"} /\ "none" \notin Valued
  BY DEF Knows, Valued
<1>6. Switches \cap Valued = {} /\ "--backend" \in Valued
  BY DEF Switches, Valued
<1>7. next.wants = IF opts.wants = "none" /\ word \in Valued THEN word ELSE "none"
  BY <1>1, <1>4, <1>5, <1>6, ReadFields
<1>8. next.switches = IF opts.wants = "none" /\ word \in Switches
                      THEN opts.switches \cup {word} ELSE opts.switches
  BY <1>1, <1>4, <1>5, <1>6, ReadFields
<1>9. next.backend = IF opts.wants = "--backend" THEN word ELSE opts.backend
  BY <1>1, <1>4, <1>5, <1>6, ReadFields
<1>10. \A i \in 1..(n + 1) : i \in 1..n \/ i = n + 1
  BY <1>1
<1>11. \A i \in 1..n : i \in 1..(n + 1)
  BY <1>1
<1> HIDE DEF next
<1>12. /\ next.wants \in Valued \cup {"none"}
       /\ next.wants = "none" <=> IsFlag(words, n + 1 + 1)
       /\ next.wants # "none" => n + 1 > 0 /\ next.wants = word /\ IsFlag(words, n + 1)
  <2>1. n + 1 + 1 = n + 2
    BY <1>1
  <2> HIDE DEF word
  <2> QED
    BY <1>1, <1>2, <1>3, <1>5, <1>7, <2>1
<1>13. ASSUME NEW t \in Switches
       PROVE  t \in next.switches <=> \E i \in 1..(n + 1) : words[i] = t /\ IsFlag(words, i)
  <2>1. t \in opts.switches <=> \E i \in 1..n : words[i] = t /\ IsFlag(words, i)
    BY DEF Knows
  <2>2. t \in next.switches <=> t \in opts.switches \/ (word = t /\ IsFlag(words, n + 1))
    BY <1>3, <1>8
  <2>3. n + 1 \in 1..(n + 1)
    BY <1>1
  <2> QED
    BY <2>1, <2>2, <2>3, <1>10, <1>11
<1>14. ASSUME NEW i \in 1..(n + 1), IsFlag(words, i)
       PROVE  words[i] \in Switches \cup Valued
  BY <1>3, <1>4, <1>10, <1>14 DEF Knows
<1>15. ASSUME NEW i \in 1..(n + 1 - 1), words[i] = "--backend", IsFlag(words, i),
              ~Overridden(words, i, n + 1 - 1)
       PROVE  next.backend = words[i + 1]
  <2>1. n + 1 - 1 = n /\ i \in 1..n
    BY <1>1
  <2>2. CASE i = n
    <3>1. n \in Nat \ {0}
      BY <1>1, <2>1
    <3>2. ~IsFlag(words, n + 1)
      BY <1>6, <1>15, <2>2, <3>1, Alternate
    <3>3. opts.wants = "--backend"
      BY <1>3, <1>15, <2>2, <3>2 DEF Knows
    <3> QED
      BY <1>9, <2>2, <3>3
  <2>3. CASE i # n
    <3>1. i \in 1..(n - 1) /\ n \in (i + 1)..n
      BY <1>1, <2>1, <2>3
    <3>2. ~Overridden(words, i, n)
      BY <1>15, <2>1
    <3>3. ~Overridden(words, i, n - 1)
      <4>1. \A k \in (i + 1)..(n - 1) : k \in (i + 1)..n
        BY <1>1
      <4> QED
        BY <3>2, <4>1 DEF Overridden
    <3>4. opts.backend = words[i + 1]
      BY <1>15, <3>1, <3>3 DEF Knows
    <3>5. ~(words[n] = "--backend" /\ IsFlag(words, n))
      BY <3>1, <3>2 DEF Overridden
    <3>6. opts.wants # "--backend"
      BY <3>5 DEF Knows
    <3> QED
      BY <1>9, <3>4, <3>6
  <2> QED
    BY <2>2, <2>3
<1> QED
  BY <1>12, <1>13, <1>14, <1>15 DEF Knows, next

(* What the parse knows when there are no more words.                      *)
LEMMA ParseKnows ==
    ASSUME NEW words \in Seq(Tokens)
    PROVE  /\ ParseOptions(words) \in OptionsType
           /\ ParseOptions(words).wants # "error" =>
                  Knows(words, Len(words), ParseOptions(words))
<1>1. PICK g : /\ g = [n \in 0..Len(words) |->
                          IF n = 0 THEN DefaultOptions ELSE Read(g[n - 1], words[n])]
               /\ ParseOptions(words) = g[Len(words)]
  BY ParseRuns
<1>2. Len(words) \in Nat
  OBVIOUS
<1>3. g[0] = DefaultOptions
  BY <1>1, <1>2
<1>4. \A n \in 0..(Len(words) - 1) : g[n + 1] = Read(g[n], words[n + 1])
  <2>1. ASSUME NEW n \in 0..(Len(words) - 1) PROVE g[n + 1] = Read(g[n], words[n + 1])
    <3>1. n + 1 \in 0..Len(words) /\ n + 1 # 0 /\ n + 1 - 1 = n
      BY <1>2
    <3> QED
      BY <1>1, <3>1
  <2> QED
    BY <2>1
<1> DEFINE Good(n) == /\ g[n] \in OptionsType
                      /\ g[n].wants # "error" => Knows(words, n, g[n])
           S == {n \in Nat : Good(n)}
<1>5. 0 \in S
  <2>1. DefaultOptions \in OptionsType /\ DefaultOptions.wants = "none"
        /\ DefaultOptions.switches = {}
    BY DEF DefaultOptions, OptionsType, Tokens, Numbers, Backends
  <2>2. IsFlag(words, 0 + 1)
    BY Alternate
  <2>3. Knows(words, 0, DefaultOptions)
    BY <2>1, <2>2 DEF Knows
  <2> QED
    BY <1>3, <2>1, <2>3
<1>6. ASSUME NEW n \in 0..(Len(words) - 1), n \in S PROVE n + 1 \in S
  <2>1. words[n + 1] \in Tokens /\ n + 1 \in Nat
    BY <1>2
  <2>2. g[n + 1] = Read(g[n], words[n + 1]) /\ g[n] \in OptionsType
    BY <1>4, <1>6
  <2>3. g[n + 1] \in OptionsType
    BY <2>1, <2>2, ReadFields
  <2>4. g[n + 1].wants # "error" => g[n].wants # "error"
    BY <2>1, <2>2, ReadFields
  <2>5. g[n].wants # "error" => Knows(words, n, g[n])
    BY <1>6
  <2>6. g[n + 1].wants # "error" => Knows(words, n + 1, g[n + 1])
    BY <2>2, <2>4, <2>5, ReadStep
  <2> QED
    BY <2>1, <2>3, <2>6
<1>7. Len(words) \in S
  <2> HIDE DEF S
  <2>1. 0..Len(words) \subseteq S
    BY <1>2, <1>5, <1>6, Induction
  <2> QED
    BY <1>2, <2>1
<1> QED
  BY <1>1, <1>7

(* A first word that takes no value shifts the flags behind it.            *)
LEMMA TailFlags ==
    ASSUME NEW words \in Seq(Tokens), words # <<>>, words[1] \notin Valued,
           NEW i \in 1..(Len(words) - 1)
    PROVE  IsFlag(Tail(words), i) <=> IsFlag(words, i + 1)
<1>1. \A k \in 1..(Len(words) - 1) : Tail(words)[k] = words[k + 1]
  OBVIOUS
<1>2. Len(words) \in Nat
  OBVIOUS
<1>3. ASSUME IsFlag(Tail(words), i) PROVE IsFlag(words, i + 1)
  <2>1. PICK s \in 1..i : /\ s = 1 \/ Tail(words)[s - 1] \notin Valued
                          /\ \A k \in s..(i - 1) : Tail(words)[k] \in Valued
                          /\ (i - s) % 2 = 0
    BY <1>3 DEF IsFlag
  <2>2. words[s + 1 - 1] \notin Valued
    BY <1>1, <1>2, <2>1
  <2>3. ASSUME NEW k \in (s + 1)..(i + 1 - 1) PROVE words[k] \in Valued
    <3>1. k - 1 \in s..(i - 1) /\ k - 1 \in 1..(Len(words) - 1) /\ k - 1 + 1 = k
      BY <1>2
    <3> QED
      BY <1>1, <2>1, <3>1
  <2>4. s + 1 \in 1..(i + 1) /\ (i + 1 - (s + 1)) % 2 = 0
    BY <2>1
  <2> QED
    BY <2>2, <2>3, <2>4 DEF IsFlag
<1>4. ASSUME IsFlag(words, i + 1) PROVE IsFlag(Tail(words), i)
  <2>1. PICK s \in 1..(i + 1) : /\ s = 1 \/ words[s - 1] \notin Valued
                                /\ \A k \in s..(i + 1 - 1) : words[k] \in Valued
                                /\ (i + 1 - s) % 2 = 0
    BY <1>4 DEF IsFlag
  <2>2. s # 1
    <3>1. s = 1 => 1 \in s..(i + 1 - 1)
      OBVIOUS
    <3> QED
      BY <2>1, <3>1
  <2>3. s - 1 = 1 \/ Tail(words)[s - 1 - 1] \notin Valued
    <3>1. s - 1 # 1 => s - 1 - 1 \in 1..(Len(words) - 1) /\ s - 1 - 1 + 1 = s - 1
      BY <1>2, <2>2
    <3> QED
      BY <1>1, <2>1, <2>2, <3>1
  <2>4. ASSUME NEW k \in (s - 1)..(i - 1) PROVE Tail(words)[k] \in Valued
    <3>1. k + 1 \in s..(i + 1 - 1) /\ k \in 1..(Len(words) - 1)
      BY <1>2, <2>2
    <3> QED
      BY <1>1, <2>1, <3>1
  <2>5. s - 1 \in 1..i /\ (i - (s - 1)) % 2 = 0
    BY <2>1, <2>2
  <2> QED
    BY <2>3, <2>4, <2>5 DEF IsFlag
<1> QED
  BY <1>3, <1>4 DEF IsFlag

GivenIn(words, flag) == \E i \in DOMAIN words : words[i] = flag /\ IsFlag(words, i)

(* A parse that wants nothing more has understood every flag.              *)
LEMMA ParseMeans ==
    ASSUME NEW words \in Seq(Tokens), ParseOptions(words).wants = "none"
    PROVE  LET opts == ParseOptions(words)
           IN  /\ \A t \in Switches : t \in opts.switches <=> GivenIn(words, t)
               /\ ~GivenIn(words, "doctor") /\ ~GivenIn(words, "--version")
               /\ \A i \in 1..Len(words) :
                      words[i] = "--backend" /\ IsFlag(words, i)
                      /\ ~Overridden(words, i, Len(words))
                          => i < Len(words) /\ opts.backend = words[i + 1]
<1> DEFINE opts == ParseOptions(words)
           N == Len(words)
<1>1. N \in Nat /\ DOMAIN words = 1..N
  OBVIOUS
<1>2. Knows(words, N, opts)
  BY ParseKnows
<1>3. \A t \in Switches : t \in opts.switches <=> GivenIn(words, t)
  BY <1>1, <1>2 DEF Knows, GivenIn
<1>4. ~GivenIn(words, "doctor") /\ ~GivenIn(words, "--version")
  BY <1>1, <1>2 DEF Knows, GivenIn, Switches, Valued
<1>5. ASSUME NEW i \in 1..N, words[i] = "--backend", IsFlag(words, i), ~Overridden(words, i, N)
      PROVE  i < N /\ opts.backend = words[i + 1]
  <2>0. i \in 1..N /\ i \in Nat \ {0}
    BY <1>1, <1>5
  <2>1. i # N
    <3>1. IsFlag(words, N + 1)
      BY <1>2 DEF Knows
    <3>2. "--backend" \in Valued
      BY DEF Valued
    <3> QED
      BY <1>5, <2>0, <3>1, <3>2, Alternate
  <2>2. i \in 1..(N - 1) /\ i < N
    <3> HIDE DEF N
    <3> QED
      BY <1>1, <2>0, <2>1
  <2>3. ~Overridden(words, i, N - 1)
    <3>1. \A k \in (i + 1)..(N - 1) : k \in (i + 1)..N
      BY <1>1
    <3> QED
      BY <1>5, <3>1 DEF Overridden
  <2> QED
    BY <1>2, <1>5, <2>2, <2>3 DEF Knows
<1> QED
  BY <1>3, <1>4, <1>5

(* What parseCommand lets through does what its words say: as a run, its   *)
(* switches are the words that stand where flags do and none of them is a  *)
(* command; and the last --backend names the backend, also for doctor.     *)
LEMMA CommandMeans ==
    ASSUME NEW words \in Seq(Tokens)
    PROVE  LET command == ParseCommand(words)
           IN  /\ command.kind = "run" =>
                      /\ \A t \in Switches : t \in command.opts.switches <=> GivenIn(words, t)
                      /\ ~GivenIn(words, "doctor") /\ ~GivenIn(words, "--version")
                      /\ ~GivenIn(words, "--help")
               /\ command.kind \in {"doctor", "run"} =>
                      \A i \in 1..Len(words) :
                          words[i] = "--backend" /\ IsFlag(words, i)
                          /\ ~Overridden(words, i, Len(words))
                              => words[i + 1] \in Backends
<1> DEFINE command  == ParseCommand(words)
           isDoctor == words # <<>> /\ Head(words) = "doctor"
           rest     == IF isDoctor THEN Tail(words) ELSE words
<1>1. command.opts = ParseOptions(rest)
  BY DEF ParseCommand
<1>2. command.kind \in {"doctor", "run"} => Valid(ParseOptions(rest))
  BY DEF ParseCommand
<1>3. command.kind = "run" => ~isDoctor /\ "--help" \notin ParseOptions(rest).switches
  BY DEF ParseCommand
<1>4. command.kind \in {"doctor", "run"} =>
          ParseOptions(rest).wants = "none" /\ ParseOptions(rest).backend \in Backends
  BY <1>2 DEF Valid
<1> HIDE DEF command
<1>5. ASSUME command.kind = "run"
      PROVE  /\ \A t \in Switches : t \in command.opts.switches <=> GivenIn(words, t)
             /\ ~GivenIn(words, "doctor") /\ ~GivenIn(words, "--version")
             /\ ~GivenIn(words, "--help")
  <2>1. rest = words /\ ParseOptions(words).wants = "none"
    BY <1>3, <1>4, <1>5
  <2>2. /\ \A t \in Switches : t \in ParseOptions(words).switches <=> GivenIn(words, t)
        /\ ~GivenIn(words, "doctor") /\ ~GivenIn(words, "--version")
    BY <2>1, ParseMeans
  <2>3. "--help" \in Switches
    BY DEF Switches
  <2> QED
    BY <1>1, <1>3, <1>5, <2>1, <2>2, <2>3
<1>6. ASSUME command.kind \in {"doctor", "run"}, NEW i \in 1..Len(words),
             words[i] = "--backend", IsFlag(words, i), ~Overridden(words, i, Len(words))
      PROVE  words[i + 1] \in Backends
  <2>1. CASE ~isDoctor
    <3>1. rest = words /\ ParseOptions(words).wants = "none"
      BY <1>4, <1>6, <2>1
    <3>2. ParseOptions(words).backend = words[i + 1]
      BY <1>6, <3>1, ParseMeans
    <3> QED
      BY <1>4, <1>6, <3>1, <3>2
  <2>2. CASE isDoctor
    <3> DEFINE N == Len(words)
    <3>1. /\ rest = Tail(words) /\ Tail(words) \in Seq(Tokens)
          /\ N \in Nat \ {0} /\ Len(Tail(words)) = N - 1
          /\ \A k \in 1..(N - 1) : Tail(words)[k] = words[k + 1]
      BY <2>2
    <3>2. words[1] = "doctor" /\ words[1] \notin Valued /\ words # <<>>
      BY <2>2 DEF Valued
    <3>3. i \in 1..N /\ i # 1 /\ i - 1 \in 1..(N - 1) /\ i - 1 + 1 = i
      BY <1>6, <3>1, <3>2
    <3>4. Tail(words)[i - 1] = "--backend" /\ IsFlag(Tail(words), i - 1)
      BY <1>6, <3>1, <3>2, <3>3, TailFlags
    <3>5. ~Overridden(Tail(words), i - 1, N - 1)
      <4>1. SUFFICES ASSUME NEW k \in (i - 1 + 1)..(N - 1), Tail(words)[k] = "--backend",
                            IsFlag(Tail(words), k)
                     PROVE  FALSE
        BY DEF Overridden
      <4>2. k \in 1..(N - 1) /\ k + 1 \in (i + 1)..N
        <5> HIDE DEF N
        <5> QED
          BY <3>1, <3>3, <4>1
      <4>3. words[k + 1] = "--backend" /\ IsFlag(words, k + 1)
        BY <3>1, <3>2, <4>1, <4>2, TailFlags
      <4> QED
        BY <1>6, <4>2, <4>3 DEF Overridden
    <3>6. ParseOptions(Tail(words)).wants = "none"
      BY <1>4, <1>6, <3>1
    <3>7. i - 1 < N - 1 /\ ParseOptions(Tail(words)).backend = Tail(words)[i - 1 + 1]
      BY <3>1, <3>3, <3>4, <3>5, <3>6, ParseMeans
    <3>8. Tail(words)[i] = words[i + 1]
      <4>1. i \in 1..(N - 1)
        <5> HIDE DEF N
        <5> QED
          BY <3>1, <3>3, <3>7
      <4> QED
        BY <3>1, <4>1
    <3> QED
      BY <1>4, <1>6, <3>1, <3>3, <3>7, <3>8
  <2> QED
    BY <2>1, <2>2
<1> QED
  BY <1>5, <1>6 DEF command
-----------------------------------------------------------------------------
(* The command line stays, and so does what the parse made of it.           *)
LEMMA WordsStep ==
    ASSUME StageInv, WordsInv, [Next]_vars
    PROVE  WordsInv'
<1> USE DEF WordsInv
<1>1. CASE Parse
  BY <1>1 DEF Parse, Goto, Exit
<1>2. CASE RunDoctor
  BY <1>2 DEF RunDoctor, Goto, Exit
<1>3. CASE ConfigureLogger
  BY <1>3 DEF ConfigureLogger, Goto, Exit
<1>4. CASE Signal
  BY <1>4 DEF Signal, Goto, Exit
<1>5. CASE SelectRunMode
  BY <1>5 DEF SelectRunMode, Goto, Exit
<1>6. CASE RunForeground
  BY <1>6 DEF RunForeground, Goto, Exit
<1>7. CASE RunCollector
  BY <1>7 DEF RunCollector, Goto, Exit
<1>8. CASE ReturnFromRun
  BY <1>8 DEF ReturnFromRun, Goto, Exit
<1>9. CASE PrepareLaunch
  BY <1>9 DEF PrepareLaunch, Goto, Exit
<1>10. CASE ShowDialog
  BY <1>10 DEF ShowDialog, Goto, Exit
<1>11. CASE ConfigureLoginItem
  BY <1>11 DEF ConfigureLoginItem, Goto, Exit
<1>12. CASE PromptForAccessibility
  BY <1>12 DEF PromptForAccessibility, Goto, Exit
<1>13. CASE RunTray
  BY <1>13 DEF RunTray, Goto, Exit
<1>14. CASE CollectStatusReport
  BY <1>14 DEF CollectStatusReport, Goto, Exit
<1>15. CASE ShowStatus
  BY <1>15 DEF ShowStatus, Goto, Exit
<1>16. CASE RunPage
  BY <1>16 DEF RunPage, Goto, Exit
<1>17. CASE Exited \/ UNCHANGED vars
  BY <1>17 DEF Exited, vars
<1> QED
  BY <1>1, <1>2, <1>3, <1>4, <1>5, <1>6, <1>7, <1>8, <1>9, <1>10, <1>11, <1>12,
     <1>13, <1>14, <1>15, <1>16, <1>17
  DEF Next

(* A launch starts with nothing run, asked or shown.                       *)
LEMMA InitInv == Init => Inv
<1> SUFFICES ASSUME Init PROVE Inv
  OBVIOUS
<1> USE DEF Init
<1>1. CP!Inv
  BY CP!InitInv, SameController, ErrorsAssumption DEF F!Init
<1>2. ForegroundInv
  BY ErrorsAssumption DEF ForegroundInv, F!Init, F!C!Init, Ended, CP!Past
<1>3. TrayInv
  BY ErrorsAssumption DEF TrayInv, T!Init
<1>4. PageInv
  BY DEF PageInv, Page!Init, Page!Methods
<1>5. StageInv
  BY DEF StageInv, F!Init, T!Init
<1>6. ExitInv
  BY DEF ExitInv
<1>7. ReportInv
  BY DEF ReportInv
<1>8. OptionsInv
  BY DEF OptionsInv, F!Init, T!Init
<1>9. WordsInv
  <2>1. CommandLines \subseteq Seq(Tokens)
    <3>1. UNION {[1..n -> Tokens] : n \in 0..MaxArgs} \subseteq Seq(Tokens)
      <4>1. \A n \in 0..MaxArgs : n \in Nat
        OBVIOUS
      <4> QED
        BY <4>1, SeqDef
    <3>2. {"--backend", "doctor", "--no-tray", "linux"} \subseteq Tokens
      BY DEF Tokens, Valued, Commands, Switches, Backends
    <3>3. ASSUME NEW v \in Tokens, NEW b \in Tokens, NEW c \in Tokens
          PROVE  <<v, b, v, c>> \in Seq(Tokens)
      OBVIOUS
    <3>4. \A b \in {"doctor", "--no-tray"} :
              <<"--backend", b, "--backend", "linux">> \in Seq(Tokens)
      BY <3>2, <3>3
    <3> DEFINE short == UNION {[1..n -> Tokens] : n \in 0..MaxArgs}
               pairs == {<<"--backend", b, "--backend", "linux">> :
                             b \in {"doctor", "--no-tray"}}
    <3>5. pairs \subseteq Seq(Tokens)
      BY <3>4
    <3>6. CommandLines = short \cup pairs
      BY Zenon DEF CommandLines
    <3> HIDE DEF short, pairs
    <3> QED
      BY <3>1, <3>5, <3>6 DEF short
  <2> QED
    BY <2>1 DEF WordsInv
<1> QED
  BY <1>1, <1>2, <1>3, <1>4, <1>5, <1>6, <1>7, <1>8, <1>9 DEF Inv

(* Each part of Inv is kept by every step, given the parts it rests on.    *)
LEMMA NextInv == Inv /\ [Next]_vars => Inv'
<1> SUFFICES ASSUME Inv, [Next]_vars PROVE Inv'
  OBVIOUS
<1>1. CP!Inv' /\ ForegroundInv'
  BY StepsOfForeground, ForegroundStep DEF Inv
<1>2. TrayInv'
  BY TrayInvStep DEF Inv
<1>3. PageInv'
  BY PageInvStep DEF Inv
<1>4. StageInv'
  BY StageStep DEF Inv
<1>5. ExitInv'
  BY ExitStep DEF Inv
<1>6. ReportInv'
  BY ReportStep DEF Inv
<1>7. OptionsInv'
  BY OptionsStep DEF Inv
<1>8. WordsInv'
  BY WordsStep DEF Inv
<1> QED
  BY <1>1, <1>2, <1>3, <1>4, <1>5, <1>6, <1>7, <1>8 DEF Inv

(* Inv holds in every state of every launch.                               *)
THEOREM InvHolds == Spec => []Inv
BY InitInv, NextInv, PTL DEF Spec
-----------------------------------------------------------------------------
(* The foreground run keeps app.Run's promise to main: it returns after    *)
(* the collector it started has ended, with its failure or nil, and        *)
(* without having started one it returns nil (runner.go 20-28).            *)
THEOREM ForegroundRefinement == Spec => ForegroundImplementsAppRun
<1> DEFINE collector == IF run = "none" THEN "idle"
                        ELSE IF run = "running" THEN "running" ELSE "ended"
           verdict   == IF run \in {"none", "running"} THEN Pending
                        ELSE F!C!Normalise(outcome)
<1>1. Init => F!App!Init
  BY DEF Init, F!Init, F!C!Init, F!App!Init
<1>2. ASSUME Inv, [Next]_vars PROVE [F!App!Next]_<<collector, verdict, exit>>
  <2>1. ASSUME run = "none", run' = "running", exit = Pending, exit' = exit
        PROVE  F!App!Collect
    BY <2>1 DEF F!App!Collect
  <2>2. ASSUME run = "running", Ended', outcome' \in F!C!Outcomes, exit = Pending,
               exit' = exit
        PROVE  F!App!End
    <3>1. F!C!Normalise(outcome)' \in Errors \cup {NoError}
      BY <2>2 DEF F!C!Normalise, F!C!Outcomes, F!C!Values
    <3> QED
      BY <2>2, <3>1 DEF F!App!End, Ended
  <2>3. ASSUME Ended, UNCHANGED <<run, outcome>>, exit = Pending,
               exit' = F!C!Normalise(outcome)
        PROVE  F!App!Exit
    BY <2>3 DEF F!App!Exit, Ended
  <2>4. ASSUME run = "none", run' = run, exit = Pending, exit' = NoError
        PROVE  F!App!ExitIdle
    BY <2>4 DEF F!App!ExitIdle
  <2>5. ASSUME Ended, Ended', UNCHANGED <<outcome, exit>>
        PROVE  UNCHANGED <<collector, verdict, exit>>
    BY <2>5 DEF Ended
  <2>6. ASSUME UNCHANGED <<run, outcome, exit>>
        PROVE  UNCHANGED <<collector, verdict, exit>>
    BY <2>6
  <2>7. CP!Inv /\ ForegroundInv /\ [F!Next]_(F!vars)
    BY <1>2, StepsOfForeground DEF Inv
  <2> QED
    BY <2>1, <2>2, <2>3, <2>4, <2>5, <2>6, <2>7, VisibleSteps DEF F!App!Next
<1> QED
  BY <1>1, <1>2, InvHolds, PTL DEF Spec, ForegroundImplementsAppRun, F!ImplementsAppRun,
     F!App!Spec

(* The exit code tells the service manager a failure from a stop, whatever *)
(* a signal did at the same time (main.go 48-90).                          *)
THEOREM ExitCodeIsTheVerdict == Spec => []ExitTellsTheVerdict
<1>1. Inv => ExitTellsTheVerdict
  BY DEF Inv, ExitInv, ExitTellsTheVerdict
<1> QED
  BY <1>1, InvHolds, PTL

(* The two fields of a report's X11 part.                                  *)
LEMMA X11Fields ==
    ASSUME NEW selected, NEW connection, NEW sampling
    PROVE  /\ X11(platform, selected, connection, sampling).connection
                  \in {connection, "not applicable"}
           /\ X11(platform, selected, connection, sampling).sampling
                  \in {sampling, "not applicable"}
           /\ \/ X11Applicable(platform, selected)
              \/ /\ X11(platform, selected, connection, sampling).connection = "not applicable"
                 /\ X11(platform, selected, connection, sampling).sampling = "not applicable"
BY DEF X11, X11Applicable

(* On Linux, a status that a collector has written names the X11 backend.  *)
LEMMA LinuxStatuses ==
  ASSUME NEW selected, NEW written \in Statuses(platform), X11Applicable(platform, selected)
  PROVE  written.active = "linux"
<1>1. /\ platform = "linux"
      /\ Select(platform, written.active) = written.active /\ written.active \in Backends
  BY DEF Statuses, X11Applicable
<1>2. QED
  BY <1>1 DEF Select, Backends

(* A report does not contradict itself, whatever the probe found or the    *)
(* status said: X11 sampling that works has a connection, unless it is     *)
(* that of a stopped collector, and an app or a title; the connection is   *)
(* missing exactly for a backend error or a collector that is not running. *)
(* Its parts are computed in collect.go 43-169 and render.go 265-320.      *)
THEOREM ReportsAreCoherent == Spec => []ReportIsCoherent
<1> DEFINE selected == cmd.opts.backend
           health   == Health(report, read)
           works    == {"App works", "Title works"} \cap health # {}
           running  == "Running" \in health
<1>1. works <=> report.app \/ report.title
  BY DEF Health
<1>2. X11Applicable(platform, selected) => Select(platform, selected) = "linux"
  BY DEF X11Applicable, Select
<1>3. ASSUME NEW probe \in Probes, report = Diagnostic(platform, selected, probe),
             report # Pending
      PROVE  ReportIsCoherent
  <2> DEFINE active == Select(platform, selected)
             open   == probe.open /\ active # "unsupported"
  <2>1. CASE ~open
    <3>1. report.x11 = X11(platform, selected, "failed", "not attempted")
      BY <1>3, <2>1 DEF Diagnostic
    <3>2. /\ report.backendError = TRUE /\ report.active = "none"
          /\ report.source = "probe" /\ report.app = FALSE /\ report.title = FALSE
      BY <1>3, <2>1 DEF Diagnostic
    <3> HIDE DEF works, health, running, active, open, selected
    <3>3. report.x11.connection \in {"failed", "not applicable"}
      BY <3>1, X11Fields
    <3>4. report.x11.sampling \in {"not attempted", "not applicable"}
      BY <3>1, X11Fields
    <3> QED
      BY <1>1, <3>2, <3>3, <3>4 DEF ReportIsCoherent, works, running, health
  <2>2. CASE open
    <3> DEFINE sampling == IF Succeeds(platform, selected, probe)
                           THEN "successful" ELSE "failed"
    <3>1. report.x11 = X11(platform, selected, "connected", sampling)
      BY <1>3, <2>2 DEF Diagnostic
    <3>2. /\ report.backendError = FALSE /\ report.active = active
          /\ report.source = "probe" /\ report.app = probe.app /\ report.title = probe.title
          /\ report.sampleError = ~Succeeds(platform, selected, probe)
      BY <1>3, <2>2 DEF Diagnostic, Probes, Succeeds
    <3>3. /\ sampling = "successful" => Succeeds(platform, selected, probe)
          /\ sampling = "failed" => ~Succeeds(platform, selected, probe)
          /\ sampling \in {"successful", "failed"}
      BY DEF Succeeds
    <3> HIDE DEF works, health, running, active, open, selected, sampling
    <3>4. report.x11.connection \in {"connected", "not applicable"}
      BY <3>1, X11Fields
    <3>5. report.x11.sampling \in {sampling, "not applicable"}
      BY <3>1, X11Fields
    <3>6. \/ X11Applicable(platform, selected)
          \/ /\ report.x11.connection = "not applicable"
             /\ report.x11.sampling = "not applicable"
      BY <3>1, X11Fields
    <3>7. ASSUME X11Applicable(platform, selected) PROVE report.x11.connection = "connected"
      <4>1. report.x11 = [connection |-> "connected", sampling |-> sampling]
        BY <3>1, <3>7 DEF X11
      <4> QED
        BY <4>1
    <3>8. report.x11.connection = "connected" => active = "linux"
      BY <1>2, <3>6 DEF active
    <3>9. report.x11.sampling = "successful" => probe.app \/ probe.title
      BY <3>3, <3>5, <3>6 DEF Succeeds
    <3>10. report.x11.sampling \in {"successful", "failed"} => report.x11.connection = "connected"
      BY <3>6, <3>7
    <3>11. report.x11.sampling = "failed" => report.sampleError
      BY <3>2, <3>3, <3>5
    <3> QED
      BY <1>1, <3>2, <3>4, <3>8, <3>9, <3>10, <3>11
         DEF ReportIsCoherent, works, running, health
  <2> QED
    BY <2>1, <2>2
<1>4. ASSUME read \in Reads(platform), report = Runtime(platform, selected, read),
             report # Pending
      PROVE  ReportIsCoherent
  <2>1. /\ report.source = "runtime" /\ report.backendError = FALSE
        /\ report.active = IF Present(read) THEN read.active ELSE "none"
        /\ report.app = (Present(read) /\ read.app)
        /\ report.title = (Present(read) /\ read.title)
    BY <1>4 DEF Runtime
  <2>2. Present(read) => read \in Statuses(platform)
    BY <1>4 DEF Present, Reads
  <2>3. Present(read) => (read.saved # "never" <=> read.app \/ read.title)
    BY <2>2 DEF Statuses
  <2>4. /\ report.x11.sampling = "successful" => Present(read) /\ read.saved # "never"
        /\ report.x11.sampling # "failed"
        /\ report.x11.sampling = "successful" => X11Applicable(platform, selected)
    BY <1>4 DEF Runtime, X11
  <2>5. /\ report.x11.connection # "failed"
        /\ report.x11.connection = "connected" =>
               Present(read) /\ read.running /\ read.active = "linux"
        /\ X11Applicable(platform, selected) /\ Present(read) /\ read.active = "linux" =>
               report.x11.connection = IF read.running THEN "connected" ELSE "not attempted"
        /\ report.x11.connection = "not attempted" => X11Applicable(platform, selected)
    BY <1>4 DEF Runtime, X11
  <2>6. /\ "Saving works" \in health => Present(read) /\ read.saved = "recent"
        /\ running <=> Present(read) /\ read.running
    BY DEF Health
  <2>7. X11Applicable(platform, selected) /\ Present(read) => read.active = "linux"
    BY <2>2, LinuxStatuses
  <2> HIDE DEF works, health, running, selected
  <2>8. report.x11.sampling = "successful" =>
            works /\ (report.x11.connection = "connected" \/ ~running)
    BY <1>1, <2>1, <2>3, <2>4, <2>5, <2>6, <2>7
  <2>9. report.x11.connection = "not attempted" => ~running
    BY <2>5, <2>6, <2>7
  <2>10. "Saving works" \in health => works
    BY <1>1, <2>1, <2>3, <2>6
  <2>11. report.x11.connection = "connected" => report.active = "linux" /\ running
    BY <2>1, <2>5, <2>6
  <2> QED
    BY <2>1, <2>4, <2>5, <2>8, <2>9, <2>10, <2>11
       DEF ReportIsCoherent, works, running, health
<1>5. Inv => ReportIsCoherent
  BY <1>3, <1>4 DEF Inv, ReportInv, ReportIsCoherent
<1> QED
  BY <1>5, InvHolds, PTL

(* The words of a command line decide what a launch does, however many     *)
(* they are, and whatever its other parts do meanwhile (main.go 92-137,    *)
(* 170-187; options.go 29-102; lifecycle.go 51-121).                       *)
THEOREM WordsAreObeyed == Spec => []ArgumentsDecide
<1>1. ASSUME Inv PROVE ArgumentsDecide
  <2> USE <1>1 DEF Inv
  <2>1. run # "none" \/ trayCollector # "idle" \/ asked # {} \/ errorLog = TRUE =>
            stage # "parse" /\ cmd.kind = "run"
    BY DEF ForegroundInv, OptionsInv
  <2>2. stage \in {"foreground", "tray"} \/ report # Pending =>
            stage # "parse" /\ cmd.kind \in {"doctor", "run"}
    BY DEF StageInv, OptionsInv
  <2>3. stage # "parse" /\ cmd.kind = "run" =>
            /\ \A t \in Switches : Switched(t) <=> Given(t)
            /\ ~Given("doctor") /\ ~Given("--version") /\ ~Given("--help")
    BY CommandMeans DEF WordsInv, Switched, Given, GivenIn
  <2>4. stage # "parse" /\ cmd.kind \in {"doctor", "run"} => GivenBackends \subseteq Backends
    <3>1. args \in Seq(Tokens) /\ DOMAIN args = 1..Len(args)
      BY DEF WordsInv
    <3>2. ASSUME stage # "parse", cmd.kind \in {"doctor", "run"}, NEW i \in 1..Len(args),
                 args[i] = "--backend", IsFlag(args, i), ~Overridden(args, i, Len(args))
          PROVE  args[i + 1] \in Backends
      BY <3>1, <3>2, CommandMeans DEF WordsInv
    <3> QED
      BY <3>1, <3>2 DEF GivenBackends, Overridden
  <2>5. "--qa-console" \in Switches /\ "--no-tray" \in Switches
    BY DEF Switches
  <2>6. run # "none" => Switched("--qa-console") \/ Switched("--no-tray")
    BY DEF ForegroundInv, OptionsInv
  <2>7. trayCollector # "idle" \/ asked # {} =>
            ~Switched("--qa-console") /\ ~Switched("--no-tray")
    BY DEF OptionsInv
  <2>8. errorLog = TRUE => ~Switched("--qa-console")
    BY DEF OptionsInv
  <2>9. /\ asked # {} => platform = "darwin" /\ bundle = "installed"
        /\ "register" \in asked => loginItem \notin {"enabled", "requires_approval"}
    BY DEF OptionsInv
  <2> QED
    BY <2>1, <2>2, <2>3, <2>4, <2>5, <2>6, <2>7, <2>8, <2>9 DEF ArgumentsDecide
<1> QED
  BY <1>1, InvHolds, PTL

(* A launch runs one collector at most, in the foreground or behind the    *)
(* tray (main.go 110-137).                                                 *)
OneCollector == run = "none" \/ trayCollector = "idle"

(* Whatever selects the run mode and however the launch ends, it does not  *)
(* run two collectors.                                                     *)
THEOREM OneCollectorALaunch == Spec => []OneCollector
<1>1. Inv => OneCollector
  BY DEF Inv, ForegroundInv, OptionsInv, OneCollector
<1> QED
  BY <1>1, InvHolds, PTL

(* The page's server stops before its minute only when somebody has been   *)
(* given the page (browser_page.go 29-68): the part of PageLifetime that   *)
(* is no liveness.                                                         *)
PagesAreUsedUp ==
    server \in {"draining", "closed"} /\ ~expired
        => \E v \in Visitors : request[v] \in {"page", "lost"}

(* A page that nobody has been given stays up for its minute.              *)
THEOREM PagesStayForAMinute == Spec => []PagesAreUsedUp
<1>1. Inv => PagesAreUsedUp
  BY DEF Inv, PageInv, PagesAreUsedUp
<1> QED
  BY <1>1, InvHolds, PTL
=============================================================================
