----------------------------- MODULE TrayProofs -----------------------------
(***************************************************************************)
(* Proofs about Tray, for any set of pages and of failures.  What the      *)
(* controller does is not proved again: every step of the tray is a step   *)
(* of its controller or leaves the controller alone, so the invariant of   *)
(* ControllerProofs holds here too.  Inv adds what the tray's own threads  *)
(* know: one of them executes shutdown, and a verdict exists only after    *)
(* the collector has ended.                                                *)
(***************************************************************************)
EXTENDS Tray, TLAPS

CP == INSTANCE ControllerProofs
    WITH Starters <- {"tray"}, Listeners <- {"tray"}, Waiters <- Shutters

Ended == run \notin {"none", "running"}

(* onReady starts the collector before any other thread exists. *)
ReadyInv ==
    /\ pc["main"] = "onReady" => \A t \in Threads \ {"main"} : pc[t] = "off"
    /\ pc["main"] # "onReady" => starter["tray"] \in CP!Past
    /\ pc["main"] # "off"

(* shutdown's Once: one thread inside, the only one that ever calls Wait, *)
(* and it leaves with the collector's result.                             *)
ShutdownInv ==
    /\ shutdownOnce = "idle" => \A t \in Shutters : waiter[t] = "idle"
    /\ \A t \in Shutters :
           /\ pc[t] \in {"wait", "finish"} => shutdownOnce = "running"
           /\ pc[t] = "wait" => waiter[t] \in {"idle", "blocked", "woken"}
           /\ pc[t] = "finish" => waiter[t] = "returned"
    /\ \A t, u \in Shutters :
           pc[t] \in {"wait", "finish"} /\ pc[u] \in {"wait", "finish"} => t = u
    /\ shutdownOnce = "done" => resultOnce

(* Whoever is about to send has the outcome of the ended run in hand; a    *)
(* quit and the end of the driver's loop come after a verdict.             *)
ResultInv ==
    /\ pc["err"] = "finish" => got["tray"] \in Errors
    /\ \A t \in Threads : pc[t] = "quitTray" => resultOnce
    /\ quitOnce => resultOnce
    /\ pc["main"] \in {"result", "end"} => resultOnce
    /\ exit # Pending <=> pc["main"] = "end"
    /\ resultOnce => Ended
    /\ resultOnce /\ exit = Pending => resultCh = <<C!Normalise(outcome)>>
    /\ exit # Pending => exit = C!Normalise(outcome)
    /\ ~resultOnce \/ exit # Pending => resultCh = <<>>

Inv == TypeOK /\ CP!Inv /\ ReadyInv /\ ShutdownInv /\ ResultInv
-----------------------------------------------------------------------------
(* The two names of the controller's steps stand for the same formulas.    *)
LEMMA SameController ==
    /\ C!Init => CP!Init
    /\ [C!Next]_(C!vars) => [CP!Next]_(CP!vars)
<1>1. C!Init => CP!Init
  BY DEF C!Init, CP!Init
<1> USE DEF C!chans, CP!chans, C!runVars, CP!runVars, C!callers, CP!callers,
        C!vars, CP!vars
<1>2. ASSUME NEW s \in {"tray"}, C!StartStep(s) PROVE CP!StartStep(s)
  BY <1>2 DEF C!StartStep, CP!StartStep, C!EnterOnce, CP!EnterOnce, C!MakeDone,
     CP!MakeDone, C!MakeErrCh, CP!MakeErrCh, C!Spawn, CP!Spawn, C!PassOnce, CP!PassOnce,
     C!Receive, CP!Receive, C!ReceiveValue, CP!ReceiveValue, C!ReceiveClosed,
     CP!ReceiveClosed
<1>3. ASSUME NEW o \in C!Outcomes, C!RunnerReturns(o)
      PROVE  o \in CP!Outcomes /\ CP!RunnerReturns(o)
  BY <1>3 DEF C!RunnerReturns, CP!RunnerReturns, C!Outcomes, CP!Outcomes, C!Values,
     CP!Values, C!Normalise, CP!Normalise
<1>4. C!Finishing => CP!Finishing
  BY DEF C!Finishing, CP!Finishing, C!StoreResult, CP!StoreResult, C!PublishErr,
     CP!PublishErr, C!ErrChCapacity, CP!ErrChCapacity, C!CloseErrCh, CP!CloseErrCh,
     C!CloseDone, CP!CloseDone
<1>5. ASSUME NEW w \in Shutters, C!WaitStep(w) PROVE CP!WaitStep(w)
  BY <1>5 DEF C!WaitStep, CP!WaitStep, C!WaitUnstarted, CP!WaitUnstarted, C!WaitBlock,
     CP!WaitBlock, C!WaitWake, CP!WaitWake, C!WaitReturn, CP!WaitReturn
<1>6. (C!Cancel => CP!Cancel) /\ (C!Terminated => CP!Terminated)
  BY DEF C!Cancel, CP!Cancel, C!Terminated, CP!Terminated
<1>7. [C!Next]_(C!vars) => [CP!Next]_(CP!vars)
  BY <1>2, <1>3, <1>4, <1>5, <1>6 DEF C!Next, CP!Next
<1> QED
  BY <1>1, <1>7

(* Every step of the tray is a step of its controller or leaves it alone. *)
LEMMA StepsOfController ==
    ASSUME ctxDone \in BOOLEAN, [Next]_vars
    PROVE  [C!Next]_(C!vars)
<1> USE DEF controller, C!vars
<1>1. CASE StartCollector
  BY <1>1 DEF StartCollector, C!Next, C!StartStep
<1>2. CASE CollectorEnded
  BY <1>2 DEF CollectorEnded, C!Next, C!StartStep
<1>3. CASE Propagate
  BY <1>3 DEF Propagate, C!Next
<1>4. CASE RunnerReturns
  BY <1>4 DEF RunnerReturns, C!Next
<1>5. CASE CollectorFinishing
  BY <1>5 DEF CollectorFinishing, C!Next
<1>6. ASSUME NEW t \in Shutters, AwaitCollector(t) PROVE [C!Next]_(C!vars)
  BY <1>6 DEF AwaitCollector, C!Next
<1>7. ASSUME \/ ReturnResult
             \/ \E t \in Shutters : EnterShutdown(t)
      PROVE  C!Cancel \/ UNCHANGED C!vars
  BY <1>7 DEF ReturnResult, EnterShutdown, C!Cancel, C!chans, C!runVars, C!callers
<1>8. ASSUME \/ ParentCancel \/ ExternalQuit \/ LoopEnds \/ ReportFailure
             \/ ParentEnded \/ QuitSelect \/ Exited \/ UNCHANGED vars
             \/ \E i \in Pages \cup {"quit"} : Click(i)
             \/ \E t \in Shutters : FinishShutdown(t) \/ PassShutdown(t)
             \/ \E t \in {"err", "ctx", "quit"} : QuitTray(t)
             \/ \E p \in Pages : PageSelect(p) \/ PageShown(p)
      PROVE  UNCHANGED C!vars
  BY <1>8 DEF ParentCancel, ExternalQuit, LoopEnds, ReportFailure, ParentEnded,
     QuitSelect, Exited, vars, Click, FinishShutdown, PassShutdown, QuitTray, PageSelect,
     PageShown
<1> QED
  BY <1>1, <1>2, <1>3, <1>4, <1>5, <1>6, <1>7, <1>8 DEF Next, Shutdown, C!Next

(* So the controller's invariant is one of the tray's. *)
LEMMA ControllerInv ==
    /\ Init => CP!Inv
    /\ TypeOK /\ CP!Inv /\ [Next]_vars => CP!Inv'
<1>1. Init => CP!Inv
  BY SameController, CP!InitInv, ErrorsAssumption DEF Init
<1>2. ASSUME TypeOK, CP!Inv, [Next]_vars PROVE CP!Inv'
  <2>1. ctxDone \in BOOLEAN
    BY <1>2 DEF TypeOK, C!TypeOK
  <2>2. [CP!Next]_(CP!vars)
    BY <1>2, <2>1, StepsOfController, SameController
  <2> QED
    BY <1>2, <2>2, CP!NextInv, ErrorsAssumption
<1> QED
  BY <1>1, <1>2

-----------------------------------------------------------------------------

(* What the controller's invariant says in the words of this module.       *)
LEMMA ControllerFacts ==
    ASSUME CP!Inv
    PROVE  /\ C!TypeOK
           /\ Ended => /\ outcome \in C!Outcomes
                       /\ C!Normalise(outcome) \in C!Values
           /\ starter["tray"] \in CP!Past => done # "nil" /\ run # "none"
           /\ \A w \in Shutters :
                 waiter[w] = "returned" => Ended /\ waited[w] = C!Normalise(outcome)
           /\ got["tray"] \in Errors => Ended /\ got["tray"] = C!Normalise(outcome)
<1> USE DEF CP!Inv, CP!TypeOK, CP!Outcomes, CP!Values, C!Outcomes, C!Values, CP!Normalise,
        C!Normalise, Ended
<1>1. C!TypeOK
  BY DEF C!TypeOK
<1>2. Ended => outcome \in C!Outcomes /\ C!Normalise(outcome) \in C!Values
  BY DEF CP!RunInv
<1>3. starter["tray"] \in CP!Past => done # "nil" /\ run # "none"
  BY DEF CP!OnceInv, CP!Past
<1>4. ASSUME NEW w \in Shutters, waiter[w] = "returned"
      PROVE  Ended /\ waited[w] = C!Normalise(outcome)
  BY <1>4 DEF CP!WaitInv, CP!RunInv
<1>5. ASSUME got["tray"] \in Errors
      PROVE  Ended /\ got["tray"] = C!Normalise(outcome)
  BY <1>5, ErrorsAssumption DEF CP!ErrChInv, CP!RunInv
<1> QED
  BY <1>1, <1>2, <1>3, <1>4, <1>5

(* What the controller has once done stays done.                           *)
LEMMA ControllerKeeps ==
    ASSUME CP!Inv, [CP!Next]_(CP!vars)
    PROVE  /\ starter["tray"] \in CP!Past => starter'["tray"] \in CP!Past
           /\ Ended => Ended' /\ outcome' = outcome
           /\ got["tray"] \in Errors => got'["tray"] = got["tray"]
<1> USE DEF CP!Inv, CP!TypeOK, CP!OnceInv, CP!ErrChInv, CP!Past, CP!Inside, CP!chans,
        CP!runVars, CP!callers, Ended
<1>1. ASSUME NEW s \in {"tray"}, CP!StartStep(s)
      PROVE  /\ starter[s] \in CP!Past => starter'[s] \in CP!Past
             /\ run # "none" => run' = run
             /\ outcome' = outcome
             /\ got[s] \in Errors => got'[s] = got[s]
  <2> USE DEF CP!Values
  <2>1. CASE CP!EnterOnce(s) \/ CP!MakeDone(s) \/ CP!MakeErrCh(s)
    BY <2>1 DEF CP!EnterOnce, CP!MakeDone, CP!MakeErrCh
  <2>2. CASE CP!Spawn(s) \/ CP!PassOnce(s)
    BY <2>2 DEF CP!Spawn, CP!PassOnce
  <2>3. CASE CP!Receive(s)
    <3>1. got[s] = Pending
      BY <2>3 DEF CP!Receive, CP!ReceiveValue, CP!ReceiveClosed
    <3> QED
      BY <2>3, <3>1, ErrorsAssumption DEF CP!Receive, CP!ReceiveValue, CP!ReceiveClosed
  <2> QED
    BY <1>1, <2>1, <2>2, <2>3 DEF CP!StartStep
<1>2. ASSUME NEW o \in CP!Outcomes, CP!RunnerReturns(o)
      PROVE  run = "running" /\ UNCHANGED <<starter, got>>
  BY <1>2 DEF CP!RunnerReturns
<1>3. ASSUME CP!Finishing PROVE Ended' /\ UNCHANGED <<outcome, starter, got>>
  BY <1>3 DEF CP!Finishing, CP!StoreResult, CP!PublishErr, CP!CloseErrCh, CP!CloseDone
<1>4. ASSUME NEW w \in Shutters, CP!WaitStep(w)
      PROVE  UNCHANGED <<run, outcome, starter, got>>
  BY <1>4 DEF CP!WaitStep, CP!WaitUnstarted, CP!WaitBlock, CP!WaitWake, CP!WaitReturn
<1>5. ASSUME CP!Cancel \/ CP!Terminated \/ UNCHANGED CP!vars
      PROVE  UNCHANGED <<run, outcome, starter, got>>
  BY <1>5 DEF CP!Cancel, CP!Terminated, CP!vars
<1> QED
  BY <1>1, <1>2, <1>3, <1>4, <1>5 DEF CP!Next

(* The same, of the tray's steps.                                          *)
LEMMA TrayKeeps ==
    ASSUME Inv, [Next]_vars
    PROVE  /\ CP!Inv'
           /\ starter["tray"] \in CP!Past => starter'["tray"] \in CP!Past
           /\ Ended => Ended' /\ outcome' = outcome
           /\ got["tray"] \in Errors => got'["tray"] = got["tray"]
<1>1. CP!Inv' /\ [CP!Next]_(CP!vars)
  <2>1. ctxDone \in BOOLEAN
    BY DEF Inv, TypeOK, C!TypeOK
  <2>2. [CP!Next]_(CP!vars)
    BY <2>1, StepsOfController, SameController
  <2> QED
    BY <2>2, ControllerInv DEF Inv
<1> QED
  BY <1>1, ControllerKeeps DEF Inv

(* The threads are started together, and nobody starts the collector again. *)
LEMMA ReadyStep ==
    ASSUME Inv, [Next]_vars
    PROVE  ReadyInv'
<1> USE DEF Inv, TypeOK, ReadyInv, controller, Threads, Shutters, Goto
<1>0. starter["tray"] \in CP!Past => starter'["tray"] \in CP!Past
  BY TrayKeeps
<1>1. CASE ParentCancel
  BY <1>1 DEF ParentCancel
<1>2. CASE Propagate
  BY <1>2, <1>0 DEF Propagate
<1>3. CASE ExternalQuit
  BY <1>3 DEF ExternalQuit
<1>4. ASSUME NEW i \in Pages \cup {"quit"}, Click(i) PROVE ReadyInv'
  BY <1>4 DEF Click
<1>5. CASE StartCollector
  BY <1>5 DEF StartCollector, CP!Past
<1>6. CASE LoopEnds
  BY <1>6, <1>0 DEF LoopEnds
<1>7. CASE ReturnResult
  BY <1>7, <1>0 DEF ReturnResult
<1>8. ASSUME NEW t \in Shutters, EnterShutdown(t) PROVE ReadyInv'
  BY <1>8, <1>0 DEF EnterShutdown
<1>9. ASSUME NEW t \in Shutters, AwaitCollector(t) PROVE ReadyInv'
  BY <1>9, <1>0 DEF AwaitCollector
<1>10. ASSUME NEW t \in Shutters, FinishShutdown(t) PROVE ReadyInv'
  BY <1>10, <1>0 DEF FinishShutdown, AfterShutdown
<1>11. ASSUME NEW t \in Shutters, PassShutdown(t) PROVE ReadyInv'
  BY <1>11, <1>0 DEF PassShutdown, AfterShutdown
<1>12. ASSUME NEW t \in {"err", "ctx", "quit"}, QuitTray(t) PROVE ReadyInv'
  BY <1>12, <1>0 DEF QuitTray
<1>13. CASE CollectorEnded
  BY <1>13, <1>0 DEF CollectorEnded
<1>14. CASE ReportFailure
  BY <1>14, <1>0 DEF ReportFailure
<1>15. CASE ParentEnded
  BY <1>15, <1>0 DEF ParentEnded
<1>16. CASE QuitSelect
  BY <1>16, <1>0 DEF QuitSelect
<1>17. ASSUME NEW p \in Pages, PageSelect(p) PROVE ReadyInv'
  BY <1>17, <1>0 DEF PageSelect
<1>18. ASSUME NEW p \in Pages, PageShown(p) PROVE ReadyInv'
  BY <1>18, <1>0 DEF PageShown
<1>19. CASE RunnerReturns
  BY <1>19, <1>0 DEF RunnerReturns
<1>20. CASE CollectorFinishing
  BY <1>20, <1>0 DEF CollectorFinishing
<1>21. CASE Exited \/ UNCHANGED vars
  BY <1>21 DEF Exited, vars, controller, onces
<1> QED
  BY <1>1, <1>2, <1>3, <1>4, <1>5, <1>6, <1>7, <1>8, <1>9, <1>10, <1>11, <1>12,
     <1>13, <1>14, <1>15, <1>16, <1>17, <1>18, <1>19, <1>20, <1>21
  DEF Next, Shutdown

(* One thread is inside shutdown, and only that thread waits for the       *)
(* collector.                                                              *)
LEMMA ShutdownStep ==
    ASSUME Inv, [Next]_vars
    PROVE  ShutdownInv'
<1> USE DEF Inv, TypeOK, C!TypeOK, ReadyInv, ShutdownInv, controller, onces, Threads,
        Shutters, Goto
<1>1. CASE ParentCancel
  BY <1>1 DEF ParentCancel
<1>2. CASE Propagate
  BY <1>2 DEF Propagate, C!Cancel, C!callers
<1>3. CASE ExternalQuit
  BY <1>3 DEF ExternalQuit
<1>4. ASSUME NEW i \in Pages \cup {"quit"}, Click(i) PROVE ShutdownInv'
  BY <1>4 DEF Click
<1>5. CASE StartCollector
  BY <1>5 DEF StartCollector, C!EnterOnce, C!MakeDone, C!MakeErrCh, C!Spawn, C!callers
<1>6. CASE LoopEnds
  BY <1>6 DEF LoopEnds
<1>7. CASE ReturnResult
  BY <1>7 DEF ReturnResult
<1>8. ASSUME NEW t \in Shutters, EnterShutdown(t) PROVE ShutdownInv'
  BY <1>8 DEF EnterShutdown
<1>9. ASSUME NEW t \in Shutters, AwaitCollector(t) PROVE ShutdownInv'
  <2>1. done # "nil"
    <3>1. pc["main"] # "onReady"
      BY <1>9 DEF AwaitCollector
    <3> QED
      BY <3>1, ControllerFacts
  <2>2. /\ waiter[t] = "idle" => waiter' = [waiter EXCEPT ![t] = "blocked"]
        /\ waiter[t] = "blocked" => waiter' = [waiter EXCEPT ![t] = "woken"]
        /\ waiter[t] = "woken" => waiter' = [waiter EXCEPT ![t] = "returned"]
    BY <1>9, <2>1 DEF AwaitCollector, C!WaitStep, C!WaitUnstarted, C!WaitBlock, C!WaitWake,
       C!WaitReturn
  <2> QED
    BY <1>9, <2>2 DEF AwaitCollector
<1>10. ASSUME NEW t \in Shutters, FinishShutdown(t) PROVE ShutdownInv'
  BY <1>10 DEF FinishShutdown, Send, AfterShutdown
<1>11. ASSUME NEW t \in Shutters, PassShutdown(t) PROVE ShutdownInv'
  BY <1>11 DEF PassShutdown, AfterShutdown
<1>12. ASSUME NEW t \in {"err", "ctx", "quit"}, QuitTray(t) PROVE ShutdownInv'
  BY <1>12 DEF QuitTray
<1>13. CASE CollectorEnded
  BY <1>13 DEF CollectorEnded, C!Receive, C!ReceiveValue, C!ReceiveClosed
<1>14. CASE ReportFailure
  BY <1>14 DEF ReportFailure, Send
<1>15. CASE ParentEnded
  BY <1>15 DEF ParentEnded
<1>16. CASE QuitSelect
  BY <1>16 DEF QuitSelect
<1>17. ASSUME NEW p \in Pages, PageSelect(p) PROVE ShutdownInv'
  BY <1>17 DEF PageSelect
<1>18. ASSUME NEW p \in Pages, PageShown(p) PROVE ShutdownInv'
  BY <1>18 DEF PageShown
<1>19. CASE RunnerReturns
  BY <1>19 DEF RunnerReturns, C!RunnerReturns, C!callers
<1>20. CASE CollectorFinishing
  BY <1>20 DEF CollectorFinishing, C!Finishing, C!StoreResult, C!PublishErr, C!CloseErrCh,
     C!CloseDone, C!callers
<1>21. CASE Exited \/ UNCHANGED vars
  BY <1>21 DEF Exited, vars, controller, onces
<1> QED
  BY <1>1, <1>2, <1>3, <1>4, <1>5, <1>6, <1>7, <1>8, <1>9, <1>10, <1>11, <1>12,
     <1>13, <1>14, <1>15, <1>16, <1>17, <1>18, <1>19, <1>20, <1>21
  DEF Next, Shutdown

(* What finish puts into the empty buffer is all there is in it.           *)
LEMMA FirstValue == ASSUME NEW S, NEW v \in S PROVE Append(<<>>, v) = <<v>>
OBVIOUS

(* A verdict is the outcome of a run that has ended, and it is kept until  *)
(* Run takes it.                                                           *)
LEMMA ResultStep ==
    ASSUME Inv, [Next]_vars
    PROVE  ResultInv'
<1> USE DEF Inv, TypeOK, C!TypeOK, ReadyInv, ResultInv, controller, onces, Threads,
        Shutters, Goto
<1>a. /\ Ended => Ended' /\ outcome' = outcome
      /\ got["tray"] \in Errors => got'["tray"] = got["tray"]
  BY TrayKeeps
<1>b. /\ Ended => C!Normalise(outcome) \in C!Values
      /\ \A w \in Shutters :
            waiter[w] = "returned" => Ended /\ waited[w] = C!Normalise(outcome)
      /\ got["tray"] \in Errors => Ended /\ got["tray"] = C!Normalise(outcome)
  BY ControllerFacts
<1>1. CASE ParentCancel
  BY <1>1, <1>a DEF ParentCancel
<1>2. CASE Propagate
  BY <1>2, <1>a DEF Propagate
<1>3. CASE ExternalQuit
  BY <1>3, <1>a DEF ExternalQuit
<1>4. ASSUME NEW i \in Pages \cup {"quit"}, Click(i) PROVE ResultInv'
  BY <1>4, <1>a DEF Click
<1>5. CASE StartCollector
  BY <1>5, <1>a DEF StartCollector
<1>6. CASE LoopEnds
  BY <1>6, <1>a DEF LoopEnds
<1>7. CASE ReturnResult
  <2>1. Ended /\ resultOnce /\ exit = Pending
    BY <1>7 DEF ReturnResult
  <2>2. exit' = C!Normalise(outcome) /\ resultCh' = <<>>
    BY <1>7, <2>1 DEF ReturnResult
  <2>3. exit' # Pending
    BY <2>1, <2>2, <1>b, ErrorsAssumption DEF C!Values
  <2> QED
    BY <1>7, <1>a, <2>1, <2>2, <2>3 DEF ReturnResult
<1>8. ASSUME NEW t \in Shutters, EnterShutdown(t) PROVE ResultInv'
  BY <1>8, <1>a DEF EnterShutdown
<1>9. ASSUME NEW t \in Shutters, AwaitCollector(t) PROVE ResultInv'
  BY <1>9, <1>a DEF AwaitCollector
<1>10. ASSUME NEW t \in Shutters, FinishShutdown(t) PROVE ResultInv'
  <2>1. Ended /\ waited[t] = C!Normalise(outcome)
    BY <1>10, <1>b DEF FinishShutdown, ShutdownInv
  <2>2. resultCh' = IF resultOnce THEN resultCh ELSE <<C!Normalise(outcome)>>
    <3>1. resultCh' = IF resultOnce THEN resultCh ELSE Append(resultCh, C!Normalise(outcome))
      BY <1>10, <2>1 DEF FinishShutdown, Send
    <3>2. Append(<<>>, C!Normalise(outcome)) = <<C!Normalise(outcome)>>
      BY <2>1, <1>b, FirstValue
    <3>3. resultOnce = FALSE => resultCh = <<>>
      OBVIOUS
    <3> QED
      BY <3>1, <3>2, <3>3
  <2>3. resultOnce' = TRUE
    BY <1>10 DEF FinishShutdown, Send
  <2> QED
    BY <1>10, <1>a, <2>1, <2>2, <2>3 DEF FinishShutdown, AfterShutdown
<1>11. ASSUME NEW t \in Shutters, PassShutdown(t) PROVE ResultInv'
  BY <1>11, <1>a DEF PassShutdown, ShutdownInv, AfterShutdown
<1>12. ASSUME NEW t \in {"err", "ctx", "quit"}, QuitTray(t) PROVE ResultInv'
  BY <1>12, <1>a DEF QuitTray
<1>13. CASE CollectorEnded
  <2>1. got'["tray"] \in C!Values
    BY <1>13, <1>b DEF CollectorEnded, C!Receive, C!ReceiveValue, C!ReceiveClosed, C!Values
  <2> QED
    BY <1>13, <1>a, <2>1 DEF CollectorEnded, C!Values
<1>14. CASE ReportFailure
  <2>1. Ended /\ got["tray"] = C!Normalise(outcome)
    BY <1>14, <1>b DEF ReportFailure
  <2>2. resultCh' = IF resultOnce THEN resultCh ELSE <<C!Normalise(outcome)>>
    <3>1. resultCh' = IF resultOnce THEN resultCh ELSE Append(resultCh, C!Normalise(outcome))
      BY <1>14, <2>1 DEF ReportFailure, Send
    <3>2. Append(<<>>, C!Normalise(outcome)) = <<C!Normalise(outcome)>>
      BY <2>1, <1>b, FirstValue
    <3>3. resultOnce = FALSE => resultCh = <<>>
      OBVIOUS
    <3> QED
      BY <3>1, <3>2, <3>3
  <2>3. resultOnce' = TRUE
    BY <1>14 DEF ReportFailure, Send
  <2> QED
    BY <1>14, <1>a, <2>1, <2>2, <2>3 DEF ReportFailure
<1>15. CASE ParentEnded
  BY <1>15, <1>a DEF ParentEnded
<1>16. CASE QuitSelect
  BY <1>16, <1>a DEF QuitSelect
<1>17. ASSUME NEW p \in Pages, PageSelect(p) PROVE ResultInv'
  BY <1>17, <1>a, PagesAssumption DEF PageSelect
<1>18. ASSUME NEW p \in Pages, PageShown(p) PROVE ResultInv'
  BY <1>18, <1>a, PagesAssumption DEF PageShown
<1>19. CASE RunnerReturns
  BY <1>19, <1>a DEF RunnerReturns
<1>20. CASE CollectorFinishing
  BY <1>20, <1>a DEF CollectorFinishing
<1>21. CASE Exited \/ UNCHANGED vars
  BY <1>21, <1>a DEF Exited, vars, controller, onces
<1> QED
  BY <1>1, <1>2, <1>3, <1>4, <1>5, <1>6, <1>7, <1>8, <1>9, <1>10, <1>11, <1>12,
     <1>13, <1>14, <1>15, <1>16, <1>17, <1>18, <1>19, <1>20, <1>21
  DEF Next, Shutdown

(* The tray's own variables keep their types.                               *)
LEMMA TypeStep ==
    ASSUME Inv, [Next]_vars
    PROVE  TypeOK'
<1> USE DEF Inv, TypeOK, ResultInv, controller, onces, Threads, Shutters, Goto
<1>a. C!TypeOK'
  BY TrayKeeps DEF CP!Inv, CP!TypeOK, C!TypeOK, CP!Values, C!Values, CP!Outcomes, C!Outcomes
<1>b. \A w \in Shutters : waiter[w] = "returned" => waited[w] \in C!Values
  BY ControllerFacts
<1>1. CASE ParentCancel
  BY <1>1, <1>a DEF ParentCancel
<1>2. CASE Propagate
  BY <1>2, <1>a DEF Propagate
<1>3. CASE ExternalQuit
  BY <1>3, <1>a DEF ExternalQuit
<1>4. ASSUME NEW i \in Pages \cup {"quit"}, Click(i) PROVE TypeOK'
  BY <1>4, <1>a DEF Click
<1>5. CASE StartCollector
  BY <1>5, <1>a DEF StartCollector
<1>6. CASE LoopEnds
  BY <1>6, <1>a DEF LoopEnds
<1>7. CASE ReturnResult
  BY <1>7, <1>a DEF ReturnResult
<1>8. ASSUME NEW t \in Shutters, EnterShutdown(t) PROVE TypeOK'
  BY <1>8, <1>a DEF EnterShutdown
<1>9. ASSUME NEW t \in Shutters, AwaitCollector(t) PROVE TypeOK'
  BY <1>9, <1>a DEF AwaitCollector
<1>10. ASSUME NEW t \in Shutters, FinishShutdown(t) PROVE TypeOK'
  <2>1. waited[t] \in C!Values
    BY <1>10, <1>b DEF FinishShutdown, ShutdownInv
  <2> QED
    BY <1>10, <1>a, <2>1 DEF FinishShutdown, Send, AfterShutdown
<1>11. ASSUME NEW t \in Shutters, PassShutdown(t) PROVE TypeOK'
  BY <1>11, <1>a DEF PassShutdown, AfterShutdown
<1>12. ASSUME NEW t \in {"err", "ctx", "quit"}, QuitTray(t) PROVE TypeOK'
  BY <1>12, <1>a DEF QuitTray
<1>13. CASE CollectorEnded
  BY <1>13, <1>a DEF CollectorEnded
<1>14. CASE ReportFailure
  <2>1. got["tray"] \in C!Values
    BY <1>14 DEF ReportFailure, ResultInv, C!Values
  <2> QED
    BY <1>14, <1>a, <2>1 DEF ReportFailure, Send
<1>15. CASE ParentEnded
  BY <1>15, <1>a DEF ParentEnded
<1>16. CASE QuitSelect
  BY <1>16, <1>a DEF QuitSelect
<1>17. ASSUME NEW p \in Pages, PageSelect(p) PROVE TypeOK'
  BY <1>17, <1>a DEF PageSelect
<1>18. ASSUME NEW p \in Pages, PageShown(p) PROVE TypeOK'
  BY <1>18, <1>a DEF PageShown
<1>19. CASE RunnerReturns
  BY <1>19, <1>a DEF RunnerReturns
<1>20. CASE CollectorFinishing
  BY <1>20, <1>a DEF CollectorFinishing
<1>21. CASE Exited \/ UNCHANGED vars
  BY <1>21, <1>a DEF Exited, vars, controller, onces
<1> QED
  BY <1>1, <1>2, <1>3, <1>4, <1>5, <1>6, <1>7, <1>8, <1>9, <1>10, <1>11, <1>12,
     <1>13, <1>14, <1>15, <1>16, <1>17, <1>18, <1>19, <1>20, <1>21
  DEF Next, Shutdown

-----------------------------------------------------------------------------
(* The invariant holds when Run is called ...                              *)
LEMMA InitInv == Init => Inv
<1> SUFFICES ASSUME Init PROVE Inv
  OBVIOUS
<1>1. CP!Inv
  BY ControllerInv
<1>2. TypeOK
  <2>1. C!TypeOK
    BY <1>1, ControllerFacts
  <2>2. <<>> \in Seq(C!Values) /\ Len(<<>>) <= 1
    OBVIOUS
  <2> QED
    BY <2>1, <2>2 DEF TypeOK, Init, Threads, Shutters
<1>3. ReadyInv /\ ShutdownInv /\ ResultInv
  BY DEF Init, C!Init, ReadyInv, ShutdownInv, ResultInv, Threads, Shutters
<1> QED
  BY <1>1, <1>2, <1>3 DEF Inv

(* ... and is kept by every step.                                          *)
LEMMA NextInv == Inv /\ [Next]_vars => Inv'
  BY TypeStep, ReadyStep, ShutdownStep, ResultStep, TrayKeeps DEF Inv

(* The inductive invariant holds in every reachable state.                 *)
THEOREM InvHolds == Spec => []Inv
  BY InitInv, NextInv, PTL DEF Spec

(* The tray's variables, and its controller's, keep their types.           *)
THEOREM TypesHold == Spec => []TypeOK
<1>1. Inv => TypeOK
  BY DEF Inv
<1> QED
  BY <1>1, InvHolds, PTL

(* When the driver's thread is through with onExit, the collector has run  *)
(* its deferred calls, whichever thread executed shutdown (88-93, 154-156). *)
THEOREM OnExitWaits == Spec => []OnExitWaitsForCollector
<1>1. Inv => OnExitWaitsForCollector
  BY DEF Inv, ResultInv, Ended, OnExitWaitsForCollector
<1> QED
  BY <1>1, InvHolds, PTL

(* The tray asks the driver to quit only once Run's result is decided, and *)
(* the result stays in resultCh until Run takes it (78-87, 106-127, 158).  *)
THEOREM QuitComesWithAResult == Spec => []QuitHasAResult
<1>1. ASSUME Inv PROVE QuitHasAResult
  <2>1. resultOnce /\ exit = Pending => resultCh # <<>>
    BY <1>1 DEF Inv, ResultInv
  <2>2. pc["main"] = "result" => resultOnce /\ exit = Pending
    BY <1>1 DEF Inv, ResultInv
  <2>3. quitOnce => resultOnce
    BY <1>1 DEF Inv, ResultInv
  <2> QED
    BY <2>1, <2>2, <2>3 DEF QuitHasAResult, Up
<1> QED
  BY <1>1, InvHolds, PTL

-----------------------------------------------------------------------------
(* How a step of the tray looks to its caller, who sees only whether the   *)
(* collector runs, how it ended and what Run returned.                     *)
LEMMA VisibleSteps ==
    ASSUME Inv, [Next]_vars
    PROVE  \/ run = "none" /\ run' = "running" /\ exit = Pending /\ exit' = exit
           \/ /\ run = "running" /\ Ended' /\ outcome' \in C!Outcomes
              /\ exit = Pending /\ exit' = exit
           \/ Ended /\ UNCHANGED <<run, outcome>> /\ exit = Pending
              /\ exit' = C!Normalise(outcome)
           \/ Ended /\ Ended' /\ UNCHANGED <<outcome, exit>>
           \/ UNCHANGED <<run, outcome, exit>>
<1> USE DEF Inv, Ended
<1>1. CASE StartCollector
  <2>1. exit = Pending /\ exit' = exit /\ run = "none"
    BY <1>1 DEF StartCollector, ResultInv, CP!Inv, CP!OnceInv, CP!Inside, C!EnterOnce,
       C!MakeDone, C!MakeErrCh, C!Spawn
  <2> QED
    BY <1>1, <2>1 DEF StartCollector, C!EnterOnce, C!MakeDone, C!MakeErrCh, C!Spawn,
       C!runVars
<1>2. CASE RunnerReturns
  <2>1. run = "running" /\ Ended' /\ outcome' \in C!Outcomes
    BY <1>2 DEF RunnerReturns, C!RunnerReturns
  <2>2. exit = Pending /\ exit' = exit
    BY <1>2, <2>1 DEF RunnerReturns, ResultInv
  <2> QED
    BY <2>1, <2>2
<1>3. CASE ReturnResult
  BY <1>3 DEF ReturnResult, ResultInv
<1>4. CASE CollectorFinishing
  BY <1>4 DEF CollectorFinishing, C!Finishing, C!StoreResult, C!PublishErr, C!CloseErrCh,
     C!CloseDone
<1>5. CASE CollectorEnded
  BY <1>5 DEF CollectorEnded, C!Receive, C!ReceiveValue, C!ReceiveClosed, C!runVars
<1>6. ASSUME NEW t \in Shutters, Shutdown(t)
      PROVE  UNCHANGED <<run, outcome, exit>>
  BY <1>6 DEF Shutdown, EnterShutdown, AwaitCollector, FinishShutdown, PassShutdown,
     controller, C!WaitStep, C!WaitUnstarted, C!WaitBlock, C!WaitWake, C!WaitReturn,
     C!runVars
<1>7. CASE Propagate
  BY <1>7 DEF Propagate, C!Cancel, C!runVars
<1>8. ASSUME \/ ParentCancel \/ ExternalQuit \/ LoopEnds \/ ReportFailure
             \/ ParentEnded \/ QuitSelect \/ Exited \/ UNCHANGED vars
             \/ \E i \in Pages \cup {"quit"} : Click(i)
             \/ \E t \in {"err", "ctx", "quit"} : QuitTray(t)
             \/ \E p \in Pages : PageSelect(p) \/ PageShown(p)
      PROVE  UNCHANGED <<run, outcome, exit>>
  BY <1>8 DEF ParentCancel, ExternalQuit, LoopEnds, ReportFailure, ParentEnded,
     QuitSelect, Exited, vars, controller, Click, QuitTray, PageSelect, PageShown
<1> QED
  BY <1>1, <1>2, <1>3, <1>4, <1>5, <1>6, <1>7, <1>8 DEF Next

(* However quit clicks, signals, a session that ends and a failing         *)
(* collector interleave, Run returns once, after its only collector run,   *)
(* with that run's failure or nil: Spawn is the abstract Collect, the      *)
(* RunnerFunc's return its End, ReturnResult its Exit.                     *)
THEOREM Refinement == Spec => ImplementsAppRun
<1> DEFINE collector == IF run = "none" THEN "idle"
                        ELSE IF run = "running" THEN "running" ELSE "ended"
           verdict   == IF run \in {"none", "running"} THEN Pending
                        ELSE C!Normalise(outcome)
<1>1. Init => App!Init
  BY DEF Init, C!Init, App!Init
<1>2. ASSUME Inv, [Next]_vars PROVE [App!Next]_<<collector, verdict, exit>>
  <2>1. ASSUME run = "none", run' = "running", exit = Pending, exit' = exit
        PROVE  App!Collect
    BY <2>1 DEF App!Collect
  <2>2. ASSUME run = "running", Ended', outcome' \in C!Outcomes, exit = Pending,
               exit' = exit
        PROVE  App!End
    <3>1. C!Normalise(outcome)' \in Errors \cup {NoError}
      BY <2>2 DEF C!Normalise, C!Outcomes, C!Values
    <3> QED
      BY <2>2, <3>1 DEF App!End, Ended
  <2>3. ASSUME Ended, UNCHANGED <<run, outcome>>, exit = Pending,
               exit' = C!Normalise(outcome)
        PROVE  App!Exit
    BY <2>3 DEF App!Exit, Ended
  <2>4. ASSUME Ended, Ended', UNCHANGED <<outcome, exit>>
        PROVE  UNCHANGED <<collector, verdict, exit>>
    BY <2>4 DEF Ended
  <2>5. ASSUME UNCHANGED <<run, outcome, exit>>
        PROVE  UNCHANGED <<collector, verdict, exit>>
    BY <2>5
  <2> QED
    BY <1>2, <2>1, <2>2, <2>3, <2>4, <2>5, VisibleSteps DEF App!Next
<1> QED
  BY <1>1, <1>2, InvHolds, PTL DEF Spec, ImplementsAppRun, App!Spec
=============================================================================
