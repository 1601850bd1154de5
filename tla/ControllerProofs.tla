-------------------------- MODULE ControllerProofs --------------------------
(***************************************************************************)
(* Proofs about Controller, for any number of callers and any set of       *)
(* failures.  Inv is the inductive invariant; what it adds to the          *)
(* properties is the order of the steps behind them: who may be inside     *)
(* startOnce, and which writes the collector goroutine has already made.   *)
(***************************************************************************)
EXTENDS Controller, TLAPS

Inside == {"makeDone", "makeErrCh", "spawn"}
Past   == {"listening", "received"}

(* startOnce: one caller inside at a time, nothing launched before it      *)
(* leaves, both channels made once anybody is past it.                     *)
OnceInv ==
    /\ \A s \in Starters : starter[s] \in Inside => once = "running"
    /\ \A s, t \in Starters :
           starter[s] \in Inside /\ starter[t] \in Inside => s = t
    /\ \A s \in Starters : starter[s] \in Past => once = "done"
    /\ \A s \in Starters :
           /\ starter[s] = "makeDone" => done = "nil"
           /\ starter[s] \in {"makeErrCh", "spawn"} => done = "open"
           /\ starter[s] = "spawn" => errCh = "open"
    /\ once = "idle" => done = "nil"
    /\ once # "done" => launches = 0 /\ run = "none"
    /\ once = "done" => launches = 1 /\ run # "none" /\ done # "nil" /\ errCh # "nil"

(* The collector goroutine: result before errCh, errCh before done. *)
RunInv ==
    /\ done = "closed" <=> run = "exited"
    /\ errCh = "closed" => run \in {"errClosed", "exited"}
    /\ run \notin {"none", "running"} => outcome \in Outcomes /\ err = Normalise(outcome)
    /\ run \in {"stored", "published", "errClosed", "exited"} => result = err

(* What is buffered or was received is what was published. *)
ErrChInv ==
    /\ run \in {"none", "running", "returned", "stored"} =>
           errBuf = <<>> /\ \A s \in Starters : got[s] = Pending
    /\ errBuf # <<>> => /\ errBuf = <<err>>
                        /\ \A s \in Starters : got[s] = Pending
    /\ \A s \in Starters : starter[s] # "received" => got[s] = Pending
    /\ \A s \in Starters : got[s] \in Errors =>
           /\ got[s] = err
           /\ \A t \in Starters \ {s} : got[t] \notin Errors

WaitInv ==
    \A w \in Waiters :
        /\ waiter[w] \in {"idle", "blocked", "woken"} => waited[w] = Pending
        /\ waiter[w] = "blocked" => done # "nil"
        /\ waiter[w] \in {"woken", "returned"} => run = "exited"
        /\ waiter[w] = "returned" => waited[w] = result

Inv == TypeOK /\ OnceInv /\ RunInv /\ ErrChInv /\ WaitInv
-----------------------------------------------------------------------------
(* Every step keeps the variables in their types. *)
LEMMA TypeStep == TypeOK /\ RunInv /\ [Next]_vars => TypeOK'
<1> SUFFICES ASSUME TypeOK, RunInv, [Next]_vars PROVE TypeOK'
  OBVIOUS
<1> USE DEF TypeOK, RunInv, Values, Outcomes, Normalise, chans, runVars, callers
<1>1. CASE Cancel
  BY <1>1 DEF Cancel
<1>2. ASSUME NEW s \in Starters, EnterOnce(s) PROVE TypeOK'
  BY <1>2 DEF EnterOnce
<1>3. ASSUME NEW s \in Starters, MakeDone(s) PROVE TypeOK'
  BY <1>3 DEF MakeDone
<1>4. ASSUME NEW s \in Starters, MakeErrCh(s) PROVE TypeOK'
  BY <1>4 DEF MakeErrCh
<1>5. ASSUME NEW s \in Starters, Spawn(s) PROVE TypeOK'
  BY <1>5 DEF Spawn
<1>6. ASSUME NEW s \in Starters, PassOnce(s) PROVE TypeOK'
  BY <1>6 DEF PassOnce
<1>7. ASSUME NEW s \in Starters, ReceiveValue(s) PROVE TypeOK'
  BY <1>7 DEF ReceiveValue
<1>8. ASSUME NEW s \in Starters, ReceiveClosed(s) PROVE TypeOK'
  BY <1>8 DEF ReceiveClosed
<1>9. ASSUME NEW o \in Outcomes, RunnerReturns(o) PROVE TypeOK'
  BY <1>9, ErrorsAssumption DEF RunnerReturns
<1>10. CASE StoreResult
  BY <1>10 DEF StoreResult
<1>11. CASE PublishErr
  BY <1>11 DEF PublishErr, ErrChCapacity
<1>12. CASE CloseErrCh
  BY <1>12 DEF CloseErrCh
<1>13. CASE CloseDone
  BY <1>13 DEF CloseDone
<1>14. ASSUME NEW w \in Waiters, WaitUnstarted(w) PROVE TypeOK'
  BY <1>14 DEF WaitUnstarted
<1>15. ASSUME NEW w \in Waiters, WaitBlock(w) PROVE TypeOK'
  BY <1>15 DEF WaitBlock
<1>16. ASSUME NEW w \in Waiters, WaitWake(w) PROVE TypeOK'
  BY <1>16 DEF WaitWake
<1>17. ASSUME NEW w \in Waiters, WaitReturn(w) PROVE TypeOK'
  BY <1>17 DEF WaitReturn
<1>18. CASE UNCHANGED vars
  BY <1>18 DEF vars
<1> QED
  BY <1>1, <1>2, <1>3, <1>4, <1>5, <1>6, <1>7, <1>8, <1>9, <1>10, <1>11, <1>12,
       <1>13, <1>14, <1>15, <1>16, <1>17, <1>18
  DEF Next, StartStep, Receive, Finishing, WaitStep, Terminated

(* Nobody enters startOnce while a caller is inside it, and the collector is
   launched by the caller that is. *)
LEMMA OnceStep == TypeOK /\ OnceInv /\ RunInv /\ [Next]_vars => OnceInv'
<1> SUFFICES ASSUME TypeOK, OnceInv, RunInv, [Next]_vars PROVE OnceInv'
  OBVIOUS
<1> USE DEF TypeOK, OnceInv, RunInv, Inside, Past, chans, runVars, callers
<1>1. CASE Cancel
  BY <1>1 DEF Cancel
<1>2. ASSUME NEW s \in Starters, EnterOnce(s) PROVE OnceInv'
  BY <1>2 DEF EnterOnce
<1>3. ASSUME NEW s \in Starters, MakeDone(s) PROVE OnceInv'
  BY <1>3 DEF MakeDone
<1>4. ASSUME NEW s \in Starters, MakeErrCh(s) PROVE OnceInv'
  BY <1>4 DEF MakeErrCh
<1>5. ASSUME NEW s \in Starters, Spawn(s) PROVE OnceInv'
  BY <1>5 DEF Spawn
<1>6. ASSUME NEW s \in Starters, PassOnce(s) PROVE OnceInv'
  BY <1>6 DEF PassOnce
<1>7. ASSUME NEW s \in Starters, ReceiveValue(s) PROVE OnceInv'
  BY <1>7 DEF ReceiveValue
<1>8. ASSUME NEW s \in Starters, ReceiveClosed(s) PROVE OnceInv'
  BY <1>8 DEF ReceiveClosed
<1>9. ASSUME NEW o \in Outcomes, RunnerReturns(o) PROVE OnceInv'
  BY <1>9, ErrorsAssumption DEF RunnerReturns
<1>10. CASE StoreResult
  BY <1>10 DEF StoreResult
<1>11. CASE PublishErr
  BY <1>11 DEF PublishErr, ErrChCapacity
<1>12. CASE CloseErrCh
  BY <1>12 DEF CloseErrCh
<1>13. CASE CloseDone
  BY <1>13 DEF CloseDone
<1>14. ASSUME NEW w \in Waiters, WaitUnstarted(w) PROVE OnceInv'
  BY <1>14 DEF WaitUnstarted
<1>15. ASSUME NEW w \in Waiters, WaitBlock(w) PROVE OnceInv'
  BY <1>15 DEF WaitBlock
<1>16. ASSUME NEW w \in Waiters, WaitWake(w) PROVE OnceInv'
  BY <1>16 DEF WaitWake
<1>17. ASSUME NEW w \in Waiters, WaitReturn(w) PROVE OnceInv'
  BY <1>17 DEF WaitReturn
<1>18. CASE UNCHANGED vars
  BY <1>18 DEF vars
<1> QED
  BY <1>1, <1>2, <1>3, <1>4, <1>5, <1>6, <1>7, <1>8, <1>9, <1>10, <1>11, <1>12,
       <1>13, <1>14, <1>15, <1>16, <1>17, <1>18
  DEF Next, StartStep, Receive, Finishing, WaitStep, Terminated

(* The collector goroutine writes result, errCh and done in this order. *)
LEMMA RunStep == TypeOK /\ OnceInv /\ RunInv /\ [Next]_vars => RunInv'
<1> SUFFICES ASSUME TypeOK, OnceInv, RunInv, [Next]_vars PROVE RunInv'
  OBVIOUS
<1> USE DEF TypeOK, OnceInv, RunInv, Inside, Past, Outcomes, Values, Normalise,
        chans, runVars, callers
<1>1. CASE Cancel
  BY <1>1 DEF Cancel
<1>2. ASSUME NEW s \in Starters, EnterOnce(s) PROVE RunInv'
  BY <1>2 DEF EnterOnce
<1>3. ASSUME NEW s \in Starters, MakeDone(s) PROVE RunInv'
  BY <1>3 DEF MakeDone
<1>4. ASSUME NEW s \in Starters, MakeErrCh(s) PROVE RunInv'
  BY <1>4 DEF MakeErrCh
<1>5. ASSUME NEW s \in Starters, Spawn(s) PROVE RunInv'
  BY <1>5 DEF Spawn
<1>6. ASSUME NEW s \in Starters, PassOnce(s) PROVE RunInv'
  BY <1>6 DEF PassOnce
<1>7. ASSUME NEW s \in Starters, ReceiveValue(s) PROVE RunInv'
  BY <1>7 DEF ReceiveValue
<1>8. ASSUME NEW s \in Starters, ReceiveClosed(s) PROVE RunInv'
  BY <1>8 DEF ReceiveClosed
<1>9. ASSUME NEW o \in Outcomes, RunnerReturns(o) PROVE RunInv'
  BY <1>9, ErrorsAssumption DEF RunnerReturns
<1>10. CASE StoreResult
  BY <1>10 DEF StoreResult
<1>11. CASE PublishErr
  BY <1>11 DEF PublishErr, ErrChCapacity
<1>12. CASE CloseErrCh
  BY <1>12 DEF CloseErrCh
<1>13. CASE CloseDone
  BY <1>13 DEF CloseDone
<1>14. ASSUME NEW w \in Waiters, WaitUnstarted(w) PROVE RunInv'
  BY <1>14 DEF WaitUnstarted
<1>15. ASSUME NEW w \in Waiters, WaitBlock(w) PROVE RunInv'
  BY <1>15 DEF WaitBlock
<1>16. ASSUME NEW w \in Waiters, WaitWake(w) PROVE RunInv'
  BY <1>16 DEF WaitWake
<1>17. ASSUME NEW w \in Waiters, WaitReturn(w) PROVE RunInv'
  BY <1>17 DEF WaitReturn
<1>18. CASE UNCHANGED vars
  BY <1>18 DEF vars
<1> QED
  BY <1>1, <1>2, <1>3, <1>4, <1>5, <1>6, <1>7, <1>8, <1>9, <1>10, <1>11, <1>12,
       <1>13, <1>14, <1>15, <1>16, <1>17, <1>18
  DEF Next, StartStep, Receive, Finishing, WaitStep, Terminated

(* What goes into errCh comes out once. *)
LEMMA ErrChStep == TypeOK /\ OnceInv /\ RunInv /\ ErrChInv /\ [Next]_vars => ErrChInv'
<1> SUFFICES ASSUME TypeOK, OnceInv, RunInv, ErrChInv, [Next]_vars PROVE ErrChInv'
  OBVIOUS
<1> USE DEF TypeOK, OnceInv, RunInv, ErrChInv, Inside, Past, Values, chans,
        runVars, callers
<1>1. CASE Cancel
  BY <1>1 DEF Cancel
<1>2. ASSUME NEW s \in Starters, EnterOnce(s) PROVE ErrChInv'
  BY <1>2 DEF EnterOnce
<1>3. ASSUME NEW s \in Starters, MakeDone(s) PROVE ErrChInv'
  BY <1>3 DEF MakeDone
<1>4. ASSUME NEW s \in Starters, MakeErrCh(s) PROVE ErrChInv'
  BY <1>4 DEF MakeErrCh
<1>5. ASSUME NEW s \in Starters, Spawn(s) PROVE ErrChInv'
  BY <1>5 DEF Spawn
<1>6. ASSUME NEW s \in Starters, PassOnce(s) PROVE ErrChInv'
  BY <1>6 DEF PassOnce
<1>7. ASSUME NEW s \in Starters, ReceiveValue(s) PROVE ErrChInv'
  BY <1>7 DEF ReceiveValue
<1>8. ASSUME NEW s \in Starters, ReceiveClosed(s) PROVE ErrChInv'
  BY <1>8 , ErrorsAssumption DEF ReceiveClosed
<1>9. ASSUME NEW o \in Outcomes, RunnerReturns(o) PROVE ErrChInv'
  BY <1>9, ErrorsAssumption DEF RunnerReturns
<1>10. CASE StoreResult
  BY <1>10 DEF StoreResult
<1>11. CASE PublishErr
  BY <1>11 DEF PublishErr, ErrChCapacity
<1>12. CASE CloseErrCh
  BY <1>12 DEF CloseErrCh
<1>13. CASE CloseDone
  BY <1>13 DEF CloseDone
<1>14. ASSUME NEW w \in Waiters, WaitUnstarted(w) PROVE ErrChInv'
  BY <1>14 DEF WaitUnstarted
<1>15. ASSUME NEW w \in Waiters, WaitBlock(w) PROVE ErrChInv'
  BY <1>15 DEF WaitBlock
<1>16. ASSUME NEW w \in Waiters, WaitWake(w) PROVE ErrChInv'
  BY <1>16 DEF WaitWake
<1>17. ASSUME NEW w \in Waiters, WaitReturn(w) PROVE ErrChInv'
  BY <1>17 DEF WaitReturn
<1>18. CASE UNCHANGED vars
  BY <1>18 DEF vars
<1> QED
  BY <1>1, <1>2, <1>3, <1>4, <1>5, <1>6, <1>7, <1>8, <1>9, <1>10, <1>11, <1>12,
       <1>13, <1>14, <1>15, <1>16, <1>17, <1>18
  DEF Next, StartStep, Receive, Finishing, WaitStep, Terminated

(* A caller of Wait that was released reads the stored result. *)
LEMMA WaitStepInv == TypeOK /\ OnceInv /\ RunInv /\ WaitInv /\ [Next]_vars => WaitInv'
<1> SUFFICES ASSUME TypeOK, OnceInv, RunInv, WaitInv, [Next]_vars PROVE WaitInv'
  OBVIOUS
<1> USE DEF TypeOK, OnceInv, RunInv, WaitInv, Inside, Past, chans, runVars,
        callers
<1>1. CASE Cancel
  BY <1>1 DEF Cancel
<1>2. ASSUME NEW s \in Starters, EnterOnce(s) PROVE WaitInv'
  BY <1>2 DEF EnterOnce
<1>3. ASSUME NEW s \in Starters, MakeDone(s) PROVE WaitInv'
  BY <1>3 DEF MakeDone
<1>4. ASSUME NEW s \in Starters, MakeErrCh(s) PROVE WaitInv'
  BY <1>4 DEF MakeErrCh
<1>5. ASSUME NEW s \in Starters, Spawn(s) PROVE WaitInv'
  BY <1>5 DEF Spawn
<1>6. ASSUME NEW s \in Starters, PassOnce(s) PROVE WaitInv'
  BY <1>6 DEF PassOnce
<1>7. ASSUME NEW s \in Starters, ReceiveValue(s) PROVE WaitInv'
  BY <1>7 DEF ReceiveValue
<1>8. ASSUME NEW s \in Starters, ReceiveClosed(s) PROVE WaitInv'
  BY <1>8 DEF ReceiveClosed
<1>9. ASSUME NEW o \in Outcomes, RunnerReturns(o) PROVE WaitInv'
  BY <1>9, ErrorsAssumption DEF RunnerReturns
<1>10. CASE StoreResult
  BY <1>10 DEF StoreResult
<1>11. CASE PublishErr
  BY <1>11 DEF PublishErr, ErrChCapacity
<1>12. CASE CloseErrCh
  BY <1>12 DEF CloseErrCh
<1>13. CASE CloseDone
  BY <1>13 DEF CloseDone
<1>14. ASSUME NEW w \in Waiters, WaitUnstarted(w) PROVE WaitInv'
  BY <1>14 DEF WaitUnstarted
<1>15. ASSUME NEW w \in Waiters, WaitBlock(w) PROVE WaitInv'
  BY <1>15 DEF WaitBlock
<1>16. ASSUME NEW w \in Waiters, WaitWake(w) PROVE WaitInv'
  BY <1>16 DEF WaitWake
<1>17. ASSUME NEW w \in Waiters, WaitReturn(w) PROVE WaitInv'
  BY <1>17 DEF WaitReturn
<1>18. CASE UNCHANGED vars
  BY <1>18 DEF vars
<1> QED
  BY <1>1, <1>2, <1>3, <1>4, <1>5, <1>6, <1>7, <1>8, <1>9, <1>10, <1>11, <1>12,
       <1>13, <1>14, <1>15, <1>16, <1>17, <1>18
  DEF Next, StartStep, Receive, Finishing, WaitStep, Terminated

-----------------------------------------------------------------------------
(* The invariant holds initially ... *)
LEMMA InitInv == Init => Inv
<1> SUFFICES ASSUME Init PROVE Inv
  OBVIOUS
<1> USE DEF Init
<1>1. TypeOK
  <2>1. <<>> \in Seq(Values)
    OBVIOUS
  <2> QED
    BY <2>1 DEF TypeOK, Values
<1>2. OnceInv
  BY DEF OnceInv, Inside, Past
<1>3. RunInv
  BY DEF RunInv
<1>4. ErrChInv
  BY ErrorsAssumption DEF ErrChInv
<1>5. WaitInv
  BY DEF WaitInv
<1> QED
  BY <1>1, <1>2, <1>3, <1>4, <1>5 DEF Inv

(* ... and is kept by every step. *)
LEMMA NextInv == Inv /\ [Next]_vars => Inv'
  BY TypeStep, OnceStep, RunStep, ErrChStep, WaitStepInv DEF Inv

(* The inductive invariant holds in every reachable state.                 *)
THEOREM Invariance == Spec => []Inv
  BY InitInv, NextInv, PTL DEF Spec

(* The variables keep their types (the fields and channels of Controller). *)
THEOREM TypeCorrect == Spec => []TypeOK
<1>1. Inv => TypeOK
  BY DEF Inv
<1> QED
  BY <1>1, Invariance, PTL

(* However many callers race in Start, at most one collector goroutine     *)
(* runs, and both channels exist before Start returns to anybody (57-76).  *)
THEOREM OneRun == Spec => []AtMostOneRun
<1>1. Inv => AtMostOneRun
  BY DEF Inv, TypeOK, OnceInv, Past, AtMostOneRun
<1> QED
  BY <1>1, Invariance, PTL

(* A Wait that found a run returns the outcome of the finished run, with   *)
(* cancellation turned into nil (64-70, 90-100).                           *)
THEOREM WaitIsFaithful == Spec => []WaitGivesTheOutcome
<1>1. Inv => WaitGivesTheOutcome
  BY DEF Inv, RunInv, WaitInv, WaitGivesTheOutcome
<1> QED
  BY <1>1, Invariance, PTL

(* No value is lost from errCh, invented or delivered twice (72-73).       *)
THEOREM ErrChDeliversOnce == Spec => []PublishedOnce
<1>1. ASSUME Inv PROVE PublishedOnce
  <2> USE <1>1, ErrorsAssumption DEF Inv
  <2>1. errBuf # <<>> => errBuf = <<Normalise(outcome)>>
    BY DEF TypeOK, RunInv, ErrChInv
  <2>2. ASSUME NEW s \in Starters, got[s] \in Errors
        PROVE  /\ got[s] = outcome
               /\ errBuf = <<>>
               /\ \A t \in Starters \ {s} : got[t] \notin Errors
    <3>1. run \notin {"none", "running"} /\ errBuf = <<>>
      BY <2>2 DEF ErrChInv
    <3>2. got[s] = outcome
      BY <2>2, <3>1 DEF ErrChInv, RunInv, Normalise
    <3> QED
      BY <2>2, <3>1, <3>2 DEF ErrChInv
  <2> QED
    BY <2>1, <2>2 DEF PublishedOnce
<1> QED
  BY <1>1, Invariance, PTL

-----------------------------------------------------------------------------
(* The refinement: MakeDone is the abstract Start, CloseDone resolves the  *)
(* value, the two ways Wait can return are the two reads, and every other  *)
(* step leaves what callers of Wait can see as it was.                     *)
THEOREM Refinement == Spec => ImplementsOneShot
<1> USE DEF Abstract!Values, Values, chans, runVars, callers
<1> DEFINE phase == CASE done = "nil"    -> "unstarted"
                      [] done = "open"   -> "running"
                      [] done = "closed" -> "resolved"
           value == IF done = "closed" THEN result ELSE Pending
<1>1. Init => Abstract!Init
  BY DEF Init, Abstract!Init
<1>2. ASSUME Inv, [Next]_vars PROVE [Abstract!Next]_<<phase, value, waited>>
  <2>0. /\ TypeOK /\ OnceInv /\ RunInv /\ WaitInv
    BY <1>2 DEF Inv
  <2>1. ASSUME NEW s \in Starters, MakeDone(s) PROVE Abstract!Start
    BY <2>0, <2>1 DEF MakeDone, OnceInv, Inside, Abstract!Start
  <2>2. CASE CloseDone
    <3>1. done = "open"
      BY <2>0, <2>2 DEF CloseDone, TypeOK, OnceInv, RunInv
    <3>2. result' \in Values /\ done' = "closed" /\ waited' = waited
      BY <2>0, <2>2 DEF CloseDone, TypeOK
    <3> QED
      BY <3>1, <3>2 DEF Abstract!Next, Abstract!Resolve
  <2>3. ASSUME NEW w \in Waiters, WaitUnstarted(w) PROVE Abstract!ReadUnstarted(w)
    BY <2>0, <2>3 DEF WaitUnstarted, WaitInv, Abstract!ReadUnstarted
  <2>4. ASSUME NEW w \in Waiters, WaitReturn(w) PROVE Abstract!Read(w)
    BY <2>0, <2>4 DEF WaitReturn, WaitInv, RunInv, Abstract!Read
  <2>5. ASSUME NEW s \in Starters,
               EnterOnce(s) \/ MakeErrCh(s) \/ Spawn(s) \/ PassOnce(s) \/ Receive(s)
        PROVE  UNCHANGED <<done, result, waited>>
    BY <2>5 DEF EnterOnce, MakeErrCh, Spawn, PassOnce, Receive, ReceiveValue,
         ReceiveClosed
  <2>6. ASSUME NEW w \in Waiters, WaitBlock(w) \/ WaitWake(w)
        PROVE  UNCHANGED <<done, result, waited>>
    BY <2>6 DEF WaitBlock, WaitWake
  <2>7. CASE StoreResult
    <3>1. done # "closed" /\ done' = done /\ waited' = waited
      BY <2>0, <2>7 DEF StoreResult, RunInv
    <3> QED
      BY <3>1
  <2>8. ASSUME \/ Cancel \/ Terminated \/ PublishErr \/ CloseErrCh \/ UNCHANGED vars
               \/ \E o \in Outcomes : RunnerReturns(o)
        PROVE  UNCHANGED <<done, result, waited>>
    BY <2>8 DEF Cancel, Terminated, PublishErr, CloseErrCh, RunnerReturns, vars
  <2>9. UNCHANGED <<done, result, waited>> => UNCHANGED <<phase, value, waited>>
    OBVIOUS
  <2>10. CASE Next
    BY <2>1, <2>2, <2>3, <2>4, <2>5, <2>6, <2>7, <2>8, <2>9, <2>10
       DEF Next, StartStep, WaitStep, Finishing, Abstract!Next
  <2> QED
    BY <1>2, <2>8, <2>9, <2>10
<1> QED
  BY <1>1, <1>2, Invariance, PTL DEF Spec, ImplementsOneShot, Abstract!Spec

=============================================================================
