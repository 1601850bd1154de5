----------------------------- MODULE Controller -----------------------------
(***************************************************************************)
(* internal/app/controller.go: one collector run, started by whichever     *)
(* caller of Start wins startOnce, published once on errCh, and awaited by *)
(* any number of callers of Wait.                                          *)
(*                                                                         *)
(* Starters call Start once each and may then receive from the channel it  *)
(* returned; Listeners are those that certainly do (the tray), the others  *)
(* may drop it (the foreground Run).  Waiters call Wait once each.  The    *)
(* RunnerFunc is abstract: it returns any error, nil, or, once the context *)
(* is cancelled, context.Canceled.                                         *)
(***************************************************************************)
EXTENDS Naturals, Sequences, FiniteSets

CONSTANTS Starters, Listeners, Waiters,
          Errors,     \* the failures a run can end with
          NoError,    \* Go's nil error
          Canceled,   \* context.Canceled
          Pending     \* no value yet

ASSUME ListenersAssumption == Listeners \subseteq Starters
ASSUME ErrorsAssumption ==
    /\ NoError \notin Errors /\ Canceled \notin Errors /\ Pending \notin Errors
    /\ NoError # Canceled /\ NoError # Pending /\ Canceled # Pending

VARIABLES
    ctxDone,    \* the context given to Start is cancelled
    once,       \* startOnce: "idle", "running" its function, "done"
    done,       \* c.done: "nil", "open", "closed"
    errCh,      \* c.errCh: "nil", "open", "closed"
    errBuf,     \* what is buffered in c.errCh
    result,     \* c.result
    run,        \* where the collector goroutine is
    err,        \* its local err
    outcome,    \* history: what the RunnerFunc itself returned
    launches,   \* history: how many collector goroutines were started
    starter,    \* where each caller of Start is
    got,        \* what each of them received from the channel
    waiter,     \* where each caller of Wait is
    waited      \* what Wait returned to each of them

chans   == <<done, errCh, errBuf>>
runVars == <<run, err, outcome, launches, result>>
callers == <<starter, got, waiter, waited>>
vars == <<ctxDone, once, done, errCh, errBuf, result, run, err, outcome,
          launches, starter, got, waiter, waited>>

Values   == Errors \cup {NoError}
Outcomes == Values \cup {Canceled}

TypeOK ==
    /\ ctxDone \in BOOLEAN
    /\ once \in {"idle", "running", "done"}
    /\ done \in {"nil", "open", "closed"}
    /\ errCh \in {"nil", "open", "closed"}
    /\ errBuf \in Seq(Values)
    /\ result \in Values
    /\ run \in {"none", "running", "returned", "stored", "published",
                "errClosed", "exited"}
    /\ err \in Values \cup {Pending}
    /\ outcome \in Outcomes \cup {Pending}
    /\ launches \in Nat
    /\ starter \in [Starters -> {"idle", "makeDone", "makeErrCh", "spawn",
                                 "listening", "received"}]
    /\ got \in [Starters -> Values \cup {Pending}]
    /\ waiter \in [Waiters -> {"idle", "blocked", "woken", "returned", "unstarted"}]
    /\ waited \in [Waiters -> Values \cup {Pending}]

Init ==
    /\ ctxDone = FALSE
    /\ once = "idle" /\ done = "nil" /\ errCh = "nil" /\ errBuf = <<>>
    /\ result = NoError
    /\ run = "none" /\ err = Pending /\ outcome = Pending /\ launches = 0
    /\ starter = [s \in Starters |-> "idle"]
    /\ got = [s \in Starters |-> Pending]
    /\ waiter = [w \in Waiters |-> "idle"]
    /\ waited = [w \in Waiters |-> Pending]

-----------------------------------------------------------------------------
(* The caller's side of the context. *)
Cancel ==
    /\ ~ctxDone
    /\ ctxDone' = TRUE
    /\ UNCHANGED <<once, chans, runVars, callers>>

(***************************************************************************)
(* Start.  startOnce.Do runs its function in the first caller, one step    *)
(* per shared write because Wait reads c.done without synchronisation;     *)
(* later callers block until that function has returned.  The branch for a *)
(* nil errCh after Do cannot be reached: Do's function has made it.        *)
(***************************************************************************)
(* Mutant: a flag that is tested and set in two steps instead of a Once. *)
EnterUnguarded(s) ==
    /\ starter[s] = "idle" /\ once # "done"
    /\ once' = "running"
    /\ starter' = [starter EXCEPT ![s] = "makeDone"]
    /\ UNCHANGED <<ctxDone, chans, runVars, got, waiter, waited>>

EnterOnce(s) ==
    /\ starter[s] = "idle" /\ once = "idle"
    /\ once' = "running"
    /\ starter' = [starter EXCEPT ![s] = "makeDone"]
    /\ UNCHANGED <<ctxDone, chans, runVars, got, waiter, waited>>

MakeDone(s) ==
    /\ starter[s] = "makeDone"
    /\ done' = "open"
    /\ starter' = [starter EXCEPT ![s] = "makeErrCh"]
    /\ UNCHANGED <<ctxDone, once, errCh, errBuf, runVars, got, waiter, waited>>

MakeErrCh(s) ==
    /\ starter[s] = "makeErrCh"
    /\ errCh' = "open" /\ errBuf' = <<>>
    /\ starter' = [starter EXCEPT ![s] = "spawn"]
    /\ UNCHANGED <<ctxDone, once, done, runVars, got, waiter, waited>>

Spawn(s) ==
    /\ starter[s] = "spawn"
    /\ run' = "running" /\ launches' = launches + 1
    /\ once' = "done"
    /\ starter' = [starter EXCEPT ![s] = "listening"]
    /\ UNCHANGED <<ctxDone, chans, err, outcome, result, got, waiter, waited>>

PassOnce(s) ==
    /\ starter[s] = "idle" /\ once = "done"
    /\ starter' = [starter EXCEPT ![s] = "listening"]
    /\ UNCHANGED <<ctxDone, once, chans, runVars, got, waiter, waited>>

(* A receive takes the buffered value; from a closed, drained channel it   *)
(* yields the zero value, nil.                                             *)
ReceiveValue(s) ==
    /\ starter[s] = "listening" /\ errBuf # <<>>
    /\ got' = [got EXCEPT ![s] = Head(errBuf)]
    /\ errBuf' = Tail(errBuf)
    /\ starter' = [starter EXCEPT ![s] = "received"]
    /\ UNCHANGED <<ctxDone, once, done, errCh, runVars, waiter, waited>>

ReceiveClosed(s) ==
    /\ starter[s] = "listening" /\ errBuf = <<>> /\ errCh = "closed"
    /\ got' = [got EXCEPT ![s] = NoError]
    /\ starter' = [starter EXCEPT ![s] = "received"]
    /\ UNCHANGED <<ctxDone, once, chans, runVars, waiter, waited>>

Receive(s) == ReceiveValue(s) \/ ReceiveClosed(s)

-----------------------------------------------------------------------------
(* The goroutine Start launches. *)

(* Mutant: cancellation is passed on. *)
NormaliseNothing(o) == o

(* Cancellation is an expected way to stop, not a failure. *)
Normalise(o) == IF o = Canceled THEN NoError ELSE o

(* c.run returns.  It may report Canceled only when the context is. *)
RunnerReturns(o) ==
    /\ run = "running"
    /\ o = Canceled => ctxDone
    /\ outcome' = o
    /\ err' = Normalise(o)
    /\ run' = "returned"
    /\ UNCHANGED <<ctxDone, once, chans, result, launches, callers>>

StoreResult ==
    /\ run = "returned"
    /\ result' = err
    /\ run' = "stored"
    /\ UNCHANGED <<ctxDone, once, chans, err, outcome, launches, callers>>

(* Mutant: make(chan error). *)
Unbuffered == 0

(* make(chan error, 1) *)
ErrChCapacity == 1

(* Mutant: the result is offered again until the channel is closed. *)
PublishAgain ==
    /\ run \in {"stored", "published"}
    /\ Len(errBuf) < ErrChCapacity
    /\ errBuf' = Append(errBuf, err)
    /\ run' = "published"
    /\ UNCHANGED <<ctxDone, once, done, errCh, result, err, outcome, launches, callers>>

(* Mutant: the channel is only closed. *)
PublishNothing ==
    /\ run = "stored" /\ run' = "published"
    /\ UNCHANGED <<ctxDone, once, chans, result, err, outcome, launches, callers>>

PublishErr ==
    /\ run = "stored"
    /\ Len(errBuf) < ErrChCapacity
    /\ errBuf' = Append(errBuf, err)
    /\ run' = "published"
    /\ UNCHANGED <<ctxDone, once, done, errCh, result, err, outcome, launches, callers>>

CloseErrCh ==
    /\ run = "published"
    /\ errCh' = "closed"
    /\ run' = "errClosed"
    /\ UNCHANGED <<ctxDone, once, done, errBuf, result, err, outcome, launches, callers>>

(* Mutant: done is closed as soon as the RunnerFunc has returned. *)
CloseDoneEarly ==
    /\ run \in {"returned", "errClosed"}
    /\ done' = "closed"
    /\ run' = IF run = "errClosed" THEN "exited" ELSE run
    /\ UNCHANGED <<ctxDone, once, errCh, errBuf, result, err, outcome, launches, callers>>

CloseDone ==
    /\ run = "errClosed"
    /\ done' = "closed"
    /\ run' = "exited"
    /\ UNCHANGED <<ctxDone, once, errCh, errBuf, result, err, outcome, launches, callers>>

Finishing == StoreResult \/ PublishErr \/ CloseErrCh \/ CloseDone

-----------------------------------------------------------------------------
(* Wait. *)

WaitUnstarted(w) ==
    /\ waiter[w] = "idle" /\ done = "nil"
    /\ waited' = [waited EXCEPT ![w] = NoError]
    /\ waiter' = [waiter EXCEPT ![w] = "unstarted"]
    /\ UNCHANGED <<ctxDone, once, chans, runVars, starter, got>>

WaitBlock(w) ==
    /\ waiter[w] = "idle" /\ done # "nil"
    /\ waiter' = [waiter EXCEPT ![w] = "blocked"]
    /\ UNCHANGED <<ctxDone, once, chans, runVars, starter, got, waited>>

WaitWake(w) ==
    /\ waiter[w] = "blocked" /\ done = "closed"
    /\ waiter' = [waiter EXCEPT ![w] = "woken"]
    /\ UNCHANGED <<ctxDone, once, chans, runVars, starter, got, waited>>

WaitReturn(w) ==
    /\ waiter[w] = "woken"
    /\ waited' = [waited EXCEPT ![w] = result]
    /\ waiter' = [waiter EXCEPT ![w] = "returned"]
    /\ UNCHANGED <<ctxDone, once, chans, runVars, starter, got>>

-----------------------------------------------------------------------------
StartStep(s) == \/ EnterOnce(s) \/ MakeDone(s) \/ MakeErrCh(s) \/ Spawn(s)
                \/ PassOnce(s) \/ Receive(s)
WaitStep(w)  == WaitUnstarted(w) \/ WaitBlock(w) \/ WaitWake(w) \/ WaitReturn(w)

(* Every call has returned and the goroutine is gone: nothing is left to do. *)
Terminated ==
    /\ run = "exited" /\ ctxDone
    /\ \A s \in Starters : starter[s] = "received"
    /\ \A w \in Waiters : waiter[w] \in {"returned", "unstarted"}
    /\ UNCHANGED vars

Next ==
    \/ Cancel
    \/ \E s \in Starters : StartStep(s)
    \/ \E o \in Outcomes : RunnerReturns(o)
    \/ Finishing
    \/ \E w \in Waiters : WaitStep(w)
    \/ Terminated

(***************************************************************************)
(* Go runs every goroutine that can run.  Nobody is obliged to call Start, *)
(* Wait or cancel, nor to receive unless it is a listener; a RunnerFunc is *)
(* obliged to return only once its context is cancelled.                   *)
(***************************************************************************)
Fairness ==
    /\ \A s \in Starters : WF_vars(MakeDone(s) \/ MakeErrCh(s) \/ Spawn(s))
    /\ \A s \in Listeners : WF_vars(Receive(s))
    /\ WF_vars(ctxDone /\ \E o \in Outcomes : RunnerReturns(o))
    /\ WF_vars(Finishing)
    /\ \A w \in Waiters : WF_vars(WaitWake(w) \/ WaitReturn(w))

Spec == Init /\ [][Next]_vars /\ Fairness

-----------------------------------------------------------------------------
(* However many callers race in Start, one collector goroutine exists, and *)
(* every caller that got past Start found its channel made (57-76).        *)
AtMostOneRun ==
    /\ launches <= 1
    /\ \A s \in Starters : starter[s] = "listening" =>
           launches = 1 /\ errCh # "nil" /\ done # "nil"

(* A Wait that found a run returns only after that run ended, with its     *)
(* failure, and with nil when it was cancelled (90-100): the result is in  *)
(* place before done is closed.  A Wait that read done before Start wrote  *)
(* it returns nil, whatever becomes of the run.                            *)
WaitGivesTheOutcome ==
    \A w \in Waiters : waiter[w] = "returned" =>
        run = "exited" /\ waited[w] = Normalise(outcome)

(* errCh carries the outcome exactly once: after it is published it sits   *)
(* in the buffer until one receiver takes it, and nobody else gets it.     *)
PublishedOnce ==
    /\ errBuf # <<>> => errBuf = <<Normalise(outcome)>>
    /\ \A s \in Starters : got[s] \in Errors =>
           /\ got[s] = outcome
           /\ errBuf = <<>>
           /\ \A t \in Starters \ {s} : got[t] \notin Errors

(* Once the context is cancelled every Wait on a run returns, whether or   *)
(* not anybody receives from errCh (Run in runner.go ignores the channel). *)
CancelReleasesWaiters ==
    \A w \in Waiters :
        (ctxDone /\ waiter[w] = "blocked") ~> (waiter[w] = "returned")

(* A failure reaches somebody who listens: the tray learns that the        *)
(* collector died without having asked it to stop.                         *)
FailureReachesAListener ==
    (outcome \in Errors /\ \E s \in Listeners : starter[s] = "listening")
        ~> (\E s \in Starters : got[s] = outcome)

(* What callers of Wait rely on: a result that is written once.            *)
Abstract == INSTANCE OneShotResult
    WITH Readers <- Waiters,
         phase <- CASE done = "nil"    -> "unstarted"
                    [] done = "open"   -> "running"
                    [] done = "closed" -> "resolved",
         value <- IF done = "closed" THEN result ELSE Pending,
         seen  <- waited

(* To callers of Wait the controller is a result written once and read     *)
(* only after it was written (controller.go:28-31, 88-100).                *)
ImplementsOneShot == Abstract!Spec

(* What the comments on Controller (14-15) and Start (54-55) say: Start    *)
(* may be called many times and the channel it returns receives the        *)
(* terminal run error.                                                     *)
EveryReceiverGetsTheOutcome ==
    \A s \in Starters : starter[s] = "received" => got[s] = Normalise(outcome)
=============================================================================
