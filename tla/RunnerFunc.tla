----------------------------- MODULE RunnerFunc -----------------------------
(***************************************************************************)
(* What app.Controller and its owners rely on in the RunnerFunc they run   *)
(* (controller.go 12, 61-75): it returns once, to a call, with a failure   *)
(* or, if its context is cancelled, with nil, and it holds no resource     *)
(* when it does.  The process may end at any time, and be started again.   *)
(***************************************************************************)
CONSTANTS NoError, Failure, Pending

VARIABLES phase,    \* "off", "running", "returned"
          ctxDone,  \* its context is cancelled
          holding,  \* it has files or connections to close
          outcome   \* what it returned, Pending before it did

Init == phase = "off" /\ ctxDone = FALSE /\ holding = FALSE /\ outcome = Pending

Call ==
    /\ phase = "off" /\ phase' = "running"
    /\ ctxDone' = FALSE
    /\ UNCHANGED <<holding, outcome>>

Cancel ==
    /\ phase # "off" /\ ~ctxDone /\ ctxDone' = TRUE
    /\ UNCHANGED <<phase, holding, outcome>>

Work ==
    /\ phase = "running"
    /\ holding' \in BOOLEAN
    /\ UNCHANGED <<phase, ctxDone, outcome>>

Return ==
    /\ phase = "running" /\ phase' = "returned"
    /\ ~holding
    /\ outcome' \in {Failure} \cup (IF ctxDone THEN {NoError} ELSE {})
    /\ UNCHANGED <<ctxDone, holding>>

(* The process exits or dies, and the system closes what it held.          *)
Exit ==
    /\ phase # "off" /\ phase' = "off"
    /\ holding' = FALSE /\ outcome' = Pending
    /\ UNCHANGED ctxDone

Next == Call \/ Cancel \/ Work \/ Return \/ Exit

Spec == Init /\ [][Next]_<<phase, ctxDone, holding, outcome>>
=============================================================================
