------------------------------- MODULE AppRun -------------------------------
(***************************************************************************)
(* What both ways of running the program promise its caller, main.go: at   *)
(* most one collector run, and an exit that comes after that run has ended *)
(* and reports exactly how it ended.  Without a run the exit reports nil.  *)
(***************************************************************************)
CONSTANTS Errors, NoError, Pending

VARIABLES collector,  \* "idle", "running", "ended"
          verdict,    \* how the run ended
          exit        \* what the caller was told, Pending while the program is up

Init ==
    /\ collector = "idle" /\ verdict = Pending /\ exit = Pending

Collect ==
    /\ collector = "idle" /\ exit = Pending
    /\ collector' = "running"
    /\ UNCHANGED <<verdict, exit>>

End ==
    /\ collector = "running" /\ exit = Pending
    /\ collector' = "ended"
    /\ verdict' \in Errors \cup {NoError}
    /\ UNCHANGED exit

Exit ==
    /\ collector = "ended" /\ exit = Pending
    /\ exit' = verdict
    /\ UNCHANGED <<collector, verdict>>

ExitIdle ==
    /\ collector = "idle" /\ exit = Pending
    /\ exit' = NoError
    /\ UNCHANGED <<collector, verdict>>

Next == Collect \/ End \/ Exit \/ ExitIdle

Spec == Init /\ [][Next]_<<collector, verdict, exit>>
=============================================================================
