--------------------------- MODULE OneShotResult ---------------------------
(***************************************************************************)
(* What app.Controller promises to the callers of Wait: a run that is      *)
(* started at most once and whose terminal value is written once; a reader *)
(* gets that value after it was written, or nil when there was no run yet. *)
(***************************************************************************)
CONSTANTS Readers, Errors, NoError, Pending

VARIABLES phase,   \* "unstarted", "running", "resolved"
          value,   \* the terminal value, Pending before "resolved"
          seen     \* what each reader was given

Values == Errors \cup {NoError}

Init ==
    /\ phase = "unstarted"
    /\ value = Pending
    /\ seen = [r \in Readers |-> Pending]

Start ==
    /\ phase = "unstarted"
    /\ phase' = "running"
    /\ UNCHANGED <<value, seen>>

Resolve ==
    /\ phase = "running"
    /\ phase' = "resolved"
    /\ value' \in Values
    /\ UNCHANGED seen

ReadUnstarted(r) ==
    /\ phase = "unstarted" /\ seen[r] = Pending
    /\ seen' = [seen EXCEPT ![r] = NoError]
    /\ UNCHANGED <<phase, value>>

Read(r) ==
    /\ phase = "resolved" /\ seen[r] = Pending
    /\ seen' = [seen EXCEPT ![r] = value]
    /\ UNCHANGED <<phase, value>>

Next == Start \/ Resolve \/ \E r \in Readers : ReadUnstarted(r) \/ Read(r)

Spec == Init /\ [][Next]_<<phase, value, seen>>
=============================================================================
