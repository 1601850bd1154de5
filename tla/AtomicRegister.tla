--------------------------- MODULE AtomicRegister ---------------------------
(***************************************************************************)
(* What status.Store promises: a register.  A writer's call puts the       *)
(* status it was given in place, in one step, or leaves the register alone *)
(* and says so.  A read returns what was in place at one moment of it, or  *)
(* an error.  A writer may die in its call.                                *)
(***************************************************************************)
CONSTANTS Writers, Readers, Values, NotFound, Error

VARIABLES content,  \* the value, NotFound before the first write
          writing,  \* the value of each writer's call that is under way
          told,     \* the outcome of each writer's last call
          reading,  \* what each reader has found and not returned yet
          got       \* what each reader's last read returned

regVars == <<content, writing, told, reading, got>>

Init ==
    /\ content = NotFound
    /\ writing = [w \in Writers |-> NotFound] /\ told = [w \in Writers |-> "none"]
    /\ reading = [r \in Readers |-> NotFound] /\ got = [r \in Readers |-> NotFound]

Begin(w) ==
    /\ writing[w] = NotFound
    /\ writing' \in {[writing EXCEPT ![w] = v] : v \in Values}
    /\ told' = [told EXCEPT ![w] = "none"]
    /\ UNCHANGED <<content, reading, got>>

Finish(w, outcome) ==
    /\ writing[w] # NotFound
    /\ writing' = [writing EXCEPT ![w] = NotFound]
    /\ told' = [told EXCEPT ![w] = outcome]
    /\ UNCHANGED <<reading, got>>

(* A Write that returns nil, and one that returns an error. *)
Replace(w) == Finish(w, "ok") /\ content' = writing[w]
Refuse(w)  == Finish(w, "failed") /\ UNCHANGED content

(* The writer's process dies before its status is in place. *)
Abandon(w) == Finish(w, "none") /\ UNCHANGED content

Find(r) ==
    /\ reading[r] = NotFound /\ content # NotFound
    /\ reading' = [reading EXCEPT ![r] = content]
    /\ UNCHANGED <<content, writing, told, got>>

Return(r) ==
    /\ reading[r] # NotFound
    /\ reading' = [reading EXCEPT ![r] = NotFound]
    /\ got' \in {[got EXCEPT ![r] = g] : g \in {reading[r], Error}}
    /\ UNCHANGED <<content, writing, told>>

(* There is no value, or it cannot be read. *)
Miss(r) ==
    /\ reading[r] = NotFound
    /\ got' = [got EXCEPT ![r] = IF content = NotFound THEN NotFound ELSE Error]
    /\ UNCHANGED <<content, writing, told, reading>>

Next == \/ \E w \in Writers : Begin(w) \/ Replace(w) \/ Refuse(w) \/ Abandon(w)
        \/ \E r \in Readers : Find(r) \/ Return(r) \/ Miss(r)

Spec == Init /\ [][Next]_regVars
=============================================================================
