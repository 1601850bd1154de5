----------------------------- MODULE StatusStore -----------------------------
(***************************************************************************)
(* internal/status/store.go: status.json is written by the collector's     *)
(* tracker and read by doctor and the tray's Status page, without locks.   *)
(*                                                                         *)
(* Writers are processes; nothing prevents two from running at once, and   *)
(* each may die between any two steps of a Write.  A status is a member of *)
(* Values; Garbled is a file that holds something else, part of one.  The  *)
(* loss of power, after which a file system may keep the rename and lose   *)
(* the data, is not modelled: Write does not sync.                         *)
(***************************************************************************)
CONSTANTS Writers, Readers, Values,
          NotFound,   \* no file; also what Read then returns
          Garbled,    \* a file without a whole status
          Error       \* what Read returns for any other failure

ASSUME ValuesAssumption ==
    /\ NotFound \notin Values /\ Garbled \notin Values /\ Error \notin Values
    /\ NotFound # Garbled /\ NotFound # Error /\ Garbled # Error

VARIABLES
    stored,  \* what status.json holds
    pc,      \* where each writer is in Write
    value,   \* the status it is writing
    temp,    \* what its last temporary file holds, NotFound if there is none
    refused, \* history: the system refused to remove that file
    told,    \* what its last Write returned, "none" while one is under way
    opened,  \* what the file holds that a reader has open, NotFound if none
    got      \* what its last Read returned

storeVars == <<stored, pc, value, temp, refused, told, opened, got>>

StoreTypeOK ==
    /\ stored \in Values \cup {NotFound}
    /\ pc \in [Writers -> {"idle", "create", "encode", "close", "rename", "remove"}]
    /\ value \in [Writers -> Values \cup {NotFound}]
    /\ temp \in [Writers -> Values \cup {NotFound, Garbled}]
    /\ refused \in [Writers -> BOOLEAN]
    /\ told \in [Writers -> {"none", "ok", "failed"}]
    /\ opened \in [Readers -> Values \cup {NotFound}]
    /\ got \in [Readers -> Values \cup {NotFound, Error}]

StoreInit ==
    /\ stored = NotFound
    /\ pc = [w \in Writers |-> "idle"] /\ value = [w \in Writers |-> NotFound]
    /\ temp = [w \in Writers |-> NotFound] /\ refused = [w \in Writers |-> FALSE]
    /\ told = [w \in Writers |-> "none"]
    /\ opened = [r \in Readers |-> NotFound] /\ got = [r \in Readers |-> NotFound]

Goto(w, l) == pc' = [pc EXCEPT ![w] = l]
Holds(w, c) == temp' = [temp EXCEPT ![w] = c]
Tell(w, t) == told' = [told EXCEPT ![w] = t]

(* Write is about to return an error; the deferred call comes first.       *)
Fail(w, l) == Tell(w, "failed") /\ Goto(w, l)

-----------------------------------------------------------------------------
(* Nobody will use a file again that an earlier Write could not remove.    *)
Call(w) ==
    /\ pc[w] = "idle"
    /\ \E v \in Values : value' = [value EXCEPT ![w] = v]
    /\ Goto(w, "create") /\ Tell(w, "none")
    /\ Holds(w, NotFound) /\ refused' = [refused EXCEPT ![w] = FALSE]
    /\ UNCHANGED <<stored, opened, got>>

(* MkdirAll and CreateTemp; the file's name is nobody else's. *)
Create(w) ==
    /\ pc[w] = "create"
    /\ \/ Holds(w, Garbled) /\ Goto(w, "encode") /\ UNCHANGED told
       \/ Fail(w, "idle") /\ UNCHANGED temp
    /\ UNCHANGED <<stored, value, refused, opened, got>>

Encode(w) ==
    /\ pc[w] = "encode"
    /\ \/ Holds(w, value[w]) /\ Goto(w, "close") /\ UNCHANGED told
       \/ Fail(w, "remove") /\ UNCHANGED temp
    /\ UNCHANGED <<stored, value, refused, opened, got>>

CloseTemp(w) ==
    /\ pc[w] = "close"
    /\ \/ Goto(w, "rename") /\ UNCHANGED told
       \/ Fail(w, "remove")
    /\ UNCHANGED <<stored, value, temp, refused, opened, got>>

(* Mutants: a failing rename is reported as a success; removeTemp is reset *)
(* before the rename.                                                      *)
RenameSwallowed(w) ==
    /\ pc[w] = "rename"
    /\ \/ stored' = temp[w] /\ Holds(w, NotFound) /\ Goto(w, "idle")
       \/ Goto(w, "remove") /\ UNCHANGED <<stored, temp>>
    /\ Tell(w, "ok")
    /\ UNCHANGED <<value, refused, opened, got>>

RenameKept(w) ==
    /\ pc[w] = "rename"
    /\ \/ stored' = temp[w] /\ Holds(w, NotFound) /\ Goto(w, "idle") /\ Tell(w, "ok")
       \/ Fail(w, "idle") /\ UNCHANGED <<stored, temp>>
    /\ UNCHANGED <<value, refused, opened, got>>

(* Readers that have the replaced file open keep it. *)
Rename(w) ==
    /\ pc[w] = "rename"
    /\ \/ stored' = temp[w] /\ Holds(w, NotFound) /\ Goto(w, "idle") /\ Tell(w, "ok")
       \/ Fail(w, "remove") /\ UNCHANGED <<stored, temp>>
    /\ UNCHANGED <<value, refused, opened, got>>

(* The deferred Remove, whose own error is discarded. *)
RemoveTemp(w) ==
    /\ pc[w] = "remove" /\ Goto(w, "idle")
    /\ \/ Holds(w, NotFound) /\ UNCHANGED refused
       \/ refused' = [refused EXCEPT ![w] = TRUE] /\ UNCHANGED temp
    /\ UNCHANGED <<stored, value, told, opened, got>>

(* The process dies; its temporary file is an orphan under its own name,   *)
(* and another process takes its place.                                    *)
Die(w) ==
    /\ pc[w] # "idle"
    /\ Holds(w, NotFound) /\ Goto(w, "idle")
    /\ UNCHANGED <<stored, value, refused, told, opened, got>>

-----------------------------------------------------------------------------
(* Read: os.ReadFile opens the file, or finds none, and then reads it. *)
ReadOpen(r) ==
    /\ opened[r] = NotFound
    /\ \/ /\ stored # NotFound
          /\ opened' = [opened EXCEPT ![r] = stored]
          /\ UNCHANGED got
       \/ /\ got' = [got EXCEPT ![r] = IF stored = NotFound THEN NotFound ELSE Error]
          /\ UNCHANGED opened
    /\ UNCHANGED <<stored, pc, value, temp, refused, told>>

(* json.Unmarshal refuses what is not a whole status. *)
Decoded(c) == IF c = Garbled THEN Error ELSE c

ReadRest(r) ==
    /\ opened[r] # NotFound
    /\ \E g \in {Decoded(opened[r]), Error} : got' = [got EXCEPT ![r] = g]
    /\ opened' = [opened EXCEPT ![r] = NotFound]
    /\ UNCHANGED <<stored, pc, value, temp, refused, told>>

-----------------------------------------------------------------------------
StoreWrite(w) == \/ Call(w) \/ Create(w) \/ Encode(w) \/ CloseTemp(w) \/ Rename(w)
                 \/ RemoveTemp(w) \/ Die(w)

StoreNext == \/ \E w \in Writers : StoreWrite(w)
             \/ \E r \in Readers : ReadOpen(r) \/ ReadRest(r)

StoreSpec == StoreInit /\ [][StoreNext]_storeVars

-----------------------------------------------------------------------------
(* A write takes effect when it renames its temporary file, or is over for *)
(* its status when it fails; a read finds what it opens.                   *)
Register == INSTANCE AtomicRegister
    WITH content <- stored,
         writing <- [w \in Writers |-> IF pc[w] \in {"idle", "remove"} THEN NotFound ELSE value[w]],
         reading <- opened

(* However writes, their failures, dying writers and reads interleave: a   *)
(* Write returns nil exactly if the status it was given was put in place,  *)
(* as a whole and by nobody else, and one that fails or dies earlier       *)
(* leaves what is there; a read returns the status that was in place when  *)
(* it opened the file, or an error (51-104).                               *)
ImplementsRegister == Register!Spec

(* A Write that returns leaves its temporary file only if it was asked to  *)
(* remove it, and the system refused, and then it returns an error: it is  *)
(* called after every sample, so that leftovers would pile up (82-102).    *)
NoTempLeft ==
    \A w \in Writers : pc[w] = "idle" /\ temp[w] # NotFound => refused[w] /\ told[w] = "failed"
=============================================================================
