----------------------------- MODULE MacBackend -----------------------------
(***************************************************************************)
(* One Sample of the macOS backends: macos_native.go over its bridge, and  *)
(* macos_subprocess.go, on a desktop where the user switches applications  *)
(* and grants or revokes the accessibility permission between any two      *)
(* queries.  A title is named by the application it belongs to.            *)
(***************************************************************************)
CONSTANTS Apps, None

VARIABLES
    front,      \* external: the owner of the frontmost window
    titled,     \* external: the applications whose windows have titles
    permitted,  \* external: the accessibility permission
    recordable, \* external: the window list shows titles (screen recording)
    axTrusted,  \* b.axTrusted
    query,      \* the next query of the sample, "none" outside
    pid, program, title,
    switched,   \* history: the frontmost application changed during this sample
    allowed     \* history: the permission held throughout this sample

desktop == <<front, titled, permitted, recordable>>

(* newMacOSNativeBackend asks for the permission once. *)
Init ==
    /\ front \in Apps \cup {None} /\ titled \in SUBSET Apps
    /\ permitted \in BOOLEAN /\ recordable \in BOOLEAN
    /\ axTrusted = permitted
    /\ query = "none" /\ pid = None /\ program = None /\ title = None
    /\ switched = FALSE /\ allowed = FALSE

(* The user. *)
Switch ==
    /\ front' \in (Apps \cup {None}) \ {front}
    /\ switched' = (query # "none" \/ switched)
    /\ UNCHANGED <<titled, permitted, recordable, axTrusted, query, pid, program, title,
                   allowed>>

Permit ==
    /\ permitted' = ~permitted /\ allowed' = FALSE
    /\ UNCHANGED <<front, titled, recordable, axTrusted, query, pid, program, title,
                   switched>>

(* A sample starts empty and is forgotten when it was used. *)
Start(first) ==
    /\ query = "none" /\ query' = first
    /\ switched' = FALSE /\ allowed' = permitted
    /\ UNCHANGED <<desktop, axTrusted, pid, program, title>>

Forget ==
    /\ pid' = None /\ program' = None /\ title' = None
    /\ switched' = FALSE /\ allowed' = FALSE
    /\ UNCHANGED <<desktop, axTrusted, query>>

TitleOf(app) == IF app \in titled THEN app ELSE None

-----------------------------------------------------------------------------
(* The native backend. *)

(* wmGetFrontmostWindowInfo: process, name and title out of one list. *)
WindowInfo ==
    /\ query = "window"
    /\ pid' = front /\ program' = front
    /\ title' = IF recordable THEN TitleOf(front) ELSE None
    /\ query' = IF front = None THEN "application" ELSE "trust"
    /\ UNCHANGED <<desktop, axTrusted, switched, allowed>>

(* Mutant: it is asked until there is an application. *)
ApplicationAwaited ==
    /\ query = "application"
    /\ pid' = front /\ program' = front
    /\ query' = IF front = None THEN "application" ELSE "trust"
    /\ UNCHANGED <<desktop, axTrusted, title, switched, allowed>>

(* GetFrontmostApplication looks at the list once more. *)
Application ==
    /\ query = "application"
    /\ pid' = front /\ program' = front
    /\ query' = "trust"
    /\ UNCHANGED <<desktop, axTrusted, title, switched, allowed>>

(* Mutant: the permission is only looked at when the backend is made. *)
TrustAtStart ==
    /\ query = "trust"
    /\ query' = IF axTrusted /\ title = None /\ pid # None THEN "title" ELSE "idle"
    /\ UNCHANGED <<desktop, axTrusted, pid, program, title, switched, allowed>>

(* A permission once seen is not looked at again. *)
Trust ==
    /\ query = "trust"
    /\ axTrusted' = (axTrusted \/ permitted)
    /\ query' = IF axTrusted' /\ title = None /\ pid # None THEN "title" ELSE "idle"
    /\ UNCHANGED <<desktop, pid, program, title, switched, allowed>>

(* Mutant: the title of whatever window has the focus by now. *)
FocusedTitleNow ==
    /\ query = "title"
    /\ title' = IF permitted THEN TitleOf(front) ELSE None
    /\ query' = "idle"
    /\ UNCHANGED <<desktop, axTrusted, pid, program, switched, allowed>>

(* GetFocusedWindowTitle of the process found above; what it is refused is *)
(* empty.                                                                  *)
FocusedTitle ==
    /\ query = "title"
    /\ title' = IF permitted THEN TitleOf(pid) ELSE None
    /\ query' = "idle"
    /\ UNCHANGED <<desktop, axTrusted, pid, program, switched, allowed>>

-----------------------------------------------------------------------------
(* The subprocess backend: a command may fail, or be killed after a second. *)

AppNameCommand ==
    /\ query = "name"
    /\ program' \in {front, None}
    /\ query' = "caption"
    /\ UNCHANGED <<desktop, axTrusted, pid, title, switched, allowed>>

WindowTitleCommand ==
    /\ query = "caption"
    /\ title' \in {IF permitted THEN TitleOf(front) ELSE None, None}
    /\ query' = "idle"
    /\ UNCHANGED <<desktop, axTrusted, pid, program, switched, allowed>>

-----------------------------------------------------------------------------
(* The idle time, and completeSample: the sample is returned. *)
Idle ==
    /\ query = "idle" /\ query' = "none"
    /\ UNCHANGED <<desktop, axTrusted, pid, program, title, switched, allowed>>

Step == WindowInfo \/ Application \/ Trust \/ FocusedTitle
        \/ AppNameCommand \/ WindowTitleCommand
=============================================================================
