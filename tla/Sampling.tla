------------------------------ MODULE Sampling ------------------------------
(***************************************************************************)
(* The sampling loop on a desktop that changes: runCollector's Schedule    *)
(* with the backend NewBackend selected, MacBackend's queries or the       *)
(* TopLevelWindow that LinuxBackend's query "active" asks for.  What is    *)
(* done with the sample is Collector's.                                    *)
(***************************************************************************)
EXTENDS Integers, FiniteSets

CONSTANTS Periods, ResetInterval, MaxTime, MaxLate, Apps, None,
          Windows, Root, NoWindow, MaxMoves

ASSUME PeriodsAssumption == Periods \subseteq Nat \ {0}
ASSUME TimesAssumption   == {ResetInterval, MaxTime, MaxLate} \subseteq Nat
ASSUME NoneAssumption    == None \notin Apps
ASSUME WindowsAssumption ==
    IsFiniteSet(Windows) /\ Root \notin Windows /\ NoWindow \notin Windows \cup {Root}

VARIABLES now, period, wakeAt, resetAt, phase, alarm, samples, overran
VARIABLES front, titled, permitted, recordable, axTrusted, query, pid, program, title,
          switched, allowed
VARIABLES parent, named, focus, hint, walk, window, found, moves, moved
VARIABLE kind  \* the active backend: "native", "subprocess", "linux"

S == INSTANCE Schedule
M == INSTANCE MacBackend
X == INSTANCE TopLevelWindow

schedule == <<now, period, wakeAt, resetAt, phase, alarm, samples, overran>>
mac == <<front, titled, permitted, recordable, axTrusted, query, pid, program, title,
         switched, allowed>>
x11 == <<parent, named, focus, hint, walk, window, found, moves, moved>>
vars == <<schedule, mac, x11, kind>>

(* The desktop that the backend is not for stays empty. *)
NoMac == front = None /\ titled = {} /\ ~permitted /\ ~recordable
NoX11 == named = {} /\ hint = NoWindow /\ focus = NoWindow /\ \A w \in Windows : parent[w] = Root

Init ==
    /\ kind \in {"native", "subprocess", "linux"}
    /\ S!Init /\ M!Init /\ X!Init
    /\ IF kind = "linux" THEN NoMac ELSE NoX11
    /\ focus \in {CHOOSE w \in Windows : TRUE, Root, NoWindow}  \* no window is special

-----------------------------------------------------------------------------
(* The user and the window manager.  Between two samples nothing is        *)
(* remembered of the window tree: moves count only during a walk.          *)
Desktop ==
    /\ phase # "returned" /\ (kind = "linux" => walk # "none")
    /\ IF kind = "linux" THEN X!Move /\ UNCHANGED mac
                         ELSE (M!Switch \/ M!Permit) /\ UNCHANGED x11
    /\ UNCHANGED <<schedule, kind>>

(* The loop enters Sample, after a reset if one is due. *)
Begin ==
    /\ S!Loop \/ S!Reset
    /\ IF phase' = "sample" /\ kind # "linux"
       THEN M!Start(IF kind = "native" THEN "window" ELSE "name")
       ELSE UNCHANGED mac
    /\ UNCHANGED <<x11, kind>>

MacQuery ==
    /\ kind # "linux"
    /\ \/ M!Step /\ S!Query(FALSE)
       \/ M!Idle /\ S!Query(TRUE)
    /\ UNCHANGED <<x11, kind>>

LinuxQuery ==
    /\ kind = "linux"
    /\ X!Active \/ X!Step
    /\ S!Query(walk' = "none")
    /\ UNCHANGED <<mac, kind>>

(* The sample was local to this round of the loop. *)
Sleep ==
    /\ S!Sleep
    /\ M!Forget /\ X!Forget
    /\ UNCHANGED kind

Rest ==
    /\ S!Wake \/ S!Cancelled
    /\ UNCHANGED <<mac, x11, kind>>

Returned == phase = "returned" /\ UNCHANGED vars

Next == Desktop \/ Begin \/ MacQuery \/ LinuxQuery \/ Sleep \/ Rest \/ Returned

(* Queries are answered, or killed after a second. *)
Spec == Init /\ [][Next]_vars /\ WF_vars(MacQuery \/ LinuxQuery)

-----------------------------------------------------------------------------
OneSamplePerSlot == S!OneSamplePerSlot

(* A sample never gives one application's window to another: the native    *)
(* backend asks for the title of the process it named, though the user     *)
(* went elsewhere meanwhile, and the commands of the subprocess backend    *)
(* can only disagree if the user did (macos_native.go 46-74,               *)
(* macos_subprocess.go 68-85).                                             *)
SampleIsOfOneApplication ==
    phase = "record" /\ program # None /\ title # None =>
        program = title \/ (kind = "subprocess" /\ switched)

(* The permission works from the first sample it is there for, in a        *)
(* program that was started without it: a sample of an application with a  *)
(* window title has the title, whatever the window list shows              *)
(* (macos_native.go 64-73).                                                *)
TitleOncePermitted ==
    phase = "record" /\ kind = "native" /\ allowed /\ program \in titled => title # None

(* What the sample is of: the window the manager calls active; else the    *)
(* nearest window with a title above the focus, else the child of the root *)
(* above it, or the focused root itself, provided that no window moved     *)
(* meanwhile (linux.go 182-209, linux_x11.go 68-102).                      *)
SampleOfTheTopLevelWindow ==
    phase = "record" /\ kind = "linux" /\ found # NoWindow /\ ~moved =>
        LET above == X!Line(focus) \ {focus}
        IN  \/ found = hint
            \/ hint = NoWindow /\ focus = Root /\ found = Root
            \/ /\ hint = NoWindow /\ found \in above \cap named
               /\ \A w \in (above \cap named) \ {found} : w \notin X!Line(focus) \ X!Line(found)
            \/ /\ hint = NoWindow /\ above \cap named = {}
               /\ found \in X!Line(focus) /\ parent[found] = Root

(* A sample comes to an end, though no application is in front or windows  *)
(* move under the walk, if not for ever (macos_native.go 55-61, linux.go   *)
(* 188-208).                                                               *)
EverySampleEnds == phase = "sample" ~> phase = "record"
=============================================================================
