------------------------------- MODULE Doctor -------------------------------
(***************************************************************************)
(* internal/doctor/collect.go and the health checks of render.go: what a   *)
(* report says, from a live probe of the backend (the doctor command) or   *)
(* from status.json (the tray's Status page).  A name or a title is        *)
(* abstracted to whether there is one, the last save to whether it is      *)
(* within recentSaveThreshold; how a report is laid out is left out.       *)
(***************************************************************************)
EXTENDS Options

(* What a backend answers a probe: whether NewBackend and Sample succeed,  *)
(* and what was sampled.  A failing Sample may still have found something. *)
Probes == [open : BOOLEAN, sampled : BOOLEAN, app : BOOLEAN, title : BOOLEAN]

(* What Read of status.json gives.  A status of this platform's collector: *)
(* the tracker takes a sample for successful only when it has activity.    *)
Statuses(platform) ==
    {s \in [kind : {"status"}, running : BOOLEAN, active : Backends,
            app : BOOLEAN, title : BOOLEAN, saved : {"never", "recent", "stale"}] :
        /\ Select(platform, s.active) = s.active
        /\ s.saved # "never" <=> s.app \/ s.title}
Reads(platform) == Statuses(platform) \cup [kind : {"error", "missing"}]

Present(read) == read.kind = "status"

(* report.X11 *)
X11Applicable(platform, selected) == platform = "linux" /\ selected \in {"auto", "linux"}
X11(platform, selected, connection, sampling) ==
    IF X11Applicable(platform, selected)
    THEN [connection |-> connection, sampling |-> sampling]
    ELSE [connection |-> "not applicable", sampling |-> "not applicable"]

-----------------------------------------------------------------------------
(* Mutant: an empty sample is a success. *)
SucceedsUnchecked(platform, selected, probe) == probe.sampled

(* 125-128: on X11 a sample without an app and a title is a failure. *)
Succeeds(platform, selected, probe) ==
    probe.sampled /\ (X11Applicable(platform, selected) => probe.app \/ probe.title)

(* Collect without UseRuntimeSample.  The deferred Close runs when the     *)
(* report has been returned by value: its error is never in it.            *)
Diagnostic(platform, selected, probe) ==
    LET active  == Select(platform, selected)
        open    == probe.open /\ active # "unsupported"
        sampled == Succeeds(platform, selected, probe)
    IN  [source       |-> "probe",
         active       |-> IF open THEN active ELSE "none",
         backendError |-> ~open,
         sampleError  |-> open /\ ~sampled,
         x11          |-> IF open
                          THEN X11(platform, selected, "connected",
                                   IF sampled THEN "successful" ELSE "failed")
                          ELSE X11(platform, selected, "failed", "not attempted"),
         app          |-> open /\ probe.app,
         title        |-> open /\ probe.title]

(* populateRuntimeSample *)
Runtime(platform, selected, read) ==
    LET linux == Present(read) /\ read.active = "linux"
    IN  [source       |-> "runtime",
         active       |-> IF Present(read) THEN read.active ELSE "none",
         backendError |-> FALSE,
         sampleError  |-> FALSE,
         x11          |-> X11(platform, selected,
                              IF linux /\ read.running THEN "connected" ELSE "not attempted",
                              IF linux /\ read.saved # "never" THEN "successful"
                                                               ELSE "not attempted"),
         app          |-> Present(read) /\ read.app,
         title        |-> Present(read) /\ read.title]

-----------------------------------------------------------------------------
(* The health checks: runningHealth, lastSaveHealth, fieldHealth and       *)
(* savingHealth, each from the report or from the status it was given; a   *)
(* status always names a worklog (runner.go 81).                           *)
Health(report, read) ==
    {check \in {"Running", "Last save", "Title works", "App works", "Saving works"} :
        CASE check = "Running"      -> Present(read) /\ read.running
          [] check = "Title works"  -> report.title
          [] check = "App works"    -> report.app
          [] OTHER                  -> Present(read) /\ read.saved = "recent"}
=============================================================================
