------------------------------ MODULE Program ------------------------------
(***************************************************************************)
(* cmd/workmuch-go/main.go: one launch of the program from its arguments   *)
(* to its exit code, with what the arguments select: the foreground run    *)
(* (module Foreground), the tray (AppRun, which module Tray implements)    *)
(* behind the macOS launch of internal/macosapp/lifecycle.go, the doctor   *)
(* command and the tray's Status page (Doctor, BrowserPage).               *)
(***************************************************************************)
EXTENDS Naturals, Doctor

CONSTANTS Errors, NoError, Canceled, Pending, Visitors,
          MaxArgs    \* bound: length of a command line

ASSUME ErrorsAssumption ==
    /\ NoError \notin Errors /\ Canceled \notin Errors /\ Pending \notin Errors
    /\ NoError # Canceled /\ NoError # Pending /\ Canceled # Pending

VARIABLES ctxDone,   \* the signal context of run (80) is done
          once, done, errCh, errBuf, result, run, err, outcome,
          launches, starter, got, waiter, waited, pc, exit

VARIABLES server, served, expired, request

VARIABLES
    platform,    \* runtime.GOOS: "linux", "darwin", "other"
    args,        \* os.Args[1:]
    cmd,         \* what parseCommand made of them
    stage,       \* where run is
    code,        \* the exit code, Pending while the program is up
    errorLog,    \* the logger writes to the file error.log
    bundle,      \* where the executable is: "checkout", "installed", "elsewhere"
    loginItem,   \* external: the login item's state when it is looked at
    prepared,    \* without proceeding to the tray: "stop", "error"
    trusted,     \* external: the Accessibility permission when it is looked at
    asked,       \* of macOS: a subset of {"register", "prompt"}
    trayCollector, trayVerdict, trayExit,
    report,      \* a report about to be shown, or Pending
    read         \* the status.json it was made from

F == INSTANCE Foreground
T == INSTANCE AppRun
    WITH collector <- trayCollector, verdict <- trayVerdict, exit <- trayExit
Page == INSTANCE BrowserPage

foreground == <<ctxDone, once, done, errCh, errBuf, result, run, err, outcome,
                launches, starter, got, waiter, waited, pc, exit>>
launch == <<errorLog, bundle, prepared, loginItem, trusted, asked>>
trayRun == <<trayCollector, trayVerdict, trayExit>>
page == <<server, served, expired, request>>
shown == <<report, read>>
vars == <<foreground, platform, args, cmd, stage, code, launch, trayRun,
          page, shown>>

(* All that are short, and some in which a later --backend overrides one   *)
(* whose value would be a command or a flag elsewhere.                     *)
CommandLines ==
    (UNION {[1..n -> Tokens] : n \in 0..MaxArgs}) \cup
    {<<"--backend", b, "--backend", "linux">> : b \in {"doctor", "--no-tray"}}

Init ==
    /\ F!Init /\ T!Init /\ Page!Init
    /\ platform \in {"linux", "darwin", "other"}
    /\ args \in CommandLines
    /\ cmd = Pending /\ stage = "parse" /\ code = Pending
    /\ errorLog = FALSE
    /\ bundle = "unknown" /\ prepared = "unknown" /\ loginItem = "unknown"
    /\ trusted = FALSE /\ asked = {}
    /\ report = Pending /\ read = Pending

Switched(flag) == flag \in cmd.opts.switches

Goto(s) == stage' = s /\ UNCHANGED code
Exit(c) == stage' = "exited" /\ code' = c

-----------------------------------------------------------------------------
Parse ==
    /\ stage = "parse"
    /\ cmd' = ParseCommand(args)
    /\ CASE cmd'.kind = "invalid" -> Exit(1)
         [] cmd'.kind = "doctor"  -> Goto("doctor")
         [] cmd'.kind = "run"     -> Goto("logger")
         [] OTHER                 -> Exit(0)
    /\ UNCHANGED <<foreground, platform, args, launch, trayRun, page, shown>>

(* executeDoctor *)
RunDoctor ==
    /\ stage = "doctor"
    /\ read' \in Reads(platform)
    /\ \E probe \in Probes :
           report' = Diagnostic(platform, cmd.opts.backend, probe)
    /\ Exit(0)
    /\ UNCHANGED <<foreground, platform, args, cmd, launch, trayRun, page>>

(* The file only without a terminal, and if it can be opened. *)
ConfigureLogger ==
    /\ stage = "logger"
    /\ errorLog' \in {FALSE, ~Switched("--qa-console")}
    /\ Goto("mode")
    /\ UNCHANGED <<foreground, platform, args, cmd, bundle, prepared, loginItem, trusted,
                   asked, trayRun, page, shown>>

(* Ctrl+C or SIGTERM, once NotifyContext is in place. *)
Signal ==
    /\ stage \notin {"parse", "doctor", "logger", "exited"}
    /\ F!Signal
    /\ UNCHANGED <<platform, args, cmd, stage, code, launch, trayRun, page, shown>>

(* Mutant: --qa-console alone keeps the tray. *)
SelectRunModeByNoTray ==
    /\ stage = "mode"
    /\ Goto(IF Switched("--no-tray") THEN "foreground" ELSE "executable")
    /\ UNCHANGED <<foreground, platform, args, cmd, launch, trayRun, page, shown>>

SelectRunMode ==
    /\ stage = "mode"
    /\ Goto(IF Switched("--qa-console") \/ Switched("--no-tray")
            THEN "foreground" ELSE "executable")
    /\ UNCHANGED <<foreground, platform, args, cmd, launch, trayRun, page, shown>>

-----------------------------------------------------------------------------
(* app.Run, and the collector's goroutine. *)
RunForeground ==
    /\ stage = "foreground"
    /\ F!Check \/ F!Start \/ F!Wait \/ F!Return
    /\ UNCHANGED <<platform, args, cmd, stage, code, launch, trayRun, page, shown>>

RunCollector ==
    /\ stage = "foreground"
    /\ F!Collector
    /\ UNCHANGED <<platform, args, cmd, stage, code, launch, trayRun, page, shown>>

(* Mutant: an error that comes with a cancelled context is a clean stop. *)
ExitCodeUnlessTold(e) == IF e \in Errors /\ ~ctxDone THEN 1 ELSE 0

ExitCode(e) == IF e \in Errors THEN 1 ELSE 0

(* executeRunMode returns. *)
ReturnFromRun ==
    /\ \/ stage = "foreground" /\ pc = "returned" /\ Exit(ExitCode(exit))
       \/ stage = "prepared" /\ Exit(IF prepared = "error" THEN 1 ELSE 0)
       \/ stage = "tray" /\ trayExit # Pending /\ Exit(ExitCode(trayExit))
    /\ UNCHANGED <<foreground, platform, args, cmd, launch, trayRun, page, shown>>

-----------------------------------------------------------------------------
(* prepareNormalTrayLaunch; os.Executable may fail. *)
PrepareLaunch ==
    /\ stage = "executable"
    /\ \/ Goto("prepared") /\ prepared' = "error" /\ UNCHANGED bundle
       \/ /\ UNCHANGED prepared
          /\ bundle' \in {"checkout"} \cup
                         IF platform = "darwin" THEN {"installed", "elsewhere"} ELSE {}
          /\ Goto(CASE bundle' = "checkout"  -> "tray"
                    [] bundle' = "elsewhere" -> "dialog"
                    [] OTHER                 -> "login")
    /\ UNCHANGED <<foreground, platform, args, cmd, errorLog, loginItem, trusted, asked,
                   trayRun, page, shown>>

(* The move dialog: the user closes it, or showing it fails.  It blocks,   *)
(* whatever the context.                                                   *)
ShowDialog ==
    /\ stage = "dialog"
    /\ prepared' \in {"stop", "error"}
    /\ Goto("prepared")
    /\ UNCHANGED <<foreground, platform, args, cmd, errorLog, bundle, loginItem, trusted,
                   asked, trayRun, page, shown>>

(* configureLoginItem: Status, "error" when it fails, then Register, whose *)
(* error is only logged.  Every other state is logged, as "not_found" is.  *)
ConfigureLoginItem ==
    /\ stage = "login"
    /\ loginItem' \in {"not_registered", "enabled", "requires_approval", "not_found", "error"}
    /\ asked' = IF loginItem' = "not_registered" THEN asked \cup {"register"} ELSE asked
    /\ Goto("accessibility")
    /\ UNCHANGED <<foreground, platform, args, cmd, errorLog, bundle, prepared, trusted,
                   trayRun, page, shown>>

(* promptForAccessibility: a failed check prompts nobody. *)
PromptForAccessibility ==
    /\ stage = "accessibility"
    /\ trusted' \in BOOLEAN
    /\ asked' \in {asked} \cup IF trusted' THEN {} ELSE {asked \cup {"prompt"}}
    /\ Goto("tray")
    /\ UNCHANGED <<foreground, platform, args, cmd, errorLog, bundle, prepared, loginItem,
                   trayRun, page, shown>>

-----------------------------------------------------------------------------
(* tray.RunWithContext, as far as AppRun tells. *)
RunTray ==
    /\ stage = "tray"
    /\ T!Next
    /\ UNCHANGED <<foreground, platform, args, cmd, stage, code, launch, page, shown>>

(* A click on Status makes a report from status.json. *)
CollectStatusReport ==
    /\ stage = "tray" /\ trayCollector # "idle" /\ report = Pending /\ server = "none"
    /\ read' \in Reads(platform)
    /\ report' = Runtime(platform, cmd.opts.backend, read')
    /\ UNCHANGED <<foreground, platform, args, cmd, stage, code, launch, trayRun, page>>

(* The report goes to a file that macOS opens, or to a page served for the *)
(* browser; each may fail.  Bound: one page a launch.                      *)
ShowStatus ==
    /\ stage = "tray" /\ report # Pending
    /\ report' = Pending /\ read' = Pending
    /\ (platform = "linux" /\ Page!Serve) \/ UNCHANGED page
    /\ UNCHANGED <<foreground, platform, args, cmd, stage, code, launch, trayRun>>

RunPage ==
    /\ stage = "tray"
    /\ Page!Next
    /\ UNCHANGED <<foreground, platform, args, cmd, stage, code, launch, trayRun, shown>>

Exited == stage = "exited" /\ UNCHANGED vars

Next ==
    \/ Parse \/ RunDoctor \/ ConfigureLogger \/ Signal \/ SelectRunMode
    \/ RunForeground \/ RunCollector \/ ReturnFromRun
    \/ PrepareLaunch \/ ShowDialog \/ ConfigureLoginItem \/ PromptForAccessibility
    \/ RunTray \/ CollectStatusReport \/ ShowStatus \/ RunPage \/ Exited

(***************************************************************************)
(* run's own steps and the foreground run's are taken, as in Foreground;   *)
(* the tray ends once it is told to or its collector has failed, as module *)
(* Tray shows; the page's goroutines run.  Nobody closes the dialog.       *)
(***************************************************************************)
Fairness ==
    /\ WF_vars(Parse \/ RunDoctor \/ ConfigureLogger \/ SelectRunMode \/ ReturnFromRun
               \/ PrepareLaunch \/ ConfigureLoginItem \/ PromptForAccessibility)
    /\ WF_vars(RunForeground)
    /\ WF_vars(ctxDone /\ RunCollector)
    /\ WF_vars(run # "running" /\ RunCollector)
    /\ WF_vars((ctxDone \/ trayVerdict # Pending) /\ RunTray)
    /\ WF_vars(RunPage /\ (Page!Expire \/ Page!Shutdown \/ Page!ShutdownEnds))
    /\ \A v \in Visitors : WF_vars(RunPage /\ Page!Answer(v))

Spec == Init /\ [][Next]_vars /\ Fairness

-----------------------------------------------------------------------------
(* Run returns only after the collector has, with its failure or nil       *)
(* (runner.go 20-28, controller.go 62-100).                                *)
ForegroundImplementsAppRun == F!ImplementsAppRun

(* A signal ends the program although nobody receives from errCh           *)
(* (runner.go 26-27, controller.go 59: the publish needs its buffer), and  *)
(* a collector that fails does not leave it up, recording nothing; only    *)
(* the move dialog, which does not see the context, may stay (main.go      *)
(* 80-90, 121-137).                                                        *)
EndsWhenToldOrFailed ==
    (ctxDone \/ outcome \in Errors \/ trayVerdict \in Errors)
        ~> (code # Pending \/ stage = "dialog")

(* Word i stands where the parse takes it for a flag or a command: an even *)
(* number of words that each take a value precede it.                      *)
IsFlag(words, i) ==
    \E s \in 1..i :
        /\ s = 1 \/ words[s - 1] \notin Valued
        /\ \A k \in s..(i - 1) : words[k] \in Valued
        /\ (i - s) % 2 = 0

Given(flag) == \E i \in DOMAIN args : args[i] = flag /\ IsFlag(args, i)

(* The value of the last --backend: the parse looks at no other. *)
GivenBackends ==
    {args[i + 1] : i \in {j \in DOMAIN args :
        /\ args[j] = "--backend" /\ IsFlag(args, j)
        /\ \A k \in (j + 1)..Len(args) : ~(args[k] = "--backend" /\ IsFlag(args, k))}}

(* What a command line may do, told from its words without parsing them: a *)
(* command that only prints never collects; --qa-console and --no-tray,    *)
(* and nothing else, keep the tray away, the first also error.log; the     *)
(* last --backend that is acted on names a backend; and macOS is asked for *)
(* a login item or a permission only by the app installed in               *)
(* /Applications, without doctor, --qa-console or --no-tray, and never to  *)
(* force an item back on (main.go 92-137, 170-187; options.go 29-102;      *)
(* lifecycle.go 51-121; macos-release.md 101-105).                         *)
ArgumentsDecide ==
    /\ Given("doctor") \/ Given("--version") \/ Given("--help") =>
           run = "none" /\ trayCollector = "idle"
    /\ Given("--qa-console") \/ Given("--no-tray") => trayCollector = "idle"
    /\ run # "none" => Given("--qa-console") \/ Given("--no-tray")
    /\ Given("--qa-console") => ~errorLog
    /\ stage \in {"foreground", "tray"} \/ report # Pending => GivenBackends \subseteq Backends
    /\ asked # {} =>
           /\ platform = "darwin" /\ bundle = "installed"
           /\ ~Given("doctor") /\ ~Given("--qa-console") /\ ~Given("--no-tray")
    /\ "register" \in asked => loginItem \notin {"enabled", "requires_approval"}

(* The exit code is 1 exactly for a command line that is refused, a launch *)
(* that fails and a collector that fails, also when a signal comes at the  *)
(* same time: workmuch.service restarts on failure only (main.go 48-90).   *)
ExitTellsTheVerdict ==
    code # Pending =>
        (code = 1 <=> \/ cmd.kind = "invalid"
                      \/ prepared = "error"
                      \/ {outcome, trayVerdict} \cap Errors # {})

(* A report does not contradict itself, though its parts are computed in   *)
(* separate places.  X11 sampling that is said to work has found an app or *)
(* a title, over a connection that is there or was until the collector     *)
(* stopped; sampling that failed was tried over a connection, and its      *)
(* error is in the report.  The connection of a status is there exactly    *)
(* while the health line says Running; one that failed is a backend error, *)
(* with nothing sampled; and what has just been saved was an app or a      *)
(* title (collect.go 43-169, render.go 265-320).                           *)
ReportIsCoherent ==
    report # Pending =>
        LET health  == Health(report, read)
            works   == {"App works", "Title works"} \cap health # {}
            running == "Running" \in health
            runtime == report.source = "runtime"
            x11     == report.x11
        IN  /\ x11.sampling = "successful" =>
                   works /\ (x11.connection = "connected" \/ (runtime /\ ~running))
            /\ x11.sampling = "failed" => x11.connection = "connected" /\ report.sampleError
            /\ x11.connection = "connected" =>
                   report.active = "linux" /\ (runtime => running)
            /\ x11.connection = "not attempted" => runtime /\ ~running
            /\ x11.connection = "failed" => report.backendError
            /\ report.backendError => ~works /\ report.active = "none"
            /\ runtime /\ "Saving works" \in health => works

(* The page's server stops before its minute only when a GET has used the  *)
(* page up; a request it took is answered, and it does stop, as long as    *)
(* the program is up (browser_page.go 29-68).                              *)
PageLifetime ==
    /\ [](server \in {"draining", "closed"} /\ ~expired
              => \E v \in Visitors : request[v] \in {"page", "lost"})
    /\ (server # "none") ~> (server = "closed" \/ stage = "exited")
    /\ \A v \in Visitors :
           (request[v] \in Page!Methods) ~> (request[v] \notin Page!Methods \/ stage = "exited")
=============================================================================
