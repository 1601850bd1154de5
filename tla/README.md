# WorkMuch in TLA+

WorkMuch samples which application and window the user is working in and
appends the samples to a daily CSV worklog. It runs behind a tray icon, in the
foreground, or as a Linux user service. This directory holds TLA+
specifications of the program, the TLC configurations that check them, and
proofs that TLAPS checks. Paths are relative to the repository; `controller.go 57`
is a line of `internal/app/controller.go`, and so on for the other files.

    tlc -config MCController.cfg MCController     # a run, see the table below
    tlapm ControllerProofs.tla                    # the proofs of a module

`PROJECT.json` names the runs, maps every definition that models code to the
lines it models, and lists the hazards, findings, theorems and mutants.

## The system

| Part | State | Operations | Talks to |
| --- | --- | --- | --- |
| Controller (`app/controller.go`) | `startOnce`, `done`, `errCh`, `result` | `Start`, `Wait` | runs the collector in a goroutine; called by `Run` and the tray |
| Foreground run (`app/runner.go` `Run`, `main.go`) | the signal context | `Run` | controller |
| Tray (`tray/tray.go`) | `resultCh`, three `sync.Once`, the collector's context | `Run`, `onReady`, `onExit`, `finish`, `quitTray`, `shutdown`, menu goroutines | systray driver, controller, pages |
| Collector loop (`app/runner.go` `runCollector`) | locals, deferred calls | one run | backend, worklog, tracker |
| Status tracker (`app/runtime_status.go`) | `value` | `Start`, `Stop`, `Record…` | status store |
| Status store (`status/store.go`) | `status.json` | `Read`, `Write` | written by the tracker, read by doctor and the Status page |
| Worklog (`logging/`) | current path, file, CSV buffer | `WriteSample`, `Flush`, `Close` | file system |
| Linux backend (`backend/linux.go`, `linux_x11.go`) | `client` | `Sample`, `Reset`, `Close` | X server |
| macOS backends (`backend/macos_*.go`) | `axTrusted` | `Sample` | AppKit, osascript |
| Options (`app/options.go`, `main.go` `parseCommand`) | none | parse, check | the launch |
| Doctor (`doctor/`) | none | `Collect`, `Render` | store, backend, file system |
| Browser pages (`tray/status.go`, `about.go`, `browser_page.go`) | a one-shot HTTP server | show, serve | browser |
| Launch (`macosapp/`, `cmd/workmuch-go`) | login item, permission | `PrepareBundledTrayLaunch`, `executeRunMode` | macOS |
| Versions, releases, packages (`versioncalc/`, `release.sh`, `packaging/`) | git tags, the installed bundle, the user service | calculate, tag, install | git, systemd |

What makes them correct, and what is hard about it:

* **Controller.** Any number of goroutines call `Start` and `Wait`; one
  collector may run, its end must be published once and in the right order
  (`result`, `errCh`, `done`), and nobody may be left waiting, in particular not
  when nobody receives from `errCh`.
* **Tray.** A quit click, a signal, the session's quit and a failing collector
  arrive on different goroutines. Whatever their order the program must end
  once, after the collector has closed its files, and report a failure as one.
* **Collector and tracker.** Every call can fail and the process can die between
  any two of them; the status file must not claim what did not happen, errors
  must come out of every path, and a cancellation must be noticed at every wait.
* **Worklog.** Rotation at midnight, full disks and crashes must not lose or
  misplace rows that were reported as written, nor leak files.
* **Status store.** The file is replaced and read without locks, by processes
  that may fail or die in between; nobody may see part of a status, a write that
  returns nil must have put its own status in place, and a failed one must
  neither show nor, if the system lets it, leave litter.
* **Linux backend.** The display may drop the connection between two queries of
  a sample; samples must not mix two connections, none may leak, and sampling
  must resume after an outage. Without a hint from the window manager the window
  is found by a walk up a tree that changes meanwhile.
* **Schedule.** Samples take time, timers fire late, the machine is suspended;
  the loop must keep to its grid, neither catch up nor drift.
* **macOS backends.** A sample is made of several queries while the user switches
  applications; the permission comes and goes. Name and title must not be of two
  applications, and a permission granted late must work.
* **Launch.** Options, run mode and launch look at the same words in three
  places; the exit code, on which the user service restarts, is decided far from
  the failure; macOS may be asked for things by the installed app only.
* **Doctor and pages.** A report is put together from parts that fail one by one
  and must not contradict itself; a page's server must neither stop before the
  browser came nor stay.
* **Versions and releases.** A tag is calculated in steps, made in a clone that
  others use, pushed while main advances, and validated later against another
  main; it must go on validating, and descendants must be newer.

## Modules

    Program  --INSTANCE-->  Foreground  --INSTANCE-->  Controller  --implements-->  OneShotResult
             --INSTANCE-->  AppRun  <--implement--  Foreground, Tray (--INSTANCE--> Controller)
             --INSTANCE-->  BrowserPage
             --EXTENDS--->  Doctor  --EXTENDS-->  Options
    Sampling --INSTANCE-->  Schedule, MacBackend, TopLevelWindow
    MCRelease  --EXTENDS-->  Release  --EXTENDS-->  VersionCalc
    StatusStore  --implements-->  AtomicRegister
    Collector  --implements-->  RunnerFunc
    WorkLog   LinuxBackend
    MCController  --EXTENDS-->  Controller
    <M>Proofs  --EXTENDS-->  <M>   for Controller, Tray, Program, Collector, Sampling,
                                   LinuxBackend, Release
    FilesProofs  --EXTENDS-->  WorkLog, StatusStore
    TrayProofs, ProgramProofs  --INSTANCE-->  ControllerProofs

`Foreground` and `Tray` contain the whole controller: its variables are theirs,
and its actions are the steps of their goroutines. `Program` contains the
foreground run as it is and the tray as `AppRun` promises it, which `Tray` is
shown to implement. `Collector` abstracts the worklog, the backend and the store
to calls that succeed or fail; `WorkLog`, `LinuxBackend` and `StatusStore` show how
they do (`Persist` is a write of `AtomicRegister`), and `Schedule` when the loop
makes them. `TopLevelWindow` is what stands behind `LinuxBackend`'s query "active".
`Controller` in turn abstracts the collector to a RunnerFunc that returns some
error, or nil, or, after a cancellation, `context.Canceled`. `RunnerFunc` is what
the controller and its owners rely on in it, and `Collector` is shown to implement
it; that a cancelled one returns at all is `Collector`'s `CancelEndsTheRun`.

**OneShotResult** is the promise to callers of `Wait`: a run started at most
once, whose terminal value is written once and read only afterwards, or nil if
there was no run yet. **AppRun** is the promise of both ways of running to
`main`: at most one collector, an exit after it, and its verdict.

**Controller.** `once`, `done`, `errCh`/`errBuf` and `result` are the fields of
the struct; `run` is the program counter of the collector goroutine, `starter`
and `waiter` those of the callers. `Start` is one step for each shared write
(`EnterOnce`, `MakeDone`, `MakeErrCh`, `Spawn`), because `Wait` reads `c.done`
without synchronisation; the goroutine's `StoreResult`, `PublishErr`,
`CloseErrCh`, `CloseDone` are lines 68-74. A `Wait` that reads nil just before
`Start` writes it returns nil; the model has that outcome (`WaitUnstarted`).
The branch of `Start` for a nil `errCh` (78-83) cannot be reached, since `Do`'s
function has made the channel before anyone gets past it, and is left out.

**Foreground.** `Run`'s one goroutine is the only caller; `Signal` is
`signal.NotifyContext`'s cancellation.

**Options** has no state: `ParseOptions` folds `Read`, one argument, over the
command line; `ParseCommand` and `Select` are `parseCommand` and `NewBackend`. The
words are all the flags, commands and backends there are and the three numbers
the range checks tell apart; a flag written with `=` is the same two words.

**Doctor** has no state either: `Diagnostic` is `Collect` with a live probe,
`Runtime` is `populateRuntimeSample`, `Health` are the checks of `render.go`, each
from what a backend or `status.json` may answer (`Probes`, `Reads`).

**BrowserPage.** `server`, `served` and `expired` are the goroutine that shuts the
server down, `request[v]` what became of a visitor. A request that is under way
when `Shutdown` gives up is still answered.

**Program.** `stage` is where `run` of `main.go` is, from the arguments to the exit
`code`; `prepared`, `bundle`, `loginItem`, `trusted` and `asked` are
`PrepareBundledTrayLaunch` with what it learns from macOS and asks of it. A
report exists between its collection and its showing (`report`, `read`).

**Tray.** One program counter per thread: the driver's (`main`), the four
goroutines of `onReady` that wait for the error, the context, the quit item and
one for each page. `Send` is `finish`, `EnterShutdown`/`AwaitCollector`/
`FinishShutdown`/`PassShutdown` are `shutdown` under its `sync.Once`, and
`QuitTray` is `quitTray`. The driver is external: it calls `onReady`, then loops;
a quit ends the loop, and `onExit` is called for a quit from outside and may be
skipped for one the tray asked for. The parent's `Done` and the derived context's
are two events, in that order (`ParentCancel`, `Propagate`).

**WorkLog.** A day stands for its file, a row for a number, its day and its run.
`disk` holds, for each file, the rows that reached it and whether all of the row
did. `encoding/csv` is external: `Flush` passes the whole buffer on or fails with
any prefix written, the last row possibly torn, and its first error is
permanent. `Rotate`/`RotateFails` are `openFor` with each of its failures. `Crash`
may come at any time, also within a call.

**LinuxBackend.** `pc` walks through one `sampleLocked`: active window, title,
program, idle time. `src` remembers for each field of the sample which connection
it was read from. `Drop` closes all connections at the other end between any two
steps; `Connected`/`NotConnected` are `reconnectLocked` with the outcomes of
`connectLinuxX11`. `connectLinuxX11`'s client never fails to close, so neither does
the model's.

**TopLevelWindow.** `ActiveWindow` and `findTopLevelWindow`, one query a step, over
any window tree, any titles and any focus (a window, the root, or none) with
`Move` in between.

**MacBackend.** Both `Sample` functions, one query or command a step, with
`Switch` and `Permit` in between. A title is named by its application, so that a
mixed sample shows. `WindowInfo` is the bridge's window list, whose titles need
another permission (`recordable`).

**Schedule.** Integers for times, counted from the entry of the loop.
`ComputeNextSleep` is defined by what its loop ends with; `Elapse` is the time a
call takes, `Wake` a timer that may be late.

**Sampling** puts the schedule and the backend that was selected together: a
query is a step of both.

**VersionCalc** and **Release.** A history is a function from commits, numbered
from the root, to their parents. `Calculate` and `ValidateTag` are those of
`version.go`. A run of `release.sh` goes through `pc`; `head` and `tracked` are HEAD
and origin/HEAD of its clone, which `Interfere` changes under it, `Colleague` a
release from another clone, `tags` the clone's
tags, which outlive a run that stops. A tag has a maker (`by`): if origin has another
tag of the name than the clone, `git fetch --tags` fails and ends the run
(`FetchRefused`). Merges are those git makes: nothing is merged into its descendant. The workflow that a pushed tag starts is
`Publish`.

**RunnerFunc** is the promise of `runCollector` to the controller, the tray and the
foreground run: a call of it returns once, with a failure or, if its context is
cancelled, with nil, and holds no file or connection when it does. The tray rests
on each half: it does not react to a clean end (tray.go 106-112), and lets the
process exit once `Wait` has returned.

**AtomicRegister** is the promise of the store. `writing` is the status each
writer has been called with: a write that returns nil puts that very status in place, in
one step (`Replace`), one that returns an error nothing (`Refuse`), and a
writer may die before either (`Abandon`). A read finds what is in place at one moment
(`Find`) and returns that, or fails.

**StatusStore.** `pc[w]` is where process `w` is in `Write`, `temp[w]` what its
temporary file holds (`Garbled` until the encoder is through), `opened[r]` what
the file holds that reader `r` has open: a rename does not change it. The deferred
`os.Remove` may fail, and its error is discarded (store.go 83-87): `temp[w]` then
stays after the `Write` has returned, and `refused[w]`, a history variable, says why.
`Die` ends a process between any two steps; what it leaves is under a name of its
own that nobody uses again. In the refinement a write takes effect with its rename,
is over for the register as soon as it is going to return an error, and a read finds
what it opens.
`stored` is what `status.json` holds. Names that `WorkLog` has too begin with
`Store`, since the proofs about both are in one module.

**Collector.** `pc` is the place in `runCollector`; `defers` its stack of deferred
calls. A sample is whether it has activity and whether it had errors. `value` is the
tracker's value and `store` the file it is written to; a write that fails is
logged and leaves the old file. `run` numbers the runs, so that what an earlier one
left behind is visible. `acked` records which samples were flushed.

## Runs

| Run | Configuration | States | Shows |
| --- | --- | --- | --- |
| `controller` | `MCController.cfg` | 3,009 | one run, one publication, `Wait` implements `OneShotResult`, cancellation releases every waiter, a failure reaches a listener |
| `program` | `Program.cfg` | 289,100 | words decide what may happen; the exit code tells the verdict; reports do not contradict themselves; the foreground run implements `AppRun`; signals and failures end the program; the life of a page |
| `sampling` | `Sampling.cfg` | 1,078,721 | one sample a slot, of one application, with a title once permitted, of the right window; every sample ends |
| `release` | `MCRelease.cfg` | 5,186,565 | published tags stay valid; descendants are newer |
| `tray` | `Tray.cfg` | 48,636 | implements `AppRun`; `onExit` waits; `Run` never blocks on `resultCh`; every way out ends |
| `worklog` | `WorkLog.cfg` | 47,944 | acknowledged rows survive, rows are in the file of their day, a torn row is a run's last, no file leaks |
| `linux_backend` | `LinuxBackend.cfg` | 7,360 | one connection per sample, none leaks, errors tell what is missing, sampling resumes |
| `collector` | `Collector.cfg` | 625,757 | implements `RunnerFunc`: no silent clean end, nothing left open; the status never claims an unflushed row, matches its run, records its end; QA mode leaves no trace; cancellation ends the run |
| `status_store` | `StatusStore.cfg` | 151,641 | `status.json` implements `AtomicRegister`; a `Write` that returns leaves its temporary file only if the system refused to remove it, and then fails |
| `controller_receivers` | `MCControllerReceivers.cfg` | violation | only one receiver gets the error (below) |
| `worklog_date` | `WorkLogDate.cfg` | violation | a file is named by the day of its rows |
| `collector_status` | `CollectorStatus.cfg` | violation | status.json may be an earlier run's |

Bounds, and why they are enough:

* `controller`: two callers of `Start` (one that surely receives, one that may
  not), two of `Wait`, two different errors. Two callers are what every race
  needs; the callers do not interact otherwise, and the theorems below hold for
  any number.
* `program`: every command line of up to three words (3,616 of them) on three
  platforms, and two of four words in which a second `--backend` overrides one
  whose value looks like a command or a flag. Three words are a flag, its value
  and one more word, or a command and a flag with its value; that nothing else
  can come of longer ones is proved (`WordsAreObeyed`). One error,
  since the code treats all alike; one page a launch and two visitors, the one
  that uses the page up and one that comes before, with it or after.
* `sampling`: periods of one and two units, a reset every two, begins up to time
  four and timers up to three late: calls that overrun one or several slots, and
  resets before and after. Two applications are what can be mixed up. Three
  windows and two moves are a walk of three steps, a move before it and one
  behind it. Of the places of the focus one window stands for all, since every
  tree and every choice of titles is there.
* `release`: every history of four commits, merges included, two runs of the
  script in one clone, one interference (a fetch or a checkout in that clone, or
  a release from another clone), and a new day after the second commit. Four
  commits are a branch, its merge and a commit on the one side; two runs are one
  that meets what the other left, in the clone or on origin. It takes two switches
  of HEAD and a history of six commits for a tag whose record differs from what
  it was calculated from and that validates all the same (below); such a tag is
  excluded from `DescendantsAreNewer` by its `switched`.
* `tray`: all threads of the code except that one page stands for the two, which
  differ in nothing the model keeps, and one error. Each menu item may be
  clicked again and again.
* `worklog`: two days, two runs, four rows over both. Two days make a rotation
  and a rotation back after the clock was set; two runs an append to what a former
  run left, torn rows included; four rows a buffer of several.
* `linux_backend`: up to two times the display drops its connections and two
  other errors. Two drops are the least that break both attempts of one sample.
  Connections are used again once they are closed, so that three are a supply
  without an end.
* `collector`: two runs of up to two samples, two days. The second sample is what
  can overwrite what the first one recorded; the second run sees the first one's
  file. A collector that has used up its samples waits to be cancelled or killed.
* `status_store`: two writing processes, two readers and two statuses. Two
  processes are what overwrites what another one has read or is replacing, two
  statuses what tells an old from a new one; the theorems hold for any number.

No symmetry is used. Deadlock is checked in every run: where nothing is left to
do, a module has an explicit final step (`Terminated`, `Exited`, `Closed`, `Done`);
`StatusStore` never stops.

Each property of a passing run has a mutant: a definition beside the one it
replaces, introduced by a comment `Mutant:`, which changes the model as a
plausible bug would change the code. With it TLC finds the property violated.
No specification uses the mutants.

## Fairness

* Goroutines that can run do run (weak fairness of their steps, Go's scheduler).
* A RunnerFunc returns once its context is cancelled. `Collector` shows it of
  `runCollector` (`CancelEndsTheRun`), from the assumption that each call the loop
  makes returns and its timers fire. That is an assumption about the
  backend too: `LinuxBackend.Sample` ignores its context (linux.go 58), and a query
  the X server never answered would hold up a shutdown.
* The driver's loop runs and notices a quit.
* In `Program` the steps of `run`, of the foreground run and of the page's
  goroutines are taken; the tray goes on once it is told to stop or its collector
  has failed, which is what `EveryWayOutEnds` shows of `Tray`. Nobody has to close
  the move dialog, nor does it see a signal.
* In `Sampling` a query is answered (the subprocess backend's are killed after a
  second). Nothing makes the user stop: that he may switch applications for ever
  does not keep a sample from ending.
* Nobody has to call `Start` or `Wait`, click, cancel or receive, except the
  listeners of `Controller` (the tray's goroutine always receives). A page may take
  for ever. The display need not return: `Resumes` says what happens if it is there
  to stay.

## What disagrees

* controller.go 54-55 says that `Start` returns a channel that receives the
  run's error, and 15 that it may be called several times. Every call returns the
  same channel, and the error is in it once: a second receiver reads nil. The
  program calls it once.
* docs/explanations/linux.md 80 says that the date in the file's name is the date
  when collection starts. The writer changes files with the day of the rows.
* docs/explanations/linux.md 36-37 says that Status shows the running
  collector's last successful sample. Until the tracker has started (after the
  start delay, the backend and the worklog), and as long as its writes fail, the
  file is that of an earlier run.

Each of these is the violated property of a run. What else came to light, no
contradiction of a text, is in the models as the code has it:

* collect.go 111-119: the error of closing the backend is put into a report that
  was already returned by value, and is lost.
* homedir.go 29: a worklog whose last line was torn by a crash is appended to as it
  is; the next run's first row continues the torn line.
* linux.go 188-208 asks the windows above the focus for a title, never the focus
  itself: a titled focus below an untitled frame, without `_NET_ACTIVE_WINDOW`,
  gives a sample without a title.
* lifecycle.go's move dialog does not see the context: a signal waits until the
  user has closed it.
* browser_page.go 51: a GET whose write fails uses the page up.
* runner.go 142: a sample counts as saved only if nothing failed in it; a host
  lookup that always fails makes "Last save" and "Saving works" fail although
  every row is written.
* collect.go 146-169: the report of a collector that has stopped may show X11
  sampling as successful and its connection as not attempted. It is the only report
  in which `ReportIsCoherent` lets sampling work without a connection. Nor can a
  report know of a collector that crashed: it is Running until somebody records
  a stop.
* store.go 83-87: a failed `Write` leaves its temporary file for good if the
  system refuses to remove it as well.
* release.sh 115: a clone whose tag is not the one origin has under that name can
  run no further release until somebody deletes its tag.
* versioncalc: a main base off main's first-parent line (a tag made on a branch
  that was merged) may have a lower sequence than an older one; that is the
  condition in `DescendantsAreNewer`.
* release.sh 121-124: the tag and its main base are calculated one after the
  other. If HEAD is switched and switched back in between, around a criss-cross
  merge, the recorded base can be another one with the same date, sequence and
  distance; the tag then validates, and may be lower than a release it descends
  from. In histories where that cannot happen, or with a clone that is left alone,
  descendants are newer.
* release.sh 145: a tag that was made from a clone that changed between the
  calculations stays in that clone and makes later runs for it fail until it is
  deleted by hand; pushed, the workflow rejects it unless it validates.

## Proofs

Every theorem holds for all values of the constants that satisfy the module's
named assumptions; the bounds of the runs (`MaxRuns`, `MaxArgs` and the like) are
constants too, so that the theorems hold for any bound. Each proof module states
an inductive invariant `Inv`, has a lemma for each of its parts with one step for
each action, and derives the properties from `InvHolds` (or `Invariance`).

**ControllerProofs**, for every set of callers and errors (assumptions
`ListenersAssumption` and `ErrorsAssumption`: the listeners are callers of `Start`;
nil, `Canceled`, `Pending` and the errors differ). `Inv` adds to `TypeOK` and the
properties what they rest on:

* `OnceInv`: exactly one caller is inside `Do`'s function while `once` is
  "running", and which channels exist follows from how far it is; nobody is past
  `Do` before `once` is "done". Without it a second `EnterOnce` or a nil channel
  cannot be excluded.
* `RunInv`: the goroutine's place determines `launches`, `err`, `result` and the
  states of the channels: what is stored, published and closed already.
* `ErrChInv`: the buffer holds the outcome only between its publication and its
  receipt, and at most one caller has got an error.
* `WaitInv`: a woken waiter found `done` closed, so that `result` is final.

`Refinement` shows that the initial state is `OneShotResult`'s and that every step
under the invariant is one of its steps or a stutter.

**TrayProofs**, for every set of pages and errors (`ErrorsAssumption`,
`PagesAssumption`: no page has the name of another thread). Every step of the tray
is a step of its controller or leaves it alone, so `ControllerProofs`' invariant,
instantiated, is part of `Inv` without being proved again. `ReadyInv` says that the
collector is started before any other thread exists, `ShutdownInv` that one
thread at a time is inside `shutdown` and leaves it with the collector's result,
`ResultInv` that whoever sends holds the outcome of an ended run, and that a quit
comes after. From these follow `OnExitWaitsForCollector`, `QuitHasAResult` and
`Refinement`, that the tray implements `AppRun`.

**ProgramProofs**, for every set of errors and visitors and command lines of any
length. The parts of a launch keep to themselves and so do the parts of `Inv`:
`ControllerProofs`' invariant and `ForegroundInv`, `TrayInv` (all that a user of
`AppRun` may assume), `PageInv`; `StageInv` says which of them a stage may have
touched, `ExitInv` what the exit code was made from, `ReportInv` that a report is
one `Diagnostic` or `Runtime` can give, `OptionsInv` what the options have let
happen. `ForegroundRefinement` is the foreground run as `AppRun`, `ExitCodeIsTheVerdict`
and `ReportsAreCoherent` are the run's invariants, `OneCollectorALaunch` and
`PagesStayForAMinute` (the safety half of `PageLifetime`) have no invariant in the
run. `WordsAreObeyed` states `ArgumentsDecide`, which speaks of words and not of
options, and so needs what `ParseOptions` makes of a line of any length: `Knows` is
an invariant of the parse, that it expects a flag exactly where `IsFlag` says, has
the switches met so far and the last `--backend` that is complete; it is carried
over the words by `Induction`, a set form of induction derived from the
well-foundedness of the naturals. A first form of that property, which took every
word that looks like a flag for one, was true of three words and false of four.

**CollectorProofs**, for any days, runs and samples (`NoneAssumption`,
`BoundsAssumption`). `DefersInv` ties the stack of deferred calls to the place in
`runCollector`, `ValueInv` and `LoopInv` the tracker's value to what the loop has
counted, `RecordInv` a sample recorded as written to a flushed row, `EndInv` what
the deferred calls have yet to do to what the status says. `GoodSampleIsLogged`
and `NilOnlyWhenCancelled` (a run that unwinds without an error is cancelled) are
inductive together with these; `StatusMatchesRun` and `EndIsRecorded` follow, and
`QAWritesNothing` is an action property. `Refinement` shows that every step is one
of `RunnerFunc`'s: the last deferred call's is its `Return`, which needs
`NilOnlyWhenCancelled`, and each step before it is `Work`.

**FilesProofs**, first about `WorkLog`, for any days, rows and runs (`DaysAssumption`,
`BoundsAssumption`). What is asked of the files is only inductive with a condition
on the buffer: `BufferInv` says that the rows in it are of this run and of the open
file's day, in order and later than all rows on disk, and that a writer in error
is broken or has nothing buffered; `TornInv` that only a run that is over, or broken,
has torn a row. `WrittenAppends` describes the one way files grow, once for the
steps that flush, fail and crash.

Then about `StatusStore`, for every set of processes, readers and statuses
(`ValuesAssumption`: the three marks `NotFound`, `Garbled` and `Error` differ and
are no statuses). Its invariant adds to `StoreTypeOK` that past its encoding a
temporary file holds its writer's status (`WholeTemp`), without which a rename could
put part of one in place, or another one, and what a `Write` under way has been
told and one that is over may have left (`TempInv`). `StoreIsARegister` has a lemma for
the steps of writers, in which `WritingStep` says what becomes of the register's `writing`,
and one for those of readers.

**SamplingProofs**, for every period, reset interval, delay, set of applications
and finite set of windows (`PeriodsAssumption`, `TimesAssumption`,
`NoneAssumption`, `WindowsAssumption`). Its parts meet only in the loop's phase.

* `GridInv`: there is a number of the grid point the loop is at, and the number of
  samples is at most that, or that and one; `NextPoint` shows that
  `ComputeNextSleep`'s choice is the first point that has not passed. `OneSamplePerSlot`
  follows with the arithmetic of `GridPoints` and its neighbours.
* `QueryInv`, `NativeInv`, `SubprocessInv`: what the queries so far have found, from
  which `SampleIsOfOneApplication` and `TitleOncePermitted` follow.
* `X11Inv`: the windows are a tree and stay one when a window moves (`MovedTree`
  numbers them anew), and while none moves the walk is on the line above the focus
  and has passed no window with a title (`WalkInv`). `LineIsLeast` and `LineIsClosed`
  show by induction that `Line` is what it should be, the least set that holds a
  window and its parents; the other lemmas on trees follow from those two, and
  from `X11Inv` that a sample is of the right window.

**LinuxBackendProofs**, for every supply of connections and any number of faults
and drops. `Inv` adds `ClientInv` (a query is only put to a connection),
`SourceInv` (what a sample under way has read came from `b.client`, which is not
replaced under it) and `MissingInv` (a `sampleLocked` without an error has all it
asked for; after the error of a dropped connection nothing more is answered) to
the properties. `NoLeak`, `OneSource` and `ErrorsAreOfWhatIsMissing` follow.

**ReleaseProofs**, for every finite history in which only the root has no parents,
with any merges that git makes, and for any number of maintainers, runs and
interferences (`CommitsAssumption`: commits are numbered from 1 on;
`NothingAssumption`: an error is no commit and no version; `DatesAssumption`: dates do not run backwards).

* The operators. `Ancestors` and `FirstParents` recurse over the parents of a
  commit, whose numbers are smaller. `ReachIsComputed` and `ReachIsAFunction` show, by
  taking the least commit that would be a counterexample, that such a recursion
  exists and computes `Reach`, the least set that holds the commit and is closed.
  From that alone follow that ancestors are a partial order in which the root is
  least (`AncestorFacts`), that first parents are a line (`FirstParentFacts`), and,
  since the latest common ancestor is above no other, that `MergeBase` is what
  its CHOOSE says (`MergeBaseFacts`).
* `WhatIsCalculatedValidates`: the version of any commit can be calculated, and name
  and base of one calculation make a tag that validates against the main it was made from and
  all that come later. In a clone that is fetched or switched between the calculations
  a tag's name and base may be of two; that is why `Publish` has to validate.
* `PublishedStaysValid` is inductive: a tag that validates has a base that is an
  ancestor of its commit and of main (`ValidTags`), and stays so when main advances.
* `DescendantsAreNewer` rests on what a run knew when it began. `Newest` says that no
  main base of the first n published tags is properly above a tag's own on the
  way to its commit: a merge base with a main above them all has this
  (`MergeBaseIsNewest`), `RunInv` carries it through the steps of a run whose HEAD
  stays, and `TagsInv` keeps it for every tag, in a clone, on origin, or published. A
  later release then has its base at or behind the earlier one's on main's line:
  if behind, the sequence is larger, and if the same, the distance (`NewerName`, by
  the cardinality of a proper subset).

Only model-checked is liveness, which is out of the prover's reach:
`CancelReleasesWaiters`, `FailureReachesAListener`, `EndsWhenToldOrFailed`,
`PageLifetime`'s second half, `EverySampleEnds`, `EveryWayOutEnds`, `Resumes`,
`CancelEndsTheRun`. Every safety property of every passing run is a theorem.

Two properties got their present form from a proof that failed: `ArgumentsDecide`
(above), and `DescendantsAreNewer`, which is false, beyond the bounds of its run, of a
run whose HEAD is switched to and fro, and now excludes those. The release
invariant was checked with TLC on the histories of the `release` run before it was
proved.

## Not modelled

* Queries that never return, two processes that append to one worklog, the mode
  bits of files.
* The loss of power: `Store.Write` does not sync, so that a file system may keep
  its rename and lose its data.
* Rates at the edge of float64 (runner.go 173): the period is a positive integer.
* The text of a row, of a status, of a report, of a page, of a tag or a ref; what
  X11 properties and AppKit's answers mean byte by byte; host names.
* A driver that runs `onExit` before `onReady` is through.
* The lines of a report that only echo what they read: the session's environment,
  the login item, the permission, the log directory (for which doctor creates
  the directory and a probe file).
* Shallow clones and missing refs, which end `Calculate` with an error.
* `packaging/macos/release.sh` (build, codesign, install), `verify-debs.sh`, the
  maintainer scripts and the unit file: tools called one after the other, or
  declarations.
* `buildinfo`, and the test of the linker.

## Plan

The modules, the runs and the proofs of all safety properties are there. What is
left:

1. One model of `Collector` over `WorkLog` and `StatusStore`, so that
   `GoodSampleIsLogged` speaks of rows on disk. Today the argument has two parts: a
   recorded sample was flushed (`Collector`), and a flush that reported success has
   its rows on disk (`AckedRowsSurvive`).
2. A `Controller` whose collector is `RunnerFunc` by INSTANCE. Its `RunnerReturns` allows
   more than `RunnerFunc`'s `Return` does (nil at any time, `context.Canceled`), so
   that its properties hold of the collector all the same.
3. What the section before this one lists, first the macOS installation script.
