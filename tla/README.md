# Formal model of gpu-browser-bridge

gpu-browser-bridge keeps one Chrome with a real GPU alive on a Windows machine
and answers HTTP requests, through an SSH tunnel, with screenshots, JavaScript
results and frame-diff analyses. This directory holds a TLA+ model of it, the
TLC configurations that check the model on small instances, and theorems about
it that TLAPS has checked. All source paths below are relative to `src/`.

    tlc -config MCSupervisor.cfg MCSupervisor     # a run
    tlapm SupervisorProofs.tla                    # a proof

`PROJECT.json` lists every run, theorem, finding and hazard, and maps each
definition to the source lines it models.

## 1. Inventory

| Component | State | Operations | Talks to |
|---|---|---|---|
| Chrome supervisor (`internal/browser/browser.go:42-210`, `cleanup_*.go`) | `Browser.mu`, `allocCtx`, `browserCtx` and their cancel functions; the Chrome process; the profile directory | `Start`, `launchLocked`, `killStaleChrome`, `Healthy`, `newTab`, `Shutdown` | called by main and by every handler goroutine; Chrome and Windows answer asynchronously |
| Operations of a tab (`browser.go:264-527`, `burst.go:114-220`) | one tab context and one timeout per request; Chrome's foreground tab; the profile's cookies and localStorage | `Screenshot`, `Eval`, `Burst` | `newTab`, chromedp action lists, listeners |
| Frame analysis (`burst.go:222-389`) | none (pure functions) | `analyzeFrames`, `changedPct`, `medianIntervalMS`, `detectOscillation` | called by `Burst` |
| HTTP server (`internal/server/server.go`) | listeners, handlers in flight | authentication, four routes, `ListenAndServe` with a 5s drain | supervisor, tab operations |
| Process (`cmd/bridge/main.go`) | the signal context | `runWithConfig`: start, serve, deferred shutdown | server, supervisor |
| Windows service (`service_windows.go`) | service status, exit code, control requests | `Execute`: load, run the bridge in a goroutine, answer the service control manager (SCM) | process, SCM |
| Console and network sinks (`listeners.go`) | two slices under a mutex | append from chromedp's event goroutine, copy at the end | tab operations |
| Configuration (`internal/config/config.go`) | the token file; the token of the process | `Load` once at the start, `GenerateToken` at any time | process, installer |
| Client (`cmd/gpu-browser/main.go`) | none | argument parsing, one POST with a 60s timeout; the sampler a probe runs in its page | HTTP server, the page |
| Installation scripts (`windows/*.ps1`) | scheduled task, SSH key | one-shot | Windows |

### What is hard

- **Interleavings.** One mutex serializes `newTab`, `Healthy`, `Start` and
  `Shutdown`, and is held through a sweep, which has no limit, and a launch of up
  to 60s. A tab's parent context is read under it and used after it is released.
- **Late answers.** The launch goroutine and its timer race, and a launch that
  answers after the timer must end, not be adopted.
- **Asynchronous failure.** Chrome dies, chromedp notices later; until then
  the supervisor believes it healthy. The allocator context never notices.
- **Partial failure.** A launch, a sweep or the relaunch after a teardown fails.
- **Restart.** A killed bridge leaves a Chrome behind that holds the profile.
- **Drain.** Shutdown runs after at most 5s, whatever the handlers are doing.
- **Shared foreground and profile.** All tabs of all callers share one
  foreground and one cookie jar.
- **Limits that must fit.** The client waits 60s, a screenshot or an eval works for
  30s, a burst and a probe derive their deadline from their window, a launch may
  take 60s; nobody tells a handler that its client gave up.
- **Two copies.** The sinks of a tab are filled while they are copied, one after
  the other.
- **A file that changes.** The token file is truncated, then written, and then the
  token is printed, while a process may start at any point in between; gen-token may
  end at any of them; a running process keeps the token it read.
- **A stop that races the end.** `Execute` selects between a stop and the return of
  the bridge, and owes the SCM the right status and exit code on both paths.
- **Sampling.** The probe sees the page only when its timer fires, and the timer may
  be late.

What makes each component correct:

- *Supervisor*: no Chrome process or context leaks; a relaunch ends no tab of a
  live Chrome; every caller gets an answer; a tab of a dead Chrome is handed
  out only until the loss is noticed.
- *Tab operations*: session material is in force before navigation; a result
  holds exactly the frames asked for, observed a page that was live, and names the
  failed request behind a console entry it reports.
- *Server and process*: nothing reaches Chrome without the token; a drain that
  ends in time leaves nobody behind; a stop ends the process; a restart serves
  again.
- *Service and token*: nothing works and no Chrome runs when Stopped is reported,
  unless handlers outlived the drain; exit code 0 only when the end was asked for; a token that was replaced before the start opens nothing.
- *Frame analysis*: a percentage is a percentage, a static scene neither
  flickers nor oscillates, a periodic redraw is found with its period.
- *Client*: it waits as long as the server may take; every command ends, and so
  does the work of a command that was given up.
- *Probe*: its report is a path of what the page showed, complete if the page is slow.

## 2. Modules

| Module | Models |
|---|---|
| `Supervisor` | the `Browser` struct, its callers, its Chrome processes |
| `ChromeLease` | what the supervisor promises, abstractly |
| `SupervisorProofs` | theorems about `Supervisor` |
| `Bridge` | server, main and process life around the supervisor (EXTENDS it) |
| `BridgeProofs` | theorems about `Bridge` |
| `Service` | the deployed process: service or console, configuration, token file, exit codes (EXTENDS `Bridge`, and implements it) |
| `ServiceProofs` | theorems about `Service` |
| `TabRun` | the three operations, their action lists, their sinks, the shared foreground |
| `TabRunProofs` | theorems about `TabRun` |
| `Exchange` | commands of the client, the handlers that work on them, and the limits of both as numbers |
| `ExchangeProofs` | theorems about `Exchange` |
| `BurstAnalysis` | the frame-diff analysis of a burst |
| `BurstProofs` | theorems about `BurstAnalysis` |
| `Probe` | the sampler that a probe runs in its page |
| `ProbeProofs` | theorems about `Probe` |
| `MCSupervisor`, `MCBridge`, `MCService`, `MCTabRun`, `MCExchange`, `MCBurstAnalysis`, `MCProbe` | instances for TLC |

### Supervisor

Each `launchLocked` that gets as far as creating contexts is a *generation*.
`cur` is the generation in `b.allocCtx`/`b.browserCtx`, `cancel` that of the two
cancel functions; a generation is in `allocDone` or `browserDone` when that
context is done, and in `running` while its process runs. The cancel functions
are called and cleared together everywhere in the code and the contexts are
assigned together, so one number stands for each pair; the *doneness* of the two
contexts differs (the allocator outlives a crash), so it is kept apart.

| Code | Action |
|---|---|
| `newTab`, `b.mu.Lock()` | `NewTab`, `Acquire` |
| the four-way test and the teardown (184-197) | `Reuse`, `Teardown` |
| `killStaleChrome` | `KillStale` (may fail: it only logs) |
| contexts and launch goroutine (108-127) | `Spawn`, `RunReturns`, `TimerFires` |
| `select` and assignments (128-146) | `LaunchOK`, `LaunchFail` |
| `parent := b.browserCtx`, unlock (204-205) | `HandOut` |
| `chromedp.NewContext(parent)` (207) | `OpenTab` |
| deferred `cancelTab` | `Finish` |
| `Start`, `Shutdown` | `Start`, `CallShutdown`, `Shutdown` |
| `Healthy` for `/healthz` | `Probe`, `AnswerHealth` |

The critical section is split at every point where something else can happen in
between: after the check, after the sweep, while the launch is awaited. Between
`HandOut` and `OpenTab` the request holds a context but not the mutex, and main may
shut down or another request relaunch Chrome; the tab's context is then done as soon as
it is made. `ChromeLease` has the same two steps: a request is granted the Chrome that
is owned (`Grant`), and opens its tab later (`Open`), which it may do only while that
Chrome is owned still. `Working` maps them: a request works while the context of its
tab is live. `Shutdown`,
`Healthy` and the teardown are one step each: they only assign under the mutex.

The environment (external to the repository) is Chrome, chromedp and Windows.
`Crash` ends a process; `Disconnect` loses the anchor tab or the connection;
`LostConnection` is chromedp noticing, later, that a process is gone; `Exit`
ends the time in which a Chrome that was told to exit still holds the profile.
Chrome allows one process per profile, so a launch with the profile held is a
launch that fails ("Opening in existing browser session"). `orphan` is a Chrome
of an earlier bridge; Init chooses freely whether there is one.

### Bridge

`Bridge` extends `Supervisor`, restricts when a request may call it, and adds the
stages of a handler (`http`), whether it carries the token (`cred`), the state of
`ListenAndServe` (`srv`) and the life of the process. A handler authenticates,
reads its body for as long as the client takes (only the header has a read
timeout), and then calls the browser, so a handler in `body` when the 5s drain
expires is one that calls `newTab` afterwards. `Die` forgets everything in memory
and turns a running Chrome into the orphan of the next process. An error from one
`Serve` goroutine makes `ListenAndServe` return while the other listener stays
open (`broken`); the drain closes both.

### Service

`Service` extends `Bridge` with what surrounds it in deployment. `mode` says whether
the process is the service or the console process that the logon task starts; `entry`
where main is; `svc`, `ask` and `code` are what the SCM was last told, the control
request that waits, and the exit code; `file`, `genTok`, `made`, `printed`, `token`,
`since` and `held` follow the token from `gen-token` to the header of a request. The
values that the file has held are numbered. A token that was cut at 32 of its 64
characters or more passes `validate`, so it is a value of its own; a shorter one and an
empty file are 0.

| Code | Action |
|---|---|
| `os.WriteFile`: truncate; write, in full or in part (`config.go:91`) | `GenBegins`; `GenWrites` |
| `fmt.Println(tok)` (`main.go:38`) | `GenPrints` |
| an error of the disk, or gen-token is killed, at any point | `GenFails` |
| `Execute` or `runConsole` is entered; `Load` | `Boot`; `LoadOK`, `LoadFails` |
| the loop of `Execute`: interrogate, stop, the bridge returns | `Interrogate`, `Stop`, `RunReturned` |
| `err := <-runErr` after a stop | `StopDone` |
| `os.Exit(1)` and the return of main | `ConsoleExit`, `ServiceExit` |
| `requireAuth` with the token of the process | `ArriveWith`, then `Authenticate` of `Bridge` |

In `Bridge` a request has the right credential or not; here it carries some value that
the file has held, or none, and is right if that is the token of the process. Every
step of `Service` is a step of `Bridge` or leaves its variables alone
(`ImplementsBridge`), so all that holds of `Bridge` holds of a deployed process.
`Control` is the SCM, which asks for a stop once it was told Running.

### TabRun

An operation is the list of actions it builds from its body (`Steps`), run in
order; an action that the body does not ask for is passed over. What the properties
tell apart is kept: which network-domain settings are in force, what the tab had when
it navigated, which tab is in front, how many frames were captured, what the sinks
held when each was copied. `Push` is the event goroutine of the tab: a page emits a
failed request and then its own log of it, and the list may end between the two.
A body is checked first (`Valid`): its url, the script of an eval, and of a burst the
number of frames and the sign of the interval (`burst.go:126-134`).
`Fail` and `Timeout` can end a list anywhere. A closed tab hands the foreground to any
tab that is left. `alone` remembers whether anyone else was in the browser.
Wording, encodings and the shape of the answers are left out.

### Exchange

One unit of time is what the configuration makes of it: in `MCExchange` 15s, so
that all limits of the code are whole numbers. A slot holds a handler; `client` is
the slot whose reply the one running command waits for, so a slot that is not the
client's is work that was given up or interrupted. A handler waits for the mutex of the
browser (`line`), sweeps the profile (`sweep`), launches Chrome (`launch`) or works in
its tab (`run`), where each unit of time is one it sleeps or one the page takes. The
timer of 60s belongs to the launch only: it starts after the sweep (`browser.go:76`,
`130-137`), so the time of a sweep is not limited. `Deadline` computes the timeouts
of the three operations and `TimeoutSent` what the probe asks for. `Sleeps` gives a
burst one interval more than the code sleeps, which leaves less room and so is on the
safe side. `Tick` lets time
pass only when no timer is due. The integer widths are not modelled: a product of
frames and interval that overflows needs windows of centuries.

### BurstAnalysis

A scenario is a request, the pictures its page may show and the time captures may take.
The frames arrive one by one and are then analyzed, as in `analyzeFrames`.
A frame gives each pixel one level: a level stands for the channel that differs
most. Percentages, the mean and the coefficient of variation are rationals; where the
code divides, the model multiplies across (`cv > 0.5` becomes
`4 n sum(g*g) > 5 sum(g)^2`), so it differs from the float computation at most where
two sides are exactly equal; `RegularIsLowVariation` proves that comparison to be the
one of the code. `Series` holds changed pixels rather than percentages. A sum is the
number of pairs of an index and a positive number up to its value (`Total`), so that the
library's theorems about finite sets apply to it. `Median` counts the values below it
and up to it; `MedianOfSorted` proves it to be what sorting and indexing with `len/2`
gives. `round1` yields tenths. The region follows `image.Rect`, which orders the corners of a region of
negative size. The sum `X+W` is not wrapped: no region within 2^62 of a frame wraps.

### Probe

`Loop`, `Read`, `Sleep` and `Wake` are the loop of the script, one watch per `Read`;
`last`, `distinct` and `transitions` are its variables. `Change` is any other script
of the page, which runs only while the sampler awaits its timer, and changes the
values of one watch or of several in one task. A watch that the page does not take
throws when it is read first (`Throws`), and a page that navigates or reloads takes the
script with it (`Leaves`); both end the evaluation with an error. What a selector or a regular expression
matches is abstracted to the value it reads. `shown` and `seen` record what the page
really showed; the report is checked against them.

### What is assumed about the outside

- Cancelling a chromedp context ends its Chrome, and that Chrome may take some
  time to release the profile.
- The allocator context is cancelled only by its own cancel function; the browser
  context also when the connection to Chrome is lost.
- A CDP setter of the network domain works only after `network.Enable`;
  `AddScriptToEvaluateOnNewDocument` works in any case.
- One tab is in the foreground at a time, the last one brought there.
- chromedp hands the events of a tab to its listener in the order they were emitted.
- The scripts of a page run to completion; a timer fires after its time, never before.
- The SCM sends a stop only to a service that reported Running.
- One gen-token runs at a time.
- The sweep of `killStaleChrome` returns. It runs PowerShell without a timeout
  (`cleanup_windows.go:38`), while the mutex is held, and before the 60s timer is
  started, so that the "Blocks up to 60s" of `Start` (`browser.go:63`) does not cover
  it. If it hangs, every request, `/healthz` and `Shutdown` wait for ever. Safety does
  not depend on this; all liveness but that of the probe does.
- A page does not block its thread for ever while a probe samples it (the deadline of
  the eval ends such a probe).

## 3. Runs

| Run | Question | Instance |
|---|---|---|
| `supervisor` | can anything leak, can a relaunch hurt another request, is it a `ChromeLease`, does every call return, does it recover? | 2 requests, 3 faults |
| `no_health_check` | is a dead Chrome replaced without a request? (no) | 1 request, 1 fault |
| `bridge` | who reaches Chrome, what does a drain guarantee, does a stop stop, does a restart serve, does every call of the browser return? | 2 requests, 1 fault, 1 restart |
| `straggler_exit` | does Shutdown leave no Chrome, whatever the drain did? (no) | 1 request, no fault |
| `service` | what do status, exit code and tokens mean, is it a `Bridge`, does a stop get done? | 1 request, 1 fault, 1 restart, 2 tokens |
| `tab_results` | is a result loaded with its session, complete, consistent, and observed in the foreground when alone? | 2 callers, 9 bodies, symmetry |
| `tab_contention` | was it observed in the foreground with two in the browser? (no) | 2 callers, 3 bodies |
| `exchange` | do the limits fit, does every command and all abandoned work end? | 2 handlers, the 5 commands, the code's limits in units of 15s |
| `probe_cut` | is a long window left alone? (no) | 2 handlers, probes of 30s and 60s |
| `probe` | is the report consistent, complete for slow pages, made up for none? | 2 watches, 2 values, 2 changes, window 7, step 1, lag 1 |
| `burst_analysis` | are percentages those of the region, still scenes quiet, redraw loops found, and nothing else? | all pairs of 2x2 frames on 3 levels, 9 regions; all bursts of two pictures, 9 frames at two paces and 15 at one |
| `burst_steady` | is steady motion told from oscillation? (no) | all bursts of 9 frames of four pictures |

**Bounds.** `MaxFaults` bounds the environment only: crashes, disconnects, failed
or slow launches, failed sweeps, bind and serve errors, kills. Requests may call
without bound, and a generation is created only by a launch, which needs a fault
or the first start, so the state space is finite without a bound on generations.
Three faults are enough for a crash during the relaunch after a crash while
another request waits; two requests are enough for one to hold the mutex while
another waits and main shuts down. The bridge needs one fault: a kill, a crash, a
failed bind or a failed sweep, each before, during and after a drain. `MaxRestarts = 1`
gives one process that inherits the leftovers of another; more only repeats this, as
`Die` leaves nothing but `orphan` and a dying Chrome. Two tokens give one that was
replaced. `Slots` and `Callers` bound the requests in flight, which the code does not:
two are one that works and one that waits for it or disturbs it. In `Exchange` a
command that launches may wait behind another launch, which is all that a third
could add. Two changes of the page at any two moments of a window of seven steps give
each watch a value that lasts longer than a gap, one that is missed, and one that
comes back. Nine frames are the fewest in which four rises fit, fifteen
the fewest in which a loop of four frames has four of them after the first diff;
level 8 is at the tolerance and 9 above it. Symmetry is used only where no liveness is
checked.

**Deadlock.** It is checked in every run. `Exited`, `Ended` and `Rest` stand for a
process that is over, `Over` for a burst and `Returned` for a sampler that is, the only
ways the system stops.

**Fairness.** The supervisor and the bridge assume: the Go scheduler runs a goroutine that
can run (weak fairness); `sync.Mutex` in starvation mode hands itself to a waiter
it has starved for 1ms, so one that finds the mutex free again and again gets it
(strong fairness of `Acquire`, `AnswerHealth`, `Shutdown`); the sweep returns
(`SweepReturns`, `SweepsReturn`, an assumption about Windows that no code enforces); the
launch answers or its 60s timer fires; a tab operation ends by its context's deadline; the
operating system closes the connection of a dead process (`LostConnection`); the
5s timer of the drain fires; a process whose main has returned exits. Nothing is
assumed of clients, of signals, of faults, or of a Chrome that is told to exit: a client
may never finish its body, and as the server sets no `WriteTimeout`
(`server.go:160-164`), it may also never read its answer, and its handler then never
ends (`Reply` has no fairness).
In `Service`, `Execute` reads what is ready and main returns after it; nothing
is assumed of the SCM. In `Exchange`, time passes (strong fairness of `Tick`, which a
timer that is due holds back), timers fire, sweeps return, and a mutex that is free
again and again is got; no page, launch or caller is assumed to do anything. In `Probe`
the script runs, time passes and timers fire. `TabRun` states no fairness: that a list ends
although any action may hang is `WorkEnds` of `Exchange`.

## 4. What the checks show

Holds:

- No failed launch, timed-out launch, relaunch or shutdown leaves a Chrome or a
  context that nothing will end (`NoLeakedChrome`, `NoLeakedContext`).
- Requests that find Chrome gone at the same time relaunch it once; the second
  finds the new one and tears nothing down (`RelaunchSparesTabs`). The supervisor
  implements `ChromeLease` (`ImplementsLease`): it hands out the Chrome it owns, and a
  request that is overtaken by a shutdown or a relaunch before it has opened its tab gets
  a dead context, never a tab in a Chrome that was given up.
- No path of `newTab`, `Start` or `Shutdown` keeps the mutex: every call returns, as
  long as sweeps do (`CallsReturn`). After the last fault the supervisor hands out only live tabs and
  `/healthz` tells the truth (`Recovers`); this fails when only the allocator context
  is looked at, as the comment at `browser.go:167` says.
- Only a request with the token has a tab (`NoUnauthorizedTab`). A drain that
  ends in time leaves no handler (`DrainedIsQuiet`) and its process no Chrome
  (`DrainedExitIsClean`).
- As long as sweeps return, a signal ends the process from any state
  (`SignalExits`), a process started over an orphan serves (`RestartServes`), and each
  call that a handler makes of the browser comes back (`BrowserAnswers`); whether the
  client reads the answer is up to the client.
- Whoever has a tab carries a token no older than the newest one that was printed when
  the process loaded its configuration (`OldTokensAreDead`). It may be a newer one that
  was not printed yet, or, after gen-token was killed, a cut one of 32 characters or more
  that nobody was told; a bridge that finds less than that does not start.
- When the SCM is told Stopped no request is in the browser and no Chrome runs
  (`StoppedIsClean`), except after a drain that took too long or a listener that broke: then
  handlers outlive the server, and one may be launching Chrome (`straggler_exit`). After
  a stop Stopped always follows, if sweeps return (`StopIsDone`).
- An exit code of 0 means that the end was asked for, and that the drain ended in time
  unless the service had read a stop (`SuccessWasAsked`). It does not mean that all went
  well: after a stop `Execute` returns 0 whatever the bridge returned
  (`service_windows.go:77-84`), also when a bridge that had broken by itself and a stop were
  both ready and `select` took the stop.
- A deployed process is a `Bridge` (`ImplementsBridge`).
- Every result was loaded with its session material in force
  (`SessionBeforeNavigate`), holds the frames asked for (`ResultComplete`), and holds the
  failed request if it holds the page's log of it (`CauseReported`), which depends on the
  console sink being copied first. Without contention it observed the foreground
  (`ObservedWhenAlone`).
- A client whose screenshot or eval finds Chrome up outlives the bridge's deadline and
  learns the real error (`PatientEnough`). A burst, whatever its frames, interval
  and settle time, and a probe without a settle time are cut by the bridge only when
  the page used up the room (`WindowHasRoom`). A settle time of a probe comes out of that
  room: `timeout_ms` does not count it (`main.go:539`). Every command ends, healthz
  without a timeout included (`CommandEnds`), and so does work nobody waits for any
  more (`WorkEnds`), as long as sweeps return: a healthz behind one that hangs waits for
  ever.
- The report of a probe is a path from the first value to the last
  (`ReportIsAPath`); what a page shows for longer than the longest gap between two readings is
  all there, with its time (`SlowPageIsReported`); nothing is made up for a fast one
  (`NothingMadeUp`); values that change together are reported together
  (`WatchesAgree`); the sampler ends, with a report or with an error
  (`ProbeReturns`), and stamps no time outside its
  window (`ProbeTypeOK`).
- The percentages of a burst are those of the region asked for (`RegionDecides`); a
  still scene is quiet (`StaticIsQuiet`); a detected oscillation spans several cycles
  and its period fits the burst (`SeveralCycles`); a redraw loop is found with its
  period (`RedrawLoopIsFound`).

Findings, each a run that TLC refutes:

- `no_health_check`: `SPEC.md:82` promises a health check every 30s that
  relaunches Chrome. The code relaunches only when a request calls `newTab`. The
  resolved decision (`SPEC.md:168`) says only that Chrome is relaunched if it dies
  between requests.
- `straggler_exit`: a handler that outlives the 5s drain finds the contexts that
  `Shutdown` cancelled, takes this for a crash and relaunches Chrome; the process
  then exits and leaves it running, though `Shutdown` "kills Chrome"
  (`browser.go:151`). The next start sweeps it (`RestartServes`).
- `tab_contention`: between a request's `BringToFront` and its script or capture
  another request can take the foreground, or close a tab and move it. The comment
  at `browser.go:407` says the script runs on the foregrounded tab.
- `probe_cut`: `main.go:537-538` says that long windows are not cut short, and the
  bridge gives a probe its window and 15s. The client itself gives up after 60s
  (`main.go:625`), so a window of 60s or more never has a result.
- `burst_steady`: `burst.go:334-336` says a steady animation produces no crossings of
  its mean. Any series that is not constant crosses its mean, so an animation whose
  diffs alternate by one pixel is reported as an oscillation of two frames.

Not a run, but met on the way: `SPEC.md:83` gives each request an incognito context of
its own, while the code opens all tabs in the one context of the profile, as
`docs/authenticated-captures.md:3` and `SPEC.md:168` want it.

## 5. What is proved

For every value of the constants, from the assumptions named in the modules alone:
of the supervisor, the bridge and the service any set of requests and any bounds
(`ThreadsAssumption`: main is not a request, nobody is `NoThread`); of the tab
operations any callers and any bodies; of the exchange any commands, slots and limits;
of the probe any watches, values, windows, steps and lags, as long as a sleep takes time;
of the analysis any frame size, levels, pictures, regions (of negative size too),
thresholds, delays and number of frames.

**The inductive invariant** of the supervisor is

    IInv == TypeOK /\ MutexInv /\ ControlInv /\ CancelInv /\ ContextInv /\ NoLeakedContext

No safety property is inductive alone. That a Chrome is not leaked depends on who
is launching (`MutexInv`: the mutex is held by exactly the thread in a critical
section, hence at most one launches); on what the cancel functions refer to
(`CancelInv`: they are those of the current live contexts, are gone while a launch
is in progress, and the generation being launched is newer than the adopted one);
and on a process running only while both of its contexts are live (`ContextInv`).
`ControlInv` keeps main and requests on their own labels, so that nobody but
`Start` is active before the server serves. `OneHolder` derives from `MutexInv`
that two threads are never both in a critical section, which is how every step of
one thread leaves the clauses about another alone.

`SupervisorProofs` proves the invariant action by action, then:

| Theorem | Statement |
|---|---|
| `InductiveInvariant`, `TypeCorrect` | `Spec => []IInv`, `Spec => []TypeOK` |
| `ChromeNeverLeaks`, `ContextNeverLeaks` | `Spec => []NoLeakedChrome`, `Spec => []NoLeakedContext` |
| `RelaunchIsSafe` | `Spec => RelaunchSparesTabs`: when a thread sweeps nothing runs, and a teardown only ends a Chrome whose context was done |
| `Refinement` | `Spec => ImplementsLease`: every step is a lease step or a stutter; a context that is not the one owned is done (`StaleLeaseIsDead`), so `OpenTab` opens a live tab only in the Chrome that is owned, and giving it up ends all work in it (`GivenUpStopsWork`) |

`BridgeProofs` adds `HandlerInv` (a handler in the browser is in stage `run` and
authenticated) and `ServerInv` (main and `ListenAndServe` move together; after a
drain in time nobody is left and `Shutdown` is final). `EndedInOrderIsEmpty` draws the
conclusion for a process that has stopped, which `ServiceProofs` uses:

| Theorem | Statement |
|---|---|
| `BridgeInductive`, `BridgeTypeCorrect` | `BridgeSpec => []BridgeInv`, `[]BridgeTypeOK` |
| `BridgeNeverLeaksChrome` | `NoLeakedChrome` across drains, kills, restarts |
| `TabsAreAuthorized`, `DrainIsQuiet`, `DrainedExitLeavesNoChrome` | the three properties of section 4 |
| `LiveRelaunchIsSafe` | `RelaunchSparesTabs` as long as the process lives, drain and unwinding included; its end takes every tab with it |
| `LiveProcessKeepsLease` | every step of a process that lives is a step of `ChromeLease` or a stutter of it |

It reuses the supervisor's action lemmas: a step of the bridge is a step of the
supervisor (`LiveStepIsSupervisorStep`), or leaves it alone, or is `Die`, which
re-establishes the invariant. The last two are stated with `alive /\ alive'` because a new
process starts a new lease.

`ServiceProofs` adds to `BridgeInv` what is true of the deployment: the running process
has a token no older than the newest one that was printed when it loaded it, which
rests on the file holding nothing valid but the last value written (`DeployInv`);
whoever is let in carries that token; a drain or a pending stop was asked for; and
Stopped is told at the end of main only, which stays there until the process is gone
(`ReportInv`, `OverStays`). `ServiceStepIsBridgeStep` is the refinement, and gives `BridgeInv'`
at once:

| Theorem | Statement |
|---|---|
| `ServiceInductive`, `ServiceTypeCorrect` | `ServiceSpec => []ServiceInv`, `[]ServiceTypeOK` |
| `ServiceIsABridge` | `ServiceSpec => ImplementsBridge` |
| `StoppedMeansClean`, `OldTokensStayDead`, `SuccessMeansAsked` | `StoppedIsClean`, `OldTokensAreDead`, `SuccessWasAsked` |
| `ServiceNeverLeaksChrome`, `ServiceDrainsCleanly`, `ServiceRelaunchIsSafe` | what `BridgeProofs` proves, for the deployed process, by the refinement |

`TabRunProofs` says per caller where its list stands: which steps lie behind it
(`StageInv`), what they switched on (`SessionInv`), how many frames they gave
(`FrameInv`), what the sinks gave (`SinkInv`), and that a request that is alone keeps
the foreground it took (`AloneInv`). `StepFacts` is the only lemma that looks into the
two lists:

| Theorem | Statement |
|---|---|
| `TabInductive`, `TabTypeCorrect` | `TabSpec => []TabInv`, `[]TabTypeOK` |
| `SessionIsThereFirst`, `ResultsAreComplete`, `CausesAreReported`, `LoneRequestsObserve` | the four properties of `tab_results` |

`ExchangeProofs` relates clocks: a client whose handler found Chrome up has waited no
longer than the handler has worked (`LimitInv`), so its limit cannot pass before a
shorter deadline:

| Theorem | Statement |
|---|---|
| `ExInductive`, `ExchangeTypeCorrect` | `ExSpec => []ExInv`, `[]ExchangeTypeOK` |
| `RoomIsThePages` | `ExSpec => []WindowHasRoom` |
| `ClientsArePatient` | `[]PatientEnough`, if `DefaultLimit < ClientLimit` (30s and 60s in the code) |

`ProbeProofs` shows per watch that a reading prolongs the path of the report
(`LongerPath`) and that what was shown stays shown (`ShownStaysShown`). For two watches
`AgreeInv` compares not the reports but what they will be once the reading in progress
is over, which no `Read` changes (`ReadGivesDue`); that equal histories now were equal
before follows from the number of the task in each entry (`SameBefore`). For slow pages
`GapInv` says that what a watch showed since its last reading came at most a gap ago, so
that at most one such value is found:

| Theorem | Statement |
|---|---|
| `ProbeInductive`, `ProbeTypeCorrect` | `ProbeSpec => []ProbeInv`, `[]ProbeTypeOK` |
| `ReportsArePaths`, `TransitionsHappened`, `WatchesAreAlike`, `SlowPagesAreReported` | the other four invariants of `probe` |

`BurstProofs` has a simple invariant (`BurstInv`: an answer is the summary of as many
readable frames as were asked for) and its work in the functions. Sums are
cardinalities, so a bound on a sum is an inclusion of sets (`TotalAtMost`,
`TotalAtLeast`), the sum of two functions a disjoint union (`TotalOfSum`), and a common
factor a bijection (`TotalOfMultiple`): no induction over the frames is needed. That a
median exists is the least-number principle (`MedianExists`), that there is one only
makes it independent of the order of sorting (`MedianIsUnique`). A rising crossing is
never followed by another (`EventFacts`), so four of them need nine frames
(`EventsAreSparse`); of at least three gaps two are no shorter than their median, so it
fits into the burst twice (`MedianGapTwice`), and half of the delays are no shorter
than theirs, so the period fits into the time the burst took (`MedianTimesHalf`). The
events of a redraw loop are its jumps, because its mean lies above 0 and not above the jump
(`EventsOfJumps`), and all their gaps are the period (`PeriodicGaps`):

| Theorem | Statement |
|---|---|
| `BurstInductive`, `BurstTypeCorrect` | `Spec => []BurstInv`, `[]BurstTypeOK` |
| `StaticScenesAreQuiet`, `RegionsDecide`, `OscillationsAreSeveralCycles`, `RedrawLoopsAreFound` | the other four invariants of `burst_analysis` |
| `EqualMotionIsNoOscillation` | equal diffs are no oscillation: what is true of the comment that `burst_steady` refutes |
| `MedianOfSorted`, `RegularIsLowVariation` | two abstractions of the model are what the code computes |

The proof of `SeveralCycles` corrected it: stated with the rounded figures of the
answer it is false for a large region, where two diffs that differ by a pixel are the
same tenth of a percent. It counts the rises of the exact series.

**Only model-checked**: the liveness properties `CallsReturn`, `Recovers`, `SignalExits`,
`RestartServes`, `BrowserAnswers`, `StopIsDone`, `CommandEnds`, `WorkEnds` and
`ProbeReturns`, because the prover does not reason about fairness and `ENABLED`. Every
invariant and every action property of a passing run is proved, as is every refinement.

## 6. Not modelled

- The rest of the client: argument parsing, the precedence of environment over
  configuration file, decoding and formatting of answers. It is sequential code whose
  result no other part sees but as a request, which `TabRun` and `Exchange` take from a
  set.
- The scripts under `windows/`: one-shot; what they do to the system is `Boot`,
  `Restart` and `GenerateToken`.
- A second bridge on the same machine: `Start` sweeps the profile before the port is
  known to be free, so a rival ends the Chrome of the first. To the first this is a
  `Crash`, from which it recovers; the rival itself is not modelled.
- What one caller's session leaves in the shared profile for the next.
- Logging and the event log; HTTP keep-alive, transport, JSON: data that no
  property tells apart.

## 7. Plan

Done, in this order: `Supervisor` with its abstraction and proofs; `Bridge` with
its proofs; `TabRun`; `BurstAnalysis`; `Service`, `Exchange` and `Probe`; the proofs
of `Service`, `TabRun`, `Exchange`, `Probe` and `BurstAnalysis`.

Next: `TabRun` composed with `Supervisor`, for a tab whose Chrome is relaunched under
it: it ends with an error, never with a result of another Chrome.
