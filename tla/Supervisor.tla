------------------------------ MODULE Supervisor ------------------------------
(***************************************************************************)
(* The Chrome supervisor of internal/browser/browser.go: the Browser struct *)
(* with its mutex, its two contexts and their cancel functions, shared by   *)
(* the goroutine that runs the bridge (Start, Shutdown) and by one          *)
(* goroutine per HTTP request (newTab, Healthy).                            *)
(*                                                                          *)
(* Each call of launchLocked that gets as far as creating the contexts is a *)
(* generation 1, 2, ...: its allocator context, its browser context and the *)
(* Chrome process behind them.  The environment is Windows and Chrome: a    *)
(* process crashes, its loss is noticed later, a killed process holds the   *)
(* profile for a moment, an orphan of an earlier bridge holds it until it   *)
(* is swept.  What the environment may do is bounded by MaxFaults; what     *)
(* requests may do is not bounded.                                          *)
(***************************************************************************)
EXTENDS Naturals, FiniteSets

CONSTANTS
    Requests,   \* the goroutines that serve HTTP requests
    Main,       \* the goroutine of runWithConfig: Start, serve, Shutdown
    NoThread,   \* value of mu when the mutex is free
    MaxFaults   \* bound: crashes, disconnects, failed or slow launches, failed sweeps

ASSUME ThreadsAssumption == Main \notin Requests /\ NoThread \notin Requests \cup {Main}
ASSUME FaultsAssumption == MaxFaults \in Nat

Threads == Requests \cup {Main}

VARIABLES
    mu,          \* b.mu: the thread that holds it, or NoThread
    pc,          \* where each thread is
    cur,         \* generation of b.allocCtx and b.browserCtx, 0 when they are nil
    cancel,      \* generation of b.allocCancel and b.browserCancel, 0 when they are nil
    gen,         \* the last generation launched
    launchDone,  \* the channel and the 60s timer of the launch in progress
    allocDone,   \* generations whose allocator context is done
    browserDone, \* generations whose browser context is done
    running,     \* generations whose Chrome process runs
    dying,       \* generations whose Chrome was told to exit and still holds the profile
    orphan,      \* a Chrome of an earlier bridge process holds the profile
    tab,         \* the generation of the context newTab handed a request and, once
                 \* it is open, of its tab; 0 when it has none
    up,          \* the chrome_alive of the last answer of /healthz
    faults       \* faults the environment has committed

life == <<cur, cancel, allocDone, browserDone>>
chrome == <<running, dying, orphan>>
vars == <<mu, pc, cur, cancel, gen, launchDone, allocDone, browserDone,
          running, dying, orphan, tab, up, faults>>

Critical == {"check", "kill", "spawn", "await", "open"}
Launching == {"kill", "spawn", "await"}

\* Every variable keeps its type; contexts and processes belong to generations that were launched.
TypeOK ==
    /\ mu \in Threads \cup {NoThread}
    /\ pc \in [Threads -> {"idle", "want", "probe", "parent", "tab", "start", "serve",
                           "stop", "stopped", "failed"} \cup Critical]
    /\ cur \in Nat /\ cancel \in Nat /\ gen \in Nat
    /\ launchDone \in {"none", "pending", "slow", "ok", "late", "err"}
    /\ allocDone \subseteq 1..gen /\ browserDone \subseteq 1..gen
    /\ running \subseteq 1..gen /\ dying \subseteq 1..gen
    /\ orphan \in BOOLEAN
    /\ tab \in [Requests -> Nat]
    /\ up \in BOOLEAN
    /\ faults \in 0..MaxFaults

Init ==
    /\ mu = NoThread
    /\ pc = [t \in Threads |-> IF t = Main THEN "start" ELSE "idle"]
    /\ cur = 0 /\ cancel = 0 /\ gen = 0
    /\ launchDone = "none"
    /\ allocDone = {} /\ browserDone = {}
    /\ running = {} /\ dying = {} /\ orphan \in BOOLEAN
    /\ tab = [r \in Requests |-> 0]
    /\ up = FALSE
    /\ faults = 0

-----------------------------------------------------------------------------
(* Helpers *)

Goto(t, label) == pc' = [pc EXCEPT ![t] = label]

Fault == faults < MaxFaults /\ faults' = faults + 1

\* Chrome allows one process per user-data-dir: a second one hands off and exits
ProfileHeld == orphan \/ running # {} \/ dying # {}

\* Mutant: only the allocator context is looked at
HealthyByAllocator == cur # 0 /\ cur \notin allocDone

Healthy == cur # 0 /\ cur \notin allocDone /\ cur \notin browserDone

\* Cancelling the contexts of the generations in G ends their processes
End(G) ==
    /\ allocDone' = allocDone \cup G
    /\ browserDone' = browserDone \cup G
    /\ running' = running \ G
    /\ dying' = dying \cup (running \cap G)

\* Mutant: the allocator's cancel function is dropped without being called
CancelBrowserOnly ==
    /\ browserDone' = browserDone \cup ({cancel} \ {0})
    /\ running' = running \ {cancel}
    /\ dying' = dying \cup (running \cap {cancel})
    /\ cancel' = 0 /\ UNCHANGED allocDone

\* Call and clear the two cancel functions; the contexts stay in the struct
CancelAll == End({cancel} \ {0}) /\ cancel' = 0

\* Requests are served once Start has returned without an error
Serving == pc[Main] \in {"serve", "stop", "stopped"}

-----------------------------------------------------------------------------
(* newTab, by a request *)

NewTab(r) ==
    /\ Serving
    /\ pc[r] = "idle"
    /\ Goto(r, "want")
    /\ UNCHANGED <<mu, life, gen, launchDone, chrome, tab, up, faults>>

Acquire(r) ==
    /\ pc[r] = "want" /\ mu = NoThread
    /\ mu' = r
    /\ Goto(r, "check")
    /\ UNCHANGED <<life, gen, launchDone, chrome, tab, up, faults>>

Reuse(r) ==
    /\ pc[r] = "check"
    /\ Healthy
    /\ Goto(r, "open")
    /\ UNCHANGED <<mu, life, gen, launchDone, chrome, tab, up, faults>>

\* Mutant: Chrome is relaunched without looking again under the mutex
TeardownUnchecked(r) ==
    /\ pc[r] = "check"
    /\ CancelAll
    /\ Goto(r, "kill")
    /\ UNCHANGED <<mu, cur, gen, launchDone, orphan, tab, up, faults>>

Teardown(r) ==
    /\ pc[r] = "check"
    /\ ~Healthy
    /\ CancelAll
    /\ Goto(r, "kill")
    /\ UNCHANGED <<mu, cur, gen, launchDone, orphan, tab, up, faults>>

\* Mutant: the mutex is kept while the tab is used
HandOutLocked(r) ==
    /\ pc[r] = "open"
    /\ tab' = [tab EXCEPT ![r] = cur]
    /\ Goto(r, "parent")
    /\ UNCHANGED <<mu, life, gen, launchDone, chrome, up, faults>>

\* parent := b.browserCtx; unlock
HandOut(r) ==
    /\ pc[r] = "open"
    /\ tab' = [tab EXCEPT ![r] = cur]
    /\ mu' = NoThread
    /\ Goto(r, "parent")
    /\ UNCHANGED <<life, gen, launchDone, chrome, up, faults>>

\* NewContext(parent), without the mutex: a shutdown, a relaunch or the loss of
\* Chrome may have come in between, and then the tab's context is done at once
OpenTab(r) ==
    /\ pc[r] = "parent"
    /\ Goto(r, "tab")
    /\ UNCHANGED <<mu, life, gen, launchDone, chrome, tab, up, faults>>

\* The deferred cancelTab: the operation ends, by success, error or timeout
Finish(r) ==
    /\ pc[r] = "tab"
    /\ tab' = [tab EXCEPT ![r] = 0]
    /\ Goto(r, "idle")
    /\ UNCHANGED <<mu, life, gen, launchDone, chrome, up, faults>>

-----------------------------------------------------------------------------
(* launchLocked, by the thread that holds the mutex *)

\* Mutant: only the children of this process are swept
SweepSparesOrphan == running' = {} /\ dying' = {} /\ UNCHANGED <<orphan, faults>>

SweepSucceeds == running' = {} /\ dying' = {} /\ orphan' = FALSE /\ UNCHANGED faults

\* killStaleChrome logs its error and returns; it is a no-op off Windows
SweepFails == Fault /\ UNCHANGED chrome

KillStale(t) ==
    /\ pc[t] = "kill"
    /\ SweepSucceeds \/ SweepFails
    /\ Goto(t, "spawn")
    /\ UNCHANGED <<mu, life, gen, launchDone, tab, up>>

\* Mutant: the launch reuses the number of the last generation
SpawnSameGeneration(t) ==
    /\ pc[t] = "spawn"
    /\ launchDone' = IF ProfileHeld THEN "err" ELSE "pending"
    /\ running' = IF ProfileHeld THEN running ELSE running \cup {gen + 1}
    /\ Goto(t, "await")
    /\ UNCHANGED <<mu, life, gen, dying, orphan, tab, up, faults>>

\* The contexts are created and the goroutine starts Chrome, which hands off
\* to the Chrome that holds the profile, or runs
Spawn(t) ==
    /\ pc[t] = "spawn"
    /\ gen' = gen + 1
    /\ launchDone' = IF ProfileHeld THEN "err" ELSE "pending"
    /\ running' = IF ProfileHeld THEN running ELSE running \cup {gen + 1}
    /\ Goto(t, "await")
    /\ UNCHANGED <<mu, life, dying, orphan, tab, up, faults>>

\* The launch goroutine sends nil, or an error, on the buffered channel
RunReturns ==
    /\ launchDone \in {"pending", "slow"}
    /\ \/ /\ gen \in running
          /\ launchDone' = IF launchDone = "slow" THEN "late" ELSE "ok"
          /\ UNCHANGED faults
       \/ /\ gen \notin running \/ gen \in browserDone
          /\ launchDone' = "err"
          /\ UNCHANGED faults
       \/ /\ Fault
          /\ launchDone' = "err"
    /\ UNCHANGED <<mu, pc, life, gen, chrome, tab, up>>

\* time.After(60s) before the launch has answered
TimerFires ==
    /\ launchDone = "pending"
    /\ Fault
    /\ launchDone' = "slow"
    /\ UNCHANGED <<mu, pc, life, gen, chrome, tab, up>>

\* Mutant: the cancel functions are not stored
AdoptWithoutCancel(t) ==
    /\ pc[t] = "await"
    /\ launchDone \in {"ok", "late"}
    /\ cur' = gen
    /\ launchDone' = "none"
    /\ IF t = Main THEN Goto(t, "serve") /\ mu' = NoThread
                   ELSE Goto(t, "open") /\ UNCHANGED mu
    /\ UNCHANGED <<cancel, gen, allocDone, browserDone, chrome, tab, up, faults>>

\* The four fields are assigned; Start unlocks, newTab goes on
LaunchOK(t) ==
    /\ pc[t] = "await"
    /\ launchDone \in {"ok", "late"}
    /\ cur' = gen /\ cancel' = gen
    /\ launchDone' = "none"
    /\ IF t = Main THEN Goto(t, "serve") /\ mu' = NoThread
                   ELSE Goto(t, "open") /\ UNCHANGED mu
    /\ UNCHANGED <<gen, allocDone, browserDone, chrome, tab, up, faults>>

\* Mutant: the timeout returns without cancelling the launch
LaunchFailAbandons(t) ==
    /\ pc[t] = "await"
    /\ launchDone \in {"err", "slow", "late"}
    /\ launchDone' = "none"
    /\ mu' = NoThread
    /\ Goto(t, IF t = Main THEN "failed" ELSE "idle")
    /\ UNCHANGED <<life, gen, chrome, tab, up, faults>>

\* Mutant: the error path of newTab forgets to unlock
LaunchFailLocked(t) ==
    /\ pc[t] = "await"
    /\ launchDone \in {"err", "slow", "late"}
    /\ End({gen})
    /\ launchDone' = "none"
    /\ Goto(t, IF t = Main THEN "failed" ELSE "idle")
    /\ UNCHANGED <<mu, cur, cancel, gen, orphan, tab, up, faults>>

\* An error or the timeout: cancel both contexts, return the error, unlock
LaunchFail(t) ==
    /\ pc[t] = "await"
    /\ launchDone \in {"err", "slow", "late"}
    /\ End({gen})
    /\ launchDone' = "none"
    /\ mu' = NoThread
    /\ Goto(t, IF t = Main THEN "failed" ELSE "idle")
    /\ UNCHANGED <<cur, cancel, gen, orphan, tab, up, faults>>

-----------------------------------------------------------------------------
(* Start and Shutdown, by the main goroutine; Healthy, by /healthz *)

Start ==
    /\ pc[Main] = "start" /\ mu = NoThread
    /\ mu' = Main
    /\ Goto(Main, "kill")
    /\ UNCHANGED <<life, gen, launchDone, chrome, tab, up, faults>>

CallShutdown ==
    /\ pc[Main] = "serve"
    /\ Goto(Main, "stop")
    /\ UNCHANGED <<mu, life, gen, launchDone, chrome, tab, up, faults>>

\* Mutant: Shutdown returns without ending Chrome
ShutdownIdle ==
    /\ pc[Main] = "stop" /\ mu = NoThread
    /\ Goto(Main, "stopped")
    /\ UNCHANGED <<mu, life, gen, launchDone, chrome, tab, up, faults>>

Shutdown ==
    /\ pc[Main] = "stop" /\ mu = NoThread
    /\ CancelAll
    /\ Goto(Main, "stopped")
    /\ UNCHANGED <<mu, cur, gen, launchDone, orphan, tab, up, faults>>

Probe(r) ==
    /\ Serving
    /\ pc[r] = "idle"
    /\ Goto(r, "probe")
    /\ UNCHANGED <<mu, life, gen, launchDone, chrome, tab, up, faults>>

AnswerHealth(r) ==
    /\ pc[r] = "probe" /\ mu = NoThread
    /\ up' = Healthy
    /\ Goto(r, "idle")
    /\ UNCHANGED <<mu, life, gen, launchDone, chrome, tab, faults>>

-----------------------------------------------------------------------------
(* The environment: Chrome processes and their connections *)

Crash(g) ==
    /\ g \in running
    /\ Fault
    /\ running' = running \ {g}
    /\ UNCHANGED <<mu, pc, life, gen, launchDone, dying, orphan, tab, up>>

\* The anchor tab or the connection is lost; chromedp cancels the browser
\* context and Chrome is told to exit
Disconnect(g) ==
    /\ g \in running
    /\ Fault
    /\ browserDone' = browserDone \cup {g}
    /\ running' = running \ {g}
    /\ dying' = dying \cup {g}
    /\ UNCHANGED <<mu, pc, cur, cancel, gen, launchDone, allocDone, orphan, tab, up>>

\* chromedp notices that the process of g is gone, some time after it went
LostConnection(g) ==
    /\ g \in (1..gen) \ (running \cup browserDone)
    /\ browserDone' = browserDone \cup {g}
    /\ UNCHANGED <<mu, pc, cur, cancel, gen, launchDone, allocDone, chrome, tab, up, faults>>

Exit(g) ==
    /\ g \in dying
    /\ dying' = dying \ {g}
    /\ UNCHANGED <<mu, pc, life, gen, launchDone, running, orphan, tab, up, faults>>

\* runWithConfig has returned the error of Start: the process is over
Exited == pc[Main] = "failed" /\ UNCHANGED vars

-----------------------------------------------------------------------------

Launch(t) == KillStale(t) \/ Spawn(t) \/ LaunchOK(t) \/ LaunchFail(t)
Serve(r) == Reuse(r) \/ Teardown(r) \/ HandOut(r) \/ OpenTab(r) \/ Finish(r)
Environment ==
    \/ RunReturns \/ TimerFires
    \/ \E g \in 1..gen : Crash(g) \/ Disconnect(g) \/ LostConnection(g) \/ Exit(g)

Next ==
    \/ \E r \in Requests : NewTab(r) \/ Acquire(r) \/ Serve(r) \/ Probe(r) \/ AnswerHealth(r)
    \/ \E t \in Threads : Launch(t)
    \/ Start \/ CallShutdown \/ Shutdown
    \/ Environment
    \/ Exited

Spec == Init /\ [][Next]_vars

\* The Go scheduler runs every goroutine that can run; sync.Mutex hands the
\* lock to a waiter it has starved for 1ms, so a waiter that finds the mutex
\* free again and again gets it; the operations of a tab end by their timeout;
\* a launch answers or its timer fires; the operating system closes the
\* connection of a dead process.  And an assumption about Windows: the sweep
\* returns.  Its PowerShell is run under the mutex, before the launch's timer is
\* started, without a timeout of its own (cleanup_windows.go:38, browser.go:76);
\* if it hangs, so does every thread that wants the mutex.
SweepReturns == \A t \in Threads : WF_vars(KillStale(t))

Fairness ==
    /\ SweepReturns
    /\ \A r \in Requests : SF_vars(Acquire(r)) /\ SF_vars(AnswerHealth(r)) /\ WF_vars(Serve(r))
    /\ \A t \in Threads : WF_vars(Spawn(t) \/ LaunchOK(t) \/ LaunchFail(t))
    /\ WF_vars(Start) /\ SF_vars(Shutdown)
    /\ WF_vars(RunReturns)
    /\ WF_vars(\E g \in 1..gen : LostConnection(g))

FairSpec == Spec /\ Fairness
-----------------------------------------------------------------------------
(* Safety *)

UnderLaunch(g) == g = gen /\ \E t \in Threads : pc[t] = "await"

\* Every Chrome of this process that runs is one that Shutdown or the next
\* teardown will end, or is still being launched: no failed launch, timeout or
\* relaunch leaves one behind (browser.go:131-140, 191-198).
NoLeakedChrome == \A g \in running : g = cancel \/ UnderLaunch(g)

\* "Tear down the stale contexts before relaunching to avoid leaking them"
\* (browser.go:190): a context that was never cancelled still has its cancel
\* function in the struct, or belongs to the launch in progress.
NoLeakedContext == \A g \in (1..gen) \ allocDone : g = cancel \/ UnderLaunch(g)

\* A request that finds Chrome gone tears down, sweeps and relaunches without
\* ending a tab another request has open, or is about to open in the context it
\* was handed, in a Chrome that runs and is connected: the check under the mutex
\* is still right when it is acted on (browser.go:181-207).
RelaunchSparesTabs ==
    [][ \A r \in Requests : pc'[r] # pc[r] =>
          \A q \in Requests : tab[q] \in running \ browserDone =>
                              tab[q] \in running' \ browserDone' ]_vars

\* A request works while the context of its tab is live
Working == {r \in Requests : pc[r] = "tab" /\ tab[r] \notin browserDone}

\* The supervisor implements ChromeLease: it owns one Chrome at a time, never an
\* old one again; it hands out the one it owns; and although the tab is opened
\* after the mutex is released, a request that was overtaken by a shutdown or a
\* relaunch gets a dead context, never a tab in a Chrome that was given up
\* (browser.go:180-210).
Lease == INSTANCE ChromeLease
         WITH owned <- cancel, last <- cur, lease <- tab, working <- Working
ImplementsLease == Lease!LeaseSpec

(* Liveness *)

\* As long as sweeps return, every request that waits for the mutex, for newTab
\* or for /healthz, gets a tab, an error or an answer, and Start and Shutdown
\* return: no path of the code keeps the mutex, whatever Chrome does
\* (browser.go:66-70, 130-141, 182-208).
CallsReturn ==
    /\ \A r \in Requests : pc[r] \in {"want", "probe"} ~> pc[r] \in {"tab", "idle"}
    /\ pc[Main] = "start" ~> pc[Main] \in {"serve", "failed"}
    /\ pc[Main] = "stop" ~> pc[Main] = "stopped"

OpensInRunning == \A r \in Requests : pc[r] = "parent" /\ pc'[r] = "tab" => tab[r] \in running
HealthIsRight == \A r \in Requests : pc[r] = "probe" /\ pc'[r] = "idle" => up' = (cur \in running)

\* "otherwise we hand out a canceled context and every request fails", "checking
\* allocCtx alone gives false positives" (browser.go:188-189, 167): once no more
\* faults occur, from some point on every tab that is opened is one of a Chrome that
\* runs, and /healthz reports exactly whether the adopted Chrome does.
Recovers == <>[][ OpensInRunning /\ HealthIsRight ]_vars

\* "Health check every 30s: if Chrome's /json/version fails, kill and relaunch"
\* (SPEC.md:82): a Chrome that died while the bridge serves is replaced.  The
\* code only relaunches when a request calls newTab.
DeadChromeRelaunched ==
    (pc[Main] = "serve" /\ cur \notin running) ~> (pc[Main] # "serve" \/ cur \in running)

-----------------------------------------------------------------------------
(* The inductive invariant *)

\* The mutex is held exactly by the thread inside a critical section.
MutexInv == \A t \in Threads : mu = t <=> pc[t] \in Critical

\* The main goroutine and the requests keep to their own labels, nothing is
\* served before Start returned, and a request has a context only once it was
\* handed one and until its operation is over.
ControlInv ==
    /\ pc[Main] \in {"start", "serve", "stop", "stopped", "failed"} \cup Launching
    /\ \A r \in Requests : pc[r] \in {"idle", "want", "probe", "parent", "tab"} \cup Critical
    /\ ~Serving => \A r \in Requests : pc[r] = "idle"
    /\ \A r \in Requests : tab[r] # 0 <=> pc[r] \in {"parent", "tab"}

\* The cancel functions in the struct are those of its live contexts, and are
\* gone while a launch is in progress; no tab is newer than those contexts.
CancelInv ==
    /\ cur <= gen
    /\ \A r \in Requests : tab[r] <= cur
    /\ cancel # 0 => cancel = cur /\ cancel \notin allocDone
    /\ cancel = 0 /\ cur # 0 => cur \in allocDone
    /\ ~Serving => cancel = 0
    /\ \A t \in Threads : pc[t] \in Launching => cancel = 0
    /\ \A t \in Threads : pc[t] = "await" => gen \notin allocDone /\ gen > cur
    /\ \A t \in Threads : pc[t] = "open" => cancel # 0

\* A Chrome runs only while its allocator context is live.
ContextInv ==
    /\ allocDone \subseteq browserDone
    /\ running \cap browserDone = {}

\* All of it together: inductive, and it implies the safety invariants above
\* (browser.go:42-210).
IInv == TypeOK /\ MutexInv /\ ControlInv /\ CancelInv /\ ContextInv /\ NoLeakedContext
=============================================================================
