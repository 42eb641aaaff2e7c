-------------------------------- MODULE Bridge --------------------------------
(***************************************************************************)
(* The bridge process around the supervisor: runWithConfig                  *)
(* (cmd/bridge/main.go) starts Chrome, serves HTTP (internal/server), and   *)
(* shuts the browser down when ListenAndServe returns; a signal or a        *)
(* service stop drains the server for at most 5s; the process may be killed *)
(* at any moment and is started again, and what it leaves behind is the     *)
(* orphan of the next one.  A handler authenticates, decodes the body for   *)
(* as long as the client takes to send it, and only then calls the browser. *)
(***************************************************************************)
EXTENDS Supervisor

CONSTANT MaxRestarts  \* bound: how often the process is started again

ASSUME RestartsAssumption == MaxRestarts \in Nat

VARIABLES
    srv,      \* ListenAndServe: before, listening, draining, or why it returned
    ctxDone,  \* the context of runWithConfig is cancelled
    http,     \* stage of the handler of each request
    cred,     \* whether the request carries the bearer token
    alive,    \* the process runs
    restarts  \* times it was started again

bridgeVars == <<srv, ctxDone, http, cred, alive, restarts>>
allVars == <<vars, bridgeVars>>

Returned == {"drained", "expired", "unbound", "broken"}

\* An error of one Serve goroutine leaves the other listener open
Accepting == srv \in {"listening", "broken"}

\* Every variable keeps its type, across restarts.
BridgeTypeOK ==
    /\ TypeOK
    /\ srv \in {"down", "listening", "draining"} \cup Returned
    /\ ctxDone \in BOOLEAN /\ alive \in BOOLEAN
    /\ http \in [Requests -> {"none", "auth", "body", "run"}]
    /\ cred \in [Requests -> BOOLEAN]
    /\ restarts \in 0..MaxRestarts

BridgeInit ==
    /\ Init
    /\ srv = "down" /\ ctxDone = FALSE /\ alive = TRUE /\ restarts = 0
    /\ http = [r \in Requests |-> "none"]
    /\ cred = [r \in Requests |-> FALSE]

Stage(r, s) == http' = [http EXCEPT ![r] = s]
Close(r) == Stage(r, "none") /\ cred' = [cred EXCEPT ![r] = FALSE]
Drained == \A r \in Requests : http[r] = "none"

-----------------------------------------------------------------------------
(* Handlers *)

\* A POST on an open listener, with or without the token
Arrive(r) ==
    /\ Accepting
    /\ http[r] = "none"
    /\ \E ok \in BOOLEAN : cred' = [cred EXCEPT ![r] = ok]
    /\ Stage(r, "auth")
    /\ UNCHANGED <<vars, srv, ctxDone, alive, restarts>>

\* Mutant: a route without requireAuth
AuthenticateNobody(r) ==
    /\ http[r] = "auth"
    /\ Stage(r, "body")
    /\ UNCHANGED <<vars, srv, ctxDone, cred, alive, restarts>>

\* requireAuth: 401, or the handler behind it
Authenticate(r) ==
    /\ http[r] = "auth"
    /\ IF cred[r] THEN Stage(r, "body") /\ UNCHANGED cred ELSE Close(r)
    /\ UNCHANGED <<vars, srv, ctxDone, alive, restarts>>

\* The body does not decode (400) or a required field is missing (500)
RejectBody(r) ==
    /\ http[r] = "body"
    /\ Close(r)
    /\ UNCHANGED <<vars, srv, ctxDone, alive, restarts>>

\* Screenshot, Burst or Eval asks for a tab
CallBrowser(r) ==
    /\ http[r] = "body"
    /\ NewTab(r)
    /\ Stage(r, "run")
    /\ UNCHANGED <<srv, ctxDone, cred, alive, restarts>>

\* GET /healthz needs no token
Health(r) ==
    /\ Accepting
    /\ http[r] = "none"
    /\ Probe(r)
    /\ Stage(r, "run")
    /\ UNCHANGED <<srv, ctxDone, cred, alive, restarts>>

\* The result, the error or the health answer has been written, which takes as
\* long as the client takes to read it: the server sets no write timeout
Reply(r) ==
    /\ http[r] = "run" /\ pc[r] = "idle"
    /\ Close(r)
    /\ UNCHANGED <<vars, srv, ctxDone, alive, restarts>>

-----------------------------------------------------------------------------
(* ListenAndServe *)

SrvStep(from, to) ==
    /\ srv = from
    /\ srv' = to
    /\ UNCHANGED <<ctxDone, http, cred, alive, restarts>>

\* 127.0.0.1 must bind, ::1 is best effort
Bind == pc[Main] = "serve" /\ SrvStep("down", "listening") /\ UNCHANGED vars

BindFails ==
    /\ pc[Main] = "serve" /\ SrvStep("down", "unbound")
    /\ Fault
    /\ UNCHANGED <<mu, pc, life, gen, launchDone, chrome, tab, up>>

\* One of the two Serve goroutines returns an error
ServeFails ==
    /\ SrvStep("listening", "broken")
    /\ Fault
    /\ UNCHANGED <<mu, pc, life, gen, launchDone, chrome, tab, up>>

BeginDrain == ctxDone /\ SrvStep("listening", "draining") /\ UNCHANGED vars

\* Mutant: the listeners are closed but handlers are not waited for
CloseOnly == SrvStep("draining", "drained") /\ UNCHANGED vars

DrainDone == Drained /\ SrvStep("draining", "drained") /\ UNCHANGED vars

\* Mutant: the drain has no deadline
GraceNever == FALSE /\ SrvStep("draining", "expired") /\ UNCHANGED vars

\* 5s passed with a handler in flight; nothing stops that handler
GraceExpires == ~Drained /\ SrvStep("draining", "expired") /\ UNCHANGED vars

\* The deferred Shutdown of runWithConfig
Unwind == srv \in Returned /\ CallShutdown /\ UNCHANGED bridgeVars

-----------------------------------------------------------------------------
(* The process *)

\* An interrupt, SIGTERM, or a stop of the Windows service
Signal ==
    /\ ~ctxDone
    /\ ctxDone' = TRUE
    /\ UNCHANGED <<vars, srv, http, cred, alive, restarts>>

\* Everything in the process is lost; its Chrome keeps running as an orphan
Die ==
    /\ alive' = FALSE
    /\ mu' = NoThread
    /\ pc' = [t \in Threads |-> IF t = Main THEN "start" ELSE "idle"]
    /\ cur' = 0 /\ cancel' = 0
    /\ launchDone' = "none"
    /\ allocDone' = 1..gen /\ browserDone' = 1..gen
    /\ running' = {} /\ orphan' = (orphan \/ running # {})
    /\ tab' = [r \in Requests |-> 0]
    /\ up' = FALSE
    /\ srv' = "down" /\ ctxDone' = FALSE
    /\ http' = [r \in Requests |-> "none"]
    /\ cred' = [r \in Requests |-> FALSE]
    /\ UNCHANGED <<gen, dying, restarts>>

\* main returns after runWithConfig
ProcessExit == pc[Main] \in {"stopped", "failed"} /\ Die /\ UNCHANGED faults

HardKill == Fault /\ Die

Restart ==
    /\ ~alive
    /\ restarts < MaxRestarts
    /\ alive' = TRUE
    /\ restarts' = restarts + 1
    /\ UNCHANGED <<vars, srv, ctxDone, http, cred>>

\* The last incarnation is over
Ended == ~alive /\ restarts = MaxRestarts /\ UNCHANGED allVars

-----------------------------------------------------------------------------

Handler(r) ==
    \/ Arrive(r) \/ Authenticate(r) \/ RejectBody(r)
    \/ CallBrowser(r) \/ Health(r) \/ Reply(r)

Listen == Bind \/ BindFails \/ ServeFails \/ BeginDrain \/ DrainDone \/ GraceExpires

Supervise ==
    /\ \/ \E r \in Requests : Acquire(r) \/ Serve(r) \/ AnswerHealth(r)
       \/ \E t \in Threads : Launch(t)
       \/ Start \/ Shutdown
       \/ RunReturns \/ TimerFires
       \/ \E g \in 1..gen : Crash(g) \/ Disconnect(g) \/ LostConnection(g)
    /\ UNCHANGED bridgeVars

\* A Chrome that was told to exit needs no bridge to do so
ChromeExit == (\E g \in 1..gen : Exit(g)) /\ UNCHANGED bridgeVars

BridgeNext ==
    \/ alive /\ \/ \E r \in Requests : Handler(r)
                \/ Listen \/ Unwind \/ Supervise
                \/ Signal \/ ProcessExit \/ HardKill
    \/ ChromeExit \/ Restart \/ Ended

BridgeSpec == BridgeInit /\ [][BridgeNext]_allVars

\* As in Supervisor, with its assumption that sweeps return
SweepsReturn == \A t \in Threads : WF_allVars(alive /\ KillStale(t) /\ UNCHANGED bridgeVars)

\* As in Supervisor; and the grace timer of the drain fires, a process whose main
\* returned exits.  Nothing is assumed of clients: a body may never arrive, an
\* answer may never be read.
ServingFairness ==
    /\ SweepsReturn
    /\ \A r \in Requests :
         /\ SF_allVars(alive /\ Acquire(r) /\ UNCHANGED bridgeVars)
         /\ SF_allVars(alive /\ AnswerHealth(r) /\ UNCHANGED bridgeVars)
         /\ WF_allVars(alive /\ Serve(r) /\ UNCHANGED bridgeVars)
    /\ \A t \in Threads : WF_allVars(/\ alive
                                     /\ Spawn(t) \/ LaunchOK(t) \/ LaunchFail(t)
                                     /\ UNCHANGED bridgeVars)
    /\ WF_allVars(alive /\ Start /\ UNCHANGED bridgeVars)
    /\ SF_allVars(alive /\ Shutdown /\ UNCHANGED bridgeVars)
    /\ WF_allVars(alive /\ RunReturns /\ UNCHANGED bridgeVars)
    /\ WF_allVars(alive /\ (Bind \/ BeginDrain \/ DrainDone \/ GraceExpires))
    /\ WF_allVars(alive /\ Unwind)

FairBridge == BridgeSpec /\ ServingFairness /\ WF_allVars(alive /\ ProcessExit)

-----------------------------------------------------------------------------
(* Safety *)

\* Only a request that carried the token ever has a tab: every route to the
\* browser goes through requireAuth (server.go:36-38, 98-109).
NoUnauthorizedTab == \A r \in Requests : tab[r] # 0 => cred[r]

\* After a drain that ended in time no handler is in flight, in the server or
\* in the browser, until the process ends: Shutdown cuts nobody off and nobody
\* relaunches Chrome behind it (server.go:189-192, main.go:104-108).
DrainedIsQuiet ==
    srv = "drained" => \A r \in Requests : http[r] = "none" /\ pc[r] = "idle"

\* A process that ends by itself after such a drain leaves no Chrome behind:
\* the deferred Shutdown got the last one (main.go:105).
DrainedExitIsClean ==
    [][ alive /\ ~alive' /\ srv = "drained" /\ pc[Main] = "stopped" => running = {} ]_allVars

\* "Shutdown kills Chrome and releases resources" (browser.go:151): a process
\* that ends by itself after Shutdown leaves no Chrome behind, whatever became
\* of the drain.  A handler that outlived the 5s grace may relaunch Chrome
\* between Shutdown and the end of the process.
ExitLeavesNoChrome ==
    [][ alive /\ ~alive' /\ pc[Main] = "stopped" => running = {} ]_allVars

(* Liveness *)

\* As long as sweeps return, a signal ends the process, even one that comes while
\* Start is launching Chrome, or while handlers never finish reading their body or
\* writing their answer (server.go:184-193, main.go:104-108).
SignalExits == ctxDone ~> ~alive

\* "Clearing the orphan before we launch makes restarts reliable"
\* (cleanup_windows.go:18-19): with no fault left, and sweeps that return, a process
\* that starts, with whatever Chrome the last one left behind, gets to listen; a
\* stop that comes earlier waits for that.
RestartServes ==
    (alive /\ pc[Main] = "start" /\ faults = MaxFaults) ~> srv = "listening"

\* As long as sweeps return, a handler that has called the browser gets a result,
\* an error or the health to answer with, unless the process ends: other handlers
\* that wait for their client, for a body or to have their answer read, keep nothing
\* it needs (browser.go:182-208, server.go:42-92).
BrowserAnswers == \A r \in Requests : http[r] = "run" ~> pc[r] = "idle"

-----------------------------------------------------------------------------
(* The inductive invariant, on top of the supervisor's *)

\* A handler holds its stage while it is in the browser, and got there with
\* the token unless it only asks for the health.
HandlerInv ==
    \A r \in Requests :
        /\ pc[r] # "idle" => http[r] = "run"
        /\ pc[r] \notin {"idle", "probe"} => cred[r]
        /\ http[r] = "body" => cred[r]

\* The main goroutine and ListenAndServe move together.
ServerInv ==
    /\ srv # "down" => pc[Main] \in {"serve", "stop", "stopped"}
    /\ pc[Main] \in {"stop", "stopped"} => srv \in Returned
    /\ srv \in {"down", "unbound", "drained"} => Drained
    /\ srv \in {"unbound", "drained"} /\ pc[Main] = "stopped" => cancel = 0

BridgeInv == BridgeTypeOK /\ IInv /\ HandlerInv /\ ServerInv
=============================================================================
