------------------------------- MODULE Service -------------------------------
(***************************************************************************)
(* The bridge as it is deployed: a console process, or a Windows service    *)
(* whose Execute (cmd/bridge/service_windows.go) runs the bridge in a       *)
(* goroutine and answers the service control manager (SCM).  Either loads   *)
(* its configuration once (internal/config), with the token in a file that  *)
(* gen-token may rewrite at any time.  The values the file has held are     *)
(* numbered 1, 2, ...: one that was cut at 32 characters or more is a value *)
(* of its own, one that is shorter, or no file, is 0.                       *)
(***************************************************************************)
EXTENDS Bridge

CONSTANT MaxTokens  \* bound: values the token file ever has

ASSUME TokensAssumption == MaxTokens \in Nat \ {0}

VARIABLES
    mode,    \* how the process is deployed
    entry,   \* main: not running, loading its configuration, or past that
    svc,     \* the status last reported to the SCM
    ask,     \* the control request that waits in the channel of Execute
    code,    \* exit code of the service or the process
    file,    \* the value in the token file
    genTok,  \* gen-token: not running, has truncated the file, has written it
    made,    \* the last value written
    printed, \* the last value that gen-token printed
    token,   \* the token of the running process
    since,   \* the last value printed when the process loaded its configuration
    held     \* the value a request carries; 0: none, or one that never was in the file

tokenVars == <<file, genTok, made, printed>>
svcVars == <<mode, entry, svc, ask, code, tokenVars, token, since, held>>
serviceVars == <<allVars, svcVars>>

Over == pc[Main] \in {"stopped", "failed"}

\* runWithConfig returns an error: no Chrome, no port, a listener that broke, or a
\* drain that took too long
RunFailed == pc[Main] = "failed" \/ srv \in {"unbound", "broken", "expired"}

\* Every variable keeps its type; the process has a token as long as it runs.
ServiceTypeOK ==
    /\ mode \in {"console", "service"}
    /\ entry \in {"off", "load", "up"} /\ (alive <=> entry = "up")
    /\ svc \in {"stopped", "startPending", "running", "stopPending"}
    /\ ask \in {"none", "interrogate", "stop"}
    /\ code \in {"none", "ok", "error"}
    /\ made \in 1..MaxTokens
    /\ file \in 0..made /\ printed \in 1..made /\ since \in 1..made
    /\ genTok \in {"off", "open", "written"}
    /\ token \in 0..made /\ (alive => token # 0)
    /\ held \in [Requests -> 0..made]

\* The first process has loaded its configuration
ServiceInit ==
    /\ BridgeInit
    /\ mode \in {"console", "service"}
    /\ entry = "up" /\ ask = "none" /\ code = "none"
    /\ svc = IF mode = "service" THEN "running" ELSE "stopped"
    /\ file = 1 /\ genTok = "off" /\ made = 1 /\ printed = 1 /\ token = 1 /\ since = 1
    /\ held = [r \in Requests |-> 0]

-----------------------------------------------------------------------------
(* gen-token *)

GenUnchanged == UNCHANGED <<allVars, mode, entry, svc, ask, code, token, since, held>>

\* os.WriteFile truncates the file
GenBegins ==
    /\ genTok = "off" /\ made < MaxTokens
    /\ file' = 0 /\ genTok' = "open"
    /\ UNCHANGED <<made, printed>> /\ GenUnchanged

\* and writes the new token, or so much of it that it passes for one
GenWrites ==
    /\ genTok = "open" /\ made < MaxTokens
    /\ made' = made + 1 /\ file' = made'
    /\ genTok' \in {"open", "written"}
    /\ UNCHANGED printed /\ GenUnchanged

\* main prints the token that GenerateToken returned
GenPrints ==
    /\ genTok = "written"
    /\ printed' = file /\ genTok' = "off"
    /\ UNCHANGED <<file, made>> /\ GenUnchanged

\* The disk is full, or gen-token is killed, at any point: the file stays as it is
GenFails ==
    /\ genTok # "off"
    /\ genTok' = "off"
    /\ UNCHANGED <<file, made, printed>> /\ GenUnchanged

GenerateToken == GenBegins \/ GenWrites \/ GenPrints \/ GenFails

-----------------------------------------------------------------------------
(* config.Load *)

LoadUnchanged == UNCHANGED <<mode, ask, tokenVars, held>>

\* The task or the SCM starts the process; Execute reports StartPending
Boot ==
    /\ entry = "off" /\ restarts < MaxRestarts
    /\ entry' = "load" /\ code' = "none"
    /\ svc' = IF mode = "service" THEN "startPending" ELSE "stopped"
    /\ UNCHANGED <<allVars, token, since>> /\ LoadUnchanged

\* Mutant: validate does not look at the token
ValidAnyway == TRUE

\* validate: the token has at least 32 characters, of the 64 it should have
Valid == file # 0

\* Load succeeds and runWithConfig starts; Execute reports Running at once
LoadOK ==
    /\ entry = "load" /\ Valid
    /\ Restart
    /\ entry' = "up" /\ token' = file /\ since' = printed
    /\ svc' = IF mode = "service" THEN "running" ELSE "stopped"
    /\ UNCHANGED code /\ LoadUnchanged

\* Mutant: the error of Load is logged and the bridge started
LoadFailsRuns ==
    /\ entry = "load"
    /\ entry' = "up" /\ code' = "error" /\ svc' = "running"
    /\ UNCHANGED <<allVars, token, since>> /\ LoadUnchanged

\* No token file, a token that is too short, no Chrome installed, or an address
\* that is not loopback: exit code 1
LoadFails ==
    /\ entry = "load"
    /\ entry' = "off" /\ code' = "error" /\ svc' = "stopped"
    /\ UNCHANGED <<allVars, token, since>> /\ LoadUnchanged

-----------------------------------------------------------------------------
(* Execute *)

Report(s, c) ==
    /\ svc' = s /\ code' = c
    /\ UNCHANGED <<mode, entry, tokenVars, token, since, held>>

\* The SCM asks for the status at any time, and for a stop once it was told Running
Control ==
    /\ mode = "service" /\ alive /\ svc # "stopped" /\ ask = "none"
    /\ ask' \in {"interrogate"} \cup (IF svc = "running" THEN {"stop"} ELSE {})
    /\ Report(svc, code) /\ UNCHANGED allVars

Interrogate ==
    /\ svc = "running" /\ alive /\ ask = "interrogate"
    /\ ask' = "none"
    /\ Report(svc, code) /\ UNCHANGED allVars

\* Mutant: the context is not cancelled
StopUncancelled ==
    /\ svc = "running" /\ alive /\ ask = "stop"
    /\ ask' = "none" /\ Report("stopPending", code) /\ UNCHANGED allVars

\* Stop or Shutdown: StopPending, and the context is cancelled
Stop ==
    /\ svc = "running" /\ alive /\ ask = "stop"
    /\ Signal
    /\ ask' = "none" /\ Report("stopPending", code)

\* Mutant: Execute returns without waiting for the bridge
StopAtOnce ==
    /\ svc = "stopPending" /\ alive
    /\ Report("stopped", "ok") /\ UNCHANGED <<allVars, ask>>

\* The bridge has returned; whatever it returned, a stop that was asked for
\* succeeds
StopDone ==
    /\ svc = "stopPending" /\ alive /\ Over
    /\ Report("stopped", "ok") /\ UNCHANGED <<allVars, ask>>

\* Mutant: the error is only logged
RunReturnedOK ==
    /\ svc = "running" /\ alive /\ Over
    /\ Report("stopped", "ok") /\ UNCHANGED <<allVars, ask>>

\* The bridge returned before Execute read a stop, if there is one
RunReturned ==
    /\ svc = "running" /\ alive /\ Over
    /\ Report("stopped", IF RunFailed THEN "error" ELSE "ok")
    /\ UNCHANGED <<allVars, ask>>

-----------------------------------------------------------------------------
(* The process *)

\* What is left of a process that is gone
Gone(c) ==
    /\ entry' = "off" /\ code' = c /\ svc' = "stopped" /\ ask' = "none"
    /\ token' = 0 /\ held' = [r \in Requests |-> 0]
    /\ UNCHANGED <<mode, tokenVars, since>>

\* runConsole: os.Exit(1) for an error
ConsoleExit ==
    /\ mode = "console" /\ alive /\ ProcessExit
    /\ Gone(IF RunFailed THEN "error" ELSE "ok")

\* Execute has returned, and main after it
ServiceExit ==
    /\ mode = "service" /\ alive /\ svc = "stopped"
    /\ Die /\ UNCHANGED faults
    /\ Gone(code)

Killed == alive /\ HardKill /\ Gone("none")

\* Ctrl-C, or the end of the session
ConsoleSignal == mode = "console" /\ alive /\ Signal /\ UNCHANGED svcVars

\* A request carries a value that was printed, or read from the file, once, or none;
\* requireAuth compares it with the token of the process
ArriveWith(r) ==
    /\ alive /\ Arrive(r)
    /\ \E t \in 0..made :
         /\ held' = [held EXCEPT ![r] = t]
         /\ cred'[r] = (t = token)
    /\ UNCHANGED <<mode, entry, svc, ask, code, tokenVars, token, since>>

Handle(r) == Authenticate(r) \/ RejectBody(r) \/ CallBrowser(r) \/ Health(r) \/ Reply(r)

Serves ==
    /\ \/ alive /\ ((\E r \in Requests : Handle(r)) \/ Listen \/ Unwind \/ Supervise)
       \/ ChromeExit
    /\ UNCHANGED svcVars

\* The last incarnation is over
Rest == entry = "off" /\ restarts = MaxRestarts /\ UNCHANGED serviceVars

ServiceNext ==
    \/ GenerateToken
    \/ Boot \/ LoadOK \/ LoadFails
    \/ Control \/ Interrogate \/ Stop \/ StopDone \/ RunReturned
    \/ ConsoleExit \/ ServiceExit \/ Killed \/ ConsoleSignal
    \/ \E r \in Requests : ArriveWith(r)
    \/ Serves \/ Rest

ServiceSpec == ServiceInit /\ [][ServiceNext]_serviceVars

\* As in Bridge; and Execute selects what is ready, and main returns after it
FairService ==
    /\ ServiceSpec /\ ServingFairness
    /\ WF_serviceVars(Interrogate) /\ WF_serviceVars(Stop) /\ WF_serviceVars(StopDone)
    /\ WF_serviceVars(RunReturned) /\ WF_serviceVars(ServiceExit) /\ WF_serviceVars(ConsoleExit)

-----------------------------------------------------------------------------

\* When the SCM is told Stopped, before the process is gone, nothing of the bridge
\* is left: no request is in the browser, none is launching, and no Chrome runs.
\* Two ends are excepted, in which handlers outlive the server: a drain that took
\* too long, and a listener that broke (service_windows.go:77-91, main.go:104-108).
StoppedIsClean ==
    mode = "service" /\ alive /\ svc = "stopped" /\ srv \notin {"expired", "broken"} =>
        running = {} /\ \A r \in Requests : pc[r] = "idle"

\* "Used by install.ps1 (via `bridge.exe gen-token`)" (config.go:80-81): whoever
\* reaches Chrome carries a token no older than the newest one that was printed when
\* the process loaded its configuration.  A token that was replaced by then is dead,
\* also if gen-token runs again meanwhile and the process finds the file cut, or
\* written and not printed yet, or left so by a gen-token that was killed.
OldTokensAreDead == \A r \in Requests : tab[r] # 0 => held[r] >= since

\* An exit code of 0 says that the end was asked for, and that the drain ended in
\* time, except where a service read a stop: from then on the code is 0 whatever
\* becomes of the bridge, also if it had broken before the stop was read
\* (service_windows.go:77-91, main.go:69-72).
SuccessWasAsked ==
    [][ code # "ok" /\ code' = "ok" =>
          ctxDone /\ (srv = "drained" \/ svc = "stopPending") ]_serviceVars

\* A service or console process is a Bridge in all it does: what holds of Bridge
\* holds of it.
ImplementsBridge == BridgeSpec

\* As long as sweeps return, a stop that the SCM asked for is reported as done, also
\* while Chrome is being launched, or a client never finishes its body or never reads
\* its answer (service_windows.go:77-84).
StopIsDone == (ask = "stop") ~> (svc = "stopped")
=============================================================================
