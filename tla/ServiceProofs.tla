---------------------------- MODULE ServiceProofs ----------------------------
(***************************************************************************)
(* Proofs about Service: the deployed process is a Bridge, so that all that *)
(* is proved of Bridge holds of it; and what is true of its tokens, of the  *)
(* status it reports and of its exit code.                                  *)
(***************************************************************************)
EXTENDS Service, BridgeProofs

\* The file is cut, or holds the last value written, which is at least as new as
\* any that was printed; so the process that runs loaded a token at least as new.
DeployInv ==
    /\ alive => token >= since
    /\ file \in {0, made}
    /\ genTok = "written" => file = made

\* The SCM is told Stopped only when main has come to its end.
ReportInv == mode = "service" /\ svc = "stopped" /\ alive => Over

\* A request that is let in carries the token of the process that runs.
TokenInv == \A r \in Requests : cred[r] => alive /\ held[r] = token

\* What is drained, or reported to the SCM as pending, was asked for.
AskedInv ==
    /\ srv \in {"draining", "drained", "expired"} => ctxDone
    /\ svc = "stopPending" /\ alive => ctxDone

\* What the deployment adds to the invariant of the bridge
OwnInv == ServiceTypeOK /\ DeployInv /\ TokenInv /\ AskedInv /\ ReportInv

ServiceInv == BridgeInv /\ OwnInv

-----------------------------------------------------------------------------

(* Once main has come to its end, only the end of the process changes that. *)
LEMMA OverStays ==
    ASSUME BridgeInv, Over,
           \/ \E r \in Requests : Handler(r)
           \/ Listen \/ Unwind \/ Supervise \/ ChromeExit \/ Signal
    PROVE  pc'[Main] = pc[Main]
<1> USE ThreadFacts DEF BridgeInv, IInv, TypeOK, Over
<1>1. CASE \E r \in Requests : Handler(r)
  BY <1>1 DEF Handler, Arrive, Authenticate, RejectBody, CallBrowser, Health, Reply, NewTab, Probe,
              Goto, vars
<1>2. CASE Listen \/ Unwind \/ ChromeExit \/ Signal
  BY <1>2 DEF Listen, Bind, BindFails, ServeFails, BeginDrain, DrainDone, GraceExpires, Unwind,
              CallShutdown, ChromeExit, Exit, Signal, vars
<1>3. CASE Supervise
  BY <1>3 DEF Supervise, Acquire, Serve, AnswerHealth, Reuse, Teardown, HandOut, OpenTab, Finish,
              Launch, KillStale, Spawn, LaunchOK, LaunchFail, Start, Shutdown, RunReturns, TimerFires,
              Crash, Disconnect, LostConnection, Goto
<1> QED
  BY <1>1, <1>2, <1>3

(* Every step of the deployed process is a step of Bridge or leaves it alone. *)
LEMMA ServiceStepIsBridgeStep ==
    ASSUME ServiceInv, [ServiceNext]_serviceVars
    PROVE  [BridgeNext]_allVars
<1> USE DEF BridgeNext
<1>1. CASE GenerateToken
  BY <1>1 DEF GenerateToken, GenBegins, GenWrites, GenPrints, GenFails, GenUnchanged
<1>2. CASE Boot \/ LoadOK \/ LoadFails
  BY <1>2 DEF Boot, LoadOK, LoadFails
<1>3. CASE Control \/ Interrogate \/ Stop \/ StopDone \/ RunReturned
  BY <1>3 DEF Control, Interrogate, Stop, StopDone, RunReturned
<1>4. CASE ConsoleExit \/ Killed \/ ConsoleSignal
  BY <1>4 DEF ConsoleExit, Killed, ConsoleSignal
<1>5. CASE ServiceExit
  BY <1>5 DEF ServiceExit, ProcessExit, ServiceInv, OwnInv, ReportInv, Over
<1>6. CASE \E r \in Requests : ArriveWith(r)
  BY <1>6 DEF ArriveWith, Handler
<1>7. CASE Serves
  BY <1>7 DEF Serves, Handle, Handler
<1>8. CASE Rest \/ UNCHANGED serviceVars
  BY <1>8 DEF Rest, serviceVars
<1> QED
  BY <1>1, <1>2, <1>3, <1>4, <1>5, <1>6, <1>7, <1>8 DEF ServiceNext

(* A step of the bridge that is neither the end nor the start of a process, nor
   the arrival of a request, lets nobody in and keeps what was asked for. *)
LEMMA InsideKeepsOwn ==
    ASSUME ServiceInv, UNCHANGED svcVars,
           \/ alive /\ \/ \E r \in Requests : Handle(r)
                       \/ Listen \/ Unwind \/ Supervise
           \/ ChromeExit
           \/ mode = "console" /\ alive /\ Signal
    PROVE  OwnInv'
<1> USE DEF ServiceInv, OwnInv, svcVars, tokenVars
<1>1. alive' = alive /\ (ctxDone => ctxDone')
  BY DEF Handle, Authenticate, RejectBody, CallBrowser, Health, Reply, Listen, Bind, BindFails,
         ServeFails, BeginDrain, DrainDone, GraceExpires, SrvStep, Unwind, Supervise, ChromeExit,
         Signal, bridgeVars
<1>2. \A r \in Requests : cred'[r] => cred[r]
  BY DEF Handle, Authenticate, RejectBody, CallBrowser, Health, Reply, Close, Listen, Bind,
         BindFails, ServeFails, BeginDrain, DrainDone, GraceExpires, SrvStep, Unwind, Supervise,
         ChromeExit, Signal, bridgeVars, BridgeInv, BridgeTypeOK
<1>3. srv' \in {"draining", "drained", "expired"} =>
          ctxDone \/ srv \in {"draining", "drained", "expired"}
  BY DEF Handle, Authenticate, RejectBody, CallBrowser, Health, Reply, Listen, Bind, BindFails,
         ServeFails, BeginDrain, DrainDone, GraceExpires, SrvStep, Unwind, Supervise, ChromeExit,
         Signal, bridgeVars
<1>4. ServiceTypeOK' /\ DeployInv' /\ TokenInv' /\ AskedInv'
  BY <1>1, <1>2, <1>3 DEF ServiceTypeOK, DeployInv, TokenInv, AskedInv
<1>5. ReportInv'
  BY <1>1, OverStays DEF ReportInv, Over, Handle, Handler
<1> QED
  BY <1>4, <1>5

(* A process that dies forgets its token, and no request outlives it. *)
LEMMA EndKeepsOwn ==
    ASSUME ServiceInv, Die, NEW c \in {"none", "ok", "error"}, Gone(c)
    PROVE  OwnInv'
BY DEF ServiceInv, OwnInv, ServiceTypeOK, DeployInv, TokenInv, AskedInv, ReportInv, Die, Gone, tokenVars

(* Every step of the deployed process keeps the invariant. *)
LEMMA ServiceStep == ServiceInv /\ [ServiceNext]_serviceVars => ServiceInv'
<1> SUFFICES ASSUME ServiceInv, [ServiceNext]_serviceVars PROVE ServiceInv'
  OBVIOUS
<1> USE TokensAssumption DEF ServiceInv, OwnInv, TokensAssumption, tokenVars
<1>1. BridgeInv'
  BY ServiceStepIsBridgeStep, BridgeStep
<1>2. CASE GenerateToken
  <2>1. /\ made' \in 1..MaxTokens /\ made <= made' /\ printed' \in 1..made'
        /\ file' \in {0, made'} /\ genTok' \in {"off", "open", "written"}
        /\ genTok' = "written" => file' = made'
    <3> USE DEF ServiceTypeOK, DeployInv
    <3>1. CASE GenBegins
      BY <3>1 DEF GenBegins
    <3>2. CASE GenWrites
      <4>1. made < MaxTokens /\ made' = made + 1 /\ file' = made' /\ printed' = printed
        BY <3>2 DEF GenWrites
      <4>2. genTok' \in {"open", "written"}
        BY <3>2 DEF GenWrites
      <4>3. made' \in 1..MaxTokens /\ made <= made' /\ printed' \in 1..made'
        BY <4>1
      <4> QED
        BY ONLY <4>1, <4>2, <4>3
    <3>3. CASE GenPrints
      <4>1. made' = made /\ file' = file /\ printed' = file /\ genTok' = "off" /\ file = made
        BY <3>3 DEF GenPrints
      <4> QED
        BY <4>1
    <3>4. CASE GenFails
      BY <3>4 DEF GenFails
    <3> QED
      BY <1>2, <3>1, <3>2, <3>3, <3>4 DEF GenerateToken
  <2>2. GenUnchanged
    BY <1>2 DEF GenerateToken, GenBegins, GenWrites, GenPrints, GenFails
  <2>3. ServiceTypeOK'
    BY <2>1, <2>2 DEF ServiceTypeOK, GenUnchanged, allVars, bridgeVars
  <2> QED
    BY <1>1, <2>1, <2>2, <2>3
       DEF DeployInv, TokenInv, AskedInv, ReportInv, Over, GenUnchanged, allVars, bridgeVars, vars
<1>3. CASE Boot \/ LoadFails
  BY <1>1, <1>3 DEF Boot, LoadFails, LoadUnchanged, ServiceTypeOK, DeployInv, TokenInv, AskedInv,
                    ReportInv, allVars, bridgeVars
<1>4. CASE LoadOK
  BY <1>1, <1>4 DEF LoadOK, Restart, Valid, LoadUnchanged, ServiceTypeOK, DeployInv, TokenInv,
                    AskedInv, ReportInv
<1>5. CASE Control \/ Interrogate \/ Stop \/ StopDone \/ RunReturned
  BY <1>1, <1>5 DEF Control, Interrogate, Stop, StopDone, RunReturned, Report, Signal, ServiceTypeOK,
                    DeployInv, TokenInv, AskedInv, ReportInv, Over, allVars, bridgeVars, vars
<1>6. CASE ConsoleExit \/ ServiceExit \/ Killed
  BY <1>1, <1>6, EndKeepsOwn DEF ConsoleExit, ServiceExit, Killed, ProcessExit, HardKill, ServiceTypeOK
<1>7. ASSUME NEW r \in Requests, ArriveWith(r)
      PROVE  OwnInv'
  <2>1. alive /\ UNCHANGED <<vars, srv, ctxDone, alive>> /\ token # 0
    BY <1>7 DEF ArriveWith, Arrive, ServiceTypeOK
  <2>2. PICK t \in 0..made : held' = [held EXCEPT ![r] = t] /\ cred'[r] = (t = token)
    BY <1>7 DEF ArriveWith
  <2>3. \A q \in Requests \ {r} : cred'[q] = cred[q]
    BY <1>7 DEF ArriveWith, Arrive, BridgeInv, BridgeTypeOK
  <2>4. ServiceTypeOK'
    BY <1>7, <2>1, <2>2 DEF ArriveWith, ServiceTypeOK
  <2>5. TokenInv'
    BY <1>7, <2>1, <2>2, <2>3 DEF ArriveWith, TokenInv, ServiceTypeOK
  <2> QED
    BY <1>7, <2>1, <2>4, <2>5 DEF ArriveWith, DeployInv, AskedInv, ReportInv, Over, vars
<1>8. CASE ConsoleSignal \/ Serves
  BY <1>1, <1>8, InsideKeepsOwn DEF ConsoleSignal, Serves
<1>9. CASE Rest \/ UNCHANGED serviceVars
  BY <1>1, <1>9 DEF Rest, serviceVars, svcVars, ServiceTypeOK, DeployInv, TokenInv, AskedInv,
                    ReportInv, Over, allVars, bridgeVars, vars
<1> QED
  BY <1>1, <1>2, <1>3, <1>4, <1>5, <1>6, <1>7, <1>8, <1>9 DEF ServiceNext

(* The invariant of the deployed process is inductive. *)
THEOREM ServiceInductive == ServiceSpec => []ServiceInv
<1>1. ServiceInit => ServiceInv
  <2> SUFFICES ASSUME ServiceInit PROVE ServiceInv
    OBVIOUS
  <2>1. BridgeInv
    BY BridgeInitInv DEF ServiceInit
  <2>2. 1 \in 1..MaxTokens
    BY TokensAssumption DEF TokensAssumption
  <2>3. ServiceTypeOK
    <3> USE DEF ServiceInit, BridgeInit
    <3>1. held \in [Requests -> 0..made]
      OBVIOUS
    <3>2. /\ file \in 0..made /\ made \in 1..MaxTokens /\ since \in 1..made
          /\ token \in 0..made /\ printed \in 1..made
      BY <2>2
    <3>3. mode \in {"console", "service"} /\ svc \in {"stopped", "startPending", "running", "stopPending"}
      OBVIOUS
    <3>4. (alive <=> entry = "up") /\ genTok \in {"off", "open", "written"}
      OBVIOUS
    <3>5. token # 0
      OBVIOUS
    <3> QED
      BY <3>1, <3>2, <3>3, <3>4, <3>5 DEF ServiceTypeOK
  <2>4. DeployInv /\ TokenInv /\ AskedInv /\ ReportInv
    BY TokensAssumption DEF ServiceInit, BridgeInit, DeployInv, TokenInv, AskedInv, ReportInv,
                            TokensAssumption
  <2> QED
    BY <2>1, <2>3, <2>4 DEF ServiceInv, OwnInv
<1> QED
  BY <1>1, ServiceStep, PTL DEF ServiceSpec

(* A service or console process implements Bridge: it starts as one, and each of
   its steps is a step of Bridge or none. *)
THEOREM ServiceIsABridge == ServiceSpec => ImplementsBridge
<1>1. ServiceInit => BridgeInit
  BY DEF ServiceInit
<1> QED
  BY <1>1, ServiceInductive, ServiceStepIsBridgeStep, PTL DEF ServiceSpec, BridgeSpec, ImplementsBridge

(* Type correctness of the deployed process, for every number of tokens. *)
THEOREM ServiceTypeCorrect == ServiceSpec => []ServiceTypeOK
<1>1. ServiceInv => ServiceTypeOK
  BY DEF ServiceInv, OwnInv
<1> QED
  BY <1>1, ServiceInductive, PTL

(* When the SCM is told Stopped nothing of the bridge is left, unless the drain
   took too long or a listener broke. *)
THEOREM StoppedMeansClean == ServiceSpec => []StoppedIsClean
<1>1. ServiceInv => StoppedIsClean
  <2> SUFFICES ASSUME ServiceInv, mode = "service", alive, svc = "stopped",
                      srv \notin {"expired", "broken"}
               PROVE  running = {} /\ \A r \in Requests : pc[r] = "idle"
    BY DEF StoppedIsClean
  <2>1. pc[Main] = "failed" \/ (pc[Main] = "stopped" /\ srv \in {"unbound", "drained"})
    BY DEF ServiceInv, OwnInv, ReportInv, Over, BridgeInv, ServerInv, Returned
  <2> QED
    BY <2>1, EndedInOrderIsEmpty DEF ServiceInv
<1> QED
  BY <1>1, ServiceInductive, PTL

(* Whoever has a tab carries a token no older than the newest one printed when the
   process loaded its configuration. *)
THEOREM OldTokensStayDead == ServiceSpec => []OldTokensAreDead
<1>1. ServiceInv => OldTokensAreDead
  BY DEF ServiceInv, OwnInv, DeployInv, TokenInv, BridgeInv, IInv, HandlerInv, ControlInv,
         OldTokensAreDead
<1> QED
  BY <1>1, ServiceInductive, PTL

(* An exit code of 0 says that the end was asked for, and that the drain ended in
   time or a service had read a stop. *)
THEOREM SuccessMeansAsked == ServiceSpec => SuccessWasAsked
<1>1. ServiceInv /\ [ServiceNext]_serviceVars => (code # "ok" /\ code' = "ok" =>
                                               ctxDone /\ (srv = "drained" \/ svc = "stopPending"))
  <2> SUFFICES ASSUME ServiceInv, [ServiceNext]_serviceVars, code # "ok", code' = "ok"
               PROVE  ctxDone /\ (srv = "drained" \/ svc = "stopPending")
    OBVIOUS
  <2> USE DEF ServiceInv, OwnInv
  <2>1. Over /\ ~RunFailed => ctxDone /\ srv = "drained"
    BY DEF Over, RunFailed, BridgeInv, ServerInv, Returned, AskedInv
  <2>2. CASE StopDone
    BY <2>2 DEF StopDone, Report, AskedInv
  <2>3. CASE RunReturned
    BY <2>1, <2>3 DEF RunReturned, Report
  <2>4. CASE ConsoleExit
    BY <2>1, <2>4 DEF ConsoleExit, ProcessExit, Gone, Over
  <2> QED
    BY <2>2, <2>3, <2>4
       DEF ServiceNext, GenerateToken, GenBegins, GenWrites, GenPrints, GenFails, GenUnchanged, Boot, LoadOK,
           LoadFails, Control, Interrogate, Stop, Report, ServiceExit, Killed, Gone, ConsoleSignal,
           ArriveWith, Serves, Rest, serviceVars, svcVars
<1> QED
  BY <1>1, ServiceInductive, PTL DEF ServiceSpec, SuccessWasAsked

-----------------------------------------------------------------------------
(* A deployed process inherits what is proved of Bridge. *)

(* Whatever the SCM asks for and whenever tokens are replaced, no Chrome of the
   live process runs that nothing will end. *)
THEOREM ServiceNeverLeaksChrome == ServiceSpec => []NoLeakedChrome
BY ServiceIsABridge, BridgeNeverLeaksChrome DEF ImplementsBridge

(* A service that was drained in time stays quiet, and leaves no Chrome when it
   ends after Shutdown. *)
THEOREM ServiceDrainsCleanly == ServiceSpec => []DrainedIsQuiet /\ DrainedExitIsClean
BY ServiceIsABridge, DrainIsQuiet, DrainedExitLeavesNoChrome, PTL DEF ImplementsBridge

(* No request of a deployed process ends another's tab by a relaunch. *)
THEOREM ServiceRelaunchIsSafe == ServiceSpec => LiveRelaunchSparesTabs
BY ServiceIsABridge, LiveRelaunchIsSafe DEF ImplementsBridge

=============================================================================
