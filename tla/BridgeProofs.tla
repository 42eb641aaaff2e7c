----------------------------- MODULE BridgeProofs -----------------------------
(***************************************************************************)
(* Proofs about Bridge: the supervisor keeps its invariant inside the       *)
(* process that dies and restarts, and a drain that ends in time is clean.  *)
(***************************************************************************)
EXTENDS Bridge, SupervisorProofs

(* A step of the supervisor inside the bridge keeps the supervisor's invariant. *)
LEMMA SuperviseKeepsIInv == IInv /\ Supervise => IInv'
<1> SUFFICES ASSUME IInv, Supervise PROVE IInv'
  OBVIOUS
<1>1. ASSUME NEW r \in Requests, Acquire(r) \/ Serve(r) \/ AnswerHealth(r)
      PROVE  IInv'
  BY <1>1, RequestInv, TeardownInv, HandOutInv DEF Serve
<1>2. ASSUME NEW t \in Threads, Launch(t)
      PROVE  IInv'
  BY <1>2, KillStaleInv, SpawnInv, LaunchOKInv, LaunchFailInv DEF Launch
<1>3. CASE Start \/ Shutdown \/ RunReturns \/ TimerFires
  BY <1>3, MainInv, ShutdownInv
<1>4. ASSUME NEW g \in 1..gen, Crash(g) \/ Disconnect(g) \/ LostConnection(g)
      PROVE  IInv'
  BY <1>4, ProcessInv, DisconnectInv
<1> QED
  BY <1>1, <1>2, <1>3, <1>4 DEF Supervise

(* Whatever the process was doing, what is left of it is a fresh process and,
   perhaps, an orphan. *)
LEMMA DieKeepsInv ==
    ASSUME BridgeInv, Die, faults' \in 0..MaxFaults
    PROVE  BridgeInv'
<1> USE ThreadFacts DEF BridgeInv, IInv, Die, Critical, Launching
<1>1. BridgeTypeOK' /\ TypeOK'
  <2>1. pc' \in [Threads -> {"idle", "want", "probe", "parent", "tab", "start", "serve",
                             "stop", "stopped", "failed"} \cup Critical]
    OBVIOUS
  <2>2. TypeOK'
    BY <2>1 DEF TypeOK
  <2> QED
    BY <2>2 DEF BridgeTypeOK
<1>2. MutexInv' /\ ControlInv' /\ CancelInv'
  BY DEF MutexInv, ControlInv, CancelInv, Serving, TypeOK
<1>3. ContextInv' /\ NoLeakedContext'
  BY DEF ContextInv, NoLeakedContext
<1>4. HandlerInv' /\ ServerInv'
  BY DEF HandlerInv, ServerInv, Drained
<1> QED
  BY <1>1, <1>2, <1>3, <1>4

(* The server, the process and the clock leave the supervisor's state alone. *)
LEMMA OutsideKeepsIInv ==
    ASSUME IInv,
           \/ \E r \in Requests : Handler(r)
           \/ Listen \/ Unwind \/ Signal \/ Restart \/ Ended \/ ChromeExit
    PROVE  IInv'
<1>1. ASSUME NEW r \in Requests, Handler(r)
      PROVE  IInv'
  BY <1>1, RequestInv, StutterInv
     DEF Handler, Arrive, Authenticate, RejectBody, CallBrowser, Health, Reply
<1>2. CASE Bind \/ BeginDrain \/ DrainDone \/ GraceExpires \/ Signal \/ Restart \/ Ended
  BY <1>2, StutterInv DEF Bind, BeginDrain, DrainDone, GraceExpires, Signal, Restart, Ended, allVars
<1>3. CASE BindFails \/ ServeFails
  <2>1. /\ UNCHANGED <<mu, pc, cur, cancel, gen, launchDone, allocDone, browserDone>>
        /\ UNCHANGED <<running, dying, orphan, tab, up>>
        /\ faults' \in Nat /\ faults' <= MaxFaults
    BY <1>3, FaultsAssumption DEF BindFails, ServeFails, Fault, life, chrome, IInv, TypeOK
  <2>2. TypeOK'
    BY <2>1, FaultsAssumption DEF IInv, TypeOK
  <2> QED
    BY <2>1, <2>2 DEF IInv, MutexInv, ControlInv, Serving, CancelInv, ContextInv,
                      NoLeakedContext, UnderLaunch
<1>4. CASE Unwind
  BY <1>4, MainInv DEF Unwind
<1>5. CASE ChromeExit
  BY <1>5, ProcessInv DEF ChromeExit
<1> QED
  BY <1>1, <1>2, <1>3, <1>4, <1>5 DEF Listen

(* A step of the supervisor keeps each handler's stage and credentials right. *)
LEMMA SuperviseKeepsHandlers ==
    ASSUME BridgeInv, Supervise
    PROVE  HandlerInv'
<1> USE ThreadFacts DEF BridgeInv, IInv, HandlerInv, bridgeVars, Supervise, TypeOK
<1>1. \A r \in Requests : pc'[r] # pc[r] =>
          pc[r] # "idle" /\ (pc[r] = "probe" => pc'[r] = "idle") /\ pc'[r] # "probe"
  <2>1. ASSUME NEW s \in Requests, Acquire(s) \/ Serve(s) \/ AnswerHealth(s), NEW r \in Requests
        PROVE  pc'[r] # pc[r] =>
                 pc[r] # "idle" /\ (pc[r] = "probe" => pc'[r] = "idle") /\ pc'[r] # "probe"
    BY <2>1 DEF Acquire, Serve, AnswerHealth, Reuse, Teardown, HandOut, OpenTab, Finish, Goto
  <2>2. ASSUME NEW t \in Threads, Launch(t), NEW r \in Requests
        PROVE  pc'[r] # pc[r] =>
                 pc[r] # "idle" /\ (pc[r] = "probe" => pc'[r] = "idle") /\ pc'[r] # "probe"
    BY <2>2 DEF Launch, KillStale, Spawn, LaunchOK, LaunchFail, Goto
  <2>3. ASSUME Start \/ Shutdown, NEW r \in Requests
        PROVE  pc'[r] = pc[r]
    BY <2>3 DEF Start, Shutdown, Goto
  <2>4. ASSUME \/ RunReturns \/ TimerFires
               \/ \E g \in 1..gen : Crash(g) \/ Disconnect(g) \/ LostConnection(g)
        PROVE  pc' = pc
    BY <2>4 DEF RunReturns, TimerFires, Crash, Disconnect, LostConnection
  <2> QED
    BY <2>1, <2>2, <2>3, <2>4
<1> QED
  BY <1>1

(* A step of the supervisor keeps the server's part: a server that was drained, or
   never listened, has no handler left that could relaunch. *)
LEMMA SuperviseKeepsServer ==
    ASSUME BridgeInv, Supervise
    PROVE  ServerInv'
<1> USE ThreadFacts DEF BridgeInv, IInv, ServerInv, bridgeVars, Supervise, Drained
<1>1. CASE srv \in {"unbound", "drained"}
  <2>1. \A r \in Requests : pc[r] = "idle"
    BY <1>1 DEF HandlerInv
  <2>2. pc[Main] \in {"serve", "stop", "stopped"}
    BY <1>1
  <2>3. ~ \E r \in Requests : Acquire(r) \/ Serve(r) \/ AnswerHealth(r)
    BY <2>1 DEF Acquire, Serve, AnswerHealth, Reuse, Teardown, HandOut, OpenTab, Finish
  <2>4. ~ \E t \in Threads : Launch(t)
    BY <2>1, <2>2 DEF Launch, KillStale, Spawn, LaunchOK, LaunchFail, Threads
  <2>5. CASE Start
    BY <2>2, <2>5 DEF Start
  <2>6. CASE Shutdown
    BY <1>1, <2>6 DEF Shutdown, CancelAll, Goto, TypeOK, Returned
  <2>7. CASE \/ RunReturns \/ TimerFires
             \/ \E g \in 1..gen : Crash(g) \/ Disconnect(g) \/ LostConnection(g)
    BY <1>1, <2>7 DEF RunReturns, TimerFires, Crash, Disconnect, LostConnection, life
  <2> QED
    BY <2>3, <2>4, <2>5, <2>6, <2>7
<1>2. CASE srv \notin {"unbound", "drained"}
  <2>1. pc'[Main] = pc[Main] \/ (pc[Main] = "stop" /\ pc'[Main] = "stopped")
        \/ pc[Main] \in {"start", "kill", "spawn", "await"}
    BY DEF Acquire, Serve, AnswerHealth, Reuse, Teardown, HandOut, OpenTab, Finish, Launch,
           KillStale, Spawn, LaunchOK, LaunchFail, Start, Shutdown, RunReturns, TimerFires, Crash, Disconnect,
           LostConnection, Goto, TypeOK
  <2>2. pc[Main] \in {"start", "kill", "spawn", "await"} =>
           srv = "down" /\ pc'[Main] \notin {"stop", "stopped"}
    BY DEF Acquire, Serve, AnswerHealth, Reuse, Teardown, HandOut, OpenTab, Finish, Launch,
           KillStale, Spawn, LaunchOK, LaunchFail, Start, Shutdown, RunReturns, TimerFires, Crash, Disconnect,
           LostConnection, Goto, TypeOK
  <2> QED
    BY <1>2, <2>1, <2>2
<1> QED
  BY <1>1, <1>2

(* Handlers, listener and process keep the types of the bridge's variables. *)
LEMMA OutsideKeepsTypes ==
    ASSUME BridgeInv, IInv',
           \/ \E r \in Requests : Handler(r)
           \/ Listen \/ Unwind \/ Signal \/ Restart \/ Ended \/ ChromeExit
    PROVE  BridgeTypeOK'
<1> USE RestartsAssumption DEF BridgeInv, BridgeTypeOK, IInv
<1>1. ASSUME NEW r \in Requests, Handler(r)
      PROVE  BridgeTypeOK'
  BY <1>1 DEF Handler, Arrive, Authenticate, RejectBody, CallBrowser, Health, Reply, Close, Stage
<1>2. CASE Listen \/ Unwind
  BY <1>2 DEF Listen, Unwind, Bind, BindFails, ServeFails, BeginDrain, DrainDone, GraceExpires,
              SrvStep, Returned, bridgeVars
<1>3. CASE Restart
  <2>1. restarts' \in 0..MaxRestarts
    BY <1>3 DEF Restart
  <2> QED
    BY <1>3, <2>1 DEF Restart
<1>4. CASE Signal \/ Ended \/ ChromeExit
  BY <1>4 DEF Signal, Ended, ChromeExit, allVars, bridgeVars
<1> QED
  BY <1>1, <1>2, <1>3, <1>4

(* So do the handlers, the listener, the unwinding, the signal and the restart. *)
LEMMA OutsideKeepsStages ==
    ASSUME BridgeInv,
           \/ \E r \in Requests : Handler(r)
           \/ Listen \/ Unwind \/ Signal \/ Restart \/ Ended \/ ChromeExit
    PROVE  HandlerInv' /\ ServerInv'
<1> USE ThreadFacts DEF BridgeInv, IInv, HandlerInv, ServerInv, Drained, TypeOK, BridgeTypeOK
<1>1. ASSUME NEW r \in Requests, Handler(r)
      PROVE  HandlerInv' /\ ServerInv'
  <2>1. CASE Arrive(r)
    BY <2>1 DEF Arrive, Stage, Accepting, vars
  <2>2. CASE Authenticate(r) \/ RejectBody(r) \/ Reply(r)
    BY <2>2 DEF Authenticate, RejectBody, Reply, Close, Stage, vars
  <2>3. CASE CallBrowser(r) \/ Health(r)
    BY <2>3 DEF CallBrowser, Health, Stage, Accepting, NewTab, Probe, Goto, life
  <2> QED
    BY <1>1, <2>1, <2>2, <2>3 DEF Handler
<1>2. CASE Listen
  BY <1>2 DEF Listen, Bind, BindFails, ServeFails, BeginDrain, DrainDone, GraceExpires, SrvStep,
              vars, life, Returned
<1>3. CASE Unwind
  BY <1>3 DEF Unwind, CallShutdown, Goto, bridgeVars, life, Returned
<1>4. CASE Signal \/ Restart \/ Ended \/ ChromeExit
  BY <1>4 DEF Signal, Restart, Ended, ChromeExit, Exit, allVars, vars, bridgeVars, life
<1> QED
  BY <1>1, <1>2, <1>3, <1>4

(* Every step of the bridge keeps its invariant. *)
LEMMA BridgeStep == BridgeInv /\ [BridgeNext]_allVars => BridgeInv'
<1> SUFFICES ASSUME BridgeInv, [BridgeNext]_allVars PROVE BridgeInv'
  OBVIOUS
<1>1. CASE Supervise
  <2>1. IInv'
    BY <1>1, SuperviseKeepsIInv DEF BridgeInv
  <2>2. BridgeTypeOK'
    BY <1>1, <2>1 DEF BridgeInv, BridgeTypeOK, IInv, Supervise, bridgeVars
  <2> QED
    BY <1>1, <2>1, <2>2, SuperviseKeepsHandlers, SuperviseKeepsServer DEF BridgeInv
<1>2. CASE (\E r \in Requests : Handler(r)) \/ Listen \/ Unwind \/ Signal \/ Restart \/ Ended \/ ChromeExit
  BY <1>2, OutsideKeepsIInv, OutsideKeepsTypes, OutsideKeepsStages DEF BridgeInv
<1>3. CASE ProcessExit \/ HardKill
  BY <1>3, DieKeepsInv, FaultsAssumption DEF ProcessExit, HardKill, Fault, BridgeInv, IInv, TypeOK
<1>4. CASE UNCHANGED allVars
  BY <1>4, StutterInv
     DEF allVars, vars, bridgeVars, BridgeInv, BridgeTypeOK, IInv, HandlerInv, ServerInv, Drained
<1> QED
  BY <1>1, <1>2, <1>3, <1>4 DEF BridgeNext

(* A process that starts for the first time satisfies the invariant of the bridge. *)
LEMMA BridgeInitInv == BridgeInit => BridgeInv
<1> SUFFICES ASSUME BridgeInit PROVE BridgeInv
  OBVIOUS
<1>1. IInv
  BY InitInv DEF BridgeInit
<1>2. 0 \in 0..MaxRestarts
  BY RestartsAssumption
<1>3. BridgeTypeOK
  BY <1>1, <1>2 DEF BridgeInit, BridgeTypeOK, IInv
<1>4. HandlerInv /\ ServerInv
  BY ThreadFacts DEF BridgeInit, HandlerInv, ServerInv, Drained, Init, Returned
<1> QED
  BY <1>1, <1>3, <1>4 DEF BridgeInv

(* The invariant of the bridge is inductive. *)
THEOREM BridgeInductive == BridgeSpec => []BridgeInv
BY BridgeInitInv, BridgeStep, PTL DEF BridgeSpec

(* Type correctness of the bridge, for every bound on faults and restarts. *)
THEOREM BridgeTypeCorrect == BridgeSpec => []BridgeTypeOK
<1>1. BridgeInv => BridgeTypeOK
  BY DEF BridgeInv
<1> QED
  BY <1>1, BridgeInductive, PTL

(* Across drains, kills and restarts no Chrome of the live process runs that
   nothing will end. *)
THEOREM BridgeNeverLeaksChrome == BridgeSpec => []NoLeakedChrome
<1>1. BridgeInv => NoLeakedChrome
  BY DEF BridgeInv, IInv, NoLeakedChrome, NoLeakedContext, ContextInv, TypeOK
<1> QED
  BY <1>1, BridgeInductive, PTL

(* Nobody without the token has a tab. *)
THEOREM TabsAreAuthorized == BridgeSpec => []NoUnauthorizedTab
<1>1. BridgeInv => NoUnauthorizedTab
  BY DEF BridgeInv, IInv, HandlerInv, ControlInv, NoUnauthorizedTab
<1> QED
  BY <1>1, BridgeInductive, PTL

(* A drain that ended in time stays quiet until the process ends. *)
THEOREM DrainIsQuiet == BridgeSpec => []DrainedIsQuiet
<1>1. BridgeInv => DrainedIsQuiet
  BY DEF BridgeInv, HandlerInv, ServerInv, Drained, DrainedIsQuiet
<1> QED
  BY <1>1, BridgeInductive, PTL

(* Once main has come to its end, after a drain in time or without ever having
   listened, nobody is in the browser and no Chrome runs. *)
LEMMA EndedInOrderIsEmpty ==
    ASSUME BridgeInv,
           pc[Main] = "failed" \/ (pc[Main] = "stopped" /\ srv \in {"unbound", "drained"})
    PROVE  running = {} /\ \A r \in Requests : pc[r] = "idle"
<1> USE ThreadFacts DEF BridgeInv, IInv
<1>1. \A r \in Requests : pc[r] = "idle"
  BY DEF HandlerInv, ServerInv, Drained, ControlInv, Serving
<1>2. cancel = 0
  BY DEF ServerInv, CancelInv, Serving
<1>3. \A t \in Threads : pc[t] # "await"
  BY <1>1 DEF Threads
<1>4. (1..gen) \ allocDone = {}
  BY <1>2, <1>3 DEF NoLeakedContext, UnderLaunch, TypeOK
<1> QED
  BY <1>1, <1>4 DEF ContextInv, TypeOK

(* A process that ends by itself after such a drain leaves no Chrome. *)
THEOREM DrainedExitLeavesNoChrome == BridgeSpec => DrainedExitIsClean
<1>1. BridgeInv =>
        ( alive /\ ~alive' /\ srv = "drained" /\ pc[Main] = "stopped" => running = {} )
  BY EndedInOrderIsEmpty
<1> QED
  BY <1>1, BridgeInductive, PTL DEF DrainedExitIsClean

-----------------------------------------------------------------------------
(* What is proved of the supervisor alone, inside a process that goes on.  Only
   the end of the process, which takes every request with it, is exempt. *)

(* A relaunch ends nobody's tab in a connected Chrome, also while the server
   drains, main shuts down and handlers outlive the grace (browser.go:185-210). *)
LiveRelaunchSparesTabs ==
    [][ alive /\ alive' =>
          \A r \in Requests : pc'[r] # pc[r] =>
            \A q \in Requests : tab[q] \in running \ browserDone =>
                                tab[q] \in running' \ browserDone' ]_allVars

(* A process owns one Chrome at a time and never an old one again, hands out the one
   it owns, and lets no request work in one it gave up, however late it opens its
   tab: as long as it lives it takes the steps of ChromeLease (browser.go:180-210). *)
LiveKeepsLease ==
    [][ alive /\ alive' => [Lease!LeaseNext]_(Lease!leaseVars) ]_allVars

(* Between its start and its end a process changes the supervisor's state as
   Supervisor does, except that a failing listener uses up one fault. *)
LEMMA LiveStepIsSupervisorStep ==
    ASSUME BridgeInv, [BridgeNext]_allVars, alive, alive'
    PROVE  [Next]_vars \/ UNCHANGED <<pc, life, chrome, tab>>
<1>1. ASSUME NEW r \in Requests, Handler(r)
      PROVE  [Next]_vars
  BY <1>1 DEF Handler, Arrive, Authenticate, RejectBody, CallBrowser, Health, Reply, Next
<1>2. CASE Bind \/ BeginDrain \/ DrainDone \/ GraceExpires \/ Signal \/ Restart \/ Ended
  BY <1>2 DEF Bind, BeginDrain, DrainDone, GraceExpires, Signal, Restart, Ended, allVars
<1>3. CASE BindFails \/ ServeFails
  BY <1>3 DEF BindFails, ServeFails
<1>4. CASE Supervise
  BY <1>4 DEF Supervise, Next, Environment
<1>5. CASE Unwind \/ ChromeExit
  BY <1>5 DEF Unwind, ChromeExit, Next, Environment
<1>6. ~(ProcessExit \/ HardKill)
  BY DEF ProcessExit, HardKill, Die
<1>7. CASE UNCHANGED allVars
  BY <1>7 DEF allVars
<1> QED
  BY <1>1, <1>2, <1>3, <1>4, <1>5, <1>6, <1>7 DEF BridgeNext, Listen

(* No request ends another's tab by a relaunch, in any life of the process. *)
THEOREM LiveRelaunchIsSafe == BridgeSpec => LiveRelaunchSparesTabs
<1>1. BridgeInv /\ [BridgeNext]_allVars =>
        [ alive /\ alive' =>
            \A r \in Requests : pc'[r] # pc[r] =>
              \A q \in Requests : tab[q] \in running \ browserDone =>
                                  tab[q] \in running' \ browserDone' ]_allVars
  <2> SUFFICES ASSUME BridgeInv, [BridgeNext]_allVars, alive, alive',
                      NEW r \in Requests, pc'[r] # pc[r],
                      NEW q \in Requests, tab[q] \in running \ browserDone
               PROVE  tab[q] \in running' \ browserDone'
    OBVIOUS
  <2>1. IInv /\ [Next]_vars
    BY LiveStepIsSupervisorStep DEF BridgeInv
  <2> QED
    BY <2>1, StepSparesTabs
<1> QED
  BY <1>1, BridgeInductive, PTL DEF BridgeSpec, LiveRelaunchSparesTabs

(* As long as a process lives it implements ChromeLease step by step. *)
THEOREM LiveProcessKeepsLease == BridgeSpec => LiveKeepsLease
<1>1. BridgeInv /\ [BridgeNext]_allVars =>
        [ alive /\ alive' => [Lease!LeaseNext]_(Lease!leaseVars) ]_allVars
  <2> SUFFICES ASSUME BridgeInv, [BridgeNext]_allVars, alive, alive'
               PROVE  [Lease!LeaseNext]_(Lease!leaseVars)
    OBVIOUS
  <2>1. CASE [Next]_vars
    BY <2>1, StepIsLeaseStep DEF BridgeInv
  <2>2. CASE UNCHANGED <<pc, life, chrome, tab>>
    BY <2>2 DEF life, Lease!leaseVars, Working
  <2> QED
    BY <2>1, <2>2, LiveStepIsSupervisorStep
<1> QED
  BY <1>1, BridgeInductive, PTL DEF BridgeSpec, LiveKeepsLease

=============================================================================
