--------------------------- MODULE SupervisorProofs ---------------------------
(***************************************************************************)
(* Proofs about Supervisor, for every set of requests and every bound on    *)
(* the faults.                                                              *)
(***************************************************************************)
EXTENDS Supervisor, TLAPS

(* The main goroutine is not a request, the free mutex is no thread. *)
LEMMA ThreadFacts ==
    /\ Main \in Threads /\ Requests \subseteq Threads /\ Main \notin Requests
    /\ NoThread \notin Threads
BY ThreadsAssumption DEF Threads

(* In every state of IInv two threads inside critical sections are the same. *)
LEMMA OneHolder ==
    ASSUME TypeOK, MutexInv, NEW s \in Threads, NEW t \in Threads,
           pc[s] \in Critical, pc[t] \in Critical
    PROVE  s = t /\ mu = t
BY DEF MutexInv

(* Every initial state satisfies the inductive invariant. *)
LEMMA InitInv == Init => IInv
<1> SUFFICES ASSUME Init PROVE IInv
  OBVIOUS
<1> USE ThreadFacts DEF Init, Critical, Launching
<1>1. TypeOK
  <2>1. pc \in [Threads -> {"idle", "want", "probe", "parent", "tab", "start", "serve",
                            "stop", "stopped", "failed"} \cup Critical]
    OBVIOUS
  <2>2. faults \in 0..MaxFaults
    BY FaultsAssumption
  <2> QED
    BY <2>1, <2>2 DEF TypeOK
<1>2. MutexInv
  BY DEF MutexInv
<1>3. ControlInv
  BY DEF ControlInv, Serving
<1>4. CancelInv
  BY DEF CancelInv
<1>5. ContextInv /\ NoLeakedContext
  BY DEF ContextInv, NoLeakedContext
<1> QED
  BY <1>1, <1>2, <1>3, <1>4, <1>5 DEF IInv
(* STEP *)
-----------------------------------------------------------------------------
(* The steps that change contexts or processes keep the invariant. *)

(* A teardown ends only the generation in the struct, whose context is done. *)
LEMMA TeardownInv ==
    ASSUME IInv, NEW r \in Requests, Teardown(r)
    PROVE  IInv'
<1> USE ThreadFacts DEF IInv, Teardown, Goto, CancelAll, End, Healthy
<1>1. TypeOK'
  BY DEF TypeOK, Critical, Launching, CancelInv
<1>2. MutexInv'
  BY DEF MutexInv, Critical, TypeOK
<1>3. ControlInv'
  BY DEF ControlInv, Critical, Launching, Serving, TypeOK, CancelInv, MutexInv
<1>4. CancelInv'
  BY DEF CancelInv, Critical, Launching, Serving, TypeOK, MutexInv, ControlInv
<1>5. ContextInv'
  BY DEF ContextInv, TypeOK, NoLeakedContext, UnderLaunch, MutexInv, Critical
<1>6. NoLeakedContext'
  BY DEF NoLeakedContext, UnderLaunch, CancelInv, MutexInv, Critical, Launching, TypeOK, ControlInv
<1> QED
  BY <1>1, <1>2, <1>3, <1>4, <1>5, <1>6

(* A sweep, whether it succeeds or fails, leaves the contexts alone. *)
LEMMA KillStaleInv ==
    ASSUME IInv, NEW t \in Threads, KillStale(t)
    PROVE  IInv'
<1> USE ThreadFacts DEF IInv, KillStale, Goto, life, chrome, Fault, SweepSucceeds, SweepFails
<1>1. TypeOK'
  <2>1. CASE SweepSucceeds
    BY <2>1 DEF TypeOK, Critical
  <2>2. CASE SweepFails
    BY <2>2, FaultsAssumption DEF TypeOK, Critical
  <2> QED
    BY <2>1, <2>2
<1>2. MutexInv'
  BY DEF MutexInv, Critical, TypeOK
<1>3. ControlInv'
  BY DEF ControlInv, Critical, Launching, Serving, TypeOK, CancelInv, MutexInv
<1>4. CancelInv'
  BY DEF CancelInv, Critical, Launching, Serving, TypeOK, MutexInv, ControlInv
<1>5. ContextInv'
  BY DEF ContextInv, TypeOK, NoLeakedContext, UnderLaunch, MutexInv, Critical
<1>6. NoLeakedContext'
  BY DEF NoLeakedContext, UnderLaunch, CancelInv, MutexInv, Critical, Launching, TypeOK, ControlInv
<1> QED
  BY <1>1, <1>2, <1>3, <1>4, <1>5, <1>6

(* A new generation is newer than every context, and under launch. *)
LEMMA SpawnInv ==
    ASSUME IInv, NEW t \in Threads, Spawn(t)
    PROVE  IInv'
<1> USE ThreadFacts DEF IInv, Spawn, Goto, life, ProfileHeld
<1>1. TypeOK'
  BY DEF TypeOK, Critical
<1>2. MutexInv'
  BY DEF MutexInv, Critical, TypeOK
<1>3. ControlInv'
  BY DEF ControlInv, Critical, Launching, Serving, TypeOK, CancelInv, MutexInv
<1>4. CancelInv'
  BY DEF CancelInv, Critical, Launching, Serving, TypeOK, MutexInv, ControlInv
<1>5. ContextInv'
  BY DEF ContextInv, TypeOK, NoLeakedContext, UnderLaunch, MutexInv, Critical
<1>6. NoLeakedContext'
  BY DEF NoLeakedContext, UnderLaunch, CancelInv, MutexInv, Critical, Launching, TypeOK, ControlInv
<1> QED
  BY <1>1, <1>2, <1>3, <1>4, <1>5, <1>6

(* Adopting the launched generation arms its cancel functions. *)
LEMMA LaunchOKInv ==
    ASSUME IInv, NEW t \in Threads, LaunchOK(t)
    PROVE  IInv'
<1> USE ThreadFacts DEF IInv, LaunchOK, Goto, chrome
<1>1. TypeOK'
  BY DEF TypeOK, Critical
<1>2. MutexInv'
  BY DEF MutexInv, Critical, TypeOK
<1>3. ControlInv'
  BY DEF ControlInv, Critical, Launching, Serving, TypeOK, CancelInv, MutexInv
<1>4. CancelInv'
  <2>1. CASE t = Main
    BY <2>1 DEF CancelInv, Critical, Launching, Serving, TypeOK, MutexInv, ControlInv
  <2>2. CASE t # Main
    <3>1. Serving /\ Serving'
      BY <2>2 DEF ControlInv, Serving, Threads, TypeOK
    <3>2. \A s \in Threads : s # t => pc'[s] = pc[s] /\ pc[s] \notin Critical
      BY OneHolder DEF Critical, TypeOK
    <3> QED
      BY <2>2, <3>1, <3>2 DEF CancelInv, Critical, Launching, TypeOK
  <2> QED
    BY <2>1, <2>2
<1>5. ContextInv'
  BY DEF ContextInv, TypeOK, NoLeakedContext, UnderLaunch, MutexInv, Critical
<1>6. NoLeakedContext'
  BY DEF NoLeakedContext, UnderLaunch, CancelInv, MutexInv, Critical, Launching, TypeOK, ControlInv
<1> QED
  BY <1>1, <1>2, <1>3, <1>4, <1>5, <1>6

(* A failed launch ends the generation it launched, never the one in the struct. *)
LEMMA LaunchFailInv ==
    ASSUME IInv, NEW t \in Threads, LaunchFail(t)
    PROVE  IInv'
<1> USE ThreadFacts DEF IInv, LaunchFail, Goto, End
<1>1. TypeOK'
  BY DEF TypeOK, Critical, Launching, CancelInv
<1>2. MutexInv'
  BY DEF MutexInv, Critical, TypeOK
<1>3. ControlInv'
  BY DEF ControlInv, Critical, Launching, Serving, TypeOK, CancelInv, MutexInv
<1>4. CancelInv'
  BY DEF CancelInv, Critical, Launching, Serving, TypeOK, MutexInv, ControlInv
<1>5. ContextInv'
  BY DEF ContextInv, TypeOK, NoLeakedContext, UnderLaunch, MutexInv, Critical
<1>6. NoLeakedContext'
  BY DEF NoLeakedContext, UnderLaunch, CancelInv, MutexInv, Critical, Launching, TypeOK, ControlInv
<1> QED
  BY <1>1, <1>2, <1>3, <1>4, <1>5, <1>6

(* Shutdown runs while no thread is in a critical section. *)
LEMMA ShutdownInv ==
    ASSUME IInv, Shutdown
    PROVE  IInv'
<1> USE ThreadFacts DEF IInv, Shutdown, Goto, CancelAll, End
<1>1. TypeOK'
  BY DEF TypeOK, Critical, Launching, CancelInv
<1>2. MutexInv'
  BY DEF MutexInv, Critical, TypeOK
<1>3. ControlInv'
  BY DEF ControlInv, Critical, Launching, Serving, TypeOK, CancelInv, MutexInv
<1>4. CancelInv'
  BY DEF CancelInv, Critical, Launching, Serving, TypeOK, MutexInv, ControlInv
<1>5. ContextInv'
  BY DEF ContextInv, TypeOK, NoLeakedContext, UnderLaunch, MutexInv, Critical
<1>6. NoLeakedContext'
  BY DEF NoLeakedContext, UnderLaunch, CancelInv, MutexInv, Critical, Launching, TypeOK, ControlInv
<1> QED
  BY <1>1, <1>2, <1>3, <1>4, <1>5, <1>6

(* A request is handed the context of the generation in the struct. *)
LEMMA HandOutInv ==
    ASSUME IInv, NEW r \in Requests, HandOut(r)
    PROVE  IInv'
<1> USE ThreadFacts DEF IInv, HandOut, Goto, life, chrome
<1>1. TypeOK'
  BY DEF TypeOK, Critical
<1>2. MutexInv'
  BY DEF MutexInv, Critical, TypeOK
<1>3. ControlInv'
  BY DEF ControlInv, Critical, Launching, Serving, TypeOK, CancelInv, MutexInv
<1>4. CancelInv'
  BY DEF CancelInv, Critical, Launching, Serving, TypeOK, MutexInv, ControlInv
<1>5. ContextInv'
  BY DEF ContextInv, TypeOK, NoLeakedContext, UnderLaunch, MutexInv, Critical
<1>6. NoLeakedContext'
  BY DEF NoLeakedContext, UnderLaunch, CancelInv, MutexInv, Critical, Launching, TypeOK, ControlInv
<1> QED
  BY <1>1, <1>2, <1>3, <1>4, <1>5, <1>6

(* A disconnect ends a context and its process together. *)
LEMMA DisconnectInv ==
    ASSUME IInv, NEW g \in 1..gen, Disconnect(g)
    PROVE  IInv'
<1> USE ThreadFacts DEF IInv, Disconnect, Fault
<1>1. TypeOK'
  BY FaultsAssumption DEF TypeOK, Critical
<1>2. MutexInv'
  BY DEF MutexInv, Critical, TypeOK
<1>3. ControlInv'
  BY DEF ControlInv, Critical, Launching, Serving, TypeOK, CancelInv, MutexInv
<1>4. CancelInv'
  BY DEF CancelInv, Critical, Launching, Serving, TypeOK, MutexInv, ControlInv
<1>5. ContextInv'
  BY DEF ContextInv, TypeOK, NoLeakedContext, UnderLaunch, MutexInv, Critical
<1>6. NoLeakedContext'
  BY DEF NoLeakedContext, UnderLaunch, CancelInv, MutexInv, Critical, Launching, TypeOK, ControlInv
<1> QED
  BY <1>1, <1>2, <1>3, <1>4, <1>5, <1>6

-----------------------------------------------------------------------------
(* Every step of a request that only moves its own label keeps the invariant. *)
LEMMA RequestInv ==
    ASSUME IInv, NEW r \in Requests,
           \/ NewTab(r) \/ Acquire(r) \/ Reuse(r) \/ OpenTab(r) \/ Finish(r)
           \/ Probe(r) \/ AnswerHealth(r)
    PROVE  IInv'
<1> USE ThreadFacts DEF IInv, TypeOK, Critical, Launching, Serving, MutexInv, ControlInv,
          CancelInv, ContextInv, NoLeakedContext, UnderLaunch
<1>1. CASE NewTab(r)
  BY <1>1 DEF NewTab, Goto, life, chrome
<1>2. CASE Acquire(r)
  BY <1>2 DEF Acquire, Goto, life, chrome
<1>3. CASE Reuse(r)
  BY <1>3 DEF Reuse, Goto, life, chrome, Healthy
<1>4. CASE OpenTab(r)
  BY <1>4 DEF OpenTab, Goto, life, chrome
<1>5. CASE Finish(r)
  BY <1>5 DEF Finish, Goto, life, chrome
<1>6. CASE Probe(r)
  BY <1>6 DEF Probe, Goto, life, chrome
<1>7. CASE AnswerHealth(r)
  BY <1>7 DEF AnswerHealth, Healthy, Goto, life, chrome
<1> QED
  BY <1>1, <1>2, <1>3, <1>4, <1>5, <1>6, <1>7

(* So do the calls of the main goroutine, and the launch goroutine and its timer. *)
LEMMA MainInv ==
    ASSUME IInv, Start \/ CallShutdown \/ RunReturns \/ TimerFires
    PROVE  IInv'
<1> USE ThreadFacts DEF IInv, TypeOK, Critical, Launching, Serving, MutexInv, ControlInv,
          CancelInv, ContextInv, NoLeakedContext, UnderLaunch
<1>1. CASE Start
  BY <1>1 DEF Start, Goto, life, chrome
<1>2. CASE CallShutdown
  BY <1>2 DEF CallShutdown, Goto, life, chrome
<1>3. CASE RunReturns
  BY <1>3, FaultsAssumption DEF RunReturns, life, chrome, Fault
<1>4. CASE TimerFires
  BY <1>4, FaultsAssumption DEF TimerFires, life, chrome, Fault
<1> QED
  BY <1>1, <1>2, <1>3, <1>4

(* A Chrome that crashes, is found lost or exits takes no live context with it. *)
LEMMA ProcessInv ==
    ASSUME IInv, NEW g \in 1..gen, Crash(g) \/ LostConnection(g) \/ Exit(g)
    PROVE  IInv'
<1> USE ThreadFacts DEF IInv, TypeOK, Critical, Launching, Serving, MutexInv, ControlInv,
          CancelInv, ContextInv, NoLeakedContext, UnderLaunch
<1>1. CASE Crash(g)
  BY <1>1, FaultsAssumption DEF Crash, life, Fault
<1>2. CASE LostConnection(g)
  BY <1>2 DEF LostConnection, chrome
<1>3. CASE Exit(g)
  BY <1>3 DEF Exit, life
<1> QED
  BY <1>1, <1>2, <1>3

(* A step that changes nothing keeps it too. *)
LEMMA StutterInv == IInv /\ UNCHANGED vars => IInv'
BY DEF vars, IInv, TypeOK, MutexInv, ControlInv, Serving, CancelInv, ContextInv, NoLeakedContext, UnderLaunch

(* The invariant is inductive. *)
THEOREM InductiveInvariant == Spec => []IInv
<1>1. IInv /\ [Next]_vars => IInv'
  <2> SUFFICES ASSUME IInv, [Next]_vars PROVE IInv'
    OBVIOUS
  <2>1. ASSUME NEW r \in Requests,
               NewTab(r) \/ Acquire(r) \/ Serve(r) \/ Probe(r) \/ AnswerHealth(r)
        PROVE  IInv'
    BY <2>1, RequestInv, TeardownInv, HandOutInv DEF Serve
  <2>2. ASSUME NEW t \in Threads, Launch(t)
        PROVE  IInv'
    BY <2>2, KillStaleInv, SpawnInv, LaunchOKInv, LaunchFailInv DEF Launch
  <2>3. CASE Start \/ CallShutdown \/ Shutdown
    BY <2>3, MainInv, ShutdownInv
  <2>4. CASE Environment
    BY <2>4, MainInv, ProcessInv, DisconnectInv DEF Environment
  <2>5. CASE Exited \/ UNCHANGED vars
    BY <2>5, StutterInv DEF Exited
  <2> QED
    BY <2>1, <2>2, <2>3, <2>4, <2>5 DEF Next
<1> QED
  BY InitInv, <1>1, PTL DEF Spec

-----------------------------------------------------------------------------
(* Type correctness, for every set of requests and every fault bound. *)
THEOREM TypeCorrect == Spec => []TypeOK
<1>1. IInv => TypeOK
  BY DEF IInv
<1> QED
  BY <1>1, InductiveInvariant, PTL

(* No Chrome of this process runs that neither Shutdown, nor the next teardown,
   nor the launch in progress will end. *)
THEOREM ChromeNeverLeaks == Spec => []NoLeakedChrome
<1>1. IInv => NoLeakedChrome
  BY DEF IInv, NoLeakedChrome, NoLeakedContext, ContextInv, TypeOK
<1> QED
  BY <1>1, InductiveInvariant, PTL

(* No context is dropped without being cancelled. *)
THEOREM ContextNeverLeaks == Spec => []NoLeakedContext
<1>1. IInv => NoLeakedContext
  BY DEF IInv
<1> QED
  BY <1>1, InductiveInvariant, PTL

-----------------------------------------------------------------------------
(* In a state of the invariant, a request that is about to sweep holds the
   mutex over a dead Chrome: no Chrome of this process runs. *)
LEMMA NothingRunsAtSweep ==
    ASSUME IInv, NEW t \in Threads, pc[t] = "kill"
    PROVE  running = {}
<1> USE ThreadFacts DEF IInv, Critical, Launching
<1>1. cancel = 0
  BY DEF CancelInv
<1>2. \A s \in Threads : pc[s] # "await"
  BY OneHolder
<1>3. (1..gen) \ allocDone = {}
  BY <1>1, <1>2 DEF NoLeakedContext, UnderLaunch, TypeOK
<1> QED
  BY <1>3 DEF ContextInv, TypeOK

(* One step of a request: a tab, or a context just handed out, of a connected
   Chrome outlives it. *)
LEMMA StepSparesTabs ==
    ASSUME IInv, [Next]_vars, NEW r \in Requests, pc'[r] # pc[r],
           NEW q \in Requests, tab[q] \in running \ browserDone
    PROVE  tab[q] \in running' \ browserDone'
<1> USE ThreadFacts DEF IInv, Goto
<1>1. CASE \E s \in Requests : Teardown(s)
  <2>1. cancel = 0 \/ cancel \in browserDone
    BY <1>1 DEF Teardown, Healthy, CancelInv, ContextInv
  <2>2. tab[q] # cancel \/ cancel = 0
    BY <2>1
  <2> QED
    BY <1>1, <2>2 DEF Teardown, CancelAll, End, TypeOK
<1>2. CASE \E t \in Threads : KillStale(t)
  BY <1>2, NothingRunsAtSweep DEF KillStale
<1>3. CASE \E t \in Threads : LaunchFail(t)
  <2>1. tab[q] <= cur /\ cur < gen
    BY <1>3 DEF LaunchFail, CancelInv, TypeOK
  <2> QED
    BY <1>3, <2>1 DEF LaunchFail, End, TypeOK
<1>4. CASE \E t \in Threads : Spawn(t) \/ LaunchOK(t)
  BY <1>4 DEF Spawn, LaunchOK, life, chrome
<1>5. CASE \E s \in Requests : NewTab(s) \/ Acquire(s) \/ Reuse(s) \/ HandOut(s) \/ OpenTab(s)
                               \/ Finish(s) \/ Probe(s) \/ AnswerHealth(s)
  BY <1>5 DEF NewTab, Acquire, Reuse, HandOut, OpenTab, Finish, Probe, AnswerHealth, life, chrome
<1>6. ~(Start \/ CallShutdown \/ Shutdown \/ Exited \/ UNCHANGED vars)
  BY DEF Start, CallShutdown, Shutdown, Exited, vars, TypeOK
<1>7. ~Environment
  BY DEF Environment, RunReturns, TimerFires, Crash, Disconnect, LostConnection, Exit
<1> QED
  BY <1>1, <1>2, <1>3, <1>4, <1>5, <1>6, <1>7 DEF Next, Serve, Launch

(* A request that relaunches Chrome never ends a tab that another request has
   open, or is about to open, in a Chrome that runs and is connected. *)
THEOREM RelaunchIsSafe == Spec => RelaunchSparesTabs
<1>1. IInv /\ [Next]_vars =>
        [ \A r \in Requests : pc'[r] # pc[r] =>
            \A q \in Requests : tab[q] \in running \ browserDone =>
                                tab[q] \in running' \ browserDone' ]_vars
  BY StepSparesTabs
<1> QED
  BY <1>1, InductiveInvariant, PTL DEF Spec, RelaunchSparesTabs

-----------------------------------------------------------------------------
(* A request that was granted a generation other than the one owned has a dead
   context: whoever overtook it has cancelled it. *)
LEMMA StaleLeaseIsDead ==
    ASSUME IInv, NEW r \in Requests, tab[r] # 0, tab[r] # cancel
    PROVE  tab[r] \in browserDone
<1> USE DEF IInv
<1>1. tab[r] \in 1..gen /\ tab[r] <= cur
  BY DEF CancelInv, TypeOK
<1>2. ~UnderLaunch(tab[r])
  BY <1>1 DEF UnderLaunch, CancelInv, TypeOK
<1> QED
  BY <1>1, <1>2 DEF NoLeakedContext, ContextInv

(* After a step that cancels the generation owned, or finds none, no request works:
   its tab was in that generation, or in one that was dead already. *)
LEMMA GivenUpStopsWork ==
    ASSUME IInv, CancelAll, NEW r \in Requests, tab[r] # 0, cancel # 0
    PROVE  tab[r] \in browserDone'
<1>1. CASE tab[r] = cancel
  BY <1>1 DEF CancelAll, End
<1>2. CASE tab[r] # cancel
  BY <1>2, StaleLeaseIsDead DEF CancelAll, End
<1> QED
  BY <1>1, <1>2

(* Every step of the supervisor is a step of ChromeLease, or changes nothing
   that ChromeLease sees. *)
LEMMA StepIsLeaseStep ==
    ASSUME IInv, [Next]_vars
    PROVE  [Lease!LeaseNext]_(Lease!leaseVars)
<1> USE ThreadFacts DEF IInv, Lease!LeaseNext, Lease!leaseVars, Working
<1>1. ASSUME NEW r \in Requests, Teardown(r)
      PROVE  Lease!GiveUp \/ UNCHANGED <<cancel, cur, tab, Working>>
  <2>1. \A q \in Requests : pc'[q] = "tab" <=> pc[q] = "tab"
    BY <1>1 DEF Teardown, Goto, TypeOK
  <2>2. UNCHANGED <<cur, tab>> /\ CancelAll
    BY <1>1 DEF Teardown
  <2>3. CASE cancel = 0
    BY <2>1, <2>2, <2>3 DEF CancelAll, End
  <2>4. CASE cancel # 0
    <3>1. Working' = {}
      BY <2>1, <2>2, <2>4, GivenUpStopsWork DEF ControlInv
    <3> QED
      BY <2>2, <2>4, <3>1 DEF CancelAll, Lease!GiveUp
  <2> QED
    BY <2>3, <2>4
<1>2. CASE Shutdown
  <2>1. \A q \in Requests : pc'[q] = pc[q]
    BY <1>2 DEF Shutdown, Goto, TypeOK
  <2>2. UNCHANGED <<cur, tab>> /\ CancelAll
    BY <1>2 DEF Shutdown
  <2>3. CASE cancel = 0
    BY <2>1, <2>2, <2>3 DEF CancelAll, End
  <2>4. CASE cancel # 0
    <3>1. Working' = {}
      BY <2>1, <2>2, <2>4, GivenUpStopsWork DEF ControlInv
    <3> QED
      BY <2>2, <2>4, <3>1 DEF CancelAll, Lease!GiveUp
  <2> QED
    BY <2>3, <2>4
<1>3. ASSUME NEW t \in Threads, LaunchOK(t)
      PROVE  Lease!Adopt
  <2>1. Working' = Working
    BY <1>3 DEF LaunchOK, Goto, TypeOK, ControlInv
  <2> QED
    BY <1>3, <2>1 DEF LaunchOK, Lease!Adopt, CancelInv, Launching, TypeOK
<1>4. ASSUME NEW r \in Requests, HandOut(r)
      PROVE  Lease!Grant(r)
  <2>1. cancel # 0 /\ cancel = cur /\ tab[r] = 0
    BY <1>4 DEF HandOut, CancelInv, ControlInv
  <2>2. Working' = Working
    BY <1>4 DEF HandOut, Goto, life, TypeOK
  <2> QED
    BY <1>4, <2>1, <2>2 DEF HandOut, Lease!Grant, life
<1>5. ASSUME NEW r \in Requests, OpenTab(r)
      PROVE  Lease!Open(r) \/ UNCHANGED <<cancel, cur, tab, Working>>
  <2>1. UNCHANGED <<cancel, cur, tab, browserDone>> /\ tab[r] # 0
    BY <1>5 DEF OpenTab, life, ControlInv
  <2>2. \A q \in Requests : pc'[q] = IF q = r THEN "tab" ELSE pc[q]
    BY <1>5 DEF OpenTab, Goto, TypeOK
  <2>3. pc[r] = "parent"
    BY <1>5 DEF OpenTab
  <2>4. CASE tab[r] \in browserDone
    BY <2>1, <2>2, <2>3, <2>4
  <2>5. CASE tab[r] \notin browserDone
    <3>1. tab[r] = cancel
      BY <2>1, <2>5, StaleLeaseIsDead
    <3>2. Working' = Working \cup {r}
      BY <2>1, <2>2, <2>5
    <3> QED
      BY <2>1, <3>1, <3>2 DEF Lease!Open
  <2> QED
    BY <2>4, <2>5
<1>6. ASSUME NEW r \in Requests, Finish(r)
      PROVE  Lease!Close(r)
  <2>1. Working' = Working \ {r}
    BY <1>6 DEF Finish, Goto, life, TypeOK
  <2> QED
    BY <1>6, <2>1 DEF Finish, Lease!Close, life, ControlInv
<1>7. ASSUME NEW r \in Requests,
             NewTab(r) \/ Acquire(r) \/ Reuse(r) \/ Probe(r) \/ AnswerHealth(r)
      PROVE  UNCHANGED <<cancel, cur, tab, Working>>
  BY <1>7 DEF NewTab, Acquire, Reuse, Probe, AnswerHealth, life, Goto, TypeOK
<1>8. ASSUME NEW t \in Threads, KillStale(t) \/ Spawn(t) \/ LaunchFail(t)
      PROVE  UNCHANGED <<cancel, cur, tab, Working>>
  <2>1. \A q \in Requests : pc'[q] = "tab" <=> pc[q] = "tab"
    BY <1>8 DEF KillStale, Spawn, LaunchFail, Goto, TypeOK
  <2>2. CASE KillStale(t) \/ Spawn(t)
    BY <2>1, <2>2 DEF KillStale, Spawn, life
  <2>3. CASE LaunchFail(t)
    <3>1. \A q \in Requests : tab[q] # gen
      BY <2>3 DEF LaunchFail, CancelInv, TypeOK
    <3>2. browserDone' = browserDone \cup {gen} /\ UNCHANGED <<cancel, cur, tab>>
      BY <2>3 DEF LaunchFail, End
    <3> QED
      BY <2>1, <3>1, <3>2
  <2> QED
    BY <1>8, <2>2, <2>3
<1>9. CASE Start \/ CallShutdown \/ Exited \/ UNCHANGED vars
  <2>1. \A q \in Requests : pc'[q] = pc[q]
    BY <1>9 DEF Start, CallShutdown, Exited, vars, Goto, TypeOK
  <2> QED
    BY <1>9, <2>1 DEF Start, CallShutdown, Exited, vars, life
<1>10. CASE Environment
  <2>1. UNCHANGED <<pc, cancel, cur, tab>> /\ browserDone \subseteq browserDone'
    BY <1>10 DEF Environment, RunReturns, TimerFires, Crash, Disconnect, LostConnection, Exit, life
  <2>2. Working' \in SUBSET Working
    BY <2>1
  <2> QED
    BY <2>1, <2>2 DEF Lease!Lose
<1> QED
  BY <1>1, <1>2, <1>3, <1>4, <1>5, <1>6, <1>7, <1>8, <1>9, <1>10 DEF Next, Serve, Launch

(* The supervisor implements ChromeLease: one Chrome owned at a time, no Chrome
   given up comes back; a request whose tab opens late, after a shutdown or a
   relaunch, works nowhere; and giving up a Chrome ends all work in it. *)
THEOREM Refinement == Spec => ImplementsLease
<1>1. Init => Lease!LeaseInit
  BY ThreadsAssumption DEF Init, Lease!LeaseInit, Working, Threads
<1>2. IInv /\ [Next]_vars => [Lease!LeaseNext]_(Lease!leaseVars)
  BY StepIsLeaseStep
<1> QED
  BY <1>1, <1>2, InductiveInvariant, PTL DEF Spec, ImplementsLease, Lease!LeaseSpec
=============================================================================
