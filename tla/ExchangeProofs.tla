---------------------------- MODULE ExchangeProofs ----------------------------
(***************************************************************************)
(* Proofs about Exchange, for any commands, limits and number of handlers:  *)
(* what the limits leave to the page, and which of them passes first.       *)
(***************************************************************************)
EXTENDS Exchange, TLAPS

WorkType ==
    [stage : {"none", "line", "sweep", "launch", "run"}, cmd : Commands, age : Nat, spent : Nat,
     page : Nat, slept : Nat, delayed : BOOLEAN]

\* Limits are kept; a handler that found Chrome up is as old as its work.
LimitInv(s) ==
    /\ work[s].age <= ClientLimit /\ work[s].spent <= LaunchLimit
    /\ work[s].page + work[s].slept <= Deadline(work[s].cmd)
    /\ work[s].slept <= Sleeps(work[s].cmd)
    /\ client = s => work[s].stage # "none"
    /\ client # s => work[s].age = 0
    /\ work[s].stage # "run" => work[s].page = 0 /\ work[s].slept = 0
    /\ work[s].stage \in {"none", "line", "sweep"} => work[s].spent = 0
    /\ client = s /\ ~work[s].delayed => work[s].age <= work[s].page + work[s].slept

ExInv ==
    /\ work \in [Slots -> WorkType] /\ client \in Slots \cup {NoSlot} /\ up \in BOOLEAN
    /\ \A s \in Slots : LimitInv(s)

(* Every command has a deadline and a time that it sleeps. *)
LEMMA CommandFacts ==
    ASSUME NEW cmd \in Commands
    PROVE  /\ Deadline(cmd) \in Nat /\ Sleeps(cmd) \in Nat
           /\ cmd.window \in Nat /\ cmd.settle \in Nat
           /\ cmd.name = "burst" => Deadline(cmd) >= Sleeps(cmd) + CaptureBuffer
           /\ cmd.name = "probe" => Deadline(cmd) = cmd.window + ProbeRoom
           /\ cmd.name \in {"screenshot", "eval"} => Deadline(cmd) = DefaultLimit
<1>1. cmd \in CommandType
  BY CommandsAssumption DEF CommandsAssumption
<1>2. cmd.window \in Nat /\ cmd.settle \in Nat
  BY <1>1 DEF CommandType
<1>3. TimeoutSent(cmd) \in Nat
  BY <1>2, LimitsAssumption DEF TimeoutSent, LimitsAssumption
<1> QED
  BY <1>2, <1>3, LimitsAssumption DEF TimeoutSent, Deadline, Sleeps, LimitsAssumption

(* A handler that ends, and one that begins, keep every limit. *)
LEMMA NothingFacts ==
    ASSUME NEW cmd \in Commands
    PROVE  /\ Fresh(cmd) \in WorkType /\ Nothing \in WorkType
           /\ Fresh(cmd).stage = "line" /\ Nothing.stage = "none"
           /\ Fresh(cmd).age = 0 /\ Nothing.age = 0
           /\ Fresh(cmd).spent = 0 /\ Nothing.spent = 0
           /\ Fresh(cmd).page = 0 /\ Nothing.page = 0
           /\ Fresh(cmd).slept = 0 /\ Nothing.slept = 0
<1>1. (CHOOSE x \in Commands : TRUE) \in Commands
  OBVIOUS
<1> QED
  BY <1>1 DEF Fresh, Nothing, WorkType

(* An answer, whatever it leaves of the browser, keeps the invariant. *)
LEMMA AnswerKeepsInv ==
    ASSUME ExInv, NEW s \in Slots, Answer(s), up' \in BOOLEAN
    PROVE  ExInv'
<1>1. work[s].cmd \in Commands
  BY DEF ExInv, WorkType
<1>2. Nothing \in WorkType /\ Nothing.cmd \in Commands
  BY <1>1, NothingFacts DEF WorkType
<1>3. work' = [work EXCEPT ![s] = Nothing] /\ client' \in Slots \cup {NoSlot} /\ client' # s
      /\ (client # s => client' = client) /\ (client = s => client' = NoSlot)
  BY SlotsAssumption DEF ExInv, Answer, SlotsAssumption
<1>4. work' \in [Slots -> WorkType]
  BY <1>2, <1>3 DEF ExInv
<1>5. ASSUME NEW r \in Slots PROVE LimitInv(r)'
  <2>1. CASE r = s
    BY <1>1, <1>2, <1>3, <2>1, NothingFacts, CommandFacts, LimitsAssumption
       DEF ExInv, LimitInv, LimitsAssumption
  <2>2. CASE r # s
    BY <1>3, <2>2, SlotsAssumption DEF ExInv, LimitInv, SlotsAssumption
  <2> QED
    BY <2>1, <2>2
<1> QED
  BY <1>3, <1>4, <1>5 DEF ExInv

(* A handler whose stage or age changes keeps its limits. *)
LEMMA MoveKeepsInv ==
    ASSUME ExInv, NEW s \in Slots,
           \/ \E cmd \in Commands : Post(s, cmd)
           \/ Forget(s)
           \/ Enter(s) /\ Timed(s)
           \/ Swept(s) \/ Launched(s)
    PROVE  ExInv'
<1> USE SlotsAssumption DEF SlotsAssumption
<1>1. CASE \E cmd \in Commands : Post(s, cmd)
  <2>1. PICK cmd \in Commands : Post(s, cmd)
    BY <1>1
  <2>2. work' = [work EXCEPT ![s] = Fresh(cmd)] /\ client = NoSlot /\ client' = s /\ up' = up
        /\ Fresh(cmd) \in WorkType /\ Fresh(cmd).cmd = cmd
    BY <2>1, NothingFacts DEF Post, Fresh
  <2>3. ASSUME NEW r \in Slots PROVE LimitInv(r)'
    <3>1. CASE r = s
      BY <2>2, <3>1, NothingFacts, CommandFacts, LimitsAssumption DEF ExInv, LimitInv, LimitsAssumption
    <3>2. CASE r # s
      BY <2>2, <3>2 DEF ExInv, LimitInv
    <3> QED
      BY <3>1, <3>2
  <2> QED
    BY <2>2, <2>3 DEF ExInv
<1>2. CASE Forget(s)
  <2>1. work' = [work EXCEPT ![s] = [work[s] EXCEPT !.age = 0]] /\ client = s /\ client' = NoSlot
        /\ up' = up
    BY <1>2 DEF Forget
  <2>2. work' \in [Slots -> WorkType]
    BY <2>1 DEF ExInv, WorkType
  <2>3. ASSUME NEW r \in Slots PROVE LimitInv(r)'
    BY <2>1, LimitsAssumption DEF ExInv, LimitInv, WorkType, LimitsAssumption
  <2> QED
    BY <2>1, <2>2, <2>3 DEF ExInv
<1>3. CASE (Enter(s) /\ Timed(s)) \/ Swept(s) \/ Launched(s)
  <2>1. PICK st \in {"run", "sweep", "launch"} :
          /\ work' = [work EXCEPT ![s] = [work[s] EXCEPT !.stage = st]]
          /\ st = "sweep" => work[s].stage = "line"
    BY <1>3 DEF Enter, Swept, Launched
  <2>2. client' = client /\ up' \in BOOLEAN /\ work[s].stage \in {"line", "sweep", "launch"}
    BY <1>3 DEF Enter, Swept, Launched, ExInv
  <2>3. work' \in [Slots -> WorkType]
    BY <2>1 DEF ExInv, WorkType
  <2>4. ASSUME NEW r \in Slots PROVE LimitInv(r)'
    BY <2>1, <2>2 DEF ExInv, LimitInv, WorkType
  <2> QED
    BY <2>2, <2>3, <2>4 DEF ExInv
<1> QED
  BY <1>1, <1>2, <1>3

(* Time passes only while no limit is reached. *)
LEMMA TickKeepsInv ==
    ASSUME ExInv, Tick
    PROVE  ExInv'
<1>1. PICK asleep \in SUBSET Sleepers : work' = [s \in Slots |-> Older(s, s \in asleep)]
  BY DEF Tick
<1>2. client' = client /\ up' = up
  BY DEF Tick
<1>3. ASSUME NEW s \in Slots
      PROVE  work'[s] \in WorkType /\ LimitInv(s)'
  <2> DEFINE w == work[s]
  <2>1. w \in WorkType /\ ~Due(s) /\ LimitInv(s)
    BY DEF ExInv, Tick
  <2>2. w.cmd \in Commands /\ w.age \in Nat /\ w.spent \in Nat /\ w.page \in Nat /\ w.slept \in Nat
    BY <2>1 DEF WorkType
  <2>3. Deadline(w.cmd) \in Nat /\ Sleeps(w.cmd) \in Nat
    BY <2>2, CommandFacts
  <2>4. work'[s] = Older(s, s \in asleep)
    BY <1>1
  <2>5. /\ work'[s].stage = w.stage /\ work'[s].cmd = w.cmd
        /\ work'[s].age = IF client = s /\ Timed(s) THEN w.age + 1 ELSE w.age
        /\ work'[s].spent = IF w.stage = "launch" THEN w.spent + 1 ELSE w.spent
        /\ work'[s].slept = IF w.stage = "run" /\ s \in asleep THEN w.slept + 1 ELSE w.slept
        /\ work'[s].page = IF w.stage = "run" /\ s \notin asleep THEN w.page + 1 ELSE w.page
        /\ work'[s].delayed = (w.delayed \/ w.stage \in {"line", "sweep", "launch"})
    <3>1. /\ work'[s].stage = w.stage /\ work'[s].cmd = w.cmd
          /\ work'[s].delayed = (w.delayed \/ w.stage \in {"line", "sweep", "launch"})
      BY <2>1, <2>4 DEF Older, WorkType
    <3>2. work'[s].age = IF client = s /\ Timed(s) THEN w.age + 1 ELSE w.age
      BY <2>1, <2>2, <2>4 DEF Older, WorkType
    <3>3. work'[s].spent = IF w.stage = "launch" THEN w.spent + 1 ELSE w.spent
      BY <2>1, <2>2, <2>4 DEF Older, WorkType
    <3>4. work'[s].slept = IF w.stage = "run" /\ s \in asleep THEN w.slept + 1 ELSE w.slept
      BY <2>1, <2>2, <2>4 DEF Older, WorkType
    <3>5. work'[s].page = IF w.stage = "run" /\ s \notin asleep THEN w.page + 1 ELSE w.page
      BY <2>1, <2>2, <2>4 DEF Older, WorkType
    <3> QED
      BY <3>1, <3>2, <3>3, <3>4, <3>5
  <2>6. work'[s] \in WorkType
    <3>1. /\ work'[s].age \in Nat /\ work'[s].spent \in Nat
          /\ work'[s].page \in Nat /\ work'[s].slept \in Nat
      BY <2>2, <2>5
    <3> DEFINE x == work'[s]
    <3>2. x = [w EXCEPT !.age = x.age, !.delayed = x.delayed, !.spent = x.spent,
                        !.slept = x.slept, !.page = x.page]
      BY <2>1, <2>4 DEF Older, WorkType
    <3>3. x.delayed \in BOOLEAN
      BY <2>5
    <3> QED
      BY <2>1, <3>1, <3>2, <3>3 DEF WorkType
  <2>7. work'[s].age <= ClientLimit /\ work'[s].spent <= LaunchLimit
    <3>1. w.age <= ClientLimit /\ (client = s /\ Timed(s) => w.age # ClientLimit)
      BY <2>1 DEF LimitInv, Due
    <3>2. w.spent <= LaunchLimit /\ (w.stage = "launch" => w.spent # LaunchLimit)
      BY <2>1 DEF LimitInv, Due
    <3>3. ClientLimit \in Nat /\ LaunchLimit \in Nat
      BY LimitsAssumption DEF LimitsAssumption
    <3>4. work'[s].age <= ClientLimit
      BY <2>2, <2>5, <3>1, <3>3
    <3>5. work'[s].spent <= LaunchLimit
      BY <2>2, <2>5, <3>2, <3>3
    <3> QED
      BY <3>4, <3>5
  <2>8. /\ work'[s].page + work'[s].slept <= Deadline(w.cmd)
        /\ work'[s].slept <= Sleeps(w.cmd)
    <3>1. w.stage = "run" => w.page + w.slept < Deadline(w.cmd)
      BY <2>1, <2>2, <2>3 DEF LimitInv, Due, Expired
    <3>2. s \in asleep => w.slept < Sleeps(w.cmd)
      BY <1>1 DEF Sleepers
    <3> QED
      BY <2>1, <2>2, <2>3, <2>5, <3>1, <3>2 DEF LimitInv
  <2>9. client = s /\ ~work'[s].delayed => work'[s].age <= work'[s].page + work'[s].slept
    <3>1. SUFFICES ASSUME client = s, ~work'[s].delayed
                   PROVE  work'[s].age <= work'[s].page + work'[s].slept
      OBVIOUS
    <3>2. w.stage = "run" /\ ~w.delayed
      BY <2>1, <2>5, <3>1 DEF LimitInv, WorkType
    <3> QED
      BY <2>1, <2>2, <2>5, <3>1, <3>2 DEF LimitInv
  <2> QED
    BY <1>2, <2>1, <2>5, <2>6, <2>7, <2>8, <2>9 DEF LimitInv, Timed
<1> QED
  BY <1>1, <1>2, <1>3 DEF ExInv

(* The limits are kept always. *)
THEOREM ExInductive == ExSpec => []ExInv
<1>1. ExInit => ExInv
  <2> SUFFICES ASSUME ExInit PROVE ExInv
    OBVIOUS
  <2>1. PICK cmd \in Commands : TRUE
    BY CommandsAssumption DEF CommandsAssumption
  <2>2. Nothing \in WorkType /\ Nothing.cmd \in Commands
    BY <2>1, NothingFacts DEF WorkType
  <2>3. ASSUME NEW s \in Slots PROVE LimitInv(s)
    BY <2>1, <2>2, NothingFacts, CommandFacts, LimitsAssumption, SlotsAssumption
       DEF ExInit, LimitInv, LimitsAssumption, SlotsAssumption
  <2> QED
    BY <2>2, <2>3 DEF ExInit, ExInv
<1>2. ExInv /\ [ExNext]_exVars => ExInv'
  <2> SUFFICES ASSUME ExInv, [ExNext]_exVars PROVE ExInv'
    OBVIOUS
  <2>1. ASSUME NEW s \in Slots,
               (\E cmd \in Commands : Post(s, cmd)) \/ GiveUp(s) \/ Interrupt(s)
               \/ Swept(s) \/ Launched(s)
        PROVE  ExInv'
    BY <2>1, MoveKeepsInv DEF GiveUp, Interrupt
  <2>2. ASSUME NEW s \in Slots, Enter(s)
        PROVE  ExInv'
    BY <2>2, MoveKeepsInv, AnswerKeepsInv DEF Enter, ExInv
  <2>3. ASSUME NEW s \in Slots,
               LaunchFails(s) \/ LaunchExpires(s) \/ Complete(s) \/ Expire(s) \/ Break(s)
        PROVE  ExInv'
    BY <2>3, AnswerKeepsInv DEF LaunchFails, LaunchExpires, Complete, Expire, Break, ExInv
  <2>4. CASE Crash \/ UNCHANGED exVars
    BY <2>4 DEF Crash, exVars, ExInv, LimitInv
  <2>5. CASE Tick
    BY <2>5, TickKeepsInv
  <2> QED
    BY <2>1, <2>2, <2>3, <2>4, <2>5 DEF ExNext
<1> QED
  BY <1>1, <1>2, PTL DEF ExSpec

(* Type correctness, and with it every limit, for any commands and limits. *)
THEOREM ExchangeTypeCorrect == ExSpec => []ExchangeTypeOK
<1>1. ExInv => ExchangeTypeOK
  <2> SUFFICES ASSUME ExInv PROVE ExchangeTypeOK
    OBVIOUS
  <2>1. ASSUME NEW s \in Slots
        PROVE  /\ work[s] \in WorkType /\ LimitInv(s)
               /\ Deadline(work[s].cmd) \in Nat /\ Sleeps(work[s].cmd) \in Nat
    BY CommandFacts DEF ExInv, WorkType
  <2> QED
    BY <2>1, LimitsAssumption DEF ExInv, LimitInv, WorkType, ExchangeTypeOK, LimitsAssumption
<1> QED
  BY <1>1, ExInductive, PTL

(* The room that a burst or a probe adds to its window is the page's alone. *)
THEOREM RoomIsThePages == ExSpec => []WindowHasRoom
<1>1. ExInv => WindowHasRoom
  <2> SUFFICES ASSUME ExInv, NEW s \in Slots, Expired(s),
                      \/ work[s].cmd.name = "burst"
                      \/ work[s].cmd.name = "probe" /\ work[s].cmd.settle = 0
               PROVE  work[s].page >= Room(work[s].cmd)
    BY DEF WindowHasRoom
  <2>1. work[s] \in WorkType /\ LimitInv(s) /\ work[s].cmd \in Commands
    BY DEF ExInv, WorkType
  <2>2. work[s].slept <= Sleeps(work[s].cmd) /\ work[s].page + work[s].slept = Deadline(work[s].cmd)
    BY <2>1 DEF LimitInv, Expired
  <2>3. Deadline(work[s].cmd) >= Sleeps(work[s].cmd) + Room(work[s].cmd)
    BY <2>1, CommandFacts, LimitsAssumption DEF Room, Sleeps, LimitsAssumption
  <2>4. Room(work[s].cmd) \in Nat /\ work[s].page \in Nat /\ work[s].slept \in Nat
    BY <2>1, LimitsAssumption DEF Room, WorkType, LimitsAssumption
  <2> QED
    BY <2>1, <2>2, <2>3, <2>4, CommandFacts
<1> QED
  BY <1>1, ExInductive, PTL

(* A client whose own limit is longer than the default one of the bridge outlives
   every screenshot and eval that finds Chrome up. *)
THEOREM ClientsArePatient ==
    ASSUME DefaultLimit < ClientLimit
    PROVE  ExSpec => []PatientEnough
<1>1. ExInv => PatientEnough
  <2> SUFFICES ASSUME ExInv, NEW s \in Slots, client = s, ~work[s].delayed,
                      work[s].cmd.name \in {"screenshot", "eval"}
               PROVE  work[s].age < ClientLimit
    BY DEF PatientEnough
  <2>1. work[s] \in WorkType /\ LimitInv(s)
    BY DEF ExInv
  <2>2. /\ work[s].age <= work[s].page + work[s].slept
        /\ work[s].page + work[s].slept <= Deadline(work[s].cmd)
        /\ Deadline(work[s].cmd) = DefaultLimit
    BY <2>1, CommandFacts DEF LimitInv, WorkType
  <2> QED
    BY <2>1, <2>2, LimitsAssumption DEF WorkType, LimitsAssumption
<1> QED
  BY <1>1, ExInductive, PTL
===============================================================================
