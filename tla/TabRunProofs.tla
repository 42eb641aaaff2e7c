---------------------------- MODULE TabRunProofs ----------------------------
(***************************************************************************)
(* Proofs about TabRun, for any number of callers and any bodies: a result  *)
(* is complete, comes from a page loaded with its session material, and     *)
(* reports what it observed.                                                *)
(***************************************************************************)
EXTENDS TabRun, TLAPS

Ops == {"screenshot", "eval", "burst"}

\* Where the lists have their steps
Last(op) == IF op = "eval" THEN 11 ELSE 14
EnableAt(op) == IF op = "eval" THEN 1 ELSE 3
SetterAt(op, s) == (IF s = "headers" THEN 3 ELSE IF s = "cookies" THEN 4 ELSE 5)
                   + (IF op = "eval" THEN 0 ELSE 1)
NavigateAt(op) == IF op = "eval" THEN 6 ELSE 7
FrontAt(op) == IF op = "eval" THEN 7 ELSE 8

Active(c) == stage[c] \in {"run", "snap", "ok"}

\* A caller that is not in the browser has left nothing behind; one whose list is
\* done has passed its end.
StageInv(c) ==
    /\ stage[c] = "idle" =>
          pos[c] = 1 /\ got[c] = 0 /\ applied[c] = {} /\ sent[c] = {} /\ told[c] = {}
    /\ Active(c) => Valid(body[c])
    /\ pos[c] <= Last(body[c].op) + 1
    /\ stage[c] \in {"snap", "ok"} => pos[c] = Last(body[c].op) + 1

\* The session material switched on so far is that of the steps so far.
SessionInv(c) ==
    /\ applied[c] \subseteq body[c].sess \cup {"enable"}
    /\ pos[c] > EnableAt(body[c].op) => "enable" \in applied[c]
    /\ \A s \in body[c].sess : pos[c] > SetterAt(body[c].op, s) => s \in applied[c]
    /\ pos[c] > NavigateAt(body[c].op) => sent[c] = body[c].sess \cup {"enable"}

\* The list passes its end with the last frame.
FrameInv(c) ==
    Active(c) =>
        IF body[c].op = "eval" THEN got[c] = 0
        ELSE IF pos[c] = 15 THEN got[c] = Frames(body[c]) ELSE got[c] < Frames(body[c])

\* What is told of the sinks so far.
SinkInv(c) ==
    /\ stage[c] = "run" => told[c] = {}
    /\ stage[c] = "snap" => told[c] \subseteq {"console"} /\ ("console" \in told[c] => events[c] = 2)
    /\ stage[c] = "ok" /\ "console" \in told[c] => "failed" \in told[c]

\* A request that is alone keeps the foreground it took.
AloneInv(c) ==
    /\ stage[c] = "idle" => live[c]
    /\ stage[c] # "idle" /\ alone[c] => \A d \in Callers \ {c} : stage[d] = "idle"
    /\ Active(c) /\ alone[c] => live[c] /\ (pos[c] > FrontAt(body[c].op) => front = c)

ListInv(c) == StageInv(c) /\ SessionInv(c) /\ FrameInv(c) /\ SinkInv(c)

TabInv == TabTypeOK /\ \A c \in Callers : ListInv(c) /\ AloneInv(c)

-----------------------------------------------------------------------------

(* Where a list has which step. *)
LEMMA StepFacts ==
    ASSUME NEW op \in Ops, NEW i \in DOMAIN Steps(op)
    PROVE  /\ DOMAIN Steps(op) = 1..Last(op)
           /\ i \in Nat /\ i >= 1 /\ i <= Last(op)
           /\ Steps(op)[i] = "enable" <=> i = EnableAt(op)
           /\ \A s \in Session : Steps(op)[i] = s <=> i = SetterAt(op, s)
           /\ Steps(op)[i] = "navigate" <=> i = NavigateAt(op)
           /\ Steps(op)[i] = "front" <=> i = FrontAt(op)
           /\ Steps(op)[i] \in {"script", "click"} => i > FrontAt(op)
           /\ Steps(op)[i] = "capture" <=> op # "eval" /\ i = 13
           /\ Steps(op)[i] = "interval" <=> op # "eval" /\ i = 14
<1> USE DEF Ops, Steps, Last, EnableAt, SetterAt, NavigateAt, FrontAt, Session
<1>1. CASE op = "eval"
  BY <1>1
<1>2. CASE op # "eval"
  BY <1>2
<1> QED
  BY <1>1, <1>2

(* What the types say of a body, and of what is kept for a caller. *)
LEMMA BodyFacts ==
    ASSUME NEW b \in Bodies
    PROVE  /\ b.op \in Ops /\ b.frames \in Nat
           /\ b.sess \subseteq Session /\ b.opts \subseteq Optional
           /\ Frames(b) \in Nat
           /\ Valid(b) /\ b.op # "eval" => Frames(b) >= 1
<1>1. b \in BodyType
  BY BodiesAssumption DEF BodiesAssumption
<1>2. b.op \in Ops /\ b.sess \subseteq Session /\ b.opts \subseteq Optional /\ b.frames \in Nat
  BY <1>1 DEF BodyType, Ops
<1>3. CASE b.op = "screenshot"
  BY <1>2, <1>3 DEF Frames
<1>4. CASE b.op = "eval"
  BY <1>2, <1>4 DEF Frames
<1>5. CASE b.op = "burst"
  BY <1>2, <1>5 DEF Frames, Valid
<1> QED
  BY <1>2, <1>3, <1>4, <1>5 DEF Ops

(* What TabTypeOK says of one caller. *)
LEMMA VarFacts ==
    ASSUME TabTypeOK, NEW c \in Callers
    PROVE  /\ body[c] \in Bodies
           /\ pos[c] \in Nat /\ pos[c] >= 1 /\ got[c] \in Nat
           /\ Last(body[c].op) \in Nat
BY DEF TabTypeOK, Last

(* A list whose next step is none of its steps is done. *)
LEMMA ListEnd ==
    ASSUME TabTypeOK, NEW c \in Callers, StageInv(c), pos[c] \notin DOMAIN Steps(body[c].op)
    PROVE  pos[c] = Last(body[c].op) + 1
<1>1. body[c].op \in Ops
  BY BodyFacts, VarFacts
<1>2. 1 \in DOMAIN Steps(body[c].op)
  BY <1>1 DEF Steps
<1>3. DOMAIN Steps(body[c].op) = 1..Last(body[c].op)
  BY <1>1, <1>2, StepFacts
<1>4. pos[c] <= Last(body[c].op) + 1
  BY DEF StageInv
<1> QED
  BY <1>3, <1>4, VarFacts

Mine(c) == <<stage[c], body[c], pos[c], applied[c], sent[c], got[c], live[c], events[c], told[c]>>

(* A step of one caller leaves what the others keep alone. *)
LEMMA OthersStay ==
    ASSUME TabTypeOK, NEW c \in Callers, NEW d \in Callers \ {c},
           \/ Call(c) \/ Step(c) \/ Push(c) \/ ConsoleSnapshot(c) \/ FailedSnapshot(c)
           \/ Fail(c) \/ Timeout(c) \/ CloseTab(c)
    PROVE  Mine(d)' = Mine(d)
<1> USE DEF TabTypeOK, Mine
<1>1. CASE Call(c)
  BY <1>1 DEF Call
<1>2. CASE Step(c)
  BY <1>2 DEF Step, Apply, Navigate, BringToFront, Interact, Capture, NextFrame, Pass, Did
<1>3. CASE Push(c) \/ ConsoleSnapshot(c) \/ FailedSnapshot(c) \/ Fail(c) \/ Timeout(c)
  BY <1>3 DEF Push, ConsoleSnapshot, FailedSnapshot, Snapshot, Fail, Timeout
<1>4. CASE CloseTab(c)
  BY <1>4 DEF CloseTab
<1> QED
  BY <1>1, <1>2, <1>3, <1>4

(* So the others keep their part of the invariant. *)
LEMMA OthersKeepList ==
    ASSUME NEW d \in Callers, ListInv(d), Mine(d)' = Mine(d)
    PROVE  ListInv(d)'
BY DEF Mine, ListInv, StageInv, SessionInv, FrameInv, SinkInv, Active

-----------------------------------------------------------------------------

(* A call starts from nothing, with a body that was checked. *)
LEMMA CallKeepsList ==
    ASSUME TabTypeOK, NEW c \in Callers, ListInv(c), Call(c)
    PROVE  TabTypeOK' /\ ListInv(c)'
<1>1. PICK b \in Bodies : /\ body' = [body EXCEPT ![c] = b]
                          /\ stage' = [stage EXCEPT ![c] = IF Valid(b) THEN "run" ELSE "error"]
  BY DEF Call
<1>2. TabTypeOK'
  BY <1>1 DEF TabTypeOK, Call
<1>3. stage[c] = "idle" /\ body'[c] = b /\ stage'[c] \in {"run", "error"}
      /\ (stage'[c] = "run" => Valid(b)) /\ UNCHANGED <<pos, applied, sent, got, live, events, told, front>>
  BY <1>1 DEF TabTypeOK, Call
<1>4. b.op \in Ops /\ Frames(b) \in Nat /\ (Valid(b) /\ b.op # "eval" => Frames(b) >= 1)
  BY BodyFacts
<1>5. pos[c] = 1 /\ got[c] = 0 /\ applied[c] = {} /\ sent[c] = {} /\ told[c] = {}
  BY <1>3 DEF ListInv, StageInv
<1>6. StageInv(c)' /\ SinkInv(c)'
  BY <1>3, <1>5 DEF StageInv, SinkInv, Active, Last
<1>7. SessionInv(c)'
  BY <1>3, <1>5 DEF SessionInv, EnableAt, SetterAt, NavigateAt
<1>8. FrameInv(c)'
  BY <1>3, <1>4, <1>5 DEF FrameInv, Active
<1> QED
  BY <1>2, <1>6, <1>7, <1>8 DEF ListInv

(* What a step of the list starts from, and what it leaves alone. *)
LEMMA StepFrom ==
    ASSUME TabTypeOK, NEW c \in Callers, Step(c)
    PROVE  /\ Todo(c) /\ stage[c] = "run" /\ body[c].op \in Ops
           /\ pos[c] \in Nat /\ pos[c] >= 1 /\ pos[c] <= Last(body[c].op)
           /\ UNCHANGED <<stage, body, alone, events, told>>
<1>1. Todo(c) /\ UNCHANGED <<stage, body, alone, events, told>>
  <2>1. CASE Apply(c) \/ Navigate(c) \/ BringToFront(c) \/ Interact(c)
    BY <2>1 DEF Apply, Navigate, BringToFront, Interact, At
  <2>2. CASE Capture(c) \/ NextFrame(c) \/ Pass(c)
    BY <2>2 DEF Capture, NextFrame, Pass, At
  <2> QED
    BY <2>1, <2>2 DEF Step
<1> QED
  BY <1>1, BodyFacts, VarFacts, StepFacts DEF Todo, Running

(* Switching something on. *)
LEMMA ApplyKeepsList ==
    ASSUME TabTypeOK, NEW c \in Callers, ListInv(c), Apply(c)
    PROVE  TabTypeOK' /\ ListInv(c)'
<1> DEFINE op == body[c].op
           x == Doing(c)
<1>1. Step(c)
  BY DEF Step
<1>2. /\ stage[c] = "run" /\ op \in Ops /\ pos[c] \in DOMAIN Steps(op)
      /\ pos[c] \in Nat /\ pos[c] >= 1 /\ pos[c] <= Last(op) /\ pos'[c] = pos[c] + 1
      /\ UNCHANGED <<stage, body, sent, got, live, alone, events, told, front>>
  BY <1>1, StepFrom DEF Apply, Did, Todo, TabTypeOK
<1>3. x \in Switches /\ (x \in Session => x \in body[c].sess)
  <2>1. x \in Switches /\ (x \in Session => x \in body[c].opts \cup body[c].sess)
    BY DEF Apply, At, Wanted, Doing
  <2> QED
    BY <2>1, BodyFacts, VarFacts DEF Session, Optional
<1>4. /\ x = "enable" <=> pos[c] = EnableAt(op)
      /\ \A s \in Session : x = s <=> pos[c] = SetterAt(op, s)
      /\ pos[c] < NavigateAt(op)
  <2>1. pos[c] # NavigateAt(op)
    BY <1>2, <1>3, StepFacts DEF Doing, Switches, Session
  <2> QED
    BY <1>2, <1>3, <2>1, StepFacts DEF Doing, Switches, EnableAt, SetterAt, NavigateAt
<1>5. applied'[c] = applied[c] \cup {x}
  <2>1. x \in Session => pos[c] > EnableAt(op)
    BY <1>4 DEF SetterAt, EnableAt
  <2>2. x \in {"enable", "storage"} \/ "enable" \in applied[c]
    BY <1>3, <2>1 DEF ListInv, SessionInv, Switches
  <2> QED
    BY <2>2 DEF Apply, TabTypeOK
<1>6. TabTypeOK'
  <2>1. applied' \in [Callers -> SUBSET Switches]
    BY <1>3 DEF TabTypeOK, Apply
  <2>2. pos' \in [Callers -> 1..15]
    BY <1>2 DEF TabTypeOK, Apply, Did, Last
  <2> QED
    BY <1>2, <2>1, <2>2 DEF TabTypeOK
<1>7. StageInv(c)' /\ SinkInv(c)'
  BY <1>2, VarFacts DEF ListInv, StageInv, SinkInv, Active
<1>8. SessionInv(c)'
  <2> USE VarFacts DEF ListInv, SessionInv
  <2>1. applied'[c] \subseteq body[c].sess \cup {"enable"}
    BY <1>3, <1>5 DEF Switches
  <2>2. pos'[c] > EnableAt(op) => "enable" \in applied'[c]
    BY <1>2, <1>4, <1>5 DEF EnableAt
  <2>3. ASSUME NEW s \in body[c].sess, pos'[c] > SetterAt(op, s)
        PROVE  s \in applied'[c]
    <3>1. s \in Session /\ SetterAt(op, s) \in Nat
      BY BodyFacts DEF SetterAt
    <3> QED
      BY <1>2, <1>4, <1>5, <2>3, <3>1
  <2>4. ~ (pos'[c] > NavigateAt(op))
    BY <1>2, <1>4 DEF NavigateAt
  <2> QED
    BY <1>2, <2>1, <2>2, <2>3, <2>4
<1>9. FrameInv(c)'
  BY <1>2, <1>4, BodyFacts, VarFacts DEF ListInv, FrameInv, Active, NavigateAt
<1> QED
  BY <1>6, <1>7, <1>8, <1>9 DEF ListInv

(* The page is loaded when all that it needs is switched on. *)
LEMMA NavigateKeepsList ==
    ASSUME TabTypeOK, NEW c \in Callers, ListInv(c), Navigate(c)
    PROVE  TabTypeOK' /\ ListInv(c)'
<1> DEFINE op == body[c].op
<1>1. Step(c)
  BY DEF Step
<1>2. /\ stage[c] = "run" /\ op \in Ops /\ pos[c] \in DOMAIN Steps(op)
      /\ pos[c] \in Nat /\ pos[c] >= 1 /\ pos[c] <= Last(op) /\ pos'[c] = pos[c] + 1
      /\ sent'[c] = applied[c]
      /\ UNCHANGED <<stage, body, applied, got, live, alone, events, told, front>>
  BY <1>1, StepFrom DEF Navigate, Did, Todo, TabTypeOK
<1>3. pos[c] = NavigateAt(op)
  BY <1>2, StepFacts DEF Navigate, At
<1>4. applied[c] = body[c].sess \cup {"enable"}
  <2>1. pos[c] > EnableAt(op) /\ \A s \in body[c].sess : pos[c] > SetterAt(op, s)
    BY <1>3 DEF NavigateAt, EnableAt, SetterAt
  <2> QED
    BY <2>1 DEF ListInv, SessionInv
<1>5. TabTypeOK'
  <2>1. sent' \in [Callers -> SUBSET Switches]
    BY DEF TabTypeOK, Navigate
  <2>2. pos' \in [Callers -> 1..15]
    BY <1>2 DEF TabTypeOK, Navigate, Did, Last
  <2> QED
    BY <1>2, <2>1, <2>2 DEF TabTypeOK
<1>6. StageInv(c)' /\ SinkInv(c)'
  BY <1>2, VarFacts DEF ListInv, StageInv, SinkInv, Active
<1>7. SessionInv(c)'
  BY <1>2, <1>4, VarFacts DEF SessionInv
<1>8. FrameInv(c)'
  BY <1>2, <1>3, BodyFacts, VarFacts DEF ListInv, FrameInv, Active, NavigateAt
<1> QED
  BY <1>5, <1>6, <1>7, <1>8 DEF ListInv

(* The frames. *)
LEMMA CaptureKeepsList ==
    ASSUME TabTypeOK, NEW c \in Callers, ListInv(c), Capture(c) \/ NextFrame(c)
    PROVE  TabTypeOK' /\ ListInv(c)'
<1> DEFINE op == body[c].op
           n == Frames(body[c])
<1>1. Step(c)
  BY DEF Step
<1>2. /\ stage[c] = "run" /\ op \in Ops /\ pos[c] \in DOMAIN Steps(op)
      /\ UNCHANGED <<stage, body, applied, sent, alone, events, told, front>>
  BY <1>1, StepFrom DEF Capture, NextFrame, Todo
<1>3. op # "eval" /\ n \in Nat /\ got[c] \in Nat /\ pos[c] \in {13, 14} /\ got[c] < n
  <2>1. op # "eval" /\ pos[c] \in {13, 14}
    BY <1>2, StepFacts DEF Capture, NextFrame, At
  <2> QED
    BY <1>2, <2>1, BodyFacts, VarFacts DEF ListInv, FrameInv, Active
<1>4. /\ got'[c] \in Nat /\ pos'[c] \in {13, 14, 15}
      /\ IF pos'[c] = 15 THEN got'[c] = n ELSE got'[c] < n
  <2>1. CASE Capture(c)
    <3>1. pos[c] = 13
      BY <1>2, <2>1, StepFacts DEF Capture, At
    <3>2. got'[c] = got[c] + 1 /\ pos'[c] = IF got[c] + 1 < n THEN 14 ELSE 15
      BY <2>1, <3>1 DEF Capture, TabTypeOK
    <3> QED
      BY <1>3, <3>2
  <2>2. CASE NextFrame(c)
    <3>1. pos[c] = 14
      BY <1>2, <2>2, StepFacts DEF NextFrame, At
    <3>2. got'[c] = got[c] /\ pos'[c] = 13
      BY <2>2, <3>1 DEF NextFrame, TabTypeOK
    <3> QED
      BY <1>3, <3>2
  <2> QED
    BY <2>1, <2>2
<1>5. TabTypeOK'
  <2>1. got' \in [Callers -> Nat] /\ live' \in [Callers -> BOOLEAN]
    <3>1. CASE Capture(c)
      <4>1. got' \in [Callers -> Nat]
        BY <3>1 DEF TabTypeOK, Capture
      <4>2. live' \in [Callers -> BOOLEAN]
        BY <3>1 DEF TabTypeOK, Capture
      <4> QED
        BY <4>1, <4>2
    <3>2. CASE NextFrame(c)
      BY <3>2 DEF TabTypeOK, NextFrame
    <3> QED
      BY <3>1, <3>2
  <2>2. pos' = [pos EXCEPT ![c] = pos'[c]] /\ pos'[c] \in 1..15
    BY <1>4 DEF TabTypeOK, Capture, NextFrame
  <2>3. pos' \in [Callers -> 1..15]
    BY <2>2 DEF TabTypeOK
  <2> QED
    BY <1>2, <2>1, <2>3 DEF TabTypeOK
<1>6. StageInv(c)' /\ SinkInv(c)'
  BY <1>2, <1>3, <1>4 DEF ListInv, StageInv, SinkInv, Active, Last
<1>7. SessionInv(c)'
  <2>1. pos[c] > NavigateAt(op) /\ pos[c] > EnableAt(op) /\ \A s \in body[c].sess : pos[c] > SetterAt(op, s)
    BY <1>3 DEF NavigateAt, EnableAt, SetterAt
  <2> QED
    BY <1>2, <2>1 DEF ListInv, SessionInv
<1>8. FrameInv(c)'
  BY <1>2, <1>3, <1>4 DEF FrameInv
<1> QED
  BY <1>5, <1>6, <1>7, <1>8 DEF ListInv

(* The other steps only go on in the list; one that is skipped was not asked for. *)
LEMMA PassKeepsList ==
    ASSUME TabTypeOK, NEW c \in Callers, ListInv(c), BringToFront(c) \/ Interact(c) \/ Pass(c)
    PROVE  TabTypeOK' /\ ListInv(c)'
<1> DEFINE op == body[c].op
           x == Doing(c)
<1>1. Step(c)
  BY DEF Step
<1>2. /\ stage[c] = "run" /\ op \in Ops /\ pos[c] \in DOMAIN Steps(op)
      /\ pos[c] \in Nat /\ pos[c] >= 1 /\ pos[c] <= Last(op) /\ pos'[c] = pos[c] + 1
      /\ UNCHANGED <<stage, body, applied, sent, got, alone, events, told>>
  BY <1>1, StepFrom DEF BringToFront, Interact, Pass, Did, Todo, TabTypeOK
<1>3. /\ x \notin {"enable", "navigate", "capture", "interval"}
      /\ x \in Session => x \notin body[c].sess
  BY DEF BringToFront, Interact, Pass, At, Doing, Wanted, Optional, Session
<1>4. /\ pos[c] # EnableAt(op) /\ pos[c] # NavigateAt(op)
      /\ \A s \in body[c].sess : pos[c] # SetterAt(op, s)
      /\ op # "eval" => pos[c] \notin {13, 14}
  BY <1>2, <1>3, StepFacts, BodyFacts, VarFacts DEF Doing
<1>5. TabTypeOK'
  <2>1. pos' \in [Callers -> 1..15]
    BY <1>2 DEF TabTypeOK, BringToFront, Interact, Pass, Did, Last
  <2>2. front' \in Callers \cup {Anchor} /\ live' \in [Callers -> BOOLEAN]
    BY DEF TabTypeOK, BringToFront, Interact, Pass
  <2> QED
    BY <1>2, <2>1, <2>2 DEF TabTypeOK
<1>6. StageInv(c)' /\ SinkInv(c)'
  BY <1>2, VarFacts DEF ListInv, StageInv, SinkInv, Active
<1>7. SessionInv(c)'
  <2> USE DEF ListInv, SessionInv
  <2>1. pos'[c] > EnableAt(op) => pos[c] > EnableAt(op)
    BY <1>2, <1>4 DEF EnableAt
  <2>2. pos'[c] > NavigateAt(op) => pos[c] > NavigateAt(op)
    BY <1>2, <1>4 DEF NavigateAt
  <2>3. \A s \in body[c].sess : pos'[c] > SetterAt(op, s) => pos[c] > SetterAt(op, s)
    BY <1>2, <1>4 DEF SetterAt
  <2> QED
    BY <1>2, <2>1, <2>2, <2>3
<1>8. FrameInv(c)'
  BY <1>2, <1>4, BodyFacts, VarFacts DEF ListInv, FrameInv, Active, Last
<1> QED
  BY <1>5, <1>6, <1>7, <1>8 DEF ListInv

(* Events, the end of the list and the end of the tab. *)
LEMMA EndKeepsList ==
    ASSUME TabTypeOK, NEW c \in Callers, ListInv(c),
           \/ Push(c) \/ ConsoleSnapshot(c) \/ FailedSnapshot(c)
           \/ Fail(c) \/ Timeout(c) \/ CloseTab(c)
    PROVE  TabTypeOK' /\ ListInv(c)'
<1>1. CASE Push(c)
  BY <1>1 DEF Push, TabTypeOK, ListInv, StageInv, SessionInv, FrameInv, SinkInv, Active
<1>2. CASE ConsoleSnapshot(c)
  <2>1. stage'[c] = "snap" /\ UNCHANGED <<body, pos, applied, sent, got, live, alone, events, front>>
    BY <1>2 DEF ConsoleSnapshot, TabTypeOK
  <2>2. stage[c] = "run" /\ pos[c] = Last(body[c].op) + 1
    BY <1>2, ListEnd DEF ConsoleSnapshot, Running, Todo, ListInv
  <2>3. told'[c] = told[c] \cup {s \in {"console"} : InSink(c, s)}
    BY <1>2 DEF ConsoleSnapshot, Snapshot, SnapshotOrder, TabTypeOK
  <2>4. told'[c] \subseteq {"console"} /\ ("console" \in told'[c] => events[c] = 2)
    BY <2>2, <2>3 DEF ListInv, SinkInv, InSink
  <2>5. TabTypeOK'
    <3>1. stage' \in [Callers -> {"idle", "run", "snap", "ok", "error"}]
      BY <1>2 DEF ConsoleSnapshot, TabTypeOK
    <3>2. told' \in [Callers -> SUBSET {"failed", "console"}]
      BY <1>2 DEF ConsoleSnapshot, Snapshot, SnapshotOrder, TabTypeOK
    <3> QED
      BY <2>1, <3>1, <3>2 DEF TabTypeOK
  <2> QED
    BY <2>1, <2>2, <2>4, <2>5 DEF ListInv, StageInv, SessionInv, FrameInv, SinkInv, Active
<1>3. CASE FailedSnapshot(c)
  <2>1. stage[c] = "snap" /\ stage'[c] = "ok"
        /\ UNCHANGED <<body, pos, applied, sent, got, live, alone, events, front>>
    BY <1>3 DEF FailedSnapshot, TabTypeOK
  <2>2. told'[c] = told[c] \cup {s \in {"failed"} : InSink(c, s)}
    BY <1>3 DEF FailedSnapshot, Snapshot, SnapshotOrder, TabTypeOK
  <2>3. "enable" \in sent[c]
    BY <2>1 DEF ListInv, StageInv, SessionInv, Last, NavigateAt
  <2>4. "console" \in told'[c] => "failed" \in told'[c]
    BY <2>1, <2>2, <2>3 DEF ListInv, SinkInv, InSink
  <2>5. TabTypeOK'
    <3>1. stage' \in [Callers -> {"idle", "run", "snap", "ok", "error"}]
      BY <1>3 DEF FailedSnapshot, TabTypeOK
    <3>2. told' \in [Callers -> SUBSET {"failed", "console"}]
      BY <1>3 DEF FailedSnapshot, Snapshot, SnapshotOrder, TabTypeOK
    <3> QED
      BY <2>1, <3>1, <3>2 DEF TabTypeOK
  <2> QED
    BY <2>1, <2>4, <2>5 DEF ListInv, StageInv, SessionInv, FrameInv, SinkInv, Active
<1>4. CASE Fail(c) \/ Timeout(c)
  BY <1>4 DEF Fail, Timeout, Running, Todo, TabTypeOK, ListInv, StageInv, SessionInv, FrameInv, SinkInv, Active
<1>5. CASE CloseTab(c)
  <2>1. /\ stage'[c] = "idle" /\ body'[c] = NoBody /\ pos'[c] = 1 /\ got'[c] = 0
        /\ applied'[c] = {} /\ sent'[c] = {} /\ told'[c] = {}
    BY <1>5 DEF CloseTab, TabTypeOK
  <2>2. NoBody \in Bodies
    BY BodiesAssumption DEF NoBody, BodiesAssumption
  <2>3. TabTypeOK'
    BY <1>5, <2>2 DEF CloseTab, TabTypeOK
  <2>4. StageInv(c)' /\ FrameInv(c)' /\ SinkInv(c)'
    BY <2>1 DEF StageInv, FrameInv, SinkInv, Active, Last
  <2>5. SessionInv(c)'
    BY <2>1 DEF SessionInv, EnableAt, SetterAt, NavigateAt
  <2> QED
    BY <2>3, <2>4, <2>5 DEF ListInv
<1> QED
  BY <1>1, <1>2, <1>3, <1>4, <1>5

Acts(c) ==
    \/ Call(c) \/ Step(c) \/ Push(c) \/ ConsoleSnapshot(c) \/ FailedSnapshot(c)
    \/ Fail(c) \/ Timeout(c) \/ CloseTab(c)

(* A step of one caller in its list keeps the lists of all. *)
LEMMA ActsKeepLists ==
    ASSUME TabTypeOK, \A d \in Callers : ListInv(d), NEW c \in Callers, Acts(c)
    PROVE  TabTypeOK' /\ \A d \in Callers : ListInv(d)'
<1>1. TabTypeOK' /\ ListInv(c)'
  BY CallKeepsList, ApplyKeepsList, NavigateKeepsList, CaptureKeepsList, PassKeepsList, EndKeepsList
     DEF Acts, Step
<1>2. \A d \in Callers \ {c} : ListInv(d)'
  BY OthersStay, OthersKeepList DEF Acts
<1> QED
  BY <1>1, <1>2

(* Whoever is alone in the browser keeps its foreground: the others neither come
   without being noticed nor take a step. *)
LEMMA ActsKeepAlone ==
    ASSUME TabInv, NEW c \in Callers, Acts(c), NEW d \in Callers
    PROVE  AloneInv(d)'
<1> USE DEF TabInv
<1>1. CASE c # d
  <2>1. Mine(d)' = Mine(d)
    BY <1>1, OthersStay DEF Acts
  <2>2. CASE Call(c)
    <3>1. stage[d] # "idle" => alone'[d] = FALSE
      BY <1>1, <2>2 DEF Call
    <3> QED
      BY <2>1, <3>1 DEF AloneInv, Mine, Active
  <2>3. CASE ~Call(c)
    <3>1. stage[c] # "idle" /\ alone'[d] = alone[d]
      BY <1>1, <2>3 DEF Acts, Step, Apply, Navigate, BringToFront, Interact, Capture, NextFrame, Pass,
            At, Todo, Running, Push, ConsoleSnapshot, FailedSnapshot, Fail, Timeout, CloseTab, TabTypeOK
    <3>2. stage[d] # "idle" => ~alone[d]
      BY <1>1, <3>1 DEF AloneInv
    <3> QED
      BY <2>1, <3>1, <3>2 DEF AloneInv, Mine, Active
  <2> QED
    BY <2>2, <2>3
<1>2. CASE c = d
  <2> DEFINE at == FrontAt(body[c].op)
  <2>1. \A e \in Callers \ {c} : stage'[e] = stage[e]
    BY OthersStay DEF Acts, Mine
  <2>2. CASE Call(c)
    <3>1. stage[c] = "idle" /\ pos'[c] = 1 /\ live'[c] = live[c]
      BY <2>2 DEF Call, ListInv, StageInv
    <3>2. alone'[c] => \A e \in Callers \ {c} : stage[e] = "idle"
      BY <2>2 DEF Call
    <3>3. stage'[c] # "idle"
      BY <2>2 DEF Call, TabTypeOK
    <3> QED
      BY <1>2, <2>1, <3>1, <3>2, <3>3 DEF AloneInv, FrontAt
  <2>3. CASE Step(c)
    <3>1. /\ stage[c] = "run" /\ body[c].op \in Ops /\ pos[c] \in DOMAIN Steps(body[c].op)
          /\ UNCHANGED <<stage, body, alone>>
      BY <2>3, StepFrom DEF Todo
    <3>2. alone[c] => live[c] /\ (pos[c] > at => front = c)
      BY <3>1 DEF AloneInv, Active
    <3>3. alone[c] => live'[c]
      <4>1. CASE Interact(c) \/ Capture(c)
        <5>1. pos[c] > at
          BY <3>1, <4>1, StepFacts DEF Interact, Capture, At, FrontAt
        <5>2. front = c => live'[c] = live[c]
          BY <4>1 DEF Interact, Capture, TabTypeOK
        <5> QED
          BY <3>2, <5>1, <5>2
      <4>2. CASE Apply(c) \/ Navigate(c) \/ BringToFront(c) \/ NextFrame(c) \/ Pass(c)
        BY <3>2, <4>2 DEF Apply, Navigate, BringToFront, NextFrame, Pass
      <4> QED
        BY <2>3, <4>1, <4>2 DEF Step
    <3>4. alone[c] /\ pos'[c] > at => front' = c
      <4>1. CASE BringToFront(c)
        BY <4>1 DEF BringToFront
      <4>2. CASE ~BringToFront(c)
        <5>1. front' = front
          BY <2>3, <4>2 DEF Step, Apply, Navigate, Interact, Capture, NextFrame, Pass
        <5>2. Doing(c) # "front"
          BY <2>3, <4>2 DEF Step, Apply, Navigate, Interact, Capture, NextFrame, Pass, At, Doing,
                            Switches, Session, Wanted, Optional
        <5>3. pos[c] # at
          BY <3>1, <5>2, StepFacts DEF Doing
        <5>4. pos'[c] > at => pos[c] > at
          <6>1. CASE Capture(c)
            BY <3>1, <6>1, StepFacts DEF Capture, At, FrontAt
          <6>2. CASE ~Capture(c)
            <7>1. pos'[c] \in {pos[c] + 1, pos[c] - 1}
              BY <2>3, <6>2 DEF Step, Apply, Navigate, BringToFront, Interact, NextFrame, Pass, Did,
                                TabTypeOK
            <7> QED
              BY <5>3, <7>1, VarFacts DEF FrontAt
          <6> QED
            BY <6>1, <6>2
        <5> QED
          BY <3>2, <5>1, <5>4
      <4> QED
        BY <4>1, <4>2
    <3> QED
      BY <1>2, <2>1, <3>1, <3>3, <3>4 DEF AloneInv, Active
  <2>4. CASE \/ Push(c) \/ ConsoleSnapshot(c) \/ FailedSnapshot(c)
             \/ Fail(c) \/ Timeout(c)
    <3>1. /\ stage[c] # "idle" /\ stage'[c] # "idle" /\ (Active(c)' => Active(c))
          /\ UNCHANGED <<body, pos, live, alone, front>>
      BY <2>4 DEF Push, ConsoleSnapshot, FailedSnapshot, Fail, Timeout, Running, Todo, Active, TabTypeOK
    <3> QED
      BY <1>2, <2>1, <3>1 DEF AloneInv
  <2>5. CASE CloseTab(c)
    <3>1. stage'[c] = "idle" /\ live'[c] = TRUE
      BY <2>5 DEF CloseTab, TabTypeOK
    <3> QED
      BY <1>2, <3>1 DEF AloneInv, Active
  <2> QED
    BY <2>2, <2>3, <2>4, <2>5 DEF Acts
<1> QED
  BY <1>1, <1>2

(* The invariant is inductive. *)
THEOREM TabInductive == TabSpec => []TabInv
<1>1. TabInit => TabInv
  <2> SUFFICES ASSUME TabInit PROVE TabInv
    OBVIOUS
  <2>1. NoBody \in Bodies
    BY BodiesAssumption DEF NoBody, BodiesAssumption
  <2>2. TabTypeOK
    BY <2>1 DEF TabInit, TabTypeOK
  <2>3. ASSUME NEW c \in Callers
        PROVE  ListInv(c) /\ AloneInv(c)
    BY DEF TabInit, ListInv, StageInv, SessionInv, FrameInv, SinkInv, AloneInv, Active, Last,
           EnableAt, SetterAt, NavigateAt
  <2> QED
    BY <2>2, <2>3 DEF TabInv
<1>2. TabInv /\ [TabNext]_tabVars => TabInv'
  <2> SUFFICES ASSUME TabInv, [TabNext]_tabVars PROVE TabInv'
    OBVIOUS
  <2>1. ASSUME NEW c \in Callers, Acts(c)
        PROVE  TabInv'
    BY <2>1, ActsKeepLists, ActsKeepAlone DEF TabInv
  <2>2. CASE UNCHANGED tabVars
    BY <2>2 DEF tabVars, TabInv, TabTypeOK, ListInv, StageInv, SessionInv, FrameInv, SinkInv,
                InSink, AloneInv, Active
  <2> QED
    BY <2>1, <2>2 DEF TabNext, Acts
<1> QED
  BY <1>1, <1>2, PTL DEF TabSpec

(* Type correctness, for any number of callers and any bodies. *)
THEOREM TabTypeCorrect == TabSpec => []TabTypeOK
<1>1. TabInv => TabTypeOK
  BY DEF TabInv
<1> QED
  BY <1>1, TabInductive, PTL

(* A result comes from a page loaded with all of the request's session material
   and with its network events on. *)
THEOREM SessionIsThereFirst == TabSpec => []SessionBeforeNavigate
<1>1. TabInv => SessionBeforeNavigate
  BY DEF TabInv, ListInv, StageInv, SessionInv, Last, NavigateAt, SessionBeforeNavigate
<1> QED
  BY <1>1, TabInductive, PTL

(* A result holds the frames that were asked for, all of them and no other. *)
THEOREM ResultsAreComplete == TabSpec => []ResultComplete
<1>1. TabInv => ResultComplete
  <2> SUFFICES ASSUME TabInv, NEW c \in Callers, stage[c] = "ok"
               PROVE  Valid(body[c]) /\ got[c] = Frames(body[c])
    BY DEF ResultComplete
  <2>1. Valid(body[c]) /\ pos[c] = Last(body[c].op) + 1
    BY DEF TabInv, ListInv, StageInv, Active
  <2>2. body[c].op = "eval" => Frames(body[c]) = 0
    BY DEF Frames
  <2> QED
    BY <2>1, <2>2 DEF TabInv, ListInv, FrameInv, Active, Last
<1> QED
  BY <1>1, TabInductive, PTL

(* A result that tells the page's log of a failed request tells the failed request. *)
THEOREM CausesAreReported == TabSpec => []CauseReported
<1>1. TabInv => CauseReported
  BY DEF TabInv, ListInv, SinkInv, CauseReported
<1> QED
  BY <1>1, TabInductive, PTL

(* Whoever had the browser for itself observed its page in the foreground. *)
THEOREM LoneRequestsObserve == TabSpec => []ObservedWhenAlone
<1>1. TabInv => ObservedWhenAlone
  BY DEF TabInv, AloneInv, Active, ObservedWhenAlone
<1> QED
  BY <1>1, TabInductive, PTL
=============================================================================
