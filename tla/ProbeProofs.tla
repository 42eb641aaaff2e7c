----------------------------- MODULE ProbeProofs -----------------------------
(***************************************************************************)
(* Proofs about Probe, for any watches, values, times and number of         *)
(* changes: what a report says, of one watch and of two.                    *)
(***************************************************************************)
EXTENDS Probe, TLAPS

Transitions == [t : Nat, from : Values, to : Values]

ShownValues == [t : Nat, task : Nat, v : Values]

Types ==
    /\ now \in Nat /\ wake \in Nat
    /\ pc \in {"loop", "read", "sleep", "done", "failed"}
    /\ turn \in 1..(Len(Watches) + 1)
    /\ page \in [W -> Values] /\ last \in [W -> Values \cup {Undefined}]
    /\ distinct \in [W -> Seq(Values)] /\ transitions \in [W -> Seq(Transitions)]
    /\ shown \in [W -> Seq(ShownValues)]
    /\ seen \in [W -> Nat] /\ tasks \in 0..MaxChanges

\* A sleep starts within the window and is late by at most MaxLag.
ClockInv ==
    /\ now < Duration + MaxGap /\ wake < Duration + MaxGap
    /\ pc = "read" => now < Duration
    /\ pc = "sleep" => wake < Duration + Step /\ now <= wake + MaxLag

\* What the page shows came last, and no later than now.
ShownInv(w) ==
    /\ Len(shown[w]) > 0 /\ shown[w][Len(shown[w])].v = page[w]
    /\ \A i \in DOMAIN shown[w] : shown[w][i].t <= now /\ shown[w][i].task <= tasks

\* The last value is the one that was shown when the watch was last read.
LastInv(w) ==
    /\ distinct[w] = <<>> => last[w] = Undefined /\ transitions[w] = <<>>
    /\ distinct[w] # <<>> => last[w] # Undefined
    /\ last[w] # Undefined =>
         seen[w] \in DOMAIN shown[w] /\ shown[w][seen[w]].v = last[w]
    /\ \A i \in DOMAIN transitions[w] :
         transitions[w][i].t <= now /\ transitions[w][i].t < Duration

WatchInv(w) ==
    /\ ShownInv(w) /\ LastInv(w)
    /\ distinct[w] # <<>> => IsAPath(distinct[w], transitions[w], last[w])
    /\ \A k \in DOMAIN transitions[w] : WasShown(shown[w], transitions[w][k])

\* What the report of w is once w is read
NextTransitions(w) ==
    IF Changed(w) /\ last[w] # Undefined
    THEN Append(transitions[w], Transition(w)) ELSE transitions[w]

NextDistinct(w) ==
    IF Changed(w) /\ Unlisted(w) THEN Append(distinct[w], page[w]) ELSE distinct[w]

\* Two watches that changed together will be reported alike when the watches that
\* are not read yet are read.
Due(w) == pc = "read" /\ w >= turn

AgreeInv ==
    pc # "failed" => \A w, x \in W : shown[w] = shown[x] =>
        /\ (IF Due(w) THEN page[w] ELSE last[w]) = (IF Due(x) THEN page[x] ELSE last[x])
        /\ (IF Due(w) THEN NextDistinct(w) ELSE distinct[w])
             = (IF Due(x) THEN NextDistinct(x) ELSE distinct[x])
        /\ (IF Due(w) THEN NextTransitions(w) ELSE transitions[w])
             = (IF Due(x) THEN NextTransitions(x) ELSE transitions[x])

ProbeInv == Types /\ ClockInv /\ (\A w \in W : WatchInv(w)) /\ AgreeInv

\* What watch w showed since it was last read came after that reading, and the
\* reading is at most a gap ago.
GapInv(w) ==
    /\ now <= wake + MaxLag
    /\ pc = "sleep" => wake <= now + Step /\ seen[w] > 0
    /\ pc = "read" /\ w < turn => seen[w] = Len(shown[w])
    /\ seen[w] <= Len(shown[w])
    /\ \A i \in DOMAIN shown[w] : i > seen[w] => wake <= shown[w][i].t + Step
    /\ \A i \in 2..Len(shown[w]) : shown[w][i].v # shown[w][i - 1].v
    /\ seen[w] = 0 => Len(shown[w]) = 1 /\ last[w] = Undefined /\ transitions[w] = <<>>
    /\ seen[w] > 0 => shown[w][seen[w]].v = last[w]

\* A slow page was reported in full.
FullInv(w) ==
    seen[w] > 0 /\ Slow(shown[w], seen[w]) => InFull(shown[w], seen[w], transitions[w])

SlowInv == ProbeInv /\ \A w \in W : GapInv(w) /\ FullInv(w)

-----------------------------------------------------------------------------
(* Types and the clock *)

(* The watches are numbered from 1. *)
LEMMA WatchFacts == Len(Watches) \in Nat /\ W = 1..Len(Watches)
BY WatchesAssumption DEF WatchesAssumption, W

(* What Append does to the domain and the elements of a sequence *)
LEMMA AppendFacts ==
    ASSUME NEW S, NEW s \in Seq(S), NEW e \in S
    PROVE  LET a == Append(s, e)
           IN  /\ Len(s) \in Nat /\ DOMAIN s = 1..Len(s)
               /\ a \in Seq(S) /\ Len(a) = Len(s) + 1 /\ DOMAIN a = 1..(Len(s) + 1)
               /\ \A i \in 1..Len(s) : a[i] = s[i]
               /\ a[Len(s) + 1] = e
               /\ Elements(a) = Elements(s) \cup {e}
<1> DEFINE a == Append(s, e)
<1>1. /\ Len(s) \in Nat /\ DOMAIN s = 1..Len(s)
      /\ a \in Seq(S) /\ Len(a) = Len(s) + 1 /\ DOMAIN a = 1..(Len(s) + 1)
      /\ \A i \in 1..Len(s) : a[i] = s[i]
      /\ a[Len(s) + 1] = e
  OBVIOUS
<1> HIDE DEF a
<1>2. DOMAIN a = DOMAIN s \cup {Len(s) + 1}
  BY <1>1
<1>3. Elements(a) = Elements(s) \cup {e}
  BY <1>1, <1>2 DEF Elements
<1> QED
  BY <1>1, <1>3 DEF a

(* Path(first, tr) starts with first and goes on to where each transition leads. *)
LEMMA PathFacts ==
    ASSUME NEW first, NEW tr, Len(tr) \in Nat
    PROVE  /\ DOMAIN Path(first, tr) = 1..(Len(tr) + 1)
           /\ Path(first, tr)[1] = first
           /\ \A i \in 1..Len(tr) : Path(first, tr)[i + 1] = tr[i].to
BY DEF Path

(* A path with one more transition is a path, if its end is added to the values. *)
LEMMA LongerPath ==
    ASSUME NEW d \in Seq(Values), NEW tr \in Seq(Transitions), NEW v, d # <<>>,
           IsAPath(d, tr, v),
           NEW e \in Transitions, e.from = v, e.to # v, \A i \in DOMAIN tr : tr[i].t <= e.t
    PROVE  IsAPath(IF e.to \notin Elements(d) THEN Append(d, e.to) ELSE d, Append(tr, e), e.to)
<1> DEFINE d2 == IF e.to \notin Elements(d) THEN Append(d, e.to) ELSE d
           tr2 == Append(tr, e)
           n == Len(tr)
           path == Path(d[1], tr)
           path2 == Path(d2[1], tr2)
<1>1. /\ n \in Nat /\ DOMAIN tr = 1..n /\ Len(tr2) = n + 1 /\ DOMAIN tr2 = 1..(n + 1)
      /\ \A i \in 1..n : tr2[i] = tr[i]
      /\ tr2[n + 1] = e
  BY AppendFacts
<1>2. e.to \in Values /\ e.t \in Nat
  BY DEF Transitions
<1>3. d2[1] = d[1]
  BY <1>2
<1> HIDE DEF tr2, n
<1>4. /\ \A i \in 1..(n + 1) : path2[i] = path[i]
      /\ path2[n + 2] = e.to
      /\ DOMAIN path = 1..(n + 1) /\ DOMAIN path2 = 1..(n + 2)
  <2>1. /\ DOMAIN path = 1..(n + 1) /\ path[1] = d[1]
        /\ \A i \in 1..n : path[i + 1] = tr[i].to
    BY <1>1, PathFacts DEF n
  <2>2. /\ DOMAIN path2 = 1..(n + 2) /\ path2[1] = d[1]
        /\ \A i \in 1..(n + 1) : path2[i + 1] = tr2[i].to
    <3>1. Len(tr2) \in Nat
      BY <1>1
    <3>2. /\ DOMAIN path2 = 1..(Len(tr2) + 1) /\ path2[1] = d2[1]
          /\ \A i \in 1..Len(tr2) : path2[i + 1] = tr2[i].to
      BY <3>1, PathFacts
    <3> HIDE DEF path2, d2
    <3> QED
      BY <1>1, <1>3, <3>2
  <2> HIDE DEF path, path2
  <2>3. ASSUME NEW i \in 1..(n + 1) PROVE path2[i] = path[i]
    <3>1. CASE i = 1
      BY <2>1, <2>2, <3>1
    <3>2. CASE i # 1
      <4>1. i - 1 \in 1..n /\ i - 1 \in 1..(n + 1) /\ (i - 1) + 1 = i
        BY <1>1, <3>2
      <4>2. path[(i - 1) + 1] = tr[i - 1].to /\ path2[(i - 1) + 1] = tr2[i - 1].to
        BY <2>1, <2>2, <4>1
      <4>3. tr2[i - 1] = tr[i - 1]
        BY <1>1, <4>1
      <4> QED
        BY <4>1, <4>2, <4>3
    <3> QED
      BY <3>1, <3>2
  <2>4. path2[n + 2] = e.to
    BY <1>1, <2>2
  <2> QED
    BY <2>1, <2>2, <2>3, <2>4
<1> HIDE DEF path, path2
<1>5. /\ \A i \in 1..n : tr[i].from = path[i] /\ tr[i].to # path[i]
      /\ \A i, j \in 1..n : i < j => tr[i].t <= tr[j].t
      /\ path[n + 1] = v
      /\ Elements(d) = Elements(path)
      /\ \A i, j \in DOMAIN d : d[i] = d[j] => i = j
  BY <1>1 DEF IsAPath, path, n
<1>6. \A i \in 1..(n + 1) : tr2[i].from = path2[i] /\ tr2[i].to # path2[i]
  BY <1>1, <1>4, <1>5
<1>7. \A i, j \in 1..(n + 1) : i < j => tr2[i].t <= tr2[j].t
  BY <1>1, <1>5
<1>8. Elements(path2) = Elements(path) \cup {e.to}
  <2>1. DOMAIN path2 = DOMAIN path \cup {n + 2}
    BY <1>1, <1>4
  <2> QED
    BY <1>4, <2>1 DEF Elements
<1>9. /\ Elements(d2) = Elements(d) \cup {e.to}
      /\ \A i, j \in DOMAIN d2 : d2[i] = d2[j] => i = j
  <2>1. CASE e.to \notin Elements(d)
    <3>1. d2 = Append(d, e.to)
      BY <2>1
    <3>2. /\ Len(d) \in Nat /\ DOMAIN d = 1..Len(d) /\ DOMAIN d2 = 1..(Len(d) + 1)
          /\ \A i \in 1..Len(d) : d2[i] = d[i]
          /\ d2[Len(d) + 1] = e.to
          /\ Elements(d2) = Elements(d) \cup {e.to}
      BY <1>2, <3>1, AppendFacts
    <3>3. \A i \in 1..Len(d) : d[i] # e.to
      BY <2>1, <3>2 DEF Elements
    <3> HIDE DEF d2
    <3> QED
      BY <1>5, <3>2, <3>3
  <2>2. CASE e.to \in Elements(d)
    <3>1. d2 = d
      BY <2>2
    <3> QED
      BY <1>5, <2>2, <3>1
  <2> QED
    BY <2>1, <2>2
<1> HIDE DEF d2
<1>10. IsAPath(d2, tr2, e.to)
  BY <1>1, <1>4, <1>5, <1>6, <1>7, <1>8, <1>9 DEF IsAPath, path2
<1> QED
  BY <1>10 DEF d2, tr2

(* What was shown stays shown, whatever is shown from now on. *)
LEMMA ShownStaysShown ==
    ASSUME NEW s \in Seq(ShownValues), NEW e, WasShown(s, e), NEW x \in ShownValues,
           e.t <= x.t
    PROVE  WasShown(Append(s, x), e)
<1> DEFINE s2 == Append(s, x)
<1>1. PICK i \in DOMAIN s, j \in DOMAIN s :
         /\ i < j /\ s[i].v = e.from /\ s[j].v = e.to
         /\ s[j].t <= e.t
         /\ j = Len(s) \/ e.t <= s[j + 1].t
  BY DEF WasShown
<1>2. /\ Len(s) \in Nat /\ DOMAIN s = 1..Len(s)
      /\ Len(s2) = Len(s) + 1 /\ DOMAIN s2 = 1..(Len(s) + 1)
      /\ \A k \in 1..Len(s) : s2[k] = s[k]
      /\ s2[Len(s) + 1] = x
  BY AppendFacts
<1> HIDE DEF s2
<1>3. e.t <= s2[j + 1].t
  BY <1>1, <1>2
<1>4. WasShown(s2, e)
  BY <1>1, <1>2, <1>3 DEF WasShown
<1> QED
  BY <1>4 DEF s2

(* The sampler starts with its types and its clock right. *)
LEMMA InitTypes == ProbeInit => Types /\ ClockInv
<1> SUFFICES ASSUME ProbeInit PROVE Types /\ ClockInv
  OBVIOUS
<1>1. \A w \in W : <<[t |-> 0, task |-> 0, v |-> page[w]]>> \in Seq(ShownValues)
  BY DEF ProbeInit, ShownValues
<1>2. shown \in [W -> Seq(ShownValues)]
  BY <1>1 DEF ProbeInit
<1>3. Types
  BY <1>2, WatchFacts, TimesAssumption DEF ProbeInit, Types, TimesAssumption
<1>4. ClockInv
  BY TimesAssumption DEF ProbeInit, ClockInv, MaxGap, TimesAssumption
<1> QED
  BY <1>3, <1>4

(* A reading writes values and transitions. *)
LEMMA ReadTypes ==
    ASSUME Types, Read
    PROVE  /\ turn \in W
           /\ transitions' = [transitions EXCEPT ![turn] = NextTransitions(turn)]
           /\ distinct' = [distinct EXCEPT ![turn] = NextDistinct(turn)]
           /\ last' = [last EXCEPT ![turn] = page[turn]]
           /\ seen' = [seen EXCEPT ![turn] = Len(shown[turn])]
           /\ NextTransitions(turn) \in Seq(Transitions)
           /\ NextDistinct(turn) \in Seq(Values)
           /\ Len(shown[turn]) \in Nat
           /\ turn' \in 1..(Len(Watches) + 1)
<1>1. turn \in W
  BY DEF Read
<1>2. page[turn] \in Values /\ transitions[turn] \in Seq(Transitions)
      /\ distinct[turn] \in Seq(Values) /\ shown[turn] \in Seq(ShownValues)
      /\ last[turn] \in Values \cup {Undefined}
  BY <1>1 DEF Types
<1>3. last[turn] # Undefined => Transition(turn) \in Transitions
  BY <1>2 DEF Types, Transition, Transitions
<1>4. NextTransitions(turn) \in Seq(Transitions)
  BY <1>2, <1>3 DEF NextTransitions
<1>5. NextDistinct(turn) \in Seq(Values)
  BY <1>2 DEF NextDistinct
<1>6. transitions' = [transitions EXCEPT ![turn] = NextTransitions(turn)]
  BY <1>1 DEF Read, NextTransitions, Types
<1>7. distinct' = [distinct EXCEPT ![turn] = NextDistinct(turn)]
  BY <1>1 DEF Read, NextDistinct, Types
<1>8. last' = [last EXCEPT ![turn] = page[turn]] /\ seen' = [seen EXCEPT ![turn] = Len(shown[turn])]
  BY DEF Read, Remembered
<1>9. turn' \in 1..(Len(Watches) + 1)
  BY <1>1, WatchFacts DEF Read, Types
<1> QED
  BY <1>1, <1>2, <1>4, <1>5, <1>6, <1>7, <1>8, <1>9

(* A change appends to what a watch has shown, or leaves it. *)
LEMMA ChangeFacts ==
    ASSUME Types, Change, NEW w \in W
    PROVE  \/ page'[w] = page[w] /\ shown'[w] = shown[w]
           \/ /\ [t |-> now, task |-> tasks', v |-> page'[w]] \in ShownValues
              /\ shown'[w] = Append(shown[w], [t |-> now, task |-> tasks', v |-> page'[w]])
<1>1. PICK values \in [W -> Values] :
        /\ page' = values
        /\ shown' = [x \in W |->
                       IF values[x] = page[x] THEN shown[x]
                       ELSE Append(shown[x], [t |-> now, task |-> tasks', v |-> values[x]])]
  BY DEF Change
<1>2. page'[w] \in Values
  BY <1>1
<1>3. [t |-> now, task |-> tasks', v |-> page'[w]] \in ShownValues
  BY <1>2, TimesAssumption DEF ShownValues, Types, Change, TimesAssumption
<1>4. shown'[w] = IF page'[w] = page[w] THEN shown[w]
                  ELSE Append(shown[w], [t |-> now, task |-> tasks', v |-> page'[w]])
  BY <1>1
<1> QED
  BY <1>3, <1>4

(* Every step of the page, the sampler and the clock keeps them so. *)
LEMMA StepTypes ==
    ASSUME Types, ClockInv, [ProbeNext]_probeVars
    PROVE  Types' /\ ClockInv'
<1> USE TimesAssumption DEF TimesAssumption
<1>1. CASE Loop
  BY <1>1, WatchFacts DEF Loop, Types, ClockInv, MaxGap, pageVars, reports
<1>2. CASE Read
  <2>1. transitions' \in [W -> Seq(Transitions)] /\ distinct' \in [W -> Seq(Values)]
    BY <1>2, ReadTypes DEF Types
  <2>2. seen' \in [W -> Nat] /\ last' \in [W -> Values \cup {Undefined}]
    BY <1>2, ReadTypes DEF Types
  <2>3. Types'
    BY <1>2, <2>1, <2>2, ReadTypes DEF Types, Read, pageVars
  <2>4. ClockInv'
    BY <1>2 DEF Read, ClockInv, MaxGap
  <2> QED
    BY <2>3, <2>4
<1>3. CASE Sleep
  BY <1>3 DEF Sleep, Types, ClockInv, MaxGap, pageVars, reports
<1>4. CASE Wake \/ Throws \/ Leaves
  BY <1>4 DEF Wake, Throws, Leaves, Types, ClockInv, MaxGap, pageVars, reports
<1>5. CASE Change
  <2>1. shown' = [w \in W |-> shown'[w]] /\ page' \in [W -> Values]
    BY <1>5 DEF Change
  <2>2. \A w \in W : shown[w] \in Seq(ShownValues)
    BY DEF Types
  <2>3. \A w \in W : shown'[w] \in Seq(ShownValues)
    <3> SUFFICES ASSUME NEW w \in W PROVE shown'[w] \in Seq(ShownValues)
      OBVIOUS
    <3> DEFINE e == [t |-> now, task |-> tasks', v |-> page'[w]]
    <3>1. shown'[w] = shown[w] \/ (e \in ShownValues /\ shown'[w] = Append(shown[w], e))
      BY <1>5, ChangeFacts
    <3> HIDE DEF e
    <3> QED
      BY <2>2, <3>1
  <2>4. shown' \in [W -> Seq(ShownValues)]
    BY <2>1, <2>3
  <2>5. Types'
    BY <1>5, <2>1, <2>4 DEF Change, Types, reports
  <2>6. ClockInv'
    BY <1>5 DEF Change, ClockInv, MaxGap
  <2> QED
    BY <2>5, <2>6
<1>6. CASE Tick
  BY <1>6 DEF Tick, Types, ClockInv, MaxGap, pageVars, reports
<1>7. CASE UNCHANGED probeVars
  BY <1>7 DEF probeVars, Types, ClockInv, MaxGap, pageVars, reports
<1> QED
  BY <1>1, <1>2, <1>3, <1>4, <1>5, <1>6, <1>7 DEF ProbeNext, Returned

-----------------------------------------------------------------------------
(* One watch *)

(* What the histories and the reports hold is typed. *)
LEMMA EntryFacts ==
    ASSUME Types, NEW w \in W
    PROVE  /\ \A i \in DOMAIN shown[w] :
                shown[w][i].t \in Nat /\ shown[w][i].task \in Nat /\ shown[w][i].v \in Values
           /\ \A i \in DOMAIN transitions[w] :
                transitions[w][i].t \in Nat /\ transitions[w][i].from \in Values
                  /\ transitions[w][i].to \in Values
<1>1. shown[w] \in Seq(ShownValues) /\ transitions[w] \in Seq(Transitions)
  BY DEF Types
<1>2. \A i \in DOMAIN shown[w] : shown[w][i] \in ShownValues
  BY <1>1
<1>3. \A i \in DOMAIN transitions[w] : transitions[w][i] \in Transitions
  BY <1>1
<1> QED
  BY <1>2, <1>3 DEF ShownValues, Transitions

(* Before its first reading each watch satisfies its invariant. *)
LEMMA InitWatches ==
    ASSUME ProbeInit, NEW w \in W
    PROVE  WatchInv(w)
<1>1. /\ distinct[w] = <<>> /\ transitions[w] = <<>> /\ last[w] = Undefined
      /\ shown[w] = <<[t |-> 0, task |-> 0, v |-> page[w]]>>
      /\ now = 0 /\ tasks = 0
  BY DEF ProbeInit
<1>2. ShownInv(w)
  BY <1>1 DEF ShownInv
<1>3. LastInv(w)
  BY <1>1 DEF LastInv
<1>5. DOMAIN transitions[w] = {}
  BY <1>1
<1> QED
  BY <1>1, <1>2, <1>3, <1>5 DEF WatchInv

(* A step that leaves the reports and the page alone, while time passes, keeps what *)
(* is known of a watch. *)
LEMMA IdleKeepsWatch ==
    ASSUME Types, NEW w \in W, WatchInv(w), UNCHANGED <<reports, pageVars, seen>>,
           now' \in Nat, now <= now'
    PROVE  WatchInv(w)'
<1> USE DEF reports, pageVars
<1>0. now \in Nat
  BY DEF Types
<1>1. ShownInv(w)'
  BY <1>0, EntryFacts DEF WatchInv, ShownInv
<1>2. LastInv(w)'
  BY <1>0, EntryFacts DEF WatchInv, LastInv
<1> QED
  BY <1>1, <1>2 DEF WatchInv

(* The page shows another value: the report stays what it is, and true. *)
LEMMA ChangeKeepsWatch ==
    ASSUME Types, Change, NEW w \in W, WatchInv(w)
    PROVE  WatchInv(w)'
<1> DEFINE e == [t |-> now, task |-> tasks', v |-> page'[w]]
<1>1. /\ UNCHANGED <<now, reports, seen>> /\ tasks' = tasks + 1 /\ tasks \in Nat /\ now \in Nat
  BY TimesAssumption DEF Change, Types, TimesAssumption
<1>2. \/ page'[w] = page[w] /\ shown'[w] = shown[w]
      \/ e \in ShownValues /\ shown'[w] = Append(shown[w], e)
  BY ChangeFacts
<1>3. /\ shown[w] \in Seq(ShownValues) /\ transitions[w] \in Seq(Transitions)
      /\ seen[w] \in Nat
  BY DEF Types
<1>4. e.t = now /\ e.task = tasks + 1 /\ e.v = page'[w]
  BY <1>1
<1> HIDE DEF e
<1>5. /\ Len(shown[w]) <= Len(shown'[w])
      /\ \A i \in DOMAIN shown[w] : i \in DOMAIN shown'[w] /\ shown'[w][i] = shown[w][i]
      /\ \A i \in DOMAIN shown'[w] : i \notin DOMAIN shown[w] =>
           i = Len(shown'[w]) /\ i = Len(shown[w]) + 1 /\ shown'[w][i] = e
  BY <1>2, <1>3
<1>6. ShownInv(w)'
  <2>1. CASE page'[w] = page[w] /\ shown'[w] = shown[w]
    BY <1>1, <2>1, EntryFacts DEF WatchInv, ShownInv
  <2>2. CASE e \in ShownValues /\ shown'[w] = Append(shown[w], e)
    <3>1. Len(shown'[w]) > 0 /\ shown'[w][Len(shown'[w])].v = page'[w]
      BY <1>3, <1>4, <2>2
    <3>2. ASSUME NEW i \in DOMAIN shown'[w]
          PROVE  shown'[w][i].t <= now /\ shown'[w][i].task <= tasks + 1
      <4>1. CASE i \in DOMAIN shown[w]
        <5>1. shown[w][i].t <= now /\ shown[w][i].task <= tasks /\ shown[w][i].task \in Nat
          BY <4>1, EntryFacts DEF WatchInv, ShownInv
        <5> QED
          BY <1>1, <1>5, <4>1, <5>1
      <4>2. CASE i \notin DOMAIN shown[w]
        BY <1>1, <1>4, <1>5, <4>2
      <4> QED
        BY <4>1, <4>2
    <3> QED
      BY <1>1, <3>1, <3>2 DEF ShownInv
  <2> QED
    BY <1>2, <2>1, <2>2
<1>7. LastInv(w)'
  BY <1>1, <1>5 DEF WatchInv, LastInv, reports
<1>8. ASSUME NEW k \in DOMAIN transitions[w]
      PROVE  WasShown(shown'[w], transitions[w][k])
  <2>1. WasShown(shown[w], transitions[w][k]) /\ transitions[w][k].t <= now
    BY DEF WatchInv, LastInv
  <2> QED
    BY <1>2, <1>3, <1>4, <2>1, ShownStaysShown
<1> QED
  BY <1>1, <1>6, <1>7, <1>8 DEF WatchInv, reports

(* A reading leaves what is known of the other watches. *)
LEMMA ReadKeepsOthers ==
    ASSUME Types, Read, NEW w \in W, w # turn, WatchInv(w)
    PROVE  WatchInv(w)'
<1>1. /\ distinct'[w] = distinct[w] /\ transitions'[w] = transitions[w]
      /\ last'[w] = last[w] /\ seen'[w] = seen[w]
  BY ReadTypes DEF Types
<1>2. UNCHANGED <<now, page, tasks, shown>>
  BY DEF Read, pageVars
<1>3. ShownInv(w)'
  BY <1>2 DEF WatchInv, ShownInv
<1>4. LastInv(w)'
  BY <1>1, <1>2 DEF WatchInv, LastInv
<1> QED
  BY <1>1, <1>2, <1>3, <1>4 DEF WatchInv

(* A reading extends the path of its watch, by what was shown after the last reading. *)
LEMMA ReadKeepsWatch ==
    ASSUME Types, ClockInv, Read, NEW w \in W, w = turn, WatchInv(w)
    PROVE  WatchInv(w)'
<1>1. /\ distinct'[w] = NextDistinct(w) /\ transitions'[w] = NextTransitions(w)
      /\ last'[w] = page[w] /\ seen'[w] = Len(shown[w])
  BY ReadTypes DEF Types
<1>2. UNCHANGED <<now, page, tasks, shown>>
  BY DEF Read, pageVars
<1>3. /\ page[w] \in Values /\ page[w] # Undefined /\ last[w] \in Values \cup {Undefined}
      /\ distinct[w] \in Seq(Values) /\ transitions[w] \in Seq(Transitions)
      /\ shown[w] \in Seq(ShownValues) /\ now \in Nat /\ now < Duration
  BY ValuesAssumption DEF Types, ValuesAssumption, Read, ClockInv
<1>4. ShownInv(w)'
  BY <1>2 DEF WatchInv, ShownInv
<1>5. Len(shown[w]) \in DOMAIN shown[w] /\ shown[w][Len(shown[w])].v = page[w]
      /\ shown[w][Len(shown[w])].t <= now
  BY <1>3 DEF WatchInv, ShownInv
<1>6. distinct'[w] # <<>>
  <2>1. CASE Changed(w) /\ Unlisted(w)
    <3>1. distinct'[w] = Append(distinct[w], page[w])
      BY <1>1, <2>1 DEF NextDistinct
    <3>2. Len(distinct'[w]) = Len(distinct[w]) + 1 /\ Len(distinct[w]) \in Nat
      BY <1>3, <3>1, AppendFacts
    <3> QED
      BY <3>2
  <2>2. CASE ~Unlisted(w)
    BY <1>1, <1>3, <2>2 DEF NextDistinct, Unlisted, Elements
  <2>3. CASE ~Changed(w)
    BY <1>1, <1>3, <2>3 DEF NextDistinct, Changed, WatchInv, LastInv
  <2> QED
    BY <2>1, <2>2, <2>3
<1>7. CASE ~Changed(w)
  <2>1. /\ distinct'[w] = distinct[w] /\ transitions'[w] = transitions[w]
        /\ last'[w] = last[w]
    BY <1>1, <1>7 DEF NextDistinct, NextTransitions, Changed
  <2>2. LastInv(w)'
    BY <1>1, <1>2, <1>3, <1>5, <1>6, <2>1 DEF WatchInv, LastInv
  <2> QED
    BY <1>2, <1>4, <2>1, <2>2 DEF WatchInv
<1>8. CASE Changed(w) /\ last[w] = Undefined
  <2>1. distinct[w] = <<>> /\ transitions[w] = <<>>
    BY <1>8 DEF WatchInv, LastInv
  <2>2. distinct'[w] = <<page[w]>> /\ transitions'[w] = <<>>
    BY <1>1, <1>3, <1>8, <2>1 DEF NextDistinct, NextTransitions, Unlisted, Elements
  <2>3. LastInv(w)'
    BY <1>1, <1>2, <1>3, <1>5, <1>6, <2>2 DEF LastInv
  <2>4. IsAPath(<<page[w]>>, <<>>, page[w])
    BY DEF IsAPath, Path, Elements
  <2>5. (DOMAIN transitions[w])' = {}
    BY <2>2
  <2> QED
    BY <1>1, <1>4, <2>2, <2>3, <2>4, <2>5 DEF WatchInv
<1>9. CASE Changed(w) /\ last[w] # Undefined
  <2> DEFINE e == Transition(w)
  <2>1. /\ e \in Transitions /\ e.t = now /\ e.from = last[w] /\ e.to = page[w]
        /\ page[w] # last[w]
    BY <1>3, <1>9 DEF Transition, Transitions, Changed
  <2>2. transitions'[w] = Append(transitions[w], e)
    BY <1>1, <1>9 DEF NextTransitions
  <2> HIDE DEF e
  <2>3. /\ Len(transitions'[w]) = Len(transitions[w]) + 1
        /\ DOMAIN transitions'[w] = DOMAIN transitions[w] \cup {Len(transitions[w]) + 1}
        /\ transitions'[w][Len(transitions[w]) + 1] = e
        /\ \A i \in DOMAIN transitions[w] : transitions'[w][i] = transitions[w][i]
        /\ DOMAIN transitions[w] = 1..Len(transitions[w]) /\ Len(transitions[w]) \in Nat
    BY <1>3, <2>1, <2>2
  <2>4. LastInv(w)'
    BY <1>1, <1>2, <1>3, <1>5, <1>6, <2>1, <2>3 DEF WatchInv, LastInv
  <2>5. IsAPath(distinct'[w], transitions'[w], last'[w])
    <3>1. distinct[w] # <<>>
      BY <1>9 DEF WatchInv, LastInv
    <3>2. /\ IsAPath(distinct[w], transitions[w], last[w])
          /\ \A i \in DOMAIN transitions[w] : transitions[w][i].t <= now
      BY <3>1 DEF WatchInv, LastInv
    <3>3. distinct'[w] = IF e.to \notin Elements(distinct[w]) THEN Append(distinct[w], e.to)
                         ELSE distinct[w]
      BY <1>1, <1>9, <2>1 DEF NextDistinct, Unlisted
    <3> QED
      BY <1>1, <1>3, <2>1, <2>2, <3>1, <3>2, <3>3, LongerPath
  <2>6. ASSUME NEW k \in DOMAIN transitions'[w]
        PROVE  WasShown(shown[w], transitions'[w][k])
    <3>1. CASE k \in DOMAIN transitions[w]
      BY <2>3, <3>1 DEF WatchInv
    <3>2. CASE k = Len(transitions[w]) + 1
      <4>1. seen[w] \in DOMAIN shown[w] /\ shown[w][seen[w]].v = last[w]
        BY <1>9 DEF WatchInv, LastInv
      <4>2. seen[w] < Len(shown[w])
        BY <1>3, <1>5, <2>1, <4>1
      <4>3. transitions'[w][k] = e
        BY <2>3, <3>2
      <4> QED
        BY <1>5, <2>1, <4>1, <4>2, <4>3 DEF WasShown
    <3> QED
      BY <2>3, <3>1, <3>2
  <2> QED
    BY <1>2, <1>4, <2>4, <2>5, <2>6 DEF WatchInv
<1> QED
  BY <1>7, <1>8, <1>9

-----------------------------------------------------------------------------
(* Two watches *)

(* Between two readings two watches that changed together are reported alike. *)
LEMMA NoneDue ==
    ASSUME pc # "read" \/ turn \notin W, Types, NEW w \in W
    PROVE  ~Due(w)
BY WatchFacts DEF Due, Types

(* What is due of a watch is what its reading gives. *)
LEMMA ReadGivesDue ==
    ASSUME Types, Read, NEW w \in W
    PROVE  /\ (IF Due(w) THEN page[w] ELSE last[w]) = (IF Due(w)' THEN page'[w] ELSE last'[w])
           /\ (IF Due(w) THEN NextDistinct(w) ELSE distinct[w])
                = (IF Due(w)' THEN NextDistinct(w)' ELSE distinct'[w])
           /\ (IF Due(w) THEN NextTransitions(w) ELSE transitions[w])
                = (IF Due(w)' THEN NextTransitions(w)' ELSE transitions'[w])
<1>1. UNCHANGED <<now, pc, page>> /\ pc = "read" /\ turn' = turn + 1 /\ turn \in W
  BY DEF Read, pageVars
<1>2. CASE w = turn
  <2>1. Due(w) /\ ~Due(w)'
    BY <1>1, <1>2, WatchFacts DEF Due
  <2>2. /\ distinct'[w] = NextDistinct(w) /\ transitions'[w] = NextTransitions(w)
        /\ last'[w] = page[w]
    BY <1>2, ReadTypes DEF Types
  <2> QED
    BY <2>1, <2>2
<1>3. CASE w # turn
  <2>1. Due(w)' <=> Due(w)
    BY <1>1, <1>3, WatchFacts DEF Due
  <2>2. distinct'[w] = distinct[w] /\ transitions'[w] = transitions[w] /\ last'[w] = last[w]
    BY <1>3, ReadTypes DEF Types
  <2>3. NextDistinct(w)' = NextDistinct(w) /\ NextTransitions(w)' = NextTransitions(w)
    BY <1>1, <2>2 DEF NextDistinct, NextTransitions, Changed, Unlisted, Transition
  <2> QED
    BY <1>1, <2>1, <2>2, <2>3
<1> QED
  BY <1>2, <1>3

(* Watches that have shown the same changes after a task had before it. *)
LEMMA SameBefore ==
    ASSUME Types, Change, NEW w \in W, NEW x \in W, ShownInv(w), ShownInv(x),
           shown'[w] = shown'[x]
    PROVE  shown[w] = shown[x]
<1> DEFINE e(y) == [t |-> now, task |-> tasks', v |-> page'[y]]
<1>1. shown[w] \in Seq(ShownValues) /\ shown[x] \in Seq(ShownValues) /\ tasks \in Nat
  BY TimesAssumption DEF Types, TimesAssumption
<1>2. e(w).task = tasks + 1 /\ e(x).task = tasks + 1
  BY DEF Change
<1>3. /\ shown'[w] = shown[w] \/ (e(w) \in ShownValues /\ shown'[w] = Append(shown[w], e(w)))
      /\ shown'[x] = shown[x] \/ (e(x) \in ShownValues /\ shown'[x] = Append(shown[x], e(x)))
  BY ChangeFacts
<1>4. /\ \A i \in DOMAIN shown[w] : shown[w][i].task <= tasks /\ shown[w][i].task \in Nat
      /\ \A i \in DOMAIN shown[x] : shown[x][i].task <= tasks /\ shown[x][i].task \in Nat
  BY EntryFacts DEF ShownInv
<1> HIDE DEF e
<1>5. ASSUME NEW s \in Seq(ShownValues), NEW r \in Seq(ShownValues), NEW a \in ShownValues,
             a.task = tasks + 1, s = Append(r, a),
             \A i \in DOMAIN s : s[i].task <= tasks /\ s[i].task \in Nat
      PROVE  FALSE
  <2>1. Len(r) + 1 \in DOMAIN s /\ s[Len(r) + 1] = a
    BY <1>5, AppendFacts
  <2> QED
    BY <1>1, <1>5, <2>1
<1>6. ASSUME NEW s \in Seq(ShownValues), NEW r \in Seq(ShownValues), NEW a \in ShownValues,
             NEW b \in ShownValues, Append(s, a) = Append(r, b)
      PROVE  s = r
  <2>1. /\ Len(s) \in Nat /\ Len(r) \in Nat /\ Len(s) + 1 = Len(r) + 1
        /\ \A i \in 1..Len(s) : Append(s, a)[i] = s[i]
        /\ \A i \in 1..Len(r) : Append(r, b)[i] = r[i]
    BY <1>6, AppendFacts
  <2>2. Len(s) = Len(r) /\ \A i \in 1..Len(s) : s[i] = r[i]
    BY <1>6, <2>1
  <2> QED
    BY <2>2
<1> QED
  BY <1>1, <1>2, <1>3, <1>4, <1>5, <1>6

(* Two watches that change together stay due for the same report. *)
LEMMA AgreeSteps ==
    ASSUME ProbeInv, [ProbeNext]_probeVars
    PROVE  AgreeInv'
<1> SUFFICES ASSUME NEW w \in W, NEW x \in W, (shown[w] = shown[x])', pc' # "failed"
             PROVE  /\ (IF Due(w) THEN page[w] ELSE last[w])' = (IF Due(x) THEN page[x] ELSE last[x])'
                    /\ (IF Due(w) THEN NextDistinct(w) ELSE distinct[w])'
                         = (IF Due(x) THEN NextDistinct(x) ELSE distinct[x])'
                    /\ (IF Due(w) THEN NextTransitions(w) ELSE transitions[w])'
                         = (IF Due(x) THEN NextTransitions(x) ELSE transitions[x])'
  BY DEF AgreeInv
<1>0. Types /\ ClockInv /\ WatchInv(w) /\ WatchInv(x) /\ Types'
  BY StepTypes DEF ProbeInv
<1>1. shown[w] = shown[x] => page[w] = page[x]
  BY <1>0 DEF WatchInv, ShownInv
<1>2. ASSUME pc # "failed", pc # "read" \/ turn \notin W, shown[w] = shown[x]
      PROVE  last[w] = last[x] /\ distinct[w] = distinct[x] /\ transitions[w] = transitions[x]
  BY <1>0, <1>2, NoneDue DEF ProbeInv, AgreeInv
<1>3. ASSUME pc # "failed", pc # "read" \/ turn \notin W, pc' # "read", UNCHANGED reports, shown[w] = shown[x]
      PROVE  /\ ~Due(w)' /\ ~Due(x)' /\ last'[w] = last'[x]
             /\ distinct'[w] = distinct'[x] /\ transitions'[w] = transitions'[x]
  BY <1>2, <1>3 DEF Due, reports
<1>4. CASE Loop
  <2>1. /\ UNCHANGED <<now, page, shown, last, distinct, transitions>> /\ pc \notin {"read", "failed"}
        /\ turn' = 1
    BY <1>4 DEF Loop, pageVars, reports
  <2>2. last[w] = last[x] /\ distinct[w] = distinct[x] /\ transitions[w] = transitions[x]
        /\ page[w] = page[x]
    BY <1>1, <1>2, <2>1
  <2>3. NextDistinct(w) = NextDistinct(x) /\ NextTransitions(w) = NextTransitions(x)
    BY <2>2 DEF NextDistinct, NextTransitions, Changed, Unlisted, Transition
  <2>4. NextDistinct(w)' = NextDistinct(x)' /\ NextTransitions(w)' = NextTransitions(x)'
    BY <2>1, <2>2 DEF NextDistinct, NextTransitions, Changed, Unlisted, Transition
  <2>5. Due(w)' <=> Due(x)'
    BY <2>1, WatchFacts DEF Due
  <2> QED
    BY <2>1, <2>2, <2>4, <2>5
<1>5. CASE Read
  <2>1. shown[w] = shown[x] /\ pc # "failed"
    BY <1>5 DEF Read, pageVars
  <2> QED
    BY <1>0, <1>5, <2>1, ReadGivesDue DEF ProbeInv, AgreeInv
<1>6. CASE Sleep
  BY <1>3, <1>6 DEF Sleep, pageVars
<1>7. CASE Wake
  BY <1>3, <1>7 DEF Wake, pageVars
<1>8. CASE Change
  <2>1. shown[w] = shown[x]
    BY <1>0, <1>8, SameBefore DEF WatchInv
  <2> QED
    BY <1>3, <1>8, <2>1 DEF Change, Yielded
<1>9. CASE Tick
  BY <1>3, <1>9 DEF Tick, pageVars
<1>10. CASE Throws \/ Leaves
  BY <1>10 DEF Throws, Leaves
<1>11. CASE UNCHANGED probeVars
  BY <1>11 DEF probeVars, pageVars, reports, ProbeInv, AgreeInv, Due, NextDistinct,
     NextTransitions, Changed, Unlisted, Transition
<1> QED
  BY <1>4, <1>5, <1>6, <1>7, <1>8, <1>9, <1>10, <1>11 DEF ProbeNext, Returned

-----------------------------------------------------------------------------
(* The theorems *)

\* What is known of the clock, of each watch and of two of them is inductive, for any
\* watches, values, times and number of changes.
THEOREM ProbeInductive == ProbeSpec => []ProbeInv
<1>1. ProbeInit => ProbeInv
  <2> SUFFICES ASSUME ProbeInit PROVE ProbeInv
    OBVIOUS
  <2>1. \A w \in W : ~Due(w) /\ last[w] = Undefined /\ distinct[w] = <<>> /\ transitions[w] = <<>>
    BY DEF ProbeInit, Due
  <2>2. AgreeInv
    BY <2>1 DEF AgreeInv
  <2> QED
    BY <2>2, InitTypes, InitWatches DEF ProbeInv
<1>2. ProbeInv /\ [ProbeNext]_probeVars => ProbeInv'
  <2> SUFFICES ASSUME ProbeInv, [ProbeNext]_probeVars PROVE ProbeInv'
    OBVIOUS
  <2>1. Types /\ ClockInv /\ Types' /\ ClockInv' /\ AgreeInv' /\ now \in Nat
    BY StepTypes, AgreeSteps DEF ProbeInv, Types
  <2>2. ASSUME NEW w \in W PROVE WatchInv(w)'
    <3>1. WatchInv(w)
      BY DEF ProbeInv
    <3>2. CASE Read
      BY <2>1, <3>1, <3>2, ReadKeepsOthers, ReadKeepsWatch
    <3>3. CASE Change
      BY <2>1, <3>1, <3>3, ChangeKeepsWatch
    <3>4. CASE Loop \/ Sleep \/ Wake \/ Throws \/ Leaves \/ Tick \/ UNCHANGED probeVars
      <4>1. /\ UNCHANGED <<reports, pageVars, seen>> /\ now' \in Nat /\ now <= now'
        BY <2>1, <3>4 DEF Loop, Sleep, Wake, Throws, Leaves, Tick, probeVars
      <4> QED
        BY <2>1, <3>1, <4>1, IdleKeepsWatch
    <3> QED
      BY <3>2, <3>3, <3>4 DEF ProbeNext, Returned
  <2>3. (\A w \in W : WatchInv(w))'
    BY <2>2
  <2> QED
    BY <2>1, <2>3 DEF ProbeInv
<1> QED
  BY <1>1, <1>2, PTL DEF ProbeSpec

\* Variables keep their types, no transition is stamped outside the window, and the
\* sampler never overruns it by more than one gap.
THEOREM ProbeTypeCorrect == ProbeSpec => []ProbeTypeOK
<1>1. ProbeInv => ProbeTypeOK
  <2> SUFFICES ASSUME ProbeInv PROVE ProbeTypeOK
    OBVIOUS
  <2>1. Types /\ ClockInv
    BY DEF ProbeInv
  <2>2. ASSUME NEW w \in W
        PROVE  /\ Elements(distinct[w]) \subseteq Values
               /\ Elements(transitions[w]) \subseteq [t : 0..Duration, from : Values, to : Values]
               /\ Elements(shown[w]) \subseteq [t : Nat, task : Nat, v : Values]
    <3>1. /\ distinct[w] \in Seq(Values) /\ transitions[w] \in Seq(Transitions)
          /\ shown[w] \in Seq(ShownValues)
      BY <2>1 DEF Types
    <3>2. \A i \in DOMAIN transitions[w] : transitions[w][i] \in Transitions
                                          /\ transitions[w][i].t < Duration
      BY <3>1 DEF ProbeInv, WatchInv, LastInv
    <3>3. \A i \in DOMAIN transitions[w] :
            transitions[w][i] \in [t : 0..Duration, from : Values, to : Values]
      BY <3>2, TimesAssumption DEF Transitions, TimesAssumption
    <3>4. \A i \in DOMAIN distinct[w] : distinct[w][i] \in Values
      BY <3>1
    <3>5. \A i \in DOMAIN shown[w] : shown[w][i] \in ShownValues
      BY <3>1
    <3> QED
      BY <3>3, <3>4, <3>5 DEF Elements, ShownValues
  <2> QED
    BY <2>1, <2>2 DEF ProbeTypeOK, Types, ClockInv
<1> QED
  BY <1>1, ProbeInductive, PTL

\* A report is a path from the first value of its watch to the last one read, in order
\* of time, with every distinct value once.
THEOREM ReportsArePaths == ProbeSpec => []ReportIsAPath
<1>1. ProbeInv => ReportIsAPath
  BY DEF ProbeInv, WatchInv, ReportIsAPath
<1> QED
  BY <1>1, ProbeInductive, PTL

\* No transition is made up, however fast the page changes.
THEOREM TransitionsHappened == ProbeSpec => []NothingMadeUp
<1>1. ProbeInv => NothingMadeUp
  BY DEF ProbeInv, WatchInv, NothingMadeUp
<1> QED
  BY <1>1, ProbeInductive, PTL

\* Watches that always change together are reported alike between two readings.
THEOREM WatchesAreAlike == ProbeSpec => []WatchesAgree
<1>1. ProbeInv => WatchesAgree
  BY NoneDue DEF ProbeInv, AgreeInv, WatchesAgree
<1> QED
  BY <1>1, ProbeInductive, PTL

-----------------------------------------------------------------------------
(* Slow pages *)

(* A change adds a value that differs from the last, and leaves what was read. *)
LEMMA ChangeKeepsGap ==
    ASSUME ProbeInv, Change, NEW w \in W, GapInv(w), FullInv(w)
    PROVE  GapInv(w)' /\ FullInv(w)'
<1> DEFINE e == [t |-> now, task |-> tasks', v |-> page'[w]]
<1>1. /\ UNCHANGED <<now, wake, pc, turn, reports, seen>> /\ pc = "sleep"
      /\ now \in Nat /\ wake \in Nat /\ seen[w] \in Nat /\ Step \in Nat
  BY TimesAssumption DEF Change, Yielded, ProbeInv, Types, TimesAssumption
<1>2. /\ shown[w] \in Seq(ShownValues) /\ Len(shown[w]) \in Nat
      /\ shown[w][Len(shown[w])].v = page[w]
  BY DEF ProbeInv, Types, WatchInv, ShownInv
<1>3. \/ shown'[w] = shown[w]
      \/ e \in ShownValues /\ shown'[w] = Append(shown[w], e) /\ page'[w] # page[w]
  <2>1. PICK values \in [W -> Values] :
          /\ page' = values
          /\ shown' = [x \in W |->
                         IF values[x] = page[x] THEN shown[x]
                         ELSE Append(shown[x], [t |-> now, task |-> tasks', v |-> values[x]])]
    BY DEF Change
  <2>2. page'[w] # page[w] \/ shown'[w] = shown[w]
    BY <2>1
  <2> QED
    BY <2>2, ChangeFacts DEF ProbeInv
<1>4. e.t = now /\ e.v = page'[w]
  OBVIOUS
<1> HIDE DEF e
<1>5. CASE shown'[w] = shown[w]
  BY <1>1, <1>5 DEF GapInv, FullInv, reports
<1>6. CASE e \in ShownValues /\ shown'[w] = Append(shown[w], e) /\ page'[w] # page[w]
  <2> DEFINE n == Len(shown[w])
             s == shown'[w]
  <2>1. /\ Len(s) = n + 1 /\ DOMAIN s = 1..(n + 1) /\ DOMAIN shown[w] = 1..n
        /\ \A i \in 1..n : s[i] = shown[w][i]
        /\ s[n + 1] = e
    BY <1>2, <1>6, AppendFacts
  <2>2. seen[w] \in 1..n
    BY <1>1 DEF GapInv
  <2>0. n \in Nat
    BY <1>2
  <2> HIDE DEF s, n
  <2>3. \A i \in DOMAIN s : i > seen[w] => wake <= s[i].t + Step
    <3>1. \A i \in 1..n : i > seen[w] => wake <= shown[w][i].t + Step
      BY <2>1 DEF GapInv
    <3>2. wake <= e.t + Step
      BY <1>1, <1>4 DEF GapInv
    <3> QED
      BY <2>0, <2>1, <3>1, <3>2
  <2>4. \A i \in 2..Len(s) : s[i].v # s[i - 1].v
    <3>1. \A i \in 2..n : shown[w][i].v # shown[w][i - 1].v
      BY DEF GapInv, n
    <3>2. n \in Nat /\ shown[w][n].v = page[w]
      BY <1>2 DEF n
    <3>3. \A i \in 2..n : i \in 1..n /\ i - 1 \in 1..n
      BY <3>2
    <3>4. ASSUME NEW i \in 2..Len(s) PROVE s[i].v # s[i - 1].v
      <4>1. CASE i = n + 1
        <5>1. i - 1 = n /\ n \in 1..n
          BY <2>2, <3>2, <4>1
        <5> QED
          BY <1>4, <1>6, <2>1, <3>2, <4>1, <5>1
      <4>2. CASE i # n + 1
        <5>1. i \in 2..n
          BY <2>1, <3>2, <4>2
        <5> QED
          BY <2>1, <3>1, <3>3, <5>1
      <4> QED
        BY <4>1, <4>2
    <3> QED
      BY <3>4
  <2>5. s[seen[w]] = shown[w][seen[w]]
    BY <2>1, <2>2
  <2>6. n \in Nat /\ seen[w] <= n + 1
    BY <1>2, <2>2 DEF n
  <2>7. GapInv(w)'
    BY <1>1, <2>1, <2>2, <2>3, <2>4, <2>5, <2>6 DEF GapInv, reports, s
  <2>8. \A i \in 1..seen[w] : s[i] = shown[w][i]
    BY <1>1, <2>1, <2>2, <2>6
  <2>9. Slow(s, seen[w]) <=> Slow(shown[w], seen[w])
    <3>1. \A i \in 2..seen[w] : s[i] = shown[w][i] /\ s[i - 1] = shown[w][i - 1]
      BY <1>1, <2>8
    <3> QED
      BY <3>1 DEF Slow
  <2>10. ASSUME InFull(shown[w], seen[w], transitions[w])
         PROVE  InFull(s, seen[w], transitions[w])
    <3>1. DOMAIN transitions[w] = 1..Len(transitions[w]) /\ Len(transitions[w]) = seen[w] - 1
      BY <2>10 DEF InFull, ProbeInv, Types
    <3>2. \A i \in DOMAIN transitions[w] : s[i] = shown[w][i] /\ s[i + 1] = shown[w][i + 1]
      BY <1>1, <2>8, <3>1
    <3> QED
      BY <2>10, <3>2 DEF InFull
  <2>11. FullInv(w)'
    BY <1>1, <2>9, <2>10 DEF FullInv, reports, s
  <2> QED
    BY <2>7, <2>11
<1> QED
  BY <1>3, <1>5, <1>6

(* A reading leaves the other watches alone. *)
LEMMA ReadKeepsOtherGaps ==
    ASSUME ProbeInv, Read, NEW w \in W, w # turn, GapInv(w), FullInv(w)
    PROVE  GapInv(w)' /\ FullInv(w)'
<1>1. /\ transitions'[w] = transitions[w] /\ last'[w] = last[w] /\ seen'[w] = seen[w]
      /\ turn' = turn + 1 /\ turn \in W
  BY ReadTypes DEF ProbeInv, Types, Read
<1>2. UNCHANGED <<now, pc, wake, page, tasks, shown>>
  BY DEF Read, pageVars
<1>3. w < turn' => w < turn
  BY <1>1, WatchFacts
<1> QED
  BY <1>1, <1>2, <1>3 DEF GapInv, FullInv

(* A reading of a slow watch finds at most one new value, within a gap of its time. *)
LEMMA ReadKeepsGap ==
    ASSUME ProbeInv, Read, NEW w \in W, w = turn, GapInv(w), FullInv(w)
    PROVE  GapInv(w)' /\ FullInv(w)'
<1> DEFINE n == Len(shown[w])
<1>1. /\ transitions'[w] = NextTransitions(w) /\ last'[w] = page[w] /\ seen'[w] = n
      /\ turn' = turn + 1 /\ turn \in W /\ pc = "read"
  BY ReadTypes DEF ProbeInv, Types, Read
<1>2. UNCHANGED <<now, pc, wake, page, tasks, shown>>
  BY DEF Read, pageVars
<1>3. /\ shown[w] \in Seq(ShownValues) /\ n \in Nat /\ n > 0 /\ DOMAIN shown[w] = 1..n
      /\ transitions[w] \in Seq(Transitions) /\ seen[w] \in Nat /\ seen[w] <= n
      /\ now \in Nat /\ wake \in Nat /\ Step \in Nat /\ MaxLag \in Nat
      /\ shown[w][n].v = page[w] /\ page[w] \in Values
  BY TimesAssumption DEF ProbeInv, Types, WatchInv, ShownInv, GapInv, TimesAssumption
<1>4. \A i \in 1..n : shown[w][i].t \in Nat /\ shown[w][i].t <= now
  BY <1>3, EntryFacts DEF ProbeInv, WatchInv, ShownInv
<1>5. \A i \in 1..n : i > seen[w] => now <= shown[w][i].t + MaxGap
  <2>1. ASSUME NEW i \in 1..n, i > seen[w] PROVE now <= shown[w][i].t + MaxGap
    <3>1. wake <= shown[w][i].t + Step /\ now <= wake + MaxLag
      BY <1>3, <2>1 DEF GapInv
    <3> QED
      BY <1>3, <1>4, <3>1 DEF MaxGap
  <2> QED
    BY <2>1
<1>6. GapInv(w)'
  <2>1. seen[w]' = n /\ Len(shown[w])' = n /\ last[w]' = shown[w][n].v
    BY <1>1, <1>2, <1>3
  <2>2. pc' # "sleep" /\ seen[w]' # 0
    BY <1>1, <1>2, <1>3
  <2>3. \A i \in 1..n : ~(i > n)
    BY <1>3
  <2> QED
    BY <1>1, <1>2, <1>3, <2>1, <2>2, <2>3 DEF GapInv
<1>7. ASSUME Slow(shown[w], n)
      PROVE  InFull(shown[w], n, transitions'[w])
  <2>1. CASE seen[w] = 0
    <3>1. n = 1 /\ last[w] = Undefined /\ transitions[w] = <<>>
      BY <2>1 DEF GapInv
    <3>2. transitions'[w] = <<>>
      BY <1>1, <3>1 DEF NextTransitions
    <3> QED
      BY <3>1, <3>2 DEF InFull
  <2>2. CASE seen[w] > 0
    <3>1. Slow(shown[w], seen[w])
      BY <1>3, <1>7 DEF Slow
    <3>2. /\ Len(transitions[w]) = seen[w] - 1
          /\ DOMAIN transitions[w] = 1..(seen[w] - 1)
          /\ \A i \in 1..(seen[w] - 1) :
               /\ transitions[w][i].from = shown[w][i].v /\ transitions[w][i].to = shown[w][i + 1].v
               /\ transitions[w][i].t \in shown[w][i + 1].t .. (shown[w][i + 1].t + MaxGap)
      BY <1>3, <2>2, <3>1 DEF FullInv, InFull
    <3>3. shown[w][seen[w]].v = last[w]
      BY <2>2 DEF GapInv
    <3>4. n = seen[w] \/ n = seen[w] + 1
      <4>1. SUFFICES ASSUME n >= seen[w] + 2 PROVE FALSE
        BY <1>3
      <4>2. shown[w][n].t > shown[w][n - 1].t + MaxGap
        BY <1>3, <1>7, <4>1 DEF Slow
      <4>3. now <= shown[w][n - 1].t + MaxGap /\ shown[w][n].t <= now
        BY <1>3, <1>4, <1>5, <4>1
      <4>4. shown[w][n].t \in Nat /\ shown[w][n - 1].t \in Nat /\ MaxGap \in Nat
        BY <1>3, <1>4, <4>1 DEF MaxGap
      <4> QED
        BY <1>3, <4>2, <4>3, <4>4
    <3>5. CASE n = seen[w]
      <4>1. transitions'[w] = transitions[w]
        BY <1>1, <1>3, <3>3, <3>5 DEF NextTransitions, Changed
      <4> QED
        BY <3>2, <3>5, <4>1 DEF InFull
    <3>6. CASE n = seen[w] + 1
      <4> DEFINE e == Transition(w)
      <4>1. page[w] # last[w]
        <5>1. n \in 2..n /\ n - 1 = seen[w]
          BY <1>3, <2>2, <3>6
        <5>2. shown[w][n].v # shown[w][n - 1].v
          BY <5>1 DEF GapInv
        <5> QED
          BY <1>3, <3>3, <5>1, <5>2
      <4>2. last[w] # Undefined
        <5>1. shown[w][seen[w]] \in ShownValues
          BY <1>3, <2>2
        <5> QED
          BY <3>3, <5>1, ValuesAssumption DEF ShownValues, ValuesAssumption
      <4>3. e \in Transitions /\ e.t = now /\ e.from = last[w] /\ e.to = page[w]
        BY <1>3, <4>2 DEF Transition, Transitions, ProbeInv, Types
      <4>4. transitions'[w] = Append(transitions[w], e)
        BY <1>1, <4>1, <4>2 DEF NextTransitions, Changed
      <4> HIDE DEF e
      <4>5. /\ Len(transitions'[w]) = seen[w] /\ DOMAIN transitions'[w] = 1..seen[w]
            /\ \A i \in 1..(seen[w] - 1) : transitions'[w][i] = transitions[w][i]
            /\ transitions'[w][seen[w]] = e
        BY <1>3, <2>2, <3>2, <4>3, <4>4, AppendFacts
      <4>6. e.t \in shown[w][n].t .. (shown[w][n].t + MaxGap)
        <5>1. shown[w][n].t \in Nat /\ shown[w][n].t <= now /\ now <= shown[w][n].t + MaxGap
          BY <1>3, <1>4, <1>5, <3>6
        <5> QED
          BY <1>3, <4>3, <5>1 DEF MaxGap
      <4>7. ASSUME NEW i \in 1..seen[w]
            PROVE  /\ transitions'[w][i].from = shown[w][i].v
                   /\ transitions'[w][i].to = shown[w][i + 1].v
                   /\ transitions'[w][i].t \in shown[w][i + 1].t .. (shown[w][i + 1].t + MaxGap)
        <5>1. CASE i = seen[w]
          BY <1>3, <3>3, <3>6, <4>3, <4>5, <4>6, <5>1
        <5>2. CASE i # seen[w]
          <6>1. i \in 1..(seen[w] - 1)
            BY <1>3, <5>2
          <6> QED
            BY <3>2, <4>5, <6>1
        <5> QED
          BY <5>1, <5>2
      <4>8. Len(transitions'[w]) = n - 1
        BY <1>3, <3>6, <4>5
      <4> HIDE DEF n
      <4> QED
        BY <4>5, <4>7, <4>8 DEF InFull
    <3> QED
      BY <3>4, <3>5, <3>6
  <2> QED
    BY <1>3, <2>1, <2>2
<1>8. FullInv(w)'
  BY <1>1, <1>2, <1>7 DEF FullInv
<1> QED
  BY <1>6, <1>8

\* What a slow page shows is reported in full, late by at most one sleep of the sampler.
THEOREM SlowPagesAreReported == ProbeSpec => []SlowPageIsReported
<1>1. ProbeInit => SlowInv
  <2> SUFFICES ASSUME ProbeInit PROVE SlowInv
    OBVIOUS
  <2>1. ASSUME NEW w \in W PROVE GapInv(w) /\ FullInv(w)
    <3>1. /\ shown[w] = <<[t |-> 0, task |-> 0, v |-> page[w]]>> /\ now = 0 /\ wake = 0
          /\ pc = "loop" /\ seen[w] = 0 /\ last[w] = Undefined /\ transitions[w] = <<>>
      BY DEF ProbeInit
    <3> QED
      BY <3>1, TimesAssumption DEF GapInv, FullInv, TimesAssumption
  <2>2. ProbeInv
    <3>1. AgreeInv
      BY DEF ProbeInit, Due, AgreeInv
    <3> QED
      BY <3>1, InitTypes, InitWatches DEF ProbeInv
  <2> QED
    BY <2>1, <2>2 DEF SlowInv
<1>2. SlowInv /\ ProbeInv' /\ [ProbeNext]_probeVars => SlowInv'
  <2> SUFFICES ASSUME SlowInv, ProbeInv', [ProbeNext]_probeVars,
                      NEW w \in W
               PROVE  (GapInv(w) /\ FullInv(w))'
    BY DEF SlowInv
  <2>1. ProbeInv /\ GapInv(w) /\ FullInv(w)
    BY DEF SlowInv
  <2>2. /\ now \in Nat /\ wake \in Nat /\ Step \in Nat /\ MaxLag \in Nat /\ seen[w] \in Nat
        /\ turn \in 1..(Len(Watches) + 1)
        /\ \A i \in DOMAIN shown[w] : shown[w][i].t \in Nat
        /\ Len(shown[w]) > 0 /\ Len(shown[w]) \in Nat /\ DOMAIN shown[w] = 1..Len(shown[w])
    BY <2>1, EntryFacts, TimesAssumption
       DEF ProbeInv, Types, WatchInv, ShownInv, TimesAssumption
  <2>3. CASE Read
    BY <2>1, <2>3, ReadKeepsOtherGaps, ReadKeepsGap
  <2>4. CASE Change
    BY <2>1, <2>4, ChangeKeepsGap
  <2>5. CASE Loop
    <3>1. UNCHANGED <<now, wake, pageVars, reports, seen>> /\ pc' # "sleep" /\ turn' = 1
      BY <2>5 DEF Loop
    <3> QED
      BY <2>1, <3>1, WatchFacts DEF GapInv, FullInv, pageVars, reports
  <2>6. CASE Sleep
    <3>1. /\ UNCHANGED <<now, turn, pageVars, reports, seen>> /\ pc' = "sleep" /\ pc = "read"
          /\ wake' = now + Step /\ turn \notin W
      BY <2>6 DEF Sleep
    <3>2. seen[w] = Len(shown[w])
      BY <2>1, <2>2, <3>1, WatchFacts DEF GapInv
    <3> QED
      BY <2>1, <2>2, <3>1, <3>2 DEF GapInv, FullInv, pageVars, reports
  <2>7. CASE Wake \/ Throws \/ Leaves
    BY <2>1, <2>7 DEF Wake, Throws, Leaves, GapInv, FullInv, pageVars, reports
  <2>8. CASE Tick
    <3>1. /\ UNCHANGED <<pc, wake, turn, pageVars, reports, seen>> /\ now' = now + 1
          /\ now < wake + MaxLag
      BY <2>8 DEF Tick
    <3>2. now' <= wake + MaxLag /\ (wake <= now + Step => wake <= now' + Step)
      BY <2>2, <3>1
    <3> QED
      BY <2>1, <3>1, <3>2 DEF GapInv, FullInv, pageVars, reports
  <2>9. CASE UNCHANGED probeVars
    BY <2>1, <2>9 DEF probeVars, GapInv, FullInv, pageVars, reports
  <2> QED
    BY <2>3, <2>4, <2>5, <2>6, <2>7, <2>8, <2>9 DEF ProbeNext, Returned
<1>3. SlowInv => SlowPageIsReported
  BY DEF SlowInv, FullInv, SlowPageIsReported
<1> QED
  BY <1>1, <1>2, <1>3, ProbeInductive, PTL DEF ProbeSpec
=============================================================================
