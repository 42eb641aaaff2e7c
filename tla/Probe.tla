-------------------------------- MODULE Probe --------------------------------
(***************************************************************************)
(* The sampler that a probe runs in its page (buildProbeScript,             *)
(* cmd/gpu-browser/main.go): every Step it reads all watches, and keeps of  *)
(* each the distinct values and the transitions between them, with their    *)
(* time.  The page changes the values whenever the sampler sleeps, and the  *)
(* timer that wakes the sampler may be late.                                *)
(***************************************************************************)
EXTENDS Naturals, Sequences

CONSTANTS
    Watches,    \* a sequence of watch specs
    Values,     \* what a spec may read, null among them
    Undefined,  \* what no spec reads
    Duration, Step,
    MaxLag,     \* bound: how late a timer fires
    MaxChanges  \* bound: tasks that change the page

ASSUME WatchesAssumption == Watches \in Seq(STRING)
ASSUME ValuesAssumption == Undefined \notin Values
ASSUME TimesAssumption ==
    /\ Duration \in Nat /\ Step \in Nat /\ MaxLag \in Nat /\ MaxChanges \in Nat
    /\ Step + MaxLag > 0  \* a sleep takes time

W == 1..Len(Watches)

VARIABLES
    now,          \* performance.now() - start
    pc,           \* at the loop condition, reading the watches, asleep, returned, or failed
    turn,         \* the watch that is read next
    wake,         \* when the sleep is over
    page,         \* what each watch would read
    last, distinct, transitions,  \* per watch, as in the script
    tasks,        \* tasks that changed the page
    shown,        \* history: the values of each watch, with the time and the task they came in
    seen          \* history: how many of them had come at the last reading

pageVars == <<page, tasks, shown>>
reports == <<last, distinct, transitions>>
probeVars == <<now, pc, turn, wake, pageVars, reports, seen>>

Elements(s) == {s[i] : i \in DOMAIN s}

\* The longest time between two readings
MaxGap == Step + MaxLag

\* Every variable keeps its type; every time stamp is within the window, and the
\* sampler returns less than one gap after it (duration_ms, main.go:700-713).
ProbeTypeOK ==
    /\ {now, wake} \subseteq {t \in Nat : t < Duration + MaxGap}
    /\ pc \in {"loop", "read", "sleep", "done", "failed"}
    /\ turn \in 1..(Len(Watches) + 1)
    /\ page \in [W -> Values] /\ last \in [W -> Values \cup {Undefined}]
    /\ \A w \in W : Elements(distinct[w]) \subseteq Values
    /\ \A w \in W : Elements(transitions[w]) \subseteq
                        [t : 0..Duration, from : Values, to : Values]
    /\ \A w \in W : Elements(shown[w]) \subseteq [t : Nat, task : Nat, v : Values]
    /\ seen \in [W -> Nat] /\ tasks \in 0..MaxChanges

ProbeInit ==
    /\ now = 0 /\ pc = "loop" /\ turn = 1 /\ wake = 0
    /\ page \in [W -> Values] /\ tasks = 0
    /\ last = [w \in W |-> Undefined]
    /\ distinct = [w \in W |-> <<>>] /\ transitions = [w \in W |-> <<>>]
    /\ shown = [w \in W |-> <<[t |-> 0, task |-> 0, v |-> page[w]]>>]
    /\ seen = [w \in W |-> 0]

-----------------------------------------------------------------------------
(* The script *)

\* Mutant: the window is looked at before the sleep only once a step is over
LoopOnceMore ==
    /\ pc = "loop"
    /\ pc' = IF now < Duration + Step THEN "read" ELSE "done"
    /\ turn' = 1
    /\ UNCHANGED <<now, wake, pageVars, reports, seen>>

\* while (performance.now() - start < durationMs)
Loop ==
    /\ pc = "loop"
    /\ pc' = IF now < Duration THEN "read" ELSE "done"
    /\ turn' = 1
    /\ UNCHANGED <<now, wake, pageVars, reports, seen>>

\* Mutant: the value is remembered before it is compared for the transition
TransitionSwapped(w) == [t |-> now, from |-> page[w], to |-> page[w]]

Transition(w) == [t |-> now, from |-> last[w], to |-> page[w]]

Unlisted(w) == page[w] \notin Elements(distinct[w])

\* Mutant: only a new value is remembered
RememberedFirst(w) == IF Unlisted(w) THEN page[w] ELSE last[w]

Remembered(w) == page[w]

\* Mutant: a value that came back is taken for no change
ChangedToNew(w) == page[w] # last[w] /\ Unlisted(w)

Changed(w) == page[w] # last[w]

\* The body of the loop over the watches: the first value is no transition
Read ==
    LET w == turn
    IN  /\ pc = "read" /\ turn \in W
        /\ transitions' = IF Changed(w) /\ last[w] # Undefined
                          THEN [transitions EXCEPT ![w] = Append(@, Transition(w))]
                          ELSE transitions
        /\ distinct' = IF Changed(w) /\ Unlisted(w) THEN [distinct EXCEPT ![w] = Append(@, page[w])]
                       ELSE distinct
        /\ last' = [last EXCEPT ![w] = Remembered(w)]
        /\ seen' = [seen EXCEPT ![w] = Len(shown[w])]
        /\ turn' = turn + 1
        /\ UNCHANGED <<now, pc, wake, pageVars>>

\* A selector or a regular expression that the page does not take throws, and does
\* so as soon as its watch is read: the script rejects, with no report
Throws ==
    /\ pc = "read" /\ turn \in W /\ last[turn] = Undefined
    /\ pc' = "failed"
    /\ UNCHANGED <<now, turn, wake, pageVars, reports, seen>>

\* await sleep(stepMs)
Sleep ==
    /\ pc = "read" /\ turn \notin W
    /\ pc' = "sleep"
    /\ wake' = now + Step
    /\ UNCHANGED <<now, turn, pageVars, reports, seen>>

\* Mutant: the sampler waits for the page to change, no longer for a timer
WakeOnChange ==
    /\ pc = "sleep" /\ now >= wake
    /\ \E w \in W : seen[w] < Len(shown[w])
    /\ pc' = "loop"
    /\ UNCHANGED <<now, turn, wake, pageVars, reports, seen>>

Wake ==
    /\ pc = "sleep" /\ now >= wake
    /\ pc' = "loop"
    /\ UNCHANGED <<now, turn, wake, pageVars, reports, seen>>

-----------------------------------------------------------------------------
(* The page *)

\* Mutant: the sampler awaits between two watches
YieldedBetween == pc \in {"sleep", "read"}

\* Scripts run to completion: others run while the sampler awaits
Yielded == pc = "sleep"

\* A task of the page changes what some watches read
Change ==
    /\ Yielded /\ tasks < MaxChanges
    /\ tasks' = tasks + 1
    /\ \E values \in [W -> Values] \ {page} :
         /\ page' = values
         /\ shown' = [w \in W |->
                        IF values[w] = page[w] THEN shown[w]
                        ELSE Append(shown[w], [t |-> now, task |-> tasks', v |-> values[w]])]
    /\ UNCHANGED <<now, pc, turn, wake, reports, seen>>

\* Time passes while the sampler sleeps
Tick ==
    /\ pc = "sleep" /\ now < wake + MaxLag
    /\ now' = now + 1
    /\ UNCHANGED <<pc, turn, wake, pageVars, reports, seen>>

\* The page navigates away or reloads while the sampler awaits: its script goes
\* with the document, and the evaluation ends with an error
Leaves ==
    /\ pc = "sleep"
    /\ pc' = "failed"
    /\ UNCHANGED <<now, turn, wake, pageVars, reports, seen>>

Returned == pc \in {"done", "failed"} /\ UNCHANGED probeVars

ProbeNext == Loop \/ Read \/ Throws \/ Sleep \/ Wake \/ Change \/ Tick \/ Leaves \/ Returned

ProbeSpec == ProbeInit /\ [][ProbeNext]_probeVars

\* The script runs, time passes and timers fire: the page does not block its thread
FairProbe == ProbeSpec /\ WF_probeVars(Loop \/ Read \/ Sleep \/ Wake) /\ SF_probeVars(Tick)

-----------------------------------------------------------------------------

\* The values that a watch went through, as its transitions tr tell
Path(first, tr) ==
    [i \in 1..(Len(tr) + 1) |-> IF i = 1 THEN first ELSE tr[i - 1].to]

\* The transitions lead from the first of the distinct values d to v, each from where
\* the one before ended, in order of time, and d has each value on the way once.
IsAPath(d, tr, v) ==
    LET path == Path(d[1], tr)
    IN  /\ \A i \in DOMAIN tr : tr[i].from = path[i] /\ tr[i].to # path[i]
        /\ \A i, j \in DOMAIN tr : i < j => tr[i].t <= tr[j].t
        /\ path[Len(tr) + 1] = v
        /\ Elements(d) = Elements(path)
        /\ \A i, j \in DOMAIN d : d[i] = d[j] => i = j

\* "distinct values and timed transitions per spec" (main.go:672-673): each report is
\* a path from the first value of the watch to the last one that was read.
ReportIsAPath ==
    \A w \in W : distinct[w] # <<>> => IsAPath(distinct[w], transitions[w], last[w])

\* The first n values of s were shown each for longer than the sampler may sleep.
Slow(s, n) == \A i \in 2..n : s[i].t > s[i - 1].t + MaxGap

\* The transitions tr are the changes between the first n values of s, each with a
\* time that is late by at most the sleep of the sampler.
InFull(s, n, tr) ==
    /\ Len(tr) = n - 1
    /\ \A i \in DOMAIN tr :
         /\ tr[i].from = s[i].v /\ tr[i].to = s[i + 1].v
         /\ tr[i].t \in s[i + 1].t .. (s[i + 1].t + MaxGap)

\* What a slow page shows is reported in full: every value and every change up to the
\* last reading.
SlowPageIsReported ==
    \A w \in W : seen[w] > 0 /\ Slow(shown[w], seen[w]) => InFull(shown[w], seen[w], transitions[w])

\* The two values of transition e were in s, in this order, the second at its time.
WasShown(s, e) ==
    \E i, j \in DOMAIN s :
        /\ i < j /\ s[i].v = e.from /\ s[j].v = e.to
        /\ s[j].t <= e.t
        /\ j = Len(s) \/ e.t <= s[j + 1].t

\* A fast page may be reported in part, but a transition is never made up: its two
\* values were shown in this order, the second when it was noted.
NothingMadeUp ==
    \A w \in W : \A k \in DOMAIN transitions[w] : WasShown(shown[w], transitions[w][k])

\* All watches are read in one task of the page: two that always change together
\* are reported alike between two readings.
WatchesAgree ==
    pc \notin {"read", "failed"} =>
        \A w, x \in W : shown[w] = shown[x] => transitions[w] = transitions[x]

\* The sampler ends, with a report or with an error, however late its timers are
\* and however the values change, as long as the page does not block its thread
\* (then the deadline of the evaluation ends it).
ProbeReturns == <>(pc \in {"done", "failed"})
=============================================================================
