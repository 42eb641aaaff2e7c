------------------------------- MODULE Exchange -------------------------------
(***************************************************************************)
(* A command of the client (cmd/gpu-browser), its request, and the handler  *)
(* that works on it, with the time each of them waits.  The client gives up *)
(* after its own limit; nobody tells the handler, which ends by the         *)
(* deadline of its operation, and the next command runs beside it.          *)
(***************************************************************************)
EXTENDS Naturals

CONSTANTS
    Commands,       \* commands of the caller: records, see CommandType
    Slots,          \* bound: handlers in flight at a time; the code has none
    NoSlot,         \* no request is waited for
    ClientLimit,    \* http.Client.Timeout, and the other limits, in units of time
    DefaultLimit,   \* timeout of a screenshot or an eval that names none
    ProbeRoom,      \* what the probe adds to its window
    CaptureBuffer,  \* captureTimeoutBuffer
    LaunchLimit     \* the timer of a launch of Chrome, which the sweep before it has not

CommandType == [name : {"healthz", "screenshot", "eval", "probe", "burst"},
                window : Nat, settle : Nat]

ASSUME CommandsAssumption == Commands \subseteq CommandType /\ Commands # {}
ASSUME SlotsAssumption == NoSlot \notin Slots
ASSUME LimitsAssumption ==
    /\ ClientLimit \in Nat \ {0} /\ DefaultLimit \in Nat \ {0}
    /\ ProbeRoom \in Nat \ {0} /\ CaptureBuffer \in Nat \ {0} /\ LaunchLimit \in Nat \ {0}

VARIABLES
    work,    \* the handler in each slot
    client,  \* the slot whose reply the client waits for
    up       \* Chrome runs

exVars == <<work, client, up>>

-----------------------------------------------------------------------------
(* Limits *)

\* The timeout_ms a command sends; 0: none
TimeoutSent(cmd) == IF cmd.name = "probe" THEN cmd.window + ProbeRoom ELSE 0

\* Mutant: the settle time of a burst is forgotten
DeadlineUnsettled(cmd) ==
    LET sent == TimeoutSent(cmd)
    IN  IF cmd.name = "burst"
        THEN IF sent < cmd.window + CaptureBuffer THEN cmd.window + CaptureBuffer ELSE sent
        ELSE IF sent > 0 THEN sent ELSE DefaultLimit

\* Mutant: a screenshot or an eval has the time of a burst
DeadlineGenerous(cmd) ==
    LET needed == cmd.window + cmd.settle + CaptureBuffer
    IN  IF cmd.name = "burst" THEN needed ELSE needed + DefaultLimit

\* The deadline of the operation, from when it has its tab
Deadline(cmd) ==
    LET sent == TimeoutSent(cmd)
        needed == cmd.window + cmd.settle + CaptureBuffer
    IN  IF cmd.name = "burst"
        THEN IF sent < needed THEN needed ELSE sent
        ELSE IF sent > 0 THEN sent ELSE DefaultLimit

\* The time an operation sleeps, for a burst with the interval after its last frame,
\* which the code leaves out: the rest of its time is the page's
Sleeps(cmd) == cmd.window + cmd.settle

-----------------------------------------------------------------------------

\* age: since the request was sent, for as long as the client waits; spent: in its
\* launch, once it has swept; page, slept: in its tab; delayed: it had to wait for Chrome
Fresh(cmd) == [stage |-> "line", cmd |-> cmd, age |-> 0, spent |-> 0, page |-> 0,
               slept |-> 0, delayed |-> FALSE]
Nothing == [Fresh(CHOOSE cmd \in Commands : TRUE) EXCEPT !.stage = "none"]

\* Every variable keeps its type; nobody works past the deadline of the operation
\* or the timer of the launch, or waits past the limit of the client.  How long a
\* handler waits for the mutex, or sweeps, is not limited.
ExchangeTypeOK ==
    /\ client \in Slots \cup {NoSlot} /\ up \in BOOLEAN
    /\ \A s \in Slots :
         /\ work[s].stage \in {"none", "line", "sweep", "launch", "run"}
         /\ work[s].cmd \in Commands /\ work[s].delayed \in BOOLEAN
         /\ work[s].age \in 0..ClientLimit /\ work[s].spent \in 0..LaunchLimit
         /\ work[s].page + work[s].slept \in 0..Deadline(work[s].cmd)
         /\ work[s].slept <= Sleeps(work[s].cmd)
         /\ client = s => work[s].stage # "none"

ExInit ==
    /\ work = [s \in Slots |-> Nothing]
    /\ client = NoSlot
    /\ up \in BOOLEAN

Timed(s) == work[s].cmd.name # "healthz"
Launching == \E s \in Slots : work[s].stage \in {"sweep", "launch"}

\* Mutant: the reply does not reach the client that waits for it
AnswerUnheard(s) ==
    /\ work' = [work EXCEPT ![s] = Nothing]
    /\ UNCHANGED client

\* The handler is done; whoever waits for it gets its status and body
Answer(s) ==
    /\ work' = [work EXCEPT ![s] = Nothing]
    /\ client' = IF client = s THEN NoSlot ELSE client

\* A command with a good command line and a token sends its request
Post(s, cmd) ==
    /\ client = NoSlot /\ work[s].stage = "none"
    /\ work' = [work EXCEPT ![s] = Fresh(cmd)]
    /\ client' = s
    /\ UNCHANGED up

Forget(s) ==
    /\ client = s
    /\ client' = NoSlot
    /\ work' = [work EXCEPT ![s].age = 0]
    /\ UNCHANGED up

\* The limit of http.Client; a GET of healthz has none
GiveUp(s) == Timed(s) /\ work[s].age = ClientLimit /\ Forget(s)

\* The caller ends the command
Interrupt(s) == Forget(s)

\* The handler gets the mutex of the browser: healthz only looks, the others find
\* Chrome, or sweep and launch it while they hold the mutex
Enter(s) ==
    /\ work[s].stage = "line" /\ ~Launching
    /\ IF Timed(s)
       THEN /\ work' = [work EXCEPT ![s].stage = IF up THEN "run" ELSE "sweep"]
            /\ UNCHANGED client
       ELSE Answer(s)
    /\ UNCHANGED up

\* The PowerShell of killStaleChrome returns; no timer runs meanwhile
Swept(s) ==
    /\ work[s].stage = "sweep"
    /\ work' = [work EXCEPT ![s].stage = "launch"]
    /\ UNCHANGED <<client, up>>

Launched(s) ==
    /\ work[s].stage = "launch"
    /\ up' = TRUE
    /\ work' = [work EXCEPT ![s].stage = "run"]
    /\ UNCHANGED client

\* The launch fails
LaunchFails(s) ==
    /\ work[s].stage = "launch"
    /\ Answer(s)
    /\ UNCHANGED up

\* Mutant: a launch that hangs is waited for
LaunchHangs(s) == FALSE /\ LaunchFails(s)

\* The timer of the launch
LaunchExpires(s) == work[s].spent = LaunchLimit /\ LaunchFails(s)

\* All sleeps are over and the page has answered
Complete(s) ==
    /\ work[s].stage = "run" /\ work[s].slept = Sleeps(work[s].cmd)
    /\ Answer(s)
    /\ UNCHANGED up

Expired(s) == work[s].stage = "run" /\ work[s].page + work[s].slept = Deadline(work[s].cmd)

\* Mutant: the deadline is that of the client's request
ExpireAwaited(s) == client = s /\ Expired(s) /\ Answer(s) /\ UNCHANGED up

\* The deadline of the operation passes
Expire(s) == Expired(s) /\ Answer(s) /\ UNCHANGED up

\* An action fails, with Chrome or without
Break(s) == work[s].stage = "run" /\ Answer(s) /\ UNCHANGED up

Crash == up /\ up' = FALSE /\ UNCHANGED <<work, client>>

-----------------------------------------------------------------------------
(* Time *)

\* Limits are kept, and nobody waits for a mutex that is free
Due(s) ==
    \/ work[s].stage = "launch" /\ work[s].spent = LaunchLimit
    \/ Expired(s)
    \/ client = s /\ Timed(s) /\ work[s].age = ClientLimit
    \/ work[s].stage = "line" /\ ~Launching

\* A unit of time passes for a handler: in its tab it sleeps or the page keeps it
Older(s, asleep) ==
    LET one(b) == IF b THEN 1 ELSE 0
        run == work[s].stage = "run"
        held == work[s].stage \in {"line", "sweep", "launch"}
    IN  [work[s] EXCEPT !.age = @ + one(client = s /\ Timed(s)),
                        !.delayed = @ \/ held,
                        !.spent = @ + one(work[s].stage = "launch"),
                        !.slept = @ + one(run /\ asleep),
                        !.page = @ + one(run /\ ~asleep)]

Sleepers == {s \in Slots : work[s].stage = "run" /\ work[s].slept < Sleeps(work[s].cmd)}

Tick ==
    /\ \A s \in Slots : ~Due(s)
    /\ \E asleep \in SUBSET Sleepers : work' = [s \in Slots |-> Older(s, s \in asleep)]
    /\ UNCHANGED <<client, up>>

ExNext ==
    \/ \E s \in Slots :
         \/ \E cmd \in Commands : Post(s, cmd)
         \/ GiveUp(s) \/ Interrupt(s)
         \/ Enter(s) \/ Swept(s) \/ Launched(s) \/ LaunchFails(s) \/ LaunchExpires(s)
         \/ Complete(s) \/ Expire(s) \/ Break(s)
    \/ Crash \/ Tick

ExSpec == ExInit /\ [][ExNext]_exVars

\* An assumption about Windows, as in Supervisor: if a sweep hangs, so do all that
\* wait for the mutex, a healthz for ever
SweepsReturn == \A s \in Slots : WF_exVars(Swept(s))

\* Time passes, timers fire, a mutex that is free again and again is got, and
\* sweeps return; no page, launch or caller is assumed to do anything
FairExchange ==
    /\ ExSpec
    /\ SF_exVars(Tick)
    /\ SweepsReturn
    /\ \A s \in Slots :
         /\ SF_exVars(Enter(s))
         /\ WF_exVars(LaunchExpires(s)) /\ WF_exVars(Expire(s)) /\ WF_exVars(GiveUp(s))

-----------------------------------------------------------------------------

\* A client whose screenshot or eval finds Chrome up outlives the deadline of the
\* operation, so it learns the bridge's own error rather than giving up
\* (main.go:625, browser.go:372, 468).
PatientEnough ==
    \A s \in Slots :
        /\ client = s /\ ~work[s].delayed
        /\ work[s].cmd.name \in {"screenshot", "eval"}
        => work[s].age < ClientLimit

Room(cmd) == IF cmd.name = "burst" THEN CaptureBuffer ELSE ProbeRoom

\* "covering navigation, script, and encoding" (burst.go:38-39): the deadline of a
\* burst, whatever its frames, interval and settle time, or of a probe without a
\* settle time, passes only when the page alone has used up what is added.
WindowHasRoom ==
    \A s \in Slots :
        /\ Expired(s)
        /\ work[s].cmd.name = "burst" \/ (work[s].cmd.name = "probe" /\ work[s].cmd.settle = 0)
        => work[s].page >= Room(work[s].cmd)

\* "give the request room past the 30s eval default so long windows are not cut
\* short" (main.go:537-538): a probe that finds Chrome up and whose page has not
\* used up the room is cut neither by the bridge nor by the client.
LongWindowsNotCut ==
    \A s \in Slots :
        /\ work[s].cmd.name = "probe" /\ ~work[s].delayed /\ work[s].page < ProbeRoom
        => ~Expired(s) /\ ~(client = s /\ work[s].age = ClientLimit)

\* As long as sweeps return, a command ends, also a healthz, which has no limit of
\* its own, behind requests that launch Chrome again and again (main.go:187,
\* browser.go:169).
CommandEnds == \A s \in Slots : client = s ~> client # s

\* As long as sweeps return, work that the client has given up or that was
\* interrupted ends, although nobody tells the handler, and a retry runs beside it
\* (browser.go:205-208, 376-383).
WorkEnds == \A s \in Slots : work[s].stage # "none" ~> work[s].stage = "none"
=============================================================================
