-------------------------------- MODULE TabRun --------------------------------
(***************************************************************************)
(* The operations of a tab: Screenshot, Eval (browser.go) and Burst         *)
(* (burst.go) each check their body, build a list of actions and run it in  *)
(* a tab of their own, until the list ends, an action fails or the timeout  *)
(* passes.  The tabs share one Chrome, and one of them is in its            *)
(* foreground.  Meanwhile the event goroutine of each tab fills its two     *)
(* sinks (listeners.go), which are copied one after the other at the end.   *)
(***************************************************************************)
EXTENDS Naturals, Sequences, FiniteSets

CONSTANTS
    Callers,       \* requests in the browser
    Anchor,        \* the tab that keeps Chrome alive
    Bodies         \* the request bodies: records, see BodyType

Optional == {"viewport", "ignore", "script", "click", "wait", "settle", "interval"}
Session == {"headers", "cookies", "storage"}
BodyType == [op : {"screenshot", "eval", "burst"}, url : BOOLEAN,
             opts : SUBSET Optional, sess : SUBSET Session, frames : Nat,
             negative : BOOLEAN]  \* interval_ms is below 0

ASSUME BodiesAssumption == Bodies \subseteq BodyType /\ Bodies # {}
ASSUME CallersAssumption == Anchor \notin Callers

VARIABLES
    stage,    \* where the request of each caller is
    body,     \* its body
    pos,      \* the step of its list that comes next
    applied,  \* what its tab has switched on: the network domain, session material
    sent,     \* what was switched on when the page was navigated to
    got,      \* frames captured
    live,     \* every script, click and capture so far ran in the foreground
    alone,    \* no other request was in the browser while it was
    events,   \* events pushed to its sinks: 1 a failed request, 2 the page's log of it
    told,     \* the events that are in the result
    front     \* the tab in the foreground

tabVars == <<stage, body, pos, applied, sent, got, live, alone, events, told, front>>

-----------------------------------------------------------------------------
(* The action lists *)

\* Mutant: session material before the network domain is enabled
StepsDisabled(op) ==
    IF op = "eval"
    THEN <<"headers", "cookies", "storage", "enable", "ignore", "navigate", "front",
           "wait", "click", "settle", "script">>
    ELSE <<"viewport", "ignore", "headers", "cookies", "storage", "enable", "navigate", "front",
           "script", "click", "wait", "settle", "capture", "interval">>

\* Mutant: Eval leaves its tab in the background
StepsInBackground(op) ==
    IF op = "eval"
    THEN <<"enable", "ignore", "headers", "cookies", "storage", "navigate",
           "wait", "click", "settle", "script">>
    ELSE <<"viewport", "ignore", "enable", "headers", "cookies", "storage", "navigate", "front",
           "script", "click", "wait", "settle", "capture", "interval">>

\* Eval, and what Screenshot and Burst have in common; "front" is page.BringToFront.
\* After "interval" comes the next capture, if there is one
Steps(op) ==
    IF op = "eval"
    THEN <<"enable", "ignore", "headers", "cookies", "storage", "navigate", "front",
           "wait", "click", "settle", "script">>
    ELSE <<"viewport", "ignore", "enable", "headers", "cookies", "storage", "navigate", "front",
           "script", "click", "wait", "settle", "capture", "interval">>

\* The checks before newTab
Valid(b) ==
    /\ b.url
    /\ b.op = "eval" => "script" \in b.opts
    /\ b.op = "burst" => b.frames >= 2 /\ ~b.negative

Frames(b) == CASE b.op = "screenshot" -> 1 [] b.op = "eval" -> 0 [] b.op = "burst" -> b.frames

-----------------------------------------------------------------------------

Switches == Session \cup {"enable"}

\* Every variable keeps its type.
TabTypeOK ==
    /\ stage \in [Callers -> {"idle", "run", "snap", "ok", "error"}]
    /\ body \in [Callers -> Bodies]
    /\ pos \in [Callers -> 1..15] /\ got \in [Callers -> Nat]
    /\ applied \in [Callers -> SUBSET Switches]
    /\ sent \in [Callers -> SUBSET Switches]
    /\ live \in [Callers -> BOOLEAN] /\ alone \in [Callers -> BOOLEAN]
    /\ events \in [Callers -> 0..2]
    /\ told \in [Callers -> SUBSET {"failed", "console"}]
    /\ front \in Callers \cup {Anchor}

NoBody == CHOOSE b \in Bodies : TRUE

TabInit ==
    /\ stage = [c \in Callers |-> "idle"]
    /\ body = [c \in Callers |-> NoBody]
    /\ pos = [c \in Callers |-> 1] /\ got = [c \in Callers |-> 0]
    /\ applied = [c \in Callers |-> {}] /\ sent = [c \in Callers |-> {}]
    /\ live = [c \in Callers |-> TRUE] /\ alone = [c \in Callers |-> TRUE]
    /\ events = [c \in Callers |-> 0] /\ told = [c \in Callers |-> {}]
    /\ front = Anchor

Running(c) == stage[c] = "run"

\* The handler calls the operation: a bad body is an error, a good one gets a tab
Call(c) ==
    /\ stage[c] = "idle"
    /\ \E b \in Bodies :
         /\ body' = [body EXCEPT ![c] = b]
         /\ stage' = [stage EXCEPT ![c] = IF Valid(b) THEN "run" ELSE "error"]
    /\ LET crowd == {d \in Callers \ {c} : stage[d] # "idle"}
       IN  alone' = [d \in Callers |-> IF d = c \/ d \in crowd THEN crowd = {} ELSE alone[d]]
    /\ UNCHANGED <<pos, applied, sent, got, live, events, told, front>>

Todo(c) == Running(c) /\ pos[c] \in DOMAIN Steps(body[c].op)
At(c, S) == Todo(c) /\ Steps(body[c].op)[pos[c]] \in S
Doing(c) == Steps(body[c].op)[pos[c]]

\* Options and session material that the body does not have are not in the list
Wanted(c) == Doing(c) \in Optional \cup Session => Doing(c) \in body[c].opts \cup body[c].sess
Did(c) == pos' = [pos EXCEPT ![c] = @ + 1]

\* network.Enable, AddScriptToEvaluateOnNewDocument; and the network domain's
\* setters, which take effect only once it is enabled
Apply(c) ==
    /\ At(c, Switches) /\ Wanted(c)
    /\ LET works == Doing(c) \in {"enable", "storage"} \/ "enable" \in applied[c]
       IN  applied' = [applied EXCEPT ![c] = @ \cup (IF works THEN {Doing(c)} ELSE {})]
    /\ Did(c)
    /\ UNCHANGED <<stage, body, sent, got, live, alone, events, told, front>>

\* The page loads with what its tab has switched on
Navigate(c) ==
    /\ At(c, {"navigate"})
    /\ sent' = [sent EXCEPT ![c] = applied[c]]
    /\ Did(c)
    /\ UNCHANGED <<stage, body, applied, got, live, alone, events, told, front>>

BringToFront(c) ==
    /\ At(c, {"front"})
    /\ front' = c
    /\ Did(c)
    /\ UNCHANGED <<stage, body, applied, sent, got, live, alone, events, told>>

\* A script or a click in a background tab observes a frozen page, or never
\* returns (then only Timeout ends it)
Interact(c) ==
    /\ At(c, {"script", "click"}) /\ Wanted(c)
    /\ live' = [live EXCEPT ![c] = @ /\ front = c]
    /\ Did(c)
    /\ UNCHANGED <<stage, body, applied, sent, got, alone, events, told, front>>

\* Mutant: the loop ends one frame early
CaptureShort(c) ==
    /\ At(c, {"capture"})
    /\ live' = [live EXCEPT ![c] = @ /\ front = c]
    /\ got' = [got EXCEPT ![c] = @ + 1]
    /\ pos' = [pos EXCEPT ![c] = IF got'[c] + 1 < Frames(body[c]) THEN @ + 1 ELSE @ + 2]
    /\ UNCHANGED <<stage, body, applied, sent, alone, events, told, front>>

\* So does a capture; the last one ends the list
Capture(c) ==
    /\ At(c, {"capture"})
    /\ live' = [live EXCEPT ![c] = @ /\ front = c]
    /\ got' = [got EXCEPT ![c] = @ + 1]
    /\ pos' = [pos EXCEPT ![c] = IF got'[c] < Frames(body[c]) THEN @ + 1 ELSE @ + 2]
    /\ UNCHANGED <<stage, body, applied, sent, alone, events, told, front>>

\* Mutant: frames are counted from zero, steps are not
NextFrameFromZero(c) ==
    /\ At(c, {"interval"})
    /\ pos' = [pos EXCEPT ![c] = 0]
    /\ UNCHANGED <<stage, body, applied, sent, got, live, alone, events, told, front>>

\* The sleep between two captures, if an interval is given
NextFrame(c) ==
    /\ At(c, {"interval"})
    /\ pos' = [pos EXCEPT ![c] = @ - 1]
    /\ UNCHANGED <<stage, body, applied, sent, got, live, alone, events, told, front>>

\* Emulation, certificate policy and waits, and what the body does not ask for
Pass(c) ==
    /\ Todo(c) /\ Doing(c) # "interval"
    /\ Doing(c) \in {"viewport", "ignore", "wait", "settle"} \/ ~Wanted(c)
    /\ Did(c)
    /\ UNCHANGED <<stage, body, applied, sent, got, live, alone, events, told, front>>

-----------------------------------------------------------------------------
(* Events and results *)

\* The event goroutine of the tab pushes what the page emits, in order: here a
\* request that fails, then the page's log of it
Push(c) ==
    /\ stage[c] \in {"run", "snap"} /\ sent[c] # {}
    /\ events[c] < 2
    /\ events' = [events EXCEPT ![c] = @ + 1]
    /\ UNCHANGED <<stage, body, pos, applied, sent, got, live, alone, told, front>>

\* Network events reach the sinks of a tab whose network domain is enabled
InSink(c, sink) ==
    CASE sink = "console" -> events[c] = 2
      [] sink = "failed" -> events[c] >= 1 /\ "enable" \in sent[c]

\* Mutant: the failed requests are copied first
FailedFirst == <<"failed", "console">>

\* The order in which the sinks are copied
SnapshotOrder == <<"console", "failed">>

Snapshot(c, i) ==
    told' = [told EXCEPT ![c] = @ \cup {s \in {SnapshotOrder[i]} : InSink(c, s)}]

\* The list is done: the result is built from what the actions stored, with
\* console.snapshot()
ConsoleSnapshot(c) ==
    /\ Running(c) /\ ~Todo(c)
    /\ stage' = [stage EXCEPT ![c] = "snap"]
    /\ Snapshot(c, 1)
    /\ UNCHANGED <<body, pos, applied, sent, got, live, alone, events, front>>

\* and then failed.snapshot()
FailedSnapshot(c) ==
    /\ stage[c] = "snap"
    /\ stage' = [stage EXCEPT ![c] = "ok"]
    /\ Snapshot(c, 2)
    /\ UNCHANGED <<body, pos, applied, sent, got, live, alone, events, front>>

\* An action returns an error, Chrome is gone, or the analysis of a burst
\* rejects a frame
Fail(c) ==
    /\ Running(c)
    /\ IF Todo(c) THEN Wanted(c) ELSE body[c].op = "burst"
    /\ stage' = [stage EXCEPT ![c] = "error"]
    /\ UNCHANGED <<body, pos, applied, sent, got, live, alone, events, told, front>>

\* The deadline of runCtx passes, whatever the current action waits for
Timeout(c) ==
    /\ Todo(c)
    /\ stage' = [stage EXCEPT ![c] = "error"]
    /\ UNCHANGED <<body, pos, applied, sent, got, live, alone, events, told, front>>

\* The deferred cancelTab, then the reply; Chrome foregrounds some other tab
CloseTab(c) ==
    /\ stage[c] \in {"ok", "error"}
    /\ stage' = [stage EXCEPT ![c] = "idle"]
    /\ \/ front # c /\ UNCHANGED front
       \/ front = c /\ front' \in {Anchor} \cup {d \in Callers : stage[d] \in {"run", "snap"}}
    /\ body' = [body EXCEPT ![c] = NoBody]
    /\ pos' = [pos EXCEPT ![c] = 1] /\ got' = [got EXCEPT ![c] = 0]
    /\ applied' = [applied EXCEPT ![c] = {}] /\ sent' = [sent EXCEPT ![c] = {}]
    /\ live' = [live EXCEPT ![c] = TRUE] /\ alone' = [alone EXCEPT ![c] = TRUE]
    /\ events' = [events EXCEPT ![c] = 0] /\ told' = [told EXCEPT ![c] = {}]

Step(c) ==
    \/ Apply(c) \/ Navigate(c) \/ BringToFront(c) \/ Interact(c)
    \/ Capture(c) \/ NextFrame(c) \/ Pass(c)

TabNext ==
    \E c \in Callers :
        \/ Call(c) \/ Step(c) \/ Push(c) \/ ConsoleSnapshot(c) \/ FailedSnapshot(c)
        \/ Fail(c) \/ Timeout(c) \/ CloseTab(c)

TabSpec == TabInit /\ [][TabNext]_tabVars

-----------------------------------------------------------------------------

\* "They MUST run after network.Enable() and before chromedp.Navigate"
\* (browser.go:264): a page whose result is returned was loaded with all of the
\* request's session material, and with its network events on.
SessionBeforeNavigate ==
    \A c \in Callers : stage[c] = "ok" => sent[c] = body[c].sess \cup {"enable"}

\* A result holds every frame that was asked for, and no other: neither a bad body
\* (no url, fewer than two frames, a negative interval, no script to evaluate) nor
\* a list that stopped early gives a result (burst.go:126-134, 188-207).
ResultComplete ==
    \A c \in Callers : stage[c] = "ok" => Valid(body[c]) /\ got[c] = Frames(body[c])

\* The two sinks are copied one after the other while events still arrive: a
\* result that holds the page's log of a failed request holds the failed request
\* (browser.go:438-439, 519-520, burst.go:213-214).
CauseReported ==
    \A c \in Callers : stage[c] = "ok" /\ "console" \in told[c] => "failed" \in told[c]

\* "headless Chrome does not composite background tabs" (browser.go:400-401): what
\* the result of a request that had the browser for itself observed, it observed
\* in the foreground, whatever earlier requests left there.
ObservedWhenAlone == \A c \in Callers : stage[c] = "ok" /\ alone[c] => live[c]

\* "run on the foregrounded tab so its rAF is live" (browser.go:407): what a
\* returned result observed, it observed in the foreground.
ObservedInFront == \A c \in Callers : stage[c] = "ok" => live[c]
=============================================================================
