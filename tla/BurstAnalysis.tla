---------------------------- MODULE BurstAnalysis ----------------------------
(***************************************************************************)
(* What Burst concludes from its frames (internal/browser/burst.go):        *)
(* analyzeFrames and the functions below it.  Frames arrive one by one, and *)
(* at some point the burst is over and they are analyzed.  A frame gives    *)
(* every pixel a level, the difference of levels standing for the largest   *)
(* of the three channels.  Percentages and means are exact: what the code   *)
(* computes in floats is compared here by cross-multiplication.             *)
(***************************************************************************)
EXTENDS Integers, Sequences, FiniteSets, FiniteSetsExt

CONSTANTS
    Width, Height,  \* the frame, in pixels
    Levels,         \* levels a pixel may have
    NoRegion,       \* value of region when the request has none
    Unreadable,     \* frames that are empty or do not decode
    Scenarios       \* bursts of some page: records, see ScenarioType

Pixels == (0..Width - 1) \X (0..Height - 1)

\* What the request says, the pictures its page may show, and the milliseconds
\* that may pass between two captures
ScenarioType ==
    [region : [x : Int, y : Int, w : Int, h : Int] \cup {NoRegion},
     threshold : Nat, frames : Nat \ {0, 1},
     pictures : SUBSET ([Pixels -> Levels] \cup Unreadable), delays : SUBSET Nat]

ASSUME FrameAssumption == Width \in Nat \ {0} /\ Height \in Nat \ {0} /\ Levels \subseteq Nat
ASSUME ScenariosAssumption ==
    /\ Scenarios \subseteq ScenarioType
    /\ \A sc \in Scenarios : sc.pictures # {} /\ sc.delays # {}

VARIABLES
    req,     \* the scenario
    frames,  \* the frames captured so far
    delays,  \* the milliseconds before each frame but the first
    status,  \* capturing, answered, or an error
    result   \* the BurstResult, empty until answered

burstVars == <<req, frames, delays, status, result>>

pixelTol == 8
defaultFlickerThresholdPct == 2
oscillationMinGaps == 3

-----------------------------------------------------------------------------
(* The region: image.Rect orders its corners, Intersect and Empty are exact *)

Least(a, b) == IF a < b THEN a ELSE b
Most(a, b) == IF a < b THEN b ELSE a

\* Mutant: w and h are taken for the far corner
CropOfCorners(r) ==
    [x0 |-> Most(0, Least(r.x, r.w)), y0 |-> Most(0, Least(r.y, r.h)),
     x1 |-> Least(Width, Most(r.x, r.w)), y1 |-> Least(Height, Most(r.y, r.h))]

Crop(r) ==
    [x0 |-> Most(0, Least(r.x, r.x + r.w)), y0 |-> Most(0, Least(r.y, r.y + r.h)),
     x1 |-> Least(Width, Most(r.x, r.x + r.w)), y1 |-> Least(Height, Most(r.y, r.y + r.h))]

\* The rectangle that is diffed
Rect(r) ==
    IF r = NoRegion THEN [x0 |-> 0, y0 |-> 0, x1 |-> Width, y1 |-> Height] ELSE Crop(r)

Empty(rect) == rect.x0 >= rect.x1 \/ rect.y0 >= rect.y1
Inside(rect) == (rect.x0..rect.x1 - 1) \X (rect.y0..rect.y1 - 1)
Echo(rect) == <<rect.x0, rect.y0, rect.x1 - rect.x0, rect.y1 - rect.y0>>

-----------------------------------------------------------------------------
(* The diff series: for each pair of frames, how many pixels changed *)

Far(a, b) == a - b > pixelTol \/ b - a > pixelTol

\* Mutant: every frame is compared with the first
SeriesFromFirst(fs, rect) ==
    [i \in 1..Len(fs) - 1 |-> Cardinality({p \in Inside(rect) : Far(fs[1][p], fs[i + 1][p])})]

\* Mutant: the diff runs over the whole frame
SeriesUncropped(fs, rect) ==
    [i \in 1..Len(fs) - 1 |-> Cardinality({p \in Pixels : Far(fs[i][p], fs[i + 1][p])})]

Series(fs, rect) ==
    [i \in 1..Len(fs) - 1 |-> Cardinality({p \in Inside(rect) : Far(fs[i][p], fs[i + 1][p])})]

\* The sum of the values of f is the number of pairs of an argument and a positive
\* number up to its value.
Pairs(f) == UNION {{i} \X (1..f[i]) : i \in DOMAIN f}
Total(f) == Cardinality(Pairs(f))

\* sorted[len / 2], the upper one of two middle values
Median(f) ==
    LET half == Cardinality(DOMAIN f) \div 2
    IN  CHOOSE m \in {f[i] : i \in DOMAIN f} :
            /\ Cardinality({i \in DOMAIN f : f[i] < m}) <= half
            /\ Cardinality({i \in DOMAIN f : f[i] <= m}) > half

\* round1 of a percentage num / den, in tenths
round1(num, den) == (20 * num + den) \div (2 * den)

-----------------------------------------------------------------------------
(* detectOscillation *)

\* Rising crossings of the mean
Events(s) ==
    {i \in 2..Len(s) : s[i - 1] * Len(s) < Total(s) /\ s[i] * Len(s) >= Total(s)}

Gaps(events) ==
    [e \in events \ {Min(events)} |-> e - Max({d \in events : d < e})]

Squares(f) == [i \in DOMAIN f |-> f[i] * f[i]]

\* Mutant: two events are enough
RegularFromOne(gaps) ==
    LET n == Cardinality(DOMAIN gaps)
    IN  n >= 1 /\ 4 * n * Total(Squares(gaps)) <= 5 * Total(gaps) * Total(gaps)

\* Enough gaps, and a coefficient of variation of at most 1/2: the variance is
\* the mean of the squares minus the square of the mean
Regular(gaps) ==
    LET n == Cardinality(DOMAIN gaps)
    IN  /\ n >= oscillationMinGaps
        /\ 4 * n * Total(Squares(gaps)) <= 5 * Total(gaps) * Total(gaps)

detectOscillation(s, interval) ==
    LET events == Events(s)
        gaps == Gaps(events)
    IN  IF events # {} /\ Regular(gaps)
        THEN [detected |-> TRUE, period |-> Median(gaps) * interval]
        ELSE [detected |-> FALSE, period |-> 0]

-----------------------------------------------------------------------------
(* The summary *)

\* Mutant: a request without a threshold is taken at its word
ThresholdGiven(t) == t

Threshold(t) == IF t <= 0 THEN defaultFlickerThresholdPct ELSE t

Summary(fs, ds, rect, t) ==
    LET s == Series(fs, rect)
        area == Cardinality(Inside(rect))
        top == Max({s[i] : i \in DOMAIN s})
    IN  [region |-> Echo(rect),
         interval |-> Median(ds),
         diffs |-> [i \in DOMAIN s |-> round1(100 * s[i], area)],
         max |-> round1(100 * top, area),
         mean |-> round1(100 * Total(s), area * Len(s)),
         flicker |-> 100 * top >= Threshold(t) * area,
         oscillation |-> detectOscillation(s, Median(ds))]

\* A frame that is empty or does not decode, or a region off the frame
Unusable(fs, r) == (\E i \in DOMAIN fs : fs[i] \in Unreadable) \/ Empty(Rect(r))

-----------------------------------------------------------------------------

Init ==
    /\ req \in Scenarios
    /\ frames = <<>> /\ delays = <<>>
    /\ status = "capturing" /\ result = <<>>

\* The capture loop of Burst; the page shows what it likes
Capture ==
    /\ status = "capturing" /\ Len(frames) < req.frames
    /\ \E f \in req.pictures : frames' = Append(frames, f)
    /\ IF frames = <<>> THEN UNCHANGED delays
                        ELSE \E d \in req.delays : delays' = Append(delays, d)
    /\ UNCHANGED <<req, status, result>>

analyzeFrames ==
    /\ status = "capturing" /\ Len(frames) = req.frames
    /\ IF Unusable(frames, req.region)
       THEN status' = "error" /\ UNCHANGED result
       ELSE /\ status' = "answered"
            /\ result' = Summary(frames, delays, Rect(req.region), req.threshold)
    /\ UNCHANGED <<req, frames, delays>>

\* The burst is over
Over == status # "capturing" /\ UNCHANGED burstVars

Next == Capture \/ analyzeFrames \/ Over

Spec == Init /\ [][Next]_burstVars
-----------------------------------------------------------------------------

Answered == status = "answered"
Error == status = "error"
N == req.frames

\* The pixels a caller asks for with a region of non-negative size
Asked(r) ==
    IF r = NoRegion THEN Pixels
    ELSE {p \in Pixels : /\ r.x <= p[1] /\ p[1] < r.x + r.w
                         /\ r.y <= p[2] /\ p[2] < r.y + r.h}

\* The pixels asked for that move between a frame and the next
Moved(i) == {p \in Asked(req.region) : Far(frames[i][p], frames[i + 1][p])}

\* There is a figure for each pair of frames, a share between none and all
\* (tenths of a percent), no mean above the largest, an interval that was measured.
BurstTypeOK ==
    Answered =>
        /\ DOMAIN result.diffs = 1..N - 1
        /\ \A i \in DOMAIN result.diffs : result.diffs[i] \in 0..result.max
        /\ result.mean \in 0..result.max /\ result.max <= 1000
        /\ result.interval \in req.delays

\* "keeps a static scene reading as 0%" (burst.go:25): when no pixel ever moves
\* by more than the tolerance, every figure is 0 and neither flag is set,
\* whatever threshold the caller gave or did not give.
StaticIsQuiet ==
    Answered /\ (\A i \in 1..N - 1 : \A p \in Pixels : ~Far(frames[i][p], frames[i + 1][p]))
        => result.max = 0 /\ result.mean = 0 /\ ~result.flicker /\ ~result.oscillation.detected

\* "Restricting the diff to (say) just the 3D canvas keeps unrelated chrome
\* repaints from swamping the flicker signal" (burst.go:44-45): every percentage is
\* the share of the pixels asked for that changed, whatever happens around them,
\* and only a region off the frame is an error.
RegionDecides ==
    (req.region = NoRegion \/ (req.region.w >= 0 /\ req.region.h >= 0)) =>
        /\ Error /\ (\A i \in 1..N : frames[i] \notin Unreadable) => Asked(req.region) = {}
        /\ Answered => \A i \in 1..N - 1 :
             result.diffs[i] = round1(100 * Cardinality(Moved(i)), Cardinality(Asked(req.region)))

\* "several cycles" (burst.go:32-34): a detected oscillation was seen over at
\* least nine frames with four rises; its period is at least two frames and fits
\* into the burst, however unevenly the frames were captured.
SeveralCycles ==
    Answered /\ result.oscillation.detected =>
        /\ N >= 9
        /\ LET s == Series(frames, Rect(req.region))
           IN  Cardinality({i \in 2..N - 1 : s[i - 1] < s[i]}) >= 4
        /\ 2 * result.interval <= result.oscillation.period
        /\ result.oscillation.period <= Total(delays)

\* "a periodic redraw loop" (burst.go:329): a scene that stands still but for the
\* same amount of change every p frames, four times over, is found with the
\* period it has.
RedrawLoopIsFound ==
    Answered =>
        \A p \in 2..N, k \in 0..N :
            LET jumps == {i \in 1..N - 1 : i % p = k}
            IN  /\ Cardinality(jumps \ {1}) >= 4
                /\ \A i \in 1..N - 1 : Moved(i) # {} <=> i \in jumps
                /\ \A i, j \in jumps : Cardinality(Moved(i)) = Cardinality(Moved(j))
                => result.oscillation = [detected |-> TRUE, period |-> p * result.interval]

\* "a steady per-frame animation never dips below its mean, so it produces no
\* crossings and is correctly not called an oscillation" (burst.go:334-337): when
\* every frame changes, and all by the same number of pixels but for one, no
\* oscillation is reported.
SteadyIsMotion ==
    Answered /\ (\A i, j \in 1..N - 1 : Moved(i) # {} /\ Cardinality(Moved(i)) <= Cardinality(Moved(j)) + 1)
        => ~result.oscillation.detected
=============================================================================
