--------------------------- MODULE MCBurstAnalysis ---------------------------
(***************************************************************************)
(* BurstAnalysis on small instances.                                        *)
(***************************************************************************)
EXTENDS BurstAnalysis

CONSTANT Bad  \* a frame that does not decode

Scenario(region, threshold, n, pictures, ds) ==
    [region |-> region, threshold |-> threshold, frames |-> n, pictures |-> pictures, delays |-> ds]

Region(x, y, w, h) == [x |-> x, y |-> y, w |-> w, h |-> h]

Every == [Pixels -> Levels]
Plain == {[p \in Pixels |-> l] : l \in {0, 9}}

\* Inside the frame, over its edges, off it, empty, and turned around
Crops ==
    {NoRegion, Region(0, 0, 9, 9), Region(1, 0, 1, 2), Region(1, 1, 5, 5), Region(-1, -1, 2, 2),
     Region(0, 1, 2, 1), Region(2, 0, 1, 1), Region(0, 0, 0, 2), Region(2, 2, -1, -2)}

\* Two frames of any kind; long bursts of two plain pictures, taken evenly or not
AllScenarios ==
    {Scenario(r, t, 2, Every \cup {Bad}, {40}) : r \in Crops, t \in {0, 60}}
    \cup {Scenario(NoRegion, 0, 9, Plain, {40, 90}), Scenario(NoRegion, 0, 15, Plain, {40})}

\* An animation of two pictures and their variants in one pixel
Dotted == {[p \in Pixels |-> IF p = <<0, 0>> THEN 9 - l ELSE l] : l \in {0, 9}}
Animation == {Scenario(NoRegion, 0, 9, Plain \cup Dotted, {40})}

OnlyBad == {Bad}
=============================================================================
