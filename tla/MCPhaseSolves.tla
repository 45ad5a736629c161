--------------------------- MODULE MCPhaseSolves ---------------------------
(* A small instance of the solves of a cycle for TLC.                      *)
EXTENDS PhaseSolves, TLC

CONSTANT band

TwoByTwo == 1 .. 2
StartPoint == [layout |-> 1, glass |-> 1]
AllLandscapes == {"bumped", "colour", "plain", "late"}
JustBumped == {"bumped"}
JustColour == {"colour"}
JustPlain == {"plain"}
NoBumps == [l \in AllLandscapes |-> IF l = "bumped" THEN "plain" ELSE l]
\* The layout decides the plain merit, the glass the colour one; the bump sits
\* on the start point, and later weights turn the plain merit around.
PlainMerit(p) == 6 * p.layout + p.glass
Merits == [l \in AllLandscapes |-> [p \in Points |->
             CASE l = "bumped" -> IF p = StartPoint THEN 20 ELSE PlainMerit(p)
               [] l = "plain"  -> PlainMerit(p)
               [] l = "colour" -> 4 - p.glass
               [] l = "late"   -> 21 - 6 * p.layout]]
PlainTurnsLate == [l \in AllLandscapes |-> IF l = "plain" THEN {"late"} ELSE {}]
BandOnLayout == [p \in Points |-> [j \in {band} |-> IF p.layout = 1 THEN 3 ELSE 0]]
\* On the penalised scale the other layout is the better one.
PenaltyOnLayout == [p \in Points |-> IF p.layout = 1 THEN 8 ELSE 0]
\* Giving way to a new glass moves the layout.
LayoutGivesWay == [p \in Points |-> [p EXCEPT !.layout = IF p.glass = 2 THEN 2 ELSE @]]
PlainConfig == [noEscape |-> FALSE, stallDone |-> TRUE, regional |-> FALSE, constrained |-> FALSE]
RegionConfig == [noEscape |-> FALSE, stallDone |-> FALSE, regional |-> TRUE, constrained |-> TRUE]
SomeConfigs == {<<PlainConfig, 2, FALSE, TRUE, FALSE>>, <<PlainConfig, 2, TRUE, FALSE, FALSE>>,
                <<RegionConfig, 1, FALSE, FALSE, FALSE>>, <<RegionConfig, 1, TRUE, TRUE, TRUE>>}
=============================================================================
