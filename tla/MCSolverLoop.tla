---------------------------- MODULE MCSolverLoop ----------------------------
(* A small instance of the solver for TLC.                                 *)
EXTENDS SolverLoop, TLC

CONSTANT band

TwoByTwo == 1 .. 2
Plain == "plain"
OneLandscape == {Plain}
PlainMerit == (Plain :> [p \in Points |-> 2 * p.layout + p.glass])
NoDrift == (Plain :> {})
\* A band constraint that one layout violates.
BandOnLayout == [p \in Points |-> [j \in {band} |-> IF p.layout = 1 THEN 3 ELSE 0]]
=============================================================================
