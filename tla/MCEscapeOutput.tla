---------------------------- MODULE MCEscapeOutput ----------------------------
(* An instance of the output of a global search for TLC. *)
EXTENDS EscapeOutput, TLC

CONSTANT d

(* The search may record the same design twice: the output cannot tell.    *)
OneDesign == {d}
NoDistance == (d :> (d :> 0))
ThreeMerits == 1 .. 3
=============================================================================
