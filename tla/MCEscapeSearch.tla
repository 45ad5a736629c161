--------------------------- MODULE MCEscapeSearch ---------------------------
(* Small instances of EscapeSearch.  The designs lie on a line: a and b    *)
(* are in one basin (b the better one), h is in it too, better still and   *)
(* outside the glass hull, g is h repaired, c is a basin of its own and e  *)
(* cannot be evaluated.  An instance uses some of them.                    *)
EXTENDS EscapeSearch, TLC

CONSTANTS a, b, h, g, c, e

Basins == {a, b, c}
OutsideHull == {b, h}
Three == {a, b, h}

Abs(n) == IF n < 0 THEN - n ELSE n
Metric(f) == [x \in Designs |-> [y \in Designs |-> Abs(f[x] - f[y])]]

Position == (a :> 0) @@ (b :> 1) @@ (h :> 2) @@ (g :> 3) @@ (c :> 9) @@ (e :> 20)
Line == Metric(Position)

(* a and b have different fingerprints although they are close. *)
Structure == (a :> 0) @@ (b :> 7) @@ (h :> 1) @@ (g :> 1) @@ (c :> 0) @@ (e :> 0)
Prints == Metric(Structure)

(* A colour merit is on a smaller scale than the merit of the lens. *)
CleanMerit == (a :> 5) @@ (b :> 4) @@ (h :> 3) @@ (g :> 2) @@ (c :> 6) @@ (e :> 7)
EscapeMerit == (a :> 6) @@ (b :> 6) @@ (h :> 4) @@ (g :> 4) @@ (c :> 5) @@ (e :> 5)
ColourMerit == (a :> 1) @@ (b :> 2) @@ (h :> 2) @@ (g :> 2) @@ (c :> 1) @@ (e :> 2)

MCMerits == 1 .. 7
MCMerit == [escape |-> [x \in Designs |-> EscapeMerit[x]],
            clean |-> [x \in Designs |-> CleanMerit[x]],
            glass |-> [x \in Designs |-> ColourMerit[x]]]

(* Explorations that end at b, or at an absurd merit. *)
FromB == [MCMerit EXCEPT !.escape = [x \in Designs |-> IF x = b THEN 6 ELSE 7]]

MCVerdict == [x \in Designs |->
  CASE x = h -> "hull" [] x = e -> "failure" [] OTHER -> "feasible"]

MCSettle == [x \in Designs |-> IF x = a /\ b \in Designs THEN b ELSE x]

Symmetry == Permutations(Workers)
=============================================================================
