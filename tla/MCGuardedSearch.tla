--------------------------- MODULE MCGuardedSearch ---------------------------
(* An instance of the search with its guard.  The designs a and h lie in   *)
(* one basin, h outside the glass hull.                                    *)
EXTENDS GuardedSearch, TLC

CONSTANTS a, h

Two == {a, h}
Near == [x \in Designs |-> [y \in Designs |-> IF x = y THEN 0 ELSE 2]]
Same == [x \in Designs |-> [y \in Designs |-> 0]]

MCMerits == 0 .. 7
MCMerit == [escape |-> (a :> 6) @@ (h :> 4),
            clean |-> (a :> 5) @@ (h :> 3),
            glass |-> (a :> 1) @@ (h :> 2)]
MCVerdict == (a :> "feasible") @@ (h :> "hull")
MCSettle == [x \in Designs |-> x]

(* One trigger; a live heap so large that there is no room to tighten.     *)
OneReason == [memory_pressure |-> 1]
FullHeap == {[sys |-> 200, live |-> 100]}
=============================================================================
