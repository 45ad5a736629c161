--------------------------- MODULE MCResourceGuard ---------------------------
(* Instances of the resource guard for TLC. *)
EXTENDS ResourceGuard

(* The heap backstop needs one breach more than the OS pressure level.     *)
TwoReasons == [memory_pressure |-> 2, heap_ceiling |-> 3]

(* Below and above the ceiling; the larger live heap leaves less room to   *)
(* tighten.                                                                *)
TwoHeaps == {[sys |-> 200, live |-> 80], [sys |-> 260, live |-> 100]}
=============================================================================
