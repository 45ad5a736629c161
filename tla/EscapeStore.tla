----------------------------- MODULE EscapeStore -----------------------------
(***************************************************************************)
(* The collection of recorded local minima that all workers of a global    *)
(* search share (internal/escape/store.go).  A design is an opaque value:  *)
(* what the store can tell of two designs is how far apart they are in     *)
(* variable space and in fingerprint space.  Each operator on `points` is  *)
(* one critical section of the store's lock.                               *)
(***************************************************************************)
EXTENDS Integers, Sequences

CONSTANTS
  Designs,   \* the variable vectors a solve can stop at
  Dist,      \* Dist[x][y]: normalised distance in variable space
  Dt,        \* distance_threshold
  FpDist,    \* FpDist[x][y]: distance of the design fingerprints
  DtFp,      \* fingerprint_distance_threshold, 0 when the criterion is off
  Merits     \* the values a merit can have

ASSUME StoreAssumption ==
  /\ Dist \in [Designs -> [Designs -> Nat]]
  /\ FpDist \in [Designs -> [Designs -> Nat]]
  /\ Dt \in Nat
  /\ DtFp \in Nat
  /\ Merits \subseteq Nat

VARIABLE points   \* the recorded points, in discovery order

(* How validation classifies a design.  A "hull" design is an infeasible   *)
(* basin whose reason is the glass hull, the only reason the search acts   *)
(* on; a "failure" could not be evaluated.                                 *)
Recordable == {"feasible", "hull", "infeasible"}
Verdicts == Recordable \cup {"failure"}

(* H and W grow by a fixed factor at every Strengthen, so the number of    *)
(* times a bump was strengthened determines both.                          *)
Point == [x : Designs, merit : Merits, status : Recordable,
          version : Nat, strengthened : Nat]

Indices == 1 .. Len(points)

(* Close in variable space and, when the criterion is on, in fingerprint   *)
(* space as well.                                                          *)
SameAs(x, y) ==
  /\ Dist[x][y] < Dt
  /\ DtFp > 0 => FpDist[x][y] < DtFp

(* The recorded point closest in variable space, the first one on a tie.   *)
IsNearest(x, i) ==
  /\ i \in Indices
  /\ \A j \in Indices : Dist[x][points[i].x] <= Dist[x][points[j].x]
  /\ \A j \in 1 .. i - 1 : Dist[x][points[i].x] < Dist[x][points[j].x]

(* A store that answers at the first recorded point that differs.          *)
IsNewToSome(x) ==
  points = << >> \/ \E i \in Indices : ~ SameAs(x, points[i].x)

IsNew(x) == \A i \in Indices : ~ SameAs(x, points[i].x)

StoreInit == points = << >>

(* The caller is responsible for having asked IsNew: Add asks nothing.     *)
Add(x, m, st) ==
  points' = Append(points, [x |-> x, merit |-> m, status |-> st,
                            version |-> 0, strengthened |-> 0])

Strengthen(i) ==
  points' = [points EXCEPT ![i].strengthened = @ + 1]

(* The better design and its merit under the next version; classification *)
(* and bump stay.  Two ways to get it wrong: to store the new point whole, *)
(* its initial bump included, and to forget the version of the saved files.*)
ImprovedWhole(p, x, m) ==
  [x |-> x, merit |-> m, status |-> p.status,
   version |-> p.version + 1, strengthened |-> 0]

ImprovedUnversioned(p, x, m) ==
  [x |-> x, merit |-> m, status |-> p.status,
   version |-> p.version, strengthened |-> p.strengthened]

Improved(p, x, m) ==
  [x |-> x, merit |-> m, status |-> p.status,
   version |-> p.version + 1, strengthened |-> p.strengthened]

(* Only a lower merit replaces; and a store that takes the latest design.  *)
ReplaceByLatest(i, x, m) ==
  points' = [points EXCEPT ![i] = Improved(@, x, m)]

Replace(i, x, m) ==
  points' = IF m < points[i].merit
              THEN [points EXCEPT ![i] = Improved(@, x, m)]
              ELSE points

(* The split of the finished store: what is reported as a solution, and    *)
(* the solution of lowest merit (equal merits are ordered arbitrarily).    *)
Listed == {i \in Indices : points[i].status = "feasible"}

(* The first solution found instead of the best. *)
IsFirst(i) == i \in Listed /\ \A j \in Listed : i <= j

IsBest(i) ==
  /\ i \in Listed
  /\ \A j \in Listed : points[i].merit <= points[j].merit

TypeOKStore == points \in Seq(Point)
=============================================================================
