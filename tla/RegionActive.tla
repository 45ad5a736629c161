---------------------------- MODULE RegionActive ----------------------------
(***************************************************************************)
(* The active set of the region-active method and its multipliers:         *)
(* constraint.UpdateActiveSet, SetLambdas and the optimizer's capabilities *)
(* the solver calls (UpdateRegionActiveSet, ActiveConstraintIndices,       *)
(* ConstraintMultipliers, SetConstraintMultipliers).  An inequality enters *)
(* the set above one threshold and may leave it below a smaller one, once  *)
(* its multiplier is small; an equality is always in.  The numbers are     *)
(* integers in units of the smallest violation the method tells from zero. *)
(***************************************************************************)
EXTENDS Integers, FiniteSets

CONSTANTS Constraints, Equality,        \* all constraints; the equalities
          EpsActivate, EpsDeactivate,   \* the hysteresis thresholds
          LambdaStep, MaxLambda,        \* the model's own multiplier update
          LambdaSmall                   \* |lambda| below this is small

ASSUME RegionAssumption ==
  /\ IsFiniteSet(Constraints) /\ Equality \subseteq Constraints
  /\ {EpsActivate, EpsDeactivate, LambdaStep, MaxLambda, LambdaSmall} \subseteq Nat
  /\ EpsActivate > EpsDeactivate /\ LambdaSmall > 0

VARIABLES active,      \* RegionActiveState.Active
          multiplier   \* RegionActiveState.Lambda

regionVars == <<active, multiplier>>

RegionTypeOK == /\ active \subseteq Constraints
                /\ multiplier \in [Constraints -> Int]

RegionInit == /\ active = Equality
              /\ multiplier = [j \in Constraints |-> 0]

\* The inequality j joins the set, or may leave it, at violation v.
Joins(j, v) == j \notin active /\ v > EpsActivate
Leaves(j, v) == /\ j \in active
                /\ v < EpsDeactivate
                /\ multiplier[j] \in (1 - LambdaSmall) .. (LambdaSmall - 1)

\* max(0, lambda + step * v), then capLambda.
Raised(lambda, v) ==
  LET sum == lambda + LambdaStep * v
  IN  IF sum < 0 THEN 0 ELSE IF MaxLambda > 0 /\ sum > MaxLambda THEN MaxLambda ELSE sum

ActiveAfter(violation) ==
  {j \in Constraints : \/ j \in Equality
                       \/ Joins(j, violation[j])
                       \/ j \in active /\ ~Leaves(j, violation[j])}

UpdateActiveSet(violation) ==
  /\ active' = ActiveAfter(violation)
  /\ multiplier' = [j \in Constraints |->
       IF j \in Equality THEN Raised(multiplier[j], violation[j])
       ELSE IF j \notin ActiveAfter(violation)
            THEN IF j \in active THEN 0 ELSE multiplier[j]
            ELSE Raised(IF j \in active THEN multiplier[j] ELSE 0, violation[j])]

\* SetConstraintMultipliers: the solver's values, neither capped nor checked.
SetLambdas(lambdas) == /\ multiplier' = lambdas
                       /\ UNCHANGED active

\* What the solver works on: an empty list of indices means all of them.
WorkingSet(act) == IF act = {} THEN Constraints ELSE act

=============================================================================
