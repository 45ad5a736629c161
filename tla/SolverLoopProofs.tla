--------------------------- MODULE SolverLoopProofs ---------------------------
(***************************************************************************)
(* What holds of every step of the solver, for any model, any number of    *)
(* variables and workers and any limits.  The facts are about one step of  *)
(* SolverNext, so that they hold of the cycles of PhaseSolves as well.     *)
(***************************************************************************)
EXTENDS SolverLoop, FiniteSetTheorems, TLAPS

-----------------------------------------------------------------------------
(* The sweep.  Every column handed out has been computed or is with a worker *)
(* that will finish it before it leaves; only a stop lets the dispatcher     *)
(* close the channel early, or a worker leave before it is closed.           *)
Handed == \A j \in 1 .. next - 1 : j \in computed \/ \E w \in Crew : at[w] = j
ClosedLate == closed /\ ~stop => next = NumCols + 1
AloneIdle == Alone => \A w \in Workers : at[w] = Waiting
NoneLeftEarly == \A w \in Workers : at[w] = Left => closed \/ stop
SweepInv == SweepTypeOK /\ Handed /\ ClosedLate /\ AloneIdle /\ NoneLeftEarly

LEMMA RestedSweepInv ==
  ASSUME stop \in BOOLEAN, crew \in Workers, Rested
  PROVE  SweepInv
<1>1. SweepTypeOK
  <2>1. NumCols \in Nat /\ 1 \in 1 .. NumCols + 1
    BY SweepAssumption
  <2>2. at \in [Workers -> Columns \cup {Waiting, Left}]
    BY DEF Rested
  <2> QED
    BY <2>1, <2>2 DEF Rested, SweepTypeOK
<1>2. Handed
  BY DEF Rested, Handed
<1> QED
  BY <1>1, <1>2 DEF Rested, SweepInv, ClosedLate, AloneIdle, NoneLeftEarly, Waiting, Left

LEMMA StartSweepInv ==
  ASSUME SweepInv, StartSweep
  PROVE  SweepInv'
<1>1. SweepTypeOK'
  <2>1. NumCols \in Nat /\ 1 \in 1 .. NumCols + 1
    BY SweepAssumption
  <2>2. at' \in [Workers -> Columns \cup {Waiting, Left}]
    BY DEF StartSweep
  <2> QED
    BY <2>1, <2>2 DEF StartSweep, SweepInv, SweepTypeOK
<1>2. Handed'
  BY DEF StartSweep, Handed
<1> QED
  BY <1>1, <1>2 DEF StartSweep, SweepInv, ClosedLate, AloneIdle, NoneLeftEarly, Waiting, Left

LEMMA SweepStepInv ==
  ASSUME SweepInv, SweepStep
  PROVE  SweepInv'
<1> USE SweepAssumption DEF SweepInv, Columns, Waiting, Left
<1>1. ASSUME NEW w \in Workers, HandOver(w)
      PROVE  SweepInv'
  <2> USE <1>1 DEF HandOver, Receives
  <2>1. SweepTypeOK'
    BY DEF SweepTypeOK
  <2>2. Handed'
    <3> SUFFICES ASSUME NEW j \in 1 .. next
                 PROVE  j \in computed \/ \E v \in Crew : at'[v] = j
      BY DEF Handed, SweepTypeOK, Crew
    <3>1. CASE j = next
      BY <3>1 DEF SweepTypeOK
    <3>2. CASE j # next /\ j \notin computed
      <4>1. PICK v \in Crew : at[v] = j
        BY <3>2 DEF Handed, SweepTypeOK
      <4>2. v # w /\ v \in Workers
        BY <4>1 DEF SweepTypeOK, Crew, Workers
      <4> QED
        BY <4>1, <4>2 DEF SweepTypeOK
    <3> QED
      BY <3>1, <3>2
  <2> QED
    BY <2>1, <2>2 DEF ClosedLate, AloneIdle, Alone, NoneLeftEarly, SweepTypeOK
<1>2. ASSUME NEW w \in Workers, ColumnDone(w)
      PROVE  SweepInv'
  <2> USE <1>2 DEF ColumnDone, Works
  <2>1. SweepTypeOK'
    BY DEF SweepTypeOK
  <2>2. Handed'
    BY DEF SweepTypeOK, Handed, Crew, Workers
  <2> QED
    BY <2>1, <2>2 DEF ClosedLate, AloneIdle, Alone, NoneLeftEarly, SweepTypeOK
<1>3. ASSUME NEW w \in Workers, Leave(w)
      PROVE  SweepInv'
  <2> USE <1>3 DEF Leave, MayLeave
  <2>1. SweepTypeOK'
    BY DEF SweepTypeOK
  <2>2. Handed'
    BY DEF SweepTypeOK, Handed, Crew, Workers
  <2> QED
    BY <2>1, <2>2 DEF ClosedLate, AloneIdle, Alone, NoneLeftEarly, SweepTypeOK
<1>4. CASE CloseJobs
  BY <1>4 DEF CloseJobs, MayClose, DispatchOver, SweepTypeOK, Handed, ClosedLate, AloneIdle, NoneLeftEarly, Alone, Crew
<1>5. CASE ColumnAlone
  <2> USE <1>5 DEF ColumnAlone, LoopGoesOn
  <2>1. SweepTypeOK'
    BY DEF SweepTypeOK
  <2>2. Handed'
    BY DEF SweepTypeOK, Handed, Crew
  <2> QED
    BY <2>1, <2>2 DEF ClosedLate, AloneIdle, Alone, NoneLeftEarly, SweepTypeOK
<1> QED
  BY <1>1, <1>2, <1>3, <1>4, <1>5 DEF SweepStep

(* A sweep that returns before any stop has every column. *)
LEMMA SweepIsComplete ==
  ASSUME SweepInv, SweepReturned, ~stop
  PROVE  computed = Columns
<1> USE SweepAssumption DEF SweepInv, Columns, Waiting, Left
<1>1. next = NumCols + 1
  BY DEF SweepReturned, ClosedLate, SweepTypeOK
<1>2. ASSUME NEW w \in Crew
      PROVE  at[w] \notin Columns
  BY DEF SweepReturned, AloneIdle, Crew, Workers, SweepTypeOK
<1>3. \A j \in Columns : j \in computed
  <2> SUFFICES ASSUME NEW j \in Columns, j \notin computed
               PROVE  FALSE
    OBVIOUS
  <2>1. j \in 1 .. next - 1
    BY <1>1
  <2>2. PICK w \in Crew : at[w] = j
    BY <2>1 DEF Handed
  <2> QED
    BY <1>2, <2>2
<1> QED
  BY <1>3 DEF SweepTypeOK

-----------------------------------------------------------------------------
(* The counters stay within their limits: the rejected steps in a row are no *)
(* more than the iterations, and the short steps without improvement end the *)
(* solve at the limit.                                                       *)
InIteration == {"prepared", "sweep", "step", "line", "judge", "perturb", "close"}
Judged == {"perturb", "close", "done"}

Counters ==
  /\ pc \in InIteration => iter < MaxIter
  /\ stalled <= (IF pc \in Judged THEN iter + 1 ELSE iter)
  /\ pc # "done" => noImprove < NoImproveLimit
  /\ lastCheck <= iter
TypeInv == SolverTypeOK /\ Counters

(* What most steps of an iteration leave alone. *)
DesignVars == <<regionVars, fixedVars, landscape, moved, x, merit, bestVars, multVars>>

LEMMA DenormalisedIsAPoint ==
  ASSUME pin \in Layouts \cup {Free}, NEW y \in Points
  PROVE  Denormalised(y) \in Points
BY DEF Denormalised, Points

LEMMA RaisedIsANumber ==
  ASSUME NEW a \in Int, NEW v \in Int
  PROVE  Raised(a, v) \in Nat
BY RegionAssumption DEF Raised

LEMMA UpdateActiveSetTypes ==
  ASSUME RegionTypeOK, NEW v \in [Constraints -> Int], UpdateActiveSet(v)
  PROVE  /\ RegionTypeOK'
         /\ WorkingSet(active') \subseteq Constraints
         /\ \A j \in Constraints : multiplier[j] >= 0 => multiplier'[j] >= 0
<1> USE DEF RegionTypeOK
<1>1. active' \subseteq Constraints
  BY DEF UpdateActiveSet, ActiveAfter
<1>2. \A j \in Constraints : Raised(multiplier[j], v[j]) \in Nat /\ Raised(0, v[j]) \in Nat
  BY RaisedIsANumber
<1>3. multiplier' \in [Constraints -> Int]
  BY <1>2 DEF UpdateActiveSet
<1>4. \A j \in Constraints : multiplier[j] >= 0 => multiplier'[j] >= 0
  BY <1>2 DEF UpdateActiveSet
<1> QED
  BY <1>1, <1>3, <1>4 DEF WorkingSet

LEMMA SolverInitTypes == SolverInit => TypeInv
<1> SUFFICES ASSUME SolverInit
             PROVE  TypeInv
  OBVIOUS
<1> USE DEF SolverInit
<1>1. SweepTypeOK
  BY RestedSweepInv DEF SweepInv
<1>2. RegionTypeOK
  BY RegionAssumption DEF RegionTypeOK, RegionInit
<1>3. lambda \in [Constraints -> Int] /\ mu \in [Constraints -> Int]
  BY DEF Zeros, Ones
<1>4. MaxIter \in Nat /\ LineProbes \in Nat /\ NoImproveLimit \in Nat \ {0}
  BY SolverAssumption
<1>5. Counters
  BY <1>4 DEF Counters, InIteration, Judged
<1>6. opts \in Options
  BY DEF NoOptions, Options
<1>7. moved \in BOOLEAN
  <2>1. moved = FALSE
    OBVIOUS
  <2> QED
    BY <2>1
<1>8. /\ landscape \in Landscapes /\ pin = Free /\ {x, bestX, known, trial, prev, start} \subseteq Points
      /\ working = {}
  OBVIOUS
<1>9. /\ pc \in Places /\ status \in Statuses /\ iter \in 0 .. MaxIter /\ probes \in 0 .. LineProbes
      /\ stalled \in 0 .. MaxIter /\ noImprove \in 0 .. NoImproveLimit /\ lastCheck \in 0 .. MaxIter
  BY <1>4 DEF Places, Statuses
<1> HIDE DEF SolverInit
<1> QED
  BY <1>1, <1>2, <1>3, <1>5, <1>6, <1>7, <1>8, <1>9 DEF TypeInv, SolverTypeOK

LEMMA BeginTypes ==
  ASSUME TypeInv, NEW p \in Points, NEW l \in Landscapes, NEW o \in Options,
         NEW n \in Layouts \cup {Free}, Begin(p, l, o, n)
  PROVE  TypeInv'
<1> USE DEF Begin
<1>1. SweepTypeOK' /\ RegionTypeOK'
  BY DEF TypeInv, SolverTypeOK, SweepTypeOK, RegionTypeOK, sweepVars, regionVars
<1>2. lambda' \in [Constraints -> Int] /\ mu' \in [Constraints -> Int] /\ working' \subseteq Constraints
  BY DEF Zeros, Ones
<1>3. MaxIter \in Nat /\ LineProbes \in Nat /\ NoImproveLimit \in Nat \ {0}
  BY SolverAssumption
<1>4. Counters'
  BY <1>3 DEF Counters, InIteration, Judged
<1>5. /\ pc' \in Places /\ status' \in Statuses
      /\ iter' \in 0 .. MaxIter /\ probes' \in 0 .. LineProbes /\ stalled' \in 0 .. MaxIter
      /\ noImprove' \in 0 .. NoImproveLimit /\ lastCheck' \in 0 .. MaxIter
  BY <1>3 DEF Places, Statuses
<1>6. landscape' = l /\ pin' = n /\ opts' = o /\ {x', bestX', known', trial', prev', start'} \subseteq Points
  OBVIOUS
<1>7. moved' \in BOOLEAN
  <2>1. moved' = FALSE
    OBVIOUS
  <2> QED
    BY <2>1
<1> HIDE DEF Begin
<1> QED
  BY <1>1, <1>2, <1>4, <1>5, <1>6, <1>7 DEF TypeInv, SolverTypeOK

(* The steps that leave the design alone. *)
Elsewhere == \/ Interrupted \/ Exhausted \/ BeginSweep \/ Sweep \/ EndSweep \/ Flat \/ Singular
             \/ LineFailed \/ Stalled \/ NextIteration \/ Stop

LEMMA ElsewhereTypes ==
  ASSUME TypeInv, SweepInv, Elsewhere
  PROVE  TypeInv'
<1> USE DEF TypeInv, SolverTypeOK
<1>1. UNCHANGED <<regionVars, fixedVars, landscape, moved, x, merit, bestVars, lambda, mu, prev,
                  working, trial, trialMerit, probes, stalled, noImprove>>
  BY DEF Elsewhere, Interrupted, Exhausted, BeginSweep, Sweep, EndSweep, Flat, Singular, LineFailed,
         Stalled, NextIteration, Stop, Finish, OnlyThePlace, multVars, trialVars, stallVars
<1>2. SweepTypeOK'
  <2>1. CASE UNCHANGED sweepVars
    BY <2>1 DEF sweepVars, SweepTypeOK
  <2>2. CASE BeginSweep
    BY <2>2, StartSweepInv DEF BeginSweep, SweepInv
  <2>3. CASE Sweep
    BY <2>3, SweepStepInv DEF Sweep, SweepInv
  <2>4. CASE Stop
    BY <2>4 DEF Stop, SweepTypeOK
  <2> QED
    BY <2>1, <2>2, <2>3, <2>4 DEF Elsewhere, Interrupted, Exhausted, EndSweep, Flat, Singular,
       LineFailed, Stalled, NextIteration, Finish
<1>3. MaxIter \in Nat /\ iter \in 0 .. MaxIter /\ stalled \in 0 .. MaxIter /\ lastCheck \in 0 .. MaxIter
  BY SolverAssumption
<1>4. /\ pc' \in Places /\ status' \in Statuses /\ iter' \in 0 .. MaxIter
      /\ lastCheck' \in 0 .. MaxIter /\ Counters'
  <2>1. CASE Interrupted \/ Exhausted \/ Flat \/ Stalled
    BY <2>1, <1>1, <1>3 DEF Interrupted, Exhausted, Flat, Stalled, Finish, Places, Statuses, Counters,
                            InIteration, Judged, stallVars
  <2>2. CASE BeginSweep \/ Sweep \/ EndSweep \/ LineFailed
    BY <2>2, <1>1, <1>3 DEF BeginSweep, Sweep, EndSweep, LineFailed, OnlyThePlace, Places, Counters,
                            InIteration, Judged, stallVars
  <2>3. CASE Singular
    BY <2>3, <1>1, <1>3 DEF Singular, Places, Counters, InIteration, Judged, stallVars
  <2>4. CASE NextIteration
    BY <2>4, <1>1, <1>3 DEF NextIteration, Places, Counters, InIteration, Judged
  <2>5. CASE Stop
    BY <2>5, <1>1, <1>3 DEF Stop, Counters, stallVars
  <2> QED
    BY <2>1, <2>2, <2>3, <2>4, <2>5 DEF Elsewhere
<1>5. /\ landscape' = landscape /\ moved' = moved /\ pin' = pin /\ opts' = opts
      /\ x' = x /\ bestX' = bestX /\ known' = known /\ trial' = trial /\ prev' = prev /\ start' = start
      /\ probes' = probes /\ lambda' = lambda /\ mu' = mu /\ working' = working
      /\ stalled' = stalled /\ noImprove' = noImprove
  BY <1>1 DEF fixedVars, bestVars
<1>6. RegionTypeOK'
  BY <1>1 DEF RegionTypeOK, regionVars
<1> QED
  BY <1>2, <1>4, <1>5, <1>6

LEMMA AfterTermsTypes ==
  ASSUME lambda \in [Constraints -> Int], NEW p
  PROVE  AfterTerms(lambda, working, p) \in [Constraints -> Int]
BY DEF AfterTerms

LEMMA ViolationIsAVector ==
  ASSUME NEW p \in Points
  PROVE  Violation[p] \in [Constraints -> Int]
BY SolverAssumption

LEMMA PrepareTypes ==
  ASSUME TypeInv, NEW l \in Landscapes, Prepare(l)
  PROVE  TypeInv'
<1> USE DEF TypeInv, SolverTypeOK, Prepare
<1>1. RegionTypeOK' /\ lambda' \in [Constraints -> Int] /\ working' \subseteq Constraints
  <2>1. CASE opts.regional /\ opts.constrained
    <3>1. Violation[x] \in [Constraints -> Int]
      BY ViolationIsAVector
    <3>2. UpdateActiveSet(Violation[x]) /\ lambda' = multiplier /\ working' = WorkingSet(active')
      BY <2>1
    <3> QED
      BY <3>1, <3>2, UpdateActiveSetTypes DEF RegionTypeOK
  <2>2. CASE ~(opts.regional /\ opts.constrained)
    BY <2>2 DEF RegionTypeOK, regionVars, Cons
  <2> QED
    BY <2>1, <2>2
<1>2. /\ landscape' = l /\ pc = "top" /\ iter < MaxIter /\ pc' = "prepared"
      /\ UNCHANGED <<sweepVars, fixedVars, iter, status, x, merit, bestVars, trialVars,
                     mu, prev, stallVars>>
  BY DEF GoesOn
<1>3. moved' \in BOOLEAN
  <2>1. moved' = (moved \/ l # landscape)
    OBVIOUS
  <2> QED
    BY <2>1
<1> HIDE DEF Prepare
<1>4. SweepTypeOK'
  BY <1>2 DEF sweepVars, SweepTypeOK
<1>5. MaxIter \in Nat /\ iter \in 0 .. MaxIter
  BY SolverAssumption
<1>6. Counters'
  BY <1>2, <1>5 DEF Counters, InIteration, Judged, stallVars
<1> QED
  BY <1>1, <1>2, <1>3, <1>4, <1>6 DEF fixedVars, bestVars, trialVars, stallVars, Places

LEMMA TrialTypes ==
  ASSUME TypeInv, NEW y \in Points, Try(y) \/ ProbeTaken(y) \/ ProbeFailed(y)
  PROVE  TypeInv'
<1> USE DEF TypeInv, SolverTypeOK
<1> DEFINE p == Denormalised(y)
<1>1. p \in Points
  BY DenormalisedIsAPoint
<1>2. Evaluates(p) /\ trial' \in {trial, p} /\ pc \in {"step", "line"} /\ pc' \in {"judge", "line"}
  BY DEF Try, ProbeTaken, ProbeFailed
<1> HIDE DEF p
<1>3. probes' \in 0 .. LineProbes
  BY SolverAssumption DEF Try, ProbeTaken, ProbeFailed
<1>4. lambda' \in [Constraints -> Int]
  BY <1>2, AfterTermsTypes DEF Evaluates
<1>5. UNCHANGED <<sweepVars, regionVars, fixedVars, landscape, moved, iter, status, x, merit,
                  bestVars, mu, prev, working, stallVars>>
  BY <1>2 DEF Evaluates
<1>6. SweepTypeOK' /\ RegionTypeOK'
  BY <1>5 DEF sweepVars, SweepTypeOK, regionVars, RegionTypeOK
<1>7. Counters'
  BY <1>2, <1>5 DEF Counters, InIteration, Judged, stallVars
<1>8. pc' \in Places
  BY <1>2 DEF Places
<1> QED
  BY <1>1, <1>2, <1>3, <1>4, <1>5, <1>6, <1>7, <1>8 DEF fixedVars, bestVars, stallVars

LEMMA PerturbTypes ==
  ASSUME TypeInv, NEW y \in Points, Perturb(y)
  PROVE  TypeInv'
<1> USE DEF TypeInv, SolverTypeOK
<1> DEFINE p == Denormalised(y)
<1>1. p \in Points
  BY DenormalisedIsAPoint
<1>2. /\ x' = p /\ prev' = p /\ lambda' = AfterTerms(lambda, working, p) /\ known' \in {known, p}
      /\ pc = "perturb" /\ pc' = "close" /\ stalled' = 0
      /\ UNCHANGED <<sweepVars, regionVars, fixedVars, landscape, moved, iter, status, bestX,
                     trialVars, mu, working, noImprove, lastCheck, windowMerit>>
  BY DEF Perturb, KeepPerturbed
<1> HIDE DEF p
<1>3. lambda' \in [Constraints -> Int]
  BY <1>2, AfterTermsTypes
<1>4. SweepTypeOK' /\ RegionTypeOK'
  BY <1>2 DEF sweepVars, SweepTypeOK, regionVars, RegionTypeOK
<1>5. MaxIter \in Nat /\ iter \in 0 .. MaxIter
  BY SolverAssumption
<1>6. Counters'
  BY <1>2, <1>5 DEF Counters, InIteration, Judged
<1>7. pc' \in Places /\ stalled' \in 0 .. MaxIter
  BY <1>2, <1>5 DEF Places
<1> QED
  BY <1>1, <1>2, <1>3, <1>4, <1>6, <1>7 DEF fixedVars, trialVars

(* What an accepted trial writes. *)
LEMMA TakeStepTypes ==
  ASSUME TypeInv, TakeStep
  PROVE  /\ RegionTypeOK' /\ lambda' \in [Constraints -> Int] /\ mu' \in [Constraints -> Int]
         /\ x' = trial /\ prev' = trial /\ stalled' = 0
         /\ \/ bestX' = trial /\ known' = trial /\ bestMerit' = trialMerit /\ trialMerit < bestMerit
            \/ UNCHANGED bestVars /\ ~(trialMerit < bestMerit)
<1> USE DEF TakeStep, TypeInv, SolverTypeOK
<1>1. Violation[trial] \in [Constraints -> Int]
  BY ViolationIsAVector
<1>2. \A j \in Constraints : lambda[j] + mu[j] * Violation[trial][j] \in Int
  BY <1>1
<1>3. lambda' \in [Constraints -> Int]
  BY <1>2
<1>4. \A j \in Constraints : Heavier(mu[j]) \in Int
  BY SolverAssumption DEF Heavier
<1>5. mu' \in [Constraints -> Int]
  BY <1>4
<1>6. RegionTypeOK'
  BY <1>3 DEF SetLambdas, RegionTypeOK, regionVars
<1> QED
  BY <1>3, <1>5, <1>6 DEF Better

LEMMA JudgeTypes ==
  ASSUME TypeInv, NEW short \in BOOLEAN, Judge(short)
  PROVE  TypeInv'
<1> USE DEF TypeInv, SolverTypeOK
<1>1. MaxIter \in Nat /\ iter \in 0 .. MaxIter /\ iter < MaxIter /\ NoImproveLimit \in Nat \ {0}
      /\ LineProbes \in Nat /\ pc = "judge" /\ stalled <= iter /\ noImprove < NoImproveLimit
  BY SolverAssumption DEF Judge, Counters, InIteration, Judged
<1>2. /\ RegionTypeOK' /\ lambda' \in [Constraints -> Int] /\ mu' \in [Constraints -> Int]
      /\ x' \in Points /\ prev' \in Points /\ bestX' \in Points /\ known' \in Points
      /\ stalled' \in 0 .. MaxIter /\ stalled' <= iter + 1
  <2>1. CASE TakeStep
    BY <2>1, <1>1, TakeStepTypes DEF bestVars
  <2>2. CASE RejectStep
    BY <2>2, <1>1 DEF RejectStep, bestVars, regionVars, RegionTypeOK
  <2> QED
    BY <2>1, <2>2 DEF Judge
<1>3. /\ trial' = x' /\ probes' = 0
      /\ UNCHANGED <<sweepVars, fixedVars, landscape, moved, iter, working, lastCheck, windowMerit>>
  BY DEF Judge
<1>4. noImprove' \in 0 .. NoImproveLimit /\ (pc' # "done" => noImprove' < NoImproveLimit)
  <2>1. CASE ~short
    BY <2>1, <1>1 DEF Judge
  <2>2. CASE short /\ merit' >= bestMerit' /\ ConstraintsOK
    BY <2>2, <1>1 DEF Judge
  <2>3. CASE short /\ ~(merit' >= bestMerit' /\ ConstraintsOK)
    BY <2>3, <1>1 DEF Judge
  <2> QED
    BY <2>1, <2>2, <2>3
<1>5. pc' \in {"done", "perturb", "close"} /\ status' \in Statuses
  BY DEF Judge, Statuses
<1>6. SweepTypeOK'
  BY <1>3 DEF sweepVars, SweepTypeOK
<1>7. Counters'
  BY <1>1, <1>2, <1>3, <1>4, <1>5 DEF Counters, InIteration, Judged
<1>8. pc' \in Places
  BY <1>5 DEF Places
<1> QED
  BY <1>1, <1>2, <1>3, <1>4, <1>5, <1>6, <1>7, <1>8 DEF fixedVars

-----------------------------------------------------------------------------
(* The Jacobian.  Only a sweep touches the columns, and only a whole one is  *)
(* followed by a step.                                                       *)
AfterSweep == {"step", "line", "judge", "perturb", "close"}
JacobianInv == SweepInv /\ JacobianComplete

LEMMA SweepUntouched ==
  ASSUME SweepInv, UNCHANGED sweepVars
  PROVE  SweepInv' /\ computed' = computed
BY DEF sweepVars, SweepInv, SweepTypeOK, Handed, ClosedLate, AloneIdle, NoneLeftEarly, Alone, Crew

LEMMA SolverNextJacobian ==
  ASSUME JacobianInv, SolverNext
  PROVE  JacobianInv'
<1> USE DEF JacobianInv, JacobianComplete
<1>1. ASSUME UNCHANGED sweepVars, pc' \in AfterSweep => pc \in AfterSweep
      PROVE  JacobianInv'
  BY <1>1, SweepUntouched DEF AfterSweep
<1>2. CASE BeginSolve
  BY <1>1, <1>2 DEF BeginSolve, Begin, AfterSweep
<1>3. CASE Interrupted \/ Exhausted \/ Flat \/ Stalled
  BY <1>1, <1>3 DEF Interrupted, Exhausted, Flat, Stalled, Finish, AfterSweep
<1>4. CASE BeginSweep
  BY <1>4, StartSweepInv DEF BeginSweep, OnlyThePlace
<1>5. CASE Sweep
  BY <1>5, SweepStepInv DEF Sweep, OnlyThePlace
<1>6. CASE EndSweep
  BY <1>6, SweepIsComplete, SweepUntouched DEF EndSweep
<1>7. CASE Singular \/ LineFailed \/ NextIteration \/ \E l \in Landscapes : Prepare(l)
  BY <1>1, <1>7 DEF Singular, LineFailed, NextIteration, Prepare, OnlyThePlace, AfterSweep
<1>8. ASSUME NEW y \in Points, Try(y) \/ ProbeTaken(y) \/ ProbeFailed(y)
      PROVE  JacobianInv'
  BY <1>1, <1>8 DEF Try, ProbeTaken, ProbeFailed, Evaluates, AfterSweep
<1>9. ASSUME NEW short \in BOOLEAN, Judge(short)
      PROVE  JacobianInv'
  BY <1>1, <1>9 DEF Judge, AfterSweep
<1>10. ASSUME NEW y \in Points, Perturb(y)
       PROVE  JacobianInv'
  BY <1>1, <1>10 DEF Perturb, AfterSweep
<1>11. CASE Stop
  <2>1. SweepInv'
    BY <1>11 DEF Stop, SweepInv, SweepTypeOK, Handed, ClosedLate, AloneIdle, NoneLeftEarly, Alone, Crew
  <2> QED
    BY <1>11, <2>1 DEF Stop
<1> QED
  BY <1>2, <1>3, <1>4, <1>5, <1>6, <1>7, <1>8, <1>9, <1>10, <1>11 DEF SolverNext, Iterate

-----------------------------------------------------------------------------
(* Pinned variables: every point comes from denormValue or from another one. *)
LEMMA DenormalisedIsPinned ==
  ASSUME pin \in Layouts \cup {Free}, pin # Free, NEW y \in Points
  PROVE  Denormalised(y).layout = pin
BY DEF Denormalised, Points

LEMMA SolverNextPin ==
  ASSUME TypeInv, PinnedStays, SolverNext
  PROVE  PinnedStays'
<1> USE DEF PinnedStays
<1>1. pin \in Layouts \cup {Free}
  BY DEF TypeInv, SolverTypeOK
<1>2. CASE BeginSolve
  BY <1>2 DEF BeginSolve, Begin
<1>3. CASE Elsewhere
  BY <1>3 DEF Elsewhere, Interrupted, Exhausted, BeginSweep, Sweep, EndSweep, Flat, Singular,
              LineFailed, Stalled, NextIteration, Stop, Finish, OnlyThePlace, fixedVars, bestVars,
              trialVars
<1>4. ASSUME NEW l \in Landscapes, Prepare(l)
      PROVE  PinnedStays'
  BY <1>4 DEF Prepare, fixedVars, bestVars, trialVars
<1>5. ASSUME NEW y \in Points, Try(y) \/ ProbeTaken(y) \/ ProbeFailed(y)
      PROVE  PinnedStays'
  <2>1. /\ trial' \in {trial, Denormalised(y)} /\ UNCHANGED <<fixedVars, x, bestVars>>
    BY <1>5 DEF Try, ProbeTaken, ProbeFailed, Evaluates
  <2> QED
    BY <1>1, <2>1, DenormalisedIsPinned DEF fixedVars, bestVars
<1>6. ASSUME NEW short \in BOOLEAN, Judge(short)
      PROVE  PinnedStays'
  <2>1. UNCHANGED fixedVars /\ trial' = x'
    BY <1>6 DEF Judge
  <2>2. {x', bestX', known'} \subseteq {x, bestX, known, trial}
    <3>1. CASE TakeStep
      BY <3>1, TakeStepTypes DEF bestVars
    <3>2. CASE RejectStep
      BY <3>2 DEF RejectStep, bestVars
    <3> QED
      BY <1>6, <3>1, <3>2 DEF Judge
  <2> QED
    BY <2>1, <2>2 DEF fixedVars
<1>7. ASSUME NEW y \in Points, Perturb(y)
      PROVE  PinnedStays'
  <2>1. /\ x' = Denormalised(y) /\ known' \in {known, Denormalised(y)}
        /\ UNCHANGED <<fixedVars, bestX, trial>>
    BY <1>7 DEF Perturb, KeepPerturbed, trialVars
  <2> QED
    BY <1>1, <2>1, DenormalisedIsPinned DEF fixedVars
<1> QED
  BY <1>2, <1>3, <1>4, <1>5, <1>6, <1>7 DEF SolverNext, Iterate, Elsewhere

-----------------------------------------------------------------------------
(* Convergence.  The residuals the solver looks at are those of the current  *)
(* point, and a status is given at the end only.                             *)
ResidualsAreOfX == prev = x
StatusAtTheEnd == (status # "running" => pc = "done") /\ (pc = "done" => status # "running")
FeasibleInv == ResidualsAreOfX /\ StatusAtTheEnd /\ ConvergedAtFeasible

LEMMA SolverNextFeasible ==
  ASSUME TypeInv, FeasibleInv, SolverNext
  PROVE  FeasibleInv'
<1> USE DEF FeasibleInv, ResidualsAreOfX, StatusAtTheEnd, ConvergedAtFeasible
<1>1. ASSUME UNCHANGED <<x, prev, opts>>, status' = status /\ (pc' = "done" <=> pc = "done")
      PROVE  FeasibleInv'
  BY <1>1 DEF Feasible, Cons
<1>2. CASE BeginSolve
  BY <1>2 DEF BeginSolve, Begin
<1>3. CASE Interrupted \/ Exhausted \/ Flat \/ Stalled
  BY <1>3 DEF Interrupted, Exhausted, Flat, Stalled, Finish, fixedVars, multVars
<1>4. CASE BeginSweep \/ Sweep \/ EndSweep \/ LineFailed
  BY <1>1, <1>4 DEF BeginSweep, Sweep, EndSweep, LineFailed, OnlyThePlace, fixedVars, multVars
<1>5. CASE Singular \/ NextIteration \/ Stop
  BY <1>1, <1>5 DEF Singular, NextIteration, Stop, fixedVars, multVars
<1>6. ASSUME NEW l \in Landscapes, Prepare(l)
      PROVE  FeasibleInv'
  BY <1>1, <1>6 DEF Prepare, fixedVars
<1>7. ASSUME NEW y \in Points, Try(y) \/ ProbeTaken(y) \/ ProbeFailed(y)
      PROVE  FeasibleInv'
  BY <1>1, <1>7 DEF Try, ProbeTaken, ProbeFailed, Evaluates, fixedVars
<1>8. ASSUME NEW short \in BOOLEAN, Judge(short)
      PROVE  FeasibleInv'
  <2>1. prev' = x'
    BY <1>8 DEF Judge, TakeStep, RejectStep
  <2>2. pc = "judge" /\ status = "running" /\ opts' = opts
    BY <1>8 DEF Judge, fixedVars
  <2>3. CASE pc' = "done" /\ status' = "converged" /\ ConstraintsOK
    BY <2>1, <2>2, <2>3 DEF ConstraintsOK, Feasible, Cons
  <2>4. CASE pc' \in {"perturb", "close"} /\ status' = status
    BY <2>1, <2>2, <2>4
  <2> QED
    BY <1>8, <2>3, <2>4 DEF Judge
<1>9. ASSUME NEW y \in Points, Perturb(y)
      PROVE  FeasibleInv'
  BY <1>9 DEF Perturb
<1> QED
  BY <1>2, <1>3, <1>4, <1>5, <1>6, <1>7, <1>8, <1>9 DEF SolverNext, Iterate

-----------------------------------------------------------------------------
(* Merits, while the model stays as it is and there are no constraints.      *)
Plainly == ~moved /\ ~opts.constrained
MeritIs(v, p) == v = 2 * Merit[landscape][p]
NothingToWorkOn == ~opts.constrained => working = {}
MeritInv ==
  /\ NothingToWorkOn
  /\ Plainly => /\ MeritIs(merit, x) /\ MeritIs(trialMerit, trial) /\ MeritIs(bestMerit, known)
                /\ bestMerit <= 2 * Merit[landscape][bestX]
                /\ Merit[landscape][bestX] <= Merit[landscape][start]

LEMMA MeritIsANumber ==
  ASSUME TypeInv, NEW p \in Points
  PROVE  Merit[landscape][p] \in Int
BY SolverAssumption DEF TypeInv, SolverTypeOK

LEMMA ValueIsTheMerit ==
  ASSUME NothingToWorkOn, ~opts.constrained, NEW p
  PROVE  Value(p) = 2 * Merit[landscape][p]
BY DEF NothingToWorkOn, Value, Measured

LEMMA SolverNextMerit ==
  ASSUME TypeInv, MeritInv, SolverNext
  PROVE  MeritInv'
<1> USE DEF MeritInv, NothingToWorkOn, Plainly, MeritIs
<1>1. ASSUME UNCHANGED <<opts, moved, landscape, working, start, x, merit, bestVars, trial, trialMerit>>
      PROVE  MeritInv'
  BY <1>1 DEF bestVars
<1>2. ASSUME NEW p \in Points, NEW l \in Landscapes, NEW o \in Options, NEW n \in Layouts \cup {Free},
             Begin(p, l, o, n)
      PROVE  MeritInv'
  <2>1. /\ opts' = o /\ landscape' = l /\ working' = (IF o.constrained THEN Constraints ELSE {})
        /\ merit' = Measured(l, Zeros, Ones, working', p)
        /\ bestMerit' = merit' /\ trialMerit' = merit'
        /\ x' = p /\ start' = p /\ bestX' = p /\ known' = p /\ trial' = p
    BY <1>2 DEF Begin
  <2>2. Merit[l][p] \in Int
    BY SolverAssumption
  <2> QED
    BY <2>1, <2>2 DEF Measured
<1>3. CASE Elsewhere
  BY <1>1, <1>3 DEF Elsewhere, Interrupted, Exhausted, BeginSweep, Sweep, EndSweep, Flat, Singular,
              LineFailed, Stalled, NextIteration, Stop, Finish, OnlyThePlace, fixedVars, trialVars,
              multVars
<1>4. ASSUME NEW l \in Landscapes, Prepare(l)
      PROVE  MeritInv'
  <2>1. /\ moved' = (moved \/ l # landscape) /\ landscape' = l
        /\ UNCHANGED <<fixedVars, x, merit, bestVars, trialVars>>
    BY <1>4 DEF Prepare
  <2>2. NothingToWorkOn'
    BY <1>4, <2>1 DEF Prepare, fixedVars, Cons
  <2> QED
    BY <2>1, <2>2 DEF fixedVars, bestVars, trialVars
<1>5. ASSUME NEW y \in Points, Try(y) \/ ProbeTaken(y) \/ ProbeFailed(y)
      PROVE  MeritInv'
  <2> DEFINE p == Denormalised(y)
  <2>1. /\ \/ trial' = p /\ trialMerit' = Value(p)
           \/ UNCHANGED <<trial, trialMerit>>
        /\ UNCHANGED <<fixedVars, landscape, moved, x, merit, bestVars, working>>
    BY <1>5 DEF Try, ProbeTaken, ProbeFailed, Evaluates
  <2>2. ~opts.constrained => Value(p) = 2 * Merit[landscape][p]
    BY ValueIsTheMerit
  <2> HIDE DEF p
  <2> QED
    BY <2>1, <2>2 DEF fixedVars, bestVars
<1>6. ASSUME NEW short \in BOOLEAN, Judge(short)
      PROVE  MeritInv'
  <2>1. /\ trial' = x' /\ trialMerit' = merit'
        /\ UNCHANGED <<fixedVars, landscape, moved, working>>
    BY <1>6 DEF Judge
  <2>2. /\ Merit[landscape][trial] \in Int /\ Merit[landscape][known] \in Int
        /\ Merit[landscape][bestX] \in Int /\ Merit[landscape][start] \in Int
    BY MeritIsANumber DEF TypeInv, SolverTypeOK
  <2>3. CASE TakeStep
    <3>1. /\ x' = trial /\ merit' = trialMerit
          /\ \/ bestX' = trial /\ known' = trial /\ bestMerit' = trialMerit /\ trialMerit < bestMerit
             \/ UNCHANGED bestVars
      BY <2>3, TakeStepTypes DEF TakeStep
    <3> QED
      BY <2>1, <2>2, <3>1 DEF fixedVars, bestVars
  <2>4. CASE RejectStep
    BY <2>1, <2>4 DEF RejectStep, fixedVars, bestVars
  <2> QED
    BY <1>6, <2>3, <2>4 DEF Judge
<1>7. ASSUME NEW y \in Points, Perturb(y)
      PROVE  MeritInv'
  <2> DEFINE p == Denormalised(y)
  <2>1. /\ x' = p /\ merit' = Value(p)
        /\ \/ bestMerit' = Value(p) /\ known' = p /\ Value(p) < bestMerit
           \/ UNCHANGED <<bestMerit, known>>
        /\ UNCHANGED <<fixedVars, landscape, moved, bestX, trialVars, working>>
    BY <1>7 DEF Perturb, KeepPerturbed
  <2>2. ~opts.constrained => Value(p) = 2 * Merit[landscape][p]
    BY ValueIsTheMerit
  <2>3. p \in Points
    BY DenormalisedIsAPoint DEF TypeInv, SolverTypeOK
  <2>4. /\ Merit[landscape][p] \in Int /\ Merit[landscape][known] \in Int
        /\ Merit[landscape][bestX] \in Int
    BY <2>3, MeritIsANumber DEF TypeInv, SolverTypeOK
  <2> HIDE DEF p
  <2> QED
    BY <2>1, <2>2, <2>4 DEF fixedVars, trialVars
<1> QED
  BY <1>2, <1>3, <1>4, <1>5, <1>6, <1>7 DEF SolverNext, BeginSolve, Iterate, Elsewhere

-----------------------------------------------------------------------------
(* The multipliers of inequalities are never negative, so that no penalty    *)
(* term is, and no evaluation resets one.                                    *)
Inequality == Constraints \ Equality
MultiplierInv == /\ \A j \in Inequality : lambda[j] >= 0 /\ multiplier[j] >= 0
                 /\ \A j \in Constraints : mu[j] >= 0

LEMMA PenaltyIsNotNegative ==
  ASSUME NEW a \in Nat, NEW m \in Nat, NEW v \in Nat
  PROVE  ~(2 * a * v + m * v * v < 0)
<1>1. a * v \in Nat /\ m * v \in Nat
  OBVIOUS
<1>2. 2 * a * v \in Nat /\ m * v * v \in Nat
  BY <1>1
<1> QED
  BY <1>2

LEMMA EvaluationsReset ==
  ASSUME TypeInv, MultiplierInv, NEW p \in Points, NEW j \in Inequality
  PROVE  AfterTerms(lambda, working, p)[j] = lambda[j]
<1>1. lambda[j] \in Nat /\ mu[j] \in Nat
  BY DEF TypeInv, SolverTypeOK, MultiplierInv, Inequality
<1>2. Violation[p][j] \in Nat
  BY SolverAssumption DEF Inequality
<1>3. ~(Penalty(lambda[j], mu[j], j, p) < 0)
  BY <1>1, <1>2, PenaltyIsNotNegative DEF Penalty
<1> QED
  BY <1>3 DEF AfterTerms, Inequality

LEMMA SolverNextMultipliers ==
  ASSUME TypeInv, MultiplierInv, SolverNext
  PROVE  /\ MultiplierInv'
         /\ pc \in {"step", "line", "perturb"} => \A j \in Inequality : lambda'[j] = lambda[j]
<1> DEFINE Kept == \A j \in Inequality : lambda'[j] = lambda[j]
<1>1. ASSUME UNCHANGED <<regionVars, mu>>, Kept
      PROVE  MultiplierInv' /\ Kept
  BY <1>1 DEF MultiplierInv, regionVars
<1>2. ASSUME BeginSolve
      PROVE  MultiplierInv' /\ pc \in {"idle", "done"}
  BY <1>2 DEF BeginSolve, Begin, MultiplierInv, regionVars, Zeros, Ones, Inequality
<1>3. ASSUME Elsewhere
      PROVE  MultiplierInv' /\ Kept
  BY <1>1, <1>3 DEF Elsewhere, Interrupted, Exhausted, BeginSweep, Sweep, EndSweep, Flat, Singular,
              LineFailed, Stalled, NextIteration, Stop, Finish, OnlyThePlace, multVars
<1>4. ASSUME NEW l \in Landscapes, Prepare(l)
      PROVE  MultiplierInv' /\ pc = "top"
  <2>1. CASE opts.regional /\ opts.constrained
    <3>1. Violation[x] \in [Constraints -> Int] /\ RegionTypeOK
      BY ViolationIsAVector DEF TypeInv, SolverTypeOK
    <3>2. UpdateActiveSet(Violation[x]) /\ lambda' = multiplier /\ mu' = mu /\ pc = "top"
      BY <1>4, <2>1 DEF Prepare
    <3> QED
      BY <3>1, <3>2, UpdateActiveSetTypes DEF MultiplierInv, Inequality
  <2>2. CASE ~(opts.regional /\ opts.constrained)
    BY <1>4, <2>2 DEF Prepare, MultiplierInv, regionVars
  <2> QED
    BY <2>1, <2>2
<1>5. ASSUME NEW y \in Points, Try(y) \/ ProbeTaken(y) \/ ProbeFailed(y) \/ Perturb(y)
      PROVE  MultiplierInv' /\ Kept
  <2> DEFINE p == Denormalised(y)
  <2>1. p \in Points
    BY DenormalisedIsAPoint DEF TypeInv, SolverTypeOK
  <2>2. lambda' = AfterTerms(lambda, working, p) /\ UNCHANGED <<regionVars, mu>>
    BY <1>5 DEF Try, ProbeTaken, ProbeFailed, Evaluates, Perturb
  <2> HIDE DEF p
  <2>3. Kept
    BY <2>1, <2>2, EvaluationsReset
  <2> HIDE DEF Kept
  <2> QED
    BY <1>1, <2>2, <2>3
<1>6. ASSUME NEW short \in BOOLEAN, Judge(short)
      PROVE  MultiplierInv' /\ pc = "judge"
  <2>1. CASE RejectStep
    BY <1>6, <2>1 DEF Judge, RejectStep, MultiplierInv, regionVars
  <2>2. CASE TakeStep
    <3>1. trial \in Points /\ lambda \in [Constraints -> Int] /\ mu \in [Constraints -> Int]
      BY DEF TypeInv, SolverTypeOK
    <3>2. \A j \in Inequality : lambda'[j] \in Nat
      <4> SUFFICES ASSUME NEW j \in Inequality
                   PROVE  lambda'[j] \in Nat
        OBVIOUS
      <4>1. /\ lambda[j] \in Nat /\ mu[j] \in Nat /\ Violation[trial][j] \in Nat /\ j \in Constraints
        BY <3>1, SolverAssumption DEF MultiplierInv, Inequality
      <4>2. mu[j] * Violation[trial][j] \in Nat
        BY <4>1
      <4> QED
        BY <2>2, <4>1, <4>2 DEF TakeStep
    <3>3. \A j \in Constraints : mu'[j] >= 0
      <4> SUFFICES ASSUME NEW j \in Constraints
                   PROVE  mu'[j] >= 0
        OBVIOUS
      <4>1. mu[j] \in Nat /\ MuGrowth \in Nat /\ MuMax \in Nat
        BY <3>1, SolverAssumption DEF MultiplierInv
      <4>2. mu[j] * MuGrowth \in Nat
        BY <4>1
      <4>3. Heavier(mu[j]) >= 0
        BY <4>1, <4>2 DEF Heavier
      <4> QED
        BY <2>2, <4>1, <4>3 DEF TakeStep
    <3>4. multiplier' = lambda' \/ multiplier' = multiplier
      BY <2>2 DEF TakeStep, SetLambdas, regionVars
    <3> QED
      BY <1>6, <3>2, <3>3, <3>4 DEF MultiplierInv, Judge
  <2> QED
    BY <1>6, <2>1, <2>2 DEF Judge
<1> HIDE DEF Kept
<1>7. MultiplierInv' /\ (Kept \/ pc \in {"idle", "done", "top", "judge"})
  BY <1>2, <1>3, <1>4, <1>5, <1>6 DEF SolverNext, Iterate, Elsewhere
<1> QED
  BY <1>7 DEF Kept

-----------------------------------------------------------------------------
(* All of it together, and that a step that is not the solver's keeps it. *)
SolverInv == TypeInv /\ JacobianInv /\ PinnedStays /\ FeasibleInv /\ MeritInv /\ MultiplierInv

LEMMA SolverInitInv == SolverInit => SolverInv
<1> SUFFICES ASSUME SolverInit
             PROVE  SolverInv
  OBVIOUS
<1>1. TypeInv
  BY SolverInitTypes
<1>2. JacobianInv
  BY RestedSweepInv DEF SolverInit, JacobianInv, JacobianComplete
<1>3. PinnedStays /\ FeasibleInv
  BY DEF SolverInit, PinnedStays, FeasibleInv, ResidualsAreOfX, StatusAtTheEnd, ConvergedAtFeasible
<1>4. MeritInv
  <2>1. Merit[landscape][x] \in Int
    BY <1>1, MeritIsANumber DEF SolverInit
  <2> QED
    BY <2>1 DEF SolverInit, MeritInv, NothingToWorkOn, MeritIs
<1>5. MultiplierInv
  BY DEF SolverInit, RegionInit, Zeros, Ones, MultiplierInv, Inequality
<1> QED
  BY <1>1, <1>2, <1>3, <1>4, <1>5 DEF SolverInv

LEMMA SolverNextTypes ==
  ASSUME TypeInv, SweepInv, SolverNext
  PROVE  TypeInv'
BY BeginTypes, ElsewhereTypes, PrepareTypes, TrialTypes, JudgeTypes, PerturbTypes
   DEF SolverNext, BeginSolve, Iterate, Elsewhere

LEMMA SolverNextInv ==
  ASSUME SolverInv, SolverNext
  PROVE  SolverInv'
<1>1. TypeInv'
  BY SolverNextTypes DEF SolverInv, JacobianInv
<1>2. JacobianInv' /\ PinnedStays' /\ FeasibleInv'
  BY SolverNextJacobian, SolverNextPin, SolverNextFeasible DEF SolverInv
<1>3. MeritInv' /\ MultiplierInv'
  BY SolverNextMerit, SolverNextMultipliers DEF SolverInv
<1> QED
  BY <1>1, <1>2, <1>3 DEF SolverInv

LEMMA SolverStutterInv ==
  ASSUME SolverInv, UNCHANGED solverVars
  PROVE  SolverInv'
<1> USE DEF SolverInv, solverVars
<1>1. TypeInv'
  BY DEF sweepVars, regionVars, fixedVars, bestVars, trialVars, multVars, stallVars, TypeInv,
         SolverTypeOK, SweepTypeOK, RegionTypeOK, Counters
<1>2. JacobianInv'
  BY SweepUntouched DEF JacobianInv, JacobianComplete
<1>3. PinnedStays' /\ FeasibleInv'
  BY DEF fixedVars, bestVars, trialVars, multVars, PinnedStays, FeasibleInv, ResidualsAreOfX,
         StatusAtTheEnd, ConvergedAtFeasible, Feasible, Cons
<1>4. MeritInv'
  BY DEF fixedVars, bestVars, trialVars, multVars, MeritInv, NothingToWorkOn, Plainly, MeritIs
<1>5. MultiplierInv'
  BY DEF regionVars, multVars, MultiplierInv
<1> QED
  BY <1>1, <1>2, <1>3, <1>4, <1>5

(* What the invariant says of the properties that are model-checked. *)
LEMMA SolverInvProperties ==
  ASSUME SolverInv
  PROVE  /\ SolverTypeOK /\ JacobianComplete /\ KnownCarriesBest /\ DeliveredNotWorse
         /\ PinnedStays /\ ConvergedAtFeasible
<1>1. SolverTypeOK /\ JacobianComplete /\ PinnedStays /\ ConvergedAtFeasible
  BY DEF SolverInv, TypeInv, JacobianInv, FeasibleInv
<1>2. KnownCarriesBest /\ DeliveredNotWorse
  BY DEF SolverInv, MeritInv, Plainly, MeritIs, KnownCarriesBest, DeliveredNotWorse
<1> QED
  BY <1>1, <1>2

LEMMA SolverInvAlways == SolverSpec => []SolverInv
<1>1. SolverInv /\ [SolverNext]_solverVars => SolverInv'
  BY SolverNextInv, SolverStutterInv
<1> QED
  BY SolverInitInv, <1>1, PTL DEF SolverSpec

(* The solver on its own: its types, a whole Jacobian before every step even *)
(* when a stop cut a sweep short, the stall escape's book-keeping, a result  *)
(* no worse than the start, pinned variables that stay, and convergence only *)
(* where the constraints hold (dls.Solve).                                   *)
THEOREM SolverIsSafe ==
  SolverSpec => [](/\ SolverTypeOK /\ JacobianComplete /\ KnownCarriesBest /\ DeliveredNotWorse
                   /\ PinnedStays /\ ConvergedAtFeasible)
<1>1. SolverInv => /\ SolverTypeOK /\ JacobianComplete /\ KnownCarriesBest /\ DeliveredNotWorse
                   /\ PinnedStays /\ ConvergedAtFeasible
  BY SolverInvProperties
<1> QED
  BY <1>1, SolverInvAlways, PTL

-----------------------------------------------------------------------------
(* A solve goes on, and comes to an end.                                     *)

LEMMA NeverStuck ==
  ASSUME SweepInv
  PROVE  SweepNeverStuck
<1> SUFFICES ASSUME ~SweepMoves
             PROVE  SweepReturned
  BY DEF SweepNeverStuck
<1> USE SweepAssumption DEF SweepInv, SweepTypeOK
<1>1. CASE Alone
  BY <1>1 DEF SweepMoves, LoopGoesOn, SweepReturned
<1>2. CASE ~Alone
  <2>1. \A w \in Crew : w \in Workers /\ at[w] \in Columns \cup {Waiting, Left}
    BY DEF Crew, Workers
  <2>2. \A w \in Crew : ~Receives(w) /\ ~Works(w) /\ ~MayLeave(w)
    BY <1>2 DEF SweepMoves
  <2>3. closed
    <3> SUFFICES ASSUME ~closed
                 PROVE  FALSE
      OBVIOUS
    <3>1. ~stop /\ next <= NumCols
      BY <1>2 DEF SweepMoves, MayClose, DispatchOver
    <3>2. 1 \in Crew
      BY SweepAssumption DEF Crew, Workers
    <3>3. at[1] # Waiting /\ at[1] \notin Columns
      BY <2>2, <3>1, <3>2 DEF Receives, Works
    <3>4. at[1] = Left
      BY <2>1, <3>2, <3>3
    <3> QED
      BY <2>1, <3>1, <3>2, <3>4 DEF NoneLeftEarly
  <2>4. \A w \in Crew : at[w] = Left
    BY <2>1, <2>2, <2>3 DEF Works, MayLeave
  <2> QED
    BY <1>2, <2>3, <2>4 DEF SweepReturned
<1> QED
  BY <1>1, <1>2

(* Dispatcher and column workers never wait for each other for ever: at any  *)
(* point of a solve and whoever has taken its stop case first, wg.Wait has   *)
(* returned or one of them can go on (dls.parallelColumns).                  *)
THEOREM SweepsAreNeverStuck == SolverSpec => []SweepNeverStuck
<1>1. SolverInv => SweepNeverStuck
  BY NeverStuck DEF SolverInv, JacobianInv
<1> QED
  BY <1>1, SolverInvAlways, PTL

(* What a sweep has before it: hand-overs, columns at work, workers that     *)
(* are there, and the close.                                                 *)
Busy == {w \in Crew : Works(w)}
Present == {w \in Crew : at[w] # Left}
SweepLeft ==
  2 * (NumCols + 1 - next) + Cardinality(Busy) + Cardinality(Present)
    + (IF closed THEN 0 ELSE 1)

LEMMA CrewIsFinite ==
  ASSUME SweepTypeOK
  PROVE  IsFiniteSet(Crew) /\ \A S \in SUBSET Crew : IsFiniteSet(S) /\ Cardinality(S) \in Nat
<1>1. crew \in Nat
  BY SweepAssumption DEF SweepTypeOK, Workers
<1>2. IsFiniteSet(Crew)
  <2>1. IsFiniteSet(1 .. crew) /\ Crew \in SUBSET (1 .. crew)
    BY <1>1, FS_Interval DEF Crew
  <2> QED
    BY <2>1, FS_Subset
<1> QED
  BY <1>2, FS_Subset, FS_CardinalityType

LEMMA SweepLeftIsANumber ==
  ASSUME SweepInv, SweepStep
  PROVE  SweepLeft \in Nat /\ SweepLeft' \in Nat
<1>1. SweepTypeOK /\ SweepTypeOK'
  BY SweepStepInv DEF SweepInv
<1>2. Crew' = Crew
  BY DEF SweepStep, HandOver, ColumnDone, Leave, CloseJobs, ColumnAlone, Crew
<1>3. Busy \in SUBSET Crew /\ Present \in SUBSET Crew
  BY DEF Busy, Present
<1>4. Busy' \in SUBSET Crew /\ Present' \in SUBSET Crew
  BY <1>2 DEF Busy, Present
<1>5. /\ Cardinality(Busy) \in Nat /\ Cardinality(Present) \in Nat
      /\ Cardinality(Busy') \in Nat /\ Cardinality(Present') \in Nat
  BY <1>1, <1>3, <1>4, CrewIsFinite
<1>6. NumCols + 1 - next \in Nat /\ NumCols + 1 - next' \in Nat
  BY <1>1, SweepAssumption DEF SweepTypeOK
<1>7. SweepLeft' = 2 * (NumCols + 1 - next') + Cardinality(Busy') + Cardinality(Present')
                     + (IF closed' THEN 0 ELSE 1)
  BY DEF SweepLeft
<1> QED
  BY <1>5, <1>6, <1>7 DEF SweepLeft

LEMMA SweepAdvances ==
  ASSUME SweepInv, SweepStep
  PROVE  SweepLeft' < SweepLeft
<1> USE SweepAssumption DEF Columns, Waiting, Left
<1>1. SweepTypeOK /\ SweepTypeOK'
  BY SweepStepInv DEF SweepInv
<1>2. Crew' = Crew
  BY DEF SweepStep, HandOver, ColumnDone, Leave, CloseJobs, ColumnAlone, Crew
<1>3. /\ Cardinality(Busy) \in Nat /\ Cardinality(Present) \in Nat
      /\ IsFiniteSet(Busy) /\ IsFiniteSet(Present)
  BY <1>1, CrewIsFinite DEF Busy, Present
<1>4. /\ next \in Int /\ NumCols \in Int
      /\ SweepLeft' = 2 * (NumCols + 1 - next') + Cardinality(Busy') + Cardinality(Present')
                        + (IF closed' THEN 0 ELSE 1)
  BY <1>1 DEF SweepTypeOK, SweepLeft
<1>5. ASSUME NEW w \in Workers, HandOver(w)
      PROVE  SweepLeft' < SweepLeft
  <2> USE <1>5 DEF HandOver, Receives
  <2>1. next \in Columns
    BY <1>1 DEF SweepTypeOK
  <2>2. at' = [at EXCEPT ![w] = next] /\ at \in [Workers -> Columns \cup {Waiting, Left}]
    BY <1>1 DEF SweepTypeOK
  <2>3. Busy' = Busy \cup {w} /\ w \notin Busy
    BY <1>1, <1>2, <2>1, <2>2 DEF Busy, Works, Crew, Workers, SweepTypeOK
  <2>4. Present' = Present
    BY <1>1, <1>2, <2>1, <2>2 DEF Present, Crew, Workers, SweepTypeOK
  <2>5. Cardinality(Busy') = Cardinality(Busy) + 1
    BY <1>3, <2>3, FS_AddElement
  <2>6. next' = next + 1 /\ closed' = closed
    OBVIOUS
  <2> QED
    BY <1>3, <1>4, <2>4, <2>5, <2>6 DEF SweepLeft
<1>6. ASSUME NEW w \in Workers, ColumnDone(w)
      PROVE  SweepLeft' < SweepLeft
  <2> USE <1>6 DEF ColumnDone
  <2>1. at' = [at EXCEPT ![w] = Waiting] /\ at \in [Workers -> Columns \cup {Waiting, Left}]
    BY <1>1 DEF SweepTypeOK
  <2>2. Busy' = Busy \ {w} /\ w \in Busy
    BY <1>1, <1>2, <2>1 DEF Busy, Works, Crew, Workers, SweepTypeOK
  <2>3. Present' = Present
    BY <1>1, <1>2, <2>1 DEF Present, Works, Crew, Workers, SweepTypeOK
  <2>4. Cardinality(Busy') = Cardinality(Busy) - 1
    BY <1>3, <2>2, FS_RemoveElement
  <2>5. next' = next /\ closed' = closed
    OBVIOUS
  <2> QED
    BY <1>3, <1>4, <2>3, <2>4, <2>5 DEF SweepLeft
<1>7. ASSUME NEW w \in Workers, Leave(w)
      PROVE  SweepLeft' < SweepLeft
  <2> USE <1>7 DEF Leave, MayLeave
  <2>1. at' = [at EXCEPT ![w] = Left] /\ at \in [Workers -> Columns \cup {Waiting, Left}]
    BY <1>1 DEF SweepTypeOK
  <2>2. Present' = Present \ {w} /\ w \in Present
    BY <1>1, <1>2, <2>1 DEF Present, Crew, Workers, SweepTypeOK
  <2>3. Busy' = Busy
    BY <1>1, <1>2, <2>1 DEF Busy, Works, Crew, Workers, SweepTypeOK
  <2>4. Cardinality(Present') = Cardinality(Present) - 1
    BY <1>3, <2>2, FS_RemoveElement
  <2>5. next' = next /\ closed' = closed
    OBVIOUS
  <2> QED
    BY <1>3, <1>4, <2>3, <2>4, <2>5 DEF SweepLeft
<1>8. CASE CloseJobs \/ ColumnAlone
  <2>1. Busy' = Busy /\ Present' = Present
    BY <1>2, <1>8 DEF CloseJobs, ColumnAlone, Busy, Present, Works
  <2>2. \/ next' = next /\ ~closed /\ closed'
        \/ next' = next + 1 /\ closed' = closed
    BY <1>8 DEF CloseJobs, MayClose, ColumnAlone
  <2> QED
    BY <1>3, <1>4, <2>1, <2>2 DEF SweepLeft
<1> QED
  BY <1>5, <1>6, <1>7, <1>8 DEF SweepStep

(* The order of the places within an iteration. *)
Order(p) ==
  CASE p = "top" -> 0
    [] p = "prepared" -> 1
    [] p = "sweep" -> 2
    [] p = "step" -> 3
    [] p = "line" -> 4
    [] p = "judge" -> 5
    [] p = "perturb" -> 6
    [] p = "close" -> 7
    [] OTHER -> 8

(* A step of a solve brings it further: to the next iteration of those it    *)
(* may make, to a later place of this one, to the next probe of the line     *)
(* search, or it leaves the sweep less to do.                                *)
SolveAdvances ==
  \/ iter < MaxIter /\ iter' = iter + 1
  \/ iter' = iter /\ Order(pc) < Order(pc')
  \/ iter' = iter /\ pc' = pc /\ probes < LineProbes /\ probes' = probes + 1
  \/ iter' = iter /\ pc' = pc /\ SweepLeft \in Nat /\ SweepLeft' \in Nat /\ SweepLeft' < SweepLeft

LEMMA IterateAdvances ==
  ASSUME TypeInv, SweepInv, Iterate
  PROVE  SolveAdvances
<1>1. CASE Interrupted \/ Exhausted \/ Flat \/ Stalled
  BY <1>1 DEF Interrupted, Exhausted, Flat, Stalled, Finish, SolveAdvances, Order
<1>2. CASE BeginSweep \/ EndSweep \/ LineFailed
  BY <1>2 DEF BeginSweep, EndSweep, LineFailed, OnlyThePlace, SolveAdvances, Order
<1>3. CASE Sweep
  <2>1. SweepLeft' < SweepLeft
    BY <1>3, SweepAdvances DEF Sweep
  <2>2. SweepLeft \in Nat /\ SweepLeft' \in Nat
    BY <1>3, SweepLeftIsANumber DEF Sweep
  <2> QED
    BY <1>3, <2>1, <2>2 DEF Sweep, OnlyThePlace, SolveAdvances
<1>4. CASE Singular \/ NextIteration
  BY <1>4 DEF Singular, NextIteration, TypeInv, Counters, InIteration, SolveAdvances
<1>5. ASSUME NEW l \in Landscapes, Prepare(l)
      PROVE  SolveAdvances
  BY <1>5 DEF Prepare, SolveAdvances, Order
<1>6. ASSUME NEW y \in Points, Try(y) \/ ProbeTaken(y)
      PROVE  SolveAdvances
  <2>1. iter' = iter /\ pc \in {"step", "line"} /\ pc' \in {"line", "judge"} /\ pc # pc'
    BY <1>6 DEF Try, ProbeTaken, Evaluates
  <2> QED
    BY <1>6, <2>1 DEF Try, ProbeTaken, SolveAdvances, Order
<1>7. ASSUME NEW y \in Points, ProbeFailed(y)
      PROVE  SolveAdvances
  BY <1>7 DEF ProbeFailed, Evaluates, SolveAdvances
<1>8. ASSUME NEW short \in BOOLEAN, Judge(short)
      PROVE  SolveAdvances
  <2>1. iter' = iter /\ pc = "judge" /\ pc' \in {"done", "perturb", "close"}
    BY <1>8 DEF Judge
  <2> QED
    BY <2>1 DEF SolveAdvances, Order
<1>9. ASSUME NEW y \in Points, Perturb(y)
      PROVE  SolveAdvances
  BY <1>9 DEF Perturb, SolveAdvances, Order
<1> QED
  BY <1>1, <1>2, <1>3, <1>4, <1>5, <1>6, <1>7, <1>8, <1>9 DEF Iterate

(* Whatever the model, the line search and the stall escape do, no step of a *)
(* solve leads back: it ends within its iterations (dls.Solve).              *)
THEOREM SolvesComeToAnEnd == SolverSpec => [][Iterate => SolveAdvances]_solverVars
<1>1. SolverInv /\ [SolverNext]_solverVars => [Iterate => SolveAdvances]_solverVars
  BY IterateAdvances DEF SolverInv, JacobianInv
<1> QED
  BY <1>1, SolverInvAlways, PTL DEF SolverSpec
=============================================================================
