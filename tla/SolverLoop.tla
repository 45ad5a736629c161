----------------------------- MODULE SolverLoop -----------------------------
(***************************************************************************)
(* dls.Solve: the iteration of the damped-least-squares solver.  The       *)
(* linear algebra is abstracted to its outcome (any trial point, any       *)
(* length of step); the control is kept: which merit a trial is compared   *)
(* with, what an accepted step writes, the multipliers, every way to stop, *)
(* the stall escape, and what the result is taken from.  A landscape is    *)
(* one setting of the model (weights, pupil, phase): it says the merit of  *)
(* every point, and the model may change it at the top of an iteration.    *)
(***************************************************************************)
EXTENDS JacobianSweep, RegionActive, FiniteSetsExt

CONSTANTS Layouts, Glasses,       \* the two variables of a design
          Free,                   \* a variable is not pinned
          Landscapes,             \* settings of the model
          Merit,                  \* merit of a point under a landscape
          Drift,                  \* the landscapes one may turn into
          Violation,              \* the residual of each constraint at a point
          MaxIter,                \* opts.MaxIter
          LineProbes,             \* 8 in the code
          StallAfter, StallTail,  \* 10 rejected steps; not in the last 10
          NoImproveLimit,         \* 8 small steps without improvement
          StallWindow,            \* iterations between two stall checks
          MuMax, MuGrowth         \* cap and growth of a constraint's penalty

Points == [layout : Layouts, glass : Glasses]

ASSUME SolverAssumption ==
  /\ Free \notin Layouts
  /\ Merit \in [Landscapes -> [Points -> Int]]
  /\ Drift \in [Landscapes -> SUBSET Landscapes]
  /\ Violation \in [Points -> [Constraints -> Int]]
  /\ \A p \in Points, j \in Constraints \ Equality : Violation[p][j] >= 0
  /\ {MaxIter, LineProbes, StallAfter, StallTail, NoImproveLimit, StallWindow,
      MuMax, MuGrowth} \subseteq Nat
  /\ MuMax > 0 /\ MuGrowth > 0 /\ NoImproveLimit > 0

\* opts.DisableStallEscape, opts.EnableStallDone, region_active and whether the
\* model has constraints.
Options == [noEscape : BOOLEAN, stallDone : BOOLEAN,
            regional : BOOLEAN, constrained : BOOLEAN]

NoOptions == [noEscape |-> FALSE, stallDone |-> FALSE,
              regional |-> FALSE, constrained |-> FALSE]

Statuses == {"running", "interrupted", "max_iterations", "converged",
             "converged_gradient", "converged_stalled"}
Places == {"idle", "top", "prepared", "sweep", "step", "line", "judge",
           "perturb", "close", "done"}

VARIABLES
  landscape,    \* the setting of the model in force
  pin,          \* the layout while Min == Max, else Free
  opts,
  pc, iter, status,
  x, merit,     \* xNorm and its penalised merit
  bestX,        \* bestXNorm: what the result is taken from
  bestMerit,    \* what the result reports
  known,        \* bestKnownNorm: where the stall escape starts again
  trial, trialMerit, probes,
  lambda, mu,   \* the solver's multipliers and penalty weights
  prev,         \* cPrev, as the point it was measured at
  working,      \* activeIndices
  stalled, noImprove, lastCheck, windowMerit,
  start,        \* history: where this solve began
  moved         \* history: the landscape has changed during this solve

bestVars == <<bestX, bestMerit, known>>
trialVars == <<trial, trialMerit, probes>>
multVars == <<lambda, mu, prev, working>>
stallVars == <<stalled, noImprove, lastCheck, windowMerit>>
fixedVars == <<pin, opts, start>>
solverVars == <<sweepVars, regionVars, fixedVars, landscape, moved, pc, iter, status,
                x, merit, bestVars, trialVars, multVars, stallVars>>

Cons == IF opts.constrained THEN Constraints ELSE {}

DenormalisedByScale(p) == p   \* a mutant: Min + n * scale for every variable

\* denormValue: a variable whose Max <= Min is at Min, whatever its coordinate.
Denormalised(p) == IF pin = Free THEN p ELSE [p EXCEPT !.layout = pin]

-----------------------------------------------------------------------------
\* Merits are doubled, so that the half of the quadratic penalty is whole.
Penalty(lam, m, j, p) == 2 * lam * Violation[p][j] + m * Violation[p][j] * Violation[p][j]

AfterTermsOrZero(lam, S, p) ==   \* a mutant: a term of zero resets as well
  [j \in Constraints |-> IF j \in S /\ Penalty(lam[j], mu[j], j, p) <= 0 THEN 0 ELSE lam[j]]

\* constraintTerm: a negative term sets the multiplier to zero, in place.
AfterTerms(lam, S, p) ==
  [j \in Constraints |-> IF j \in S /\ Penalty(lam[j], mu[j], j, p) < 0 THEN 0 ELSE lam[j]]

\* EvaluateMerit plus sumConstraintTerms over S.
Measured(l, lam, m, S, p) ==
  IF S = {} THEN 2 * Merit[l][p]
  ELSE 2 * Merit[l][p] + MapThenSumSet(LAMBDA j : Penalty(lam[j], m[j], j, p), S)

\* What an evaluation at p yields, the resets it makes included.
Value(p) == Measured(landscape, AfterTerms(lambda, working, p), mu, working, p)

Zeros == [j \in Constraints |-> 0]
Ones == [j \in Constraints |-> 1]

SolverInit ==
  /\ Rested /\ stop = FALSE /\ crew \in Workers
  /\ RegionInit
  /\ landscape \in Landscapes /\ moved = FALSE
  /\ pin = Free /\ opts = NoOptions /\ pc = "idle" /\ iter = 0 /\ status = "running"
  /\ x \in Points /\ merit = 2 * Merit[landscape][x]
  /\ start = x /\ bestX = x /\ known = x /\ bestMerit = merit
  /\ trial = x /\ trialMerit = merit /\ probes = 0
  /\ lambda = Zeros /\ mu = Ones
  /\ prev = x /\ working = {}
  /\ stalled = 0 /\ noImprove = 0 /\ lastCheck = 0 /\ windowMerit = merit

\* The solve begins at p in landscape l; its own multipliers are all zero.
Begin(p, l, o, n) ==
  /\ pc \in {"idle", "done"}
  /\ n = Free \/ p.layout = n
  /\ working' = (IF o.constrained THEN Constraints ELSE {})
  /\ lambda' = Zeros /\ mu' = Ones
  /\ merit' = Measured(l, Zeros, Ones, working', p)
  /\ bestMerit' = merit' /\ trialMerit' = merit' /\ windowMerit' = merit'
  /\ x' = p /\ start' = p /\ bestX' = p /\ known' = p /\ trial' = p /\ prev' = p
  /\ landscape' = l /\ moved' = FALSE /\ pin' = n /\ opts' = o
  /\ pc' = "top" /\ iter' = 0 /\ status' = "running" /\ probes' = 0
  /\ stalled' = 0 /\ noImprove' = 0 /\ lastCheck' = 0
  /\ UNCHANGED <<sweepVars, regionVars>>

GoesOnOnceMore == iter <= MaxIter   \* a mutant
GoesOn == iter < MaxIter

Finish(s) == /\ pc' = "done" /\ status' = s
             /\ UNCHANGED <<sweepVars, regionVars, fixedVars, landscape, moved, iter, x,
                            merit, bestVars, trialVars, multVars, stallVars>>

\* The solver looks at stop before an iteration, before and after the sweep,
\* before each probe of the line search and at the end of an iteration.
Interrupted == /\ stop
               /\ \/ pc = "top" /\ GoesOn
                  \/ pc = "prepared"
                  \/ pc = "sweep" /\ SweepReturned
                  \/ pc = "line" /\ probes < LineProbes
                  \/ pc = "close"
               /\ Finish("interrupted")

Exhausted == /\ pc = "top" /\ ~GoesOn
             /\ Finish("max_iterations")

\* UpdatePupils and UpdateMeritWeights may change what the merit means; then
\* the solver reads the model's multipliers, and only then does the model
\* update its active set and multipliers at the current point.
Prepare(l) ==
  /\ pc = "top" /\ GoesOn /\ ~stop
  /\ l \in Drift[landscape] \cup {landscape}
  /\ landscape' = l /\ moved' = (moved \/ l # landscape)
  /\ IF opts.regional /\ opts.constrained
     THEN /\ lambda' = multiplier
          /\ UpdateActiveSet(Violation[x])
          /\ working' = WorkingSet(active')
     ELSE /\ working' = Cons
          /\ UNCHANGED <<lambda, regionVars>>
  /\ pc' = "prepared"
  /\ UNCHANGED <<sweepVars, fixedVars, iter, status, x, merit, bestVars, trialVars,
                 mu, prev, stallVars>>

OnlyThePlace(s) == /\ pc' = s
                   /\ UNCHANGED <<regionVars, fixedVars, landscape, moved, iter, status, x,
                                  merit, bestVars, trialVars, multVars, stallVars>>

BeginSweep == /\ pc = "prepared" /\ ~stop
              /\ StartSweep
              /\ OnlyThePlace("sweep")

Sweep == /\ pc = "sweep"
         /\ SweepStep
         /\ OnlyThePlace("sweep")

EndSweep == /\ pc = "sweep" /\ SweepReturned /\ ~stop
            /\ OnlyThePlace("step")
            /\ UNCHANGED sweepVars

\* The gradient is below the tolerance.
Flat == /\ pc = "step"
        /\ Finish("converged_gradient")

\* Singular normal equations: more damping, and the next iteration at once.
Singular == /\ pc = "step"
            /\ iter' = iter + 1 /\ pc' = "top"
            /\ UNCHANGED <<sweepVars, regionVars, fixedVars, landscape, moved, status, x,
                           merit, bestVars, trialVars, multVars, stallVars>>

\* The full step, and the shorter ones: one takes the place of the trial when
\* the merit falls far enough.  Every evaluation may reset multipliers.
Evaluates(p) == /\ lambda' = AfterTerms(lambda, working, p)
                /\ UNCHANGED <<sweepVars, regionVars, fixedVars, landscape, moved, iter,
                               status, x, merit, bestVars, mu, prev, working, stallVars>>

Try(y) == LET p == Denormalised(y) IN
  /\ pc = "step"
  /\ trial' = p /\ trialMerit' = Value(p) /\ probes' = 0
  /\ pc' = IF Value(p) < merit THEN "judge" ELSE "line"
  /\ Evaluates(p)

ProbeTaken(y) == LET p == Denormalised(y) IN
  /\ pc = "line" /\ probes < LineProbes /\ ~stop
  /\ Value(p) < merit
  /\ trial' = p /\ trialMerit' = Value(p)
  /\ pc' = "judge"
  /\ Evaluates(p) /\ UNCHANGED probes

ProbeFailed(y) ==
  /\ pc = "line" /\ probes < LineProbes /\ ~stop
  /\ probes' = probes + 1
  /\ Evaluates(Denormalised(y)) /\ UNCHANGED <<pc, trial, trialMerit>>

LineFailed == /\ pc = "line" /\ probes = LineProbes
              /\ OnlyThePlace("judge")
              /\ UNCHANGED sweepVars

Accepted == trialMerit < merit

\* A violation that persists on an accepted step is weighed more.
Persists(j) == LET before == Violation[prev][j]
                   now == Violation[trial][j]
               IN  /\ now # 0
                   /\ 4 * (IF now < 0 THEN -now ELSE now) > (IF before < 0 THEN -before ELSE before)
Heavier(m) == IF m * MuGrowth > MuMax THEN MuMax ELSE m * MuGrowth

BetterThanCurrent(v) == v < merit   \* a mutant: best follows the current point
Better(v) == v < bestMerit

TakeStep ==
  /\ x' = trial /\ merit' = trialMerit
  /\ lambda' = [j \in Constraints |->
                   IF j \in working THEN lambda[j] + mu[j] * Violation[trial][j] ELSE lambda[j]]
  /\ mu' = [j \in Constraints |-> IF j \in Cons /\ Persists(j) THEN Heavier(mu[j]) ELSE mu[j]]
  /\ IF opts.regional /\ opts.constrained THEN SetLambdas(lambda') ELSE UNCHANGED regionVars
  /\ prev' = trial
  /\ IF Better(trialMerit)
     THEN bestX' = trial /\ known' = trial /\ bestMerit' = trialMerit
     ELSE UNCHANGED bestVars
  /\ stalled' = 0

RejectStep == /\ stalled' = stalled + 1
              /\ UNCHANGED <<x, merit, lambda, mu, prev, bestVars, regionVars>>

Feasible(p) == \A j \in Cons : Violation[p][j] = 0
ConstraintsWereOK == Feasible(prev)   \* a mutant: before cPrev is brought up to date
ConstraintsOK == Feasible(prev')

\* The trial is taken or not (and forgotten); then the solver counts short steps without
\* improvement, and a long series of rejections asks for the stall escape.
Judge(short) ==
  /\ pc = "judge"
  /\ IF Accepted THEN TakeStep ELSE RejectStep
  /\ trial' = x' /\ trialMerit' = merit' /\ probes' = 0
  /\ noImprove' = IF ~short THEN noImprove
                  ELSE IF merit' >= bestMerit' /\ ConstraintsOK THEN noImprove + 1 ELSE 0
  /\ IF short /\ noImprove' >= NoImproveLimit /\ ConstraintsOK
     THEN pc' = "done" /\ status' = "converged"
     ELSE /\ pc' = IF /\ stalled' >= StallAfter /\ ~opts.noEscape
                      /\ iter < MaxIter - StallTail
                   THEN "perturb" ELSE "close"
          /\ UNCHANGED status
  /\ UNCHANGED <<sweepVars, fixedVars, landscape, moved, iter, working, lastCheck, windowMerit>>

\* The stall escape: from the best known point to a perturbed one, whatever
\* its merit.  A perturbed point that is better is remembered as the best
\* known one, and its merit as the best merit; the best point is not.
KeepPerturbedMerit(p) ==   \* a mutant: the merit alone
  IF Value(p) < bestMerit THEN bestMerit' = Value(p) /\ UNCHANGED known
                         ELSE UNCHANGED <<bestMerit, known>>
KeepPerturbed(p) ==
  IF Value(p) < bestMerit THEN bestMerit' = Value(p) /\ known' = p
                         ELSE UNCHANGED <<bestMerit, known>>

Perturb(y) == LET p == Denormalised(y) IN
  /\ pc = "perturb"
  /\ x' = p /\ merit' = Value(p) /\ prev' = p
  /\ lambda' = AfterTerms(lambda, working, p)
  /\ KeepPerturbed(p)
  /\ stalled' = 0 /\ pc' = "close"
  /\ UNCHANGED <<sweepVars, regionVars, fixedVars, landscape, moved, iter, status, bestX,
                 trialVars, mu, working, noImprove, lastCheck, windowMerit>>

CheckDue == /\ opts.noEscape /\ opts.stallDone
            /\ iter - lastCheck >= StallWindow

\* A relative gain below the tolerance is no gain here.
WindowStalled == lastCheck > 0 /\ bestMerit = windowMerit

Stalled == /\ pc = "close" /\ ~stop
           /\ CheckDue /\ WindowStalled
           /\ Finish("converged_stalled")

NextIteration ==
  /\ pc = "close" /\ ~stop
  /\ IF CheckDue THEN ~WindowStalled /\ windowMerit' = bestMerit /\ lastCheck' = iter
                 ELSE UNCHANGED <<windowMerit, lastCheck>>
  /\ iter' = iter + 1 /\ pc' = "top"
  /\ UNCHANGED <<sweepVars, regionVars, fixedVars, landscape, moved, status, x, merit,
                 bestVars, trialVars, multVars, stalled, noImprove>>

Iterate == \/ Interrupted \/ Exhausted \/ \E l \in Landscapes : Prepare(l)
           \/ BeginSweep \/ Sweep \/ EndSweep
           \/ Flat \/ Singular \/ \E y \in Points : Try(y)
           \/ \E y \in Points : ProbeTaken(y)
           \/ \E y \in Points : ProbeFailed(y)
           \/ LineFailed
           \/ \E short \in BOOLEAN : Judge(short)
           \/ \E y \in Points : Perturb(y)
           \/ Stalled \/ NextIteration

\* The stop channel is closed, by anybody, at any time.
Stop == /\ ~stop /\ stop' = TRUE
        /\ UNCHANGED <<crew, next, closed, at, computed, regionVars, fixedVars, landscape,
                       moved, pc, iter, status, x, merit, bestVars, trialVars, multVars,
                       stallVars>>

BeginSolve == \E p \in Points, l \in Landscapes, o \in Options, n \in Layouts \cup {Free} :
                Begin(p, l, o, n)

SolverNext == BeginSolve \/ Iterate \/ Stop

\* A solve that has begun runs: its goroutine and its workers are scheduled.
SolverSpec == SolverInit /\ [][SolverNext]_solverVars /\ WF_solverVars(Iterate)

-----------------------------------------------------------------------------
SolverTypeOK ==
  /\ SweepTypeOK /\ RegionTypeOK
  /\ landscape \in Landscapes /\ moved \in BOOLEAN /\ pin \in Layouts \cup {Free}
  /\ opts \in Options /\ pc \in Places /\ status \in Statuses
  /\ {x, bestX, known, trial, prev, start} \subseteq Points
  /\ iter \in 0 .. MaxIter /\ probes \in 0 .. LineProbes
  /\ lambda \in [Constraints -> Int] /\ mu \in [Constraints -> Int]
  /\ working \subseteq Constraints
  /\ stalled \in 0 .. MaxIter /\ noImprove \in 0 .. NoImproveLimit
  /\ lastCheck \in 0 .. MaxIter

\* The normal equations are built from a whole Jacobian: after a sweep that a
\* stop cut short, the solver never goes on to a step (solver.go:190-194).
JacobianComplete == pc \in {"step", "line", "judge", "perturb", "close"} => computed = Columns

\* While the model does not change and there are no constraints, the merit the
\* stall escape starts again from is that of its point (solver.go:545-582).
KnownCarriesBest == ~moved /\ ~opts.constrained => bestMerit = 2 * Merit[landscape][known]

\* What the solver hands back is no worse than where it began, whatever the
\* stall escape and the interruptions did in between (solver.go:651-668).
DeliveredNotWorse ==
  ~moved /\ ~opts.constrained => Merit[landscape][bestX] <= Merit[landscape][start]

\* A pinned variable never moves: not in a trial, not in the perturbed point,
\* not in the result (solver.go:1026-1036; EnterGlassPhase relies on it).
PinnedStays == pin # Free => \A p \in {x, bestX, known, trial} : p.layout = pin

\* "converged" is claimed only where the constraints hold: the residuals it
\* looks at are those of the point the solver stands on, whichever of the
\* accepted steps and perturbations brought it there (solver.go:515-539).
ConvergedAtFeasible == status = "converged" => Feasible(x)

\* Evaluating a trial leaves the multiplier of an inequality alone: only the
\* steps that are taken raise it (solver.go:938-945).
TrialsKeepMultipliers ==
  [][(pc \in {"step", "line", "perturb"} =>
        \A j \in Constraints \ Equality : lambda'[j] = lambda[j])]_solverVars

\* What the result reports as its merit is the merit of the point it hands
\* back (solver.go:660-668, "returning the best point recorded so far").
DeliveredMerit == pc = "done" /\ ~moved /\ ~opts.constrained
                    => bestMerit = 2 * Merit[landscape][bestX]
=============================================================================
