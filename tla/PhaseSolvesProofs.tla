-------------------------- MODULE PhaseSolvesProofs --------------------------
(***************************************************************************)
(* What holds of a whole escape cycle, for any model, any sequence of      *)
(* settings, any swarm and any limits: the solver's invariant survives the *)
(* composition, the swarm keeps its best, and the cycle keeps its gain.    *)
(***************************************************************************)
EXTENDS PhaseSolves, SolverLoopProofs

-----------------------------------------------------------------------------
(* The swarm.  The start point is among the points it has evaluated. *)
SwarmInv ==
  /\ setting \in Settings /\ gbestPos \in Spots /\ from \in Spots /\ seen \subseteq Spots
  /\ swarming # "before" => from \in seen
  /\ swarming # "before" /\ ~turned => gbestMerit = SpotMerit[setting][gbestPos]
  /\ SwarmKeepsBest

LEMMA KeyIsANumber ==
  ASSUME NEW s \in Settings, NEW p \in Spots
  PROVE  Key(s, p) \in Int
BY SwarmAssumption DEF Key, Fit

(* The best of a group takes the lead, or the old lead is no worse than any. *)
LEMMA FollowLeads ==
  ASSUME NEW s \in Settings, NEW among \in SUBSET Particles, NEW pos \in [Particles -> Spots],
         NEW i \in among, IsFirstBest(i, s, pos, among), Follow(s, pos, i),
         gbestPos \in Spots, gbestKey = Key(s, gbestPos), gbestMerit = SpotMerit[s][gbestPos]
  PROVE  /\ gbestPos' \in Spots /\ gbestKey' = Key(s, gbestPos')
         /\ gbestMerit' = SpotMerit[s][gbestPos']
         /\ gbestKey' <= gbestKey /\ \A k \in among : gbestKey' <= Key(s, pos[k])
<1>1. /\ Key(s, gbestPos) \in Int
      /\ \A k \in among : pos[k] \in Spots /\ Key(s, pos[k]) \in Int
  BY KeyIsANumber
<1>2. \A k \in among : Key(s, pos[i]) <= Key(s, pos[k])
  BY <1>1 DEF IsFirstBest
<1>3. CASE Key(s, pos[i]) < gbestKey
  BY <1>1, <1>2, <1>3 DEF Follow
<1>4. CASE ~(Key(s, pos[i]) < gbestKey)
  BY <1>1, <1>2, <1>4 DEF Follow, gbestVars
<1> QED
  BY <1>3, <1>4

LEMMA FollowStays ==
  ASSUME NEW s, NEW pos \in [Particles -> Spots], NEW i \in Particles, Follow(s, pos, i),
         gbestPos \in Spots
  PROVE  gbestPos' \in Spots
BY DEF Follow, gbestVars

LEMMA LaunchInv ==
  ASSUME SwarmInv, NEW s \in Settings, NEW x0 \in Spots, NEW pos \in [Particles -> Spots],
         Launch(x0, s, pos)
  PROVE  SwarmInv'
<1>1. PICK i \in Particles : /\ IsFirstBest(i, s, pos, Particles)
                             /\ gbestPos' = pos[i] /\ gbestKey' = Key(s, pos[i])
                             /\ gbestMerit' = SpotMerit[s][pos[i]]
  BY DEF Launch
<1>2. /\ setting' = s /\ from' = x0 /\ seen' = {pos[k] : k \in Particles} /\ pos[1] = x0
      /\ UNCHANGED <<penalised, turned>>
  BY DEF Launch, Placed
<1>3. 1 \in Particles
  BY SwarmAssumption DEF Particles
<1>4. \A k \in Particles : pos[k] \in Spots /\ Key(s, pos[k]) \in Int
  BY KeyIsANumber
<1>5. \A k \in Particles : Key(s, pos[i]) <= Key(s, pos[k])
  BY <1>1, <1>4 DEF IsFirstBest
<1>6. SwarmKeepsBest'
  BY <1>1, <1>2, <1>5 DEF SwarmKeepsBest, Key, Fit
<1> QED
  BY <1>1, <1>2, <1>3, <1>4, <1>6 DEF SwarmInv

LEMMA FlyInv ==
  ASSUME SwarmInv, NEW stopSeen, NEW s \in Settings, NEW pos \in [Particles -> Spots],
         Fly(stopSeen, s, pos)
  PROVE  SwarmInv'
<1>1. PICK i \in Particles : IsFirstBest(i, s, pos, Particles) /\ Follow(s, pos, i)
  BY DEF Fly
<1>2. /\ swarming = "flying" /\ setting' = s /\ turned' = (turned \/ s # setting)
      /\ seen' = seen \cup {pos[k] : k \in Particles} /\ UNCHANGED <<penalised, from>>
  BY DEF Fly
<1>3. gbestPos' \in Spots
  BY <1>1, FollowStays DEF SwarmInv
<1>4. seen' \subseteq Spots /\ from' \in seen'
  BY <1>2 DEF SwarmInv
<1>5. ASSUME ~turned'
      PROVE  /\ gbestKey' = Key(s, gbestPos') /\ gbestMerit' = SpotMerit[s][gbestPos']
             /\ \A p \in seen' : gbestKey' <= Key(s, p)
  <2>1. ~turned /\ s = setting
    BY <1>2, <1>5
  <2>2. /\ gbestKey = Key(s, gbestPos) /\ gbestMerit = SpotMerit[s][gbestPos]
        /\ \A p \in seen : gbestKey <= Key(s, p)
    BY <1>2, <2>1 DEF SwarmInv, SwarmKeepsBest
  <2>3. /\ gbestKey' = Key(s, gbestPos') /\ gbestMerit' = SpotMerit[s][gbestPos']
        /\ gbestKey' <= gbestKey /\ \A k \in Particles : gbestKey' <= Key(s, pos[k])
    BY <1>1, <2>2, FollowLeads DEF SwarmInv
  <2>4. gbestKey \in Int /\ gbestKey' \in Int /\ \A p \in seen' : Key(s, p) \in Int
    BY <1>3, <1>4, <2>2, <2>3, KeyIsANumber DEF SwarmInv
  <2> QED
    BY <1>2, <2>2, <2>3, <2>4
<1>6. SwarmKeepsBest'
  BY <1>2, <1>5 DEF SwarmKeepsBest, Key, Fit
<1> QED
  BY <1>2, <1>3, <1>4, <1>5, <1>6 DEF SwarmInv

LEMMA RestartInv ==
  ASSUME SwarmInv, NEW lost \in SUBSET Particles, NEW pos \in [Particles -> Spots],
         Restart(lost, pos)
  PROVE  SwarmInv'
<1>1. PICK i \in lost : IsFirstBest(i, setting, pos, lost) /\ Follow(setting, pos, i)
  BY DEF Restart
<1>2. /\ swarming = "restarting" /\ seen' = seen \cup {pos[k] : k \in lost}
      /\ UNCHANGED <<setting, penalised, from, turned>>
  BY DEF Restart
<1>3. gbestPos' \in Spots
  BY <1>1, FollowStays DEF SwarmInv
<1>4. seen' \subseteq Spots /\ from' \in seen'
  BY <1>2 DEF SwarmInv
<1>5. ASSUME ~turned
      PROVE  /\ gbestKey' = Key(setting, gbestPos') /\ gbestMerit' = SpotMerit[setting][gbestPos']
             /\ \A p \in seen' : gbestKey' <= Key(setting, p)
  <2>1. /\ gbestKey = Key(setting, gbestPos) /\ gbestMerit = SpotMerit[setting][gbestPos]
        /\ \A p \in seen : gbestKey <= Key(setting, p)
    BY <1>2, <1>5 DEF SwarmInv, SwarmKeepsBest
  <2>2. /\ gbestKey' = Key(setting, gbestPos') /\ gbestMerit' = SpotMerit[setting][gbestPos']
        /\ gbestKey' <= gbestKey /\ \A k \in lost : gbestKey' <= Key(setting, pos[k])
    BY <1>1, <2>1, FollowLeads DEF SwarmInv
  <2>3. gbestKey \in Int /\ gbestKey' \in Int /\ \A p \in seen' : Key(setting, p) \in Int
    BY <1>3, <1>4, <2>1, <2>2, KeyIsANumber DEF SwarmInv
  <2> QED
    BY <1>2, <2>1, <2>2, <2>3
<1>6. SwarmKeepsBest'
  BY <1>2, <1>5 DEF SwarmKeepsBest, Key, Fit
<1> QED
  BY <1>2, <1>3, <1>4, <1>5, <1>6 DEF SwarmInv

LEMMA SwarmStepInv ==
  ASSUME SwarmInv, SwarmStep
  PROVE  SwarmInv'
<1>1. CASE Break(stop) \/ FlownOut
  BY <1>1 DEF Break, FlownOut, Over, gbestVars, SwarmInv, SwarmKeepsBest, Key, Fit
<1>2. CASE \E s \in Settings, pos \in [Particles -> Spots] : Fly(stop, s, pos)
  BY <1>2, FlyInv
<1>3. CASE \E lost \in SUBSET Particles, pos \in [Particles -> Spots] : Restart(lost, pos)
  BY <1>3, RestartInv
<1> QED
  BY <1>1, <1>2, <1>3 DEF SwarmStep

LEMMA SwarmGoneInv ==
  ASSUME SwarmInv, NEW s \in Settings, SwarmGone(s)
  PROVE  SwarmInv'
BY DEF SwarmGone, SwarmInv, SwarmKeepsBest

LEMMA SwarmStutterInv ==
  ASSUME SwarmInv, UNCHANGED swarmVars
  PROVE  SwarmInv'
BY DEF swarmVars, gbestVars, SwarmInv, SwarmKeepsBest, Key, Fit

LEMMA SwarmInvProperties ==
  ASSUME SwarmInv
  PROVE  SwarmKeepsBest /\ SwarmNotWorse
BY DEF SwarmInv, SwarmKeepsBest, SwarmNotWorse

-----------------------------------------------------------------------------
(* The composition.  What the cycle knows: its points are points, its        *)
(* options are options, and it is in the glass phase only for that solve.    *)
CycleTypes ==
  /\ config \in Options /\ {escaped, cleanStart, found} \subseteq Points
  /\ inGlass => stage \in {"glassing", "aborted"}

LEMMA CycleOptionsAreOptions ==
  ASSUME config \in Options, NEW e \in BOOLEAN
  PROVE  CycleOptions(e) \in Options
<1>1. config.stallDone \in BOOLEAN /\ config.regional \in BOOLEAN /\ config.constrained \in BOOLEAN
  BY DEF Options
<1>2. (e /\ config.stallDone) \in BOOLEAN
  BY <1>1
<1> QED
  BY <1>1, <1>2 DEF CycleOptions, Options

(* Every step of a cycle is a step of the solver, or none of it. *)
LEMMA PhaseStepsSolve ==
  ASSUME CycleTypes, PhaseNext
  PROVE  SolverNext \/ UNCHANGED solverVars
<1> USE DEF CycleTypes
<1>1. CycleOptions(TRUE) \in Options /\ CycleOptions(FALSE) \in Options
  BY CycleOptionsAreOptions
<1>2. ASSUME NEW p \in Points, NEW l \in Landscapes, NEW o \in Options,
             NEW n \in Layouts \cup {Free}, Begin(p, l, o, n)
      PROVE  SolverNext
  BY <1>2 DEF SolverNext, BeginSolve
<1>3. escaped.layout \in Layouts /\ Start \in Points /\ CleanPin \in Layouts \cup {Free}
  BY PhaseAssumption DEF Points, CleanPin
<1>4. ASSUME NEW l \in Landscapes, ExploreByDLS(l) \/ GlassSolve(l) \/ CleanSolve(l) \/ Retry(l)
      PROVE  SolverNext
  BY <1>1, <1>2, <1>3, <1>4 DEF ExploreByDLS, GlassSolve, CleanSolve, Retry, RetryStart
<1>5. CASE SolverStep \/ StopSolves
  BY <1>5 DEF SolverStep, StopSolves, SolverNext
<1>6. CASE \/ SwarmStep \/ EscapeEnds \/ SwarmEnds \/ GlassAborted \/ CleanEnds \/ RetryEnds
           \/ \E pos \in [Particles -> Spots] : ExploreBySwarm(pos)
           \/ \E l \in Landscapes : GlassEnds(l)
  BY <1>6 DEF SwarmStep, EscapeEnds, SwarmEnds, GlassAborted, CleanEnds, RetryEnds, ExploreBySwarm,
              GlassEnds
<1> QED
  BY <1>4, <1>5, <1>6 DEF PhaseNext, PhaseStep

LEMMA PhaseStepsSwarm ==
  ASSUME SolverInv, SwarmInv, CycleTypes, PhaseNext
  PROVE  SwarmInv'
<1>1. CASE SwarmStep
  BY <1>1, SwarmStepInv
<1>2. ASSUME NEW pos \in [Particles -> Spots], ExploreBySwarm(pos)
      PROVE  SwarmInv'
  BY <1>2, LaunchInv, PhaseAssumption DEF ExploreBySwarm, SwarmInv
<1>3. CASE SwarmEnds
  <2>1. Unbumped[landscape] \in Settings
    BY PhaseAssumption DEF SolverInv, TypeInv, SolverTypeOK
  <2> QED
    BY <1>3, <2>1, SwarmGoneInv DEF SwarmEnds
<1>4. CASE UNCHANGED swarmVars
  BY <1>4, SwarmStutterInv
<1>5. CASE \E l \in Landscapes : ExploreByDLS(l) \/ GlassSolve(l) \/ GlassEnds(l) \/ CleanSolve(l) \/ Retry(l)
  BY <1>4, <1>5 DEF ExploreByDLS, GlassSolve, GlassEnds, CleanSolve, Retry
<1>6. CASE SolverStep \/ StopSolves \/ EscapeEnds \/ GlassAborted \/ CleanEnds \/ RetryEnds
  BY <1>4, <1>6 DEF SolverStep, StopSolves, EscapeEnds, GlassAborted, CleanEnds, RetryEnds
<1> QED
  BY <1>1, <1>2, <1>3, <1>5, <1>6 DEF PhaseNext, PhaseStep

LEMMA PhaseStepsTypes ==
  ASSUME SolverInv, SwarmInv, CycleTypes, PhaseNext
  PROVE  CycleTypes'
<1> USE DEF CycleTypes
<1>1. bestX \in Points /\ gbestPos \in Points /\ Settled[bestX] \in Points
  BY PhaseAssumption DEF SolverInv, TypeInv, SolverTypeOK, SwarmInv
<1>2. ASSUME NEW l \in Landscapes, ExploreByDLS(l) \/ GlassSolve(l) \/ CleanSolve(l) \/ Retry(l)
      PROVE  CycleTypes'
  <2>1. UNCHANGED <<config, escaped, cleanStart, found>>
    BY <1>2 DEF ExploreByDLS, GlassSolve, CleanSolve, Retry, MoveTo
  <2>2. \/ stage' = "glassing"
        \/ (inGlass' <=> inGlass) /\ stage \notin {"glassing", "aborted"}
    BY <1>2 DEF ExploreByDLS, GlassSolve, CleanSolve, Retry, MoveTo
  <2> QED
    BY <2>1, <2>2
<1>7. ASSUME NEW l \in Landscapes, GlassEnds(l)
      PROVE  CycleTypes'
  <2>1. UNCHANGED <<config, escaped, found>> /\ cleanStart' \in {Settled[bestX], escaped}
    BY <1>7 DEF GlassEnds
  <2>2. ~inGlass'
    BY <1>7 DEF GlassEnds, AfterGlass
  <2> QED
    BY <1>1, <2>1, <2>2
<1>3. CASE SolverStep \/ StopSolves \/ SwarmStep
  BY <1>3 DEF SolverStep, StopSolves, SwarmStep, cycleVars
<1>4. CASE EscapeEnds \/ SwarmEnds
  BY <1>1, <1>4 DEF EscapeEnds, SwarmEnds, Explored
<1>5. CASE GlassAborted \/ CleanEnds \/ RetryEnds
  BY <1>1, <1>5 DEF GlassAborted, CleanEnds, RetryEnds
<1>6. CASE \E pos \in [Particles -> Spots] : ExploreBySwarm(pos)
  BY <1>6 DEF ExploreBySwarm, MoveTo
<1> QED
  BY <1>2, <1>3, <1>4, <1>5, <1>6, <1>7 DEF PhaseNext, PhaseStep

-----------------------------------------------------------------------------
(* What an iteration never does: it does not go on after the end, and it     *)
(* leaves the pin, the options and the start alone; a new setting is noted.  *)
LEMMA IterateKeeps ==
  ASSUME Iterate
  PROVE  /\ pc # "done" /\ UNCHANGED fixedVars
         /\ \/ landscape' = landscape /\ (moved' <=> moved)
            \/ landscape' \in Drift[landscape] /\ moved'
<1>1. CASE Interrupted \/ Exhausted \/ Flat \/ Stalled
  BY <1>1 DEF Interrupted, Exhausted, Flat, Stalled, Finish
<1>2. CASE BeginSweep \/ Sweep \/ EndSweep \/ LineFailed
  BY <1>2 DEF BeginSweep, Sweep, EndSweep, LineFailed, OnlyThePlace
<1>3. CASE Singular \/ NextIteration
  BY <1>3 DEF Singular, NextIteration
<1>4. ASSUME NEW l \in Landscapes, Prepare(l)
      PROVE  /\ pc # "done" /\ UNCHANGED fixedVars
             /\ \/ landscape' = landscape /\ (moved' <=> moved)
                \/ landscape' \in Drift[landscape] /\ moved'
  <2>1. /\ pc # "done" /\ UNCHANGED fixedVars /\ landscape' = l
        /\ l \in Drift[landscape] \cup {landscape}
    BY <1>4 DEF Prepare
  <2>2. moved' <=> (moved \/ l # landscape)
    BY <1>4 DEF Prepare
  <2> QED
    BY <2>1, <2>2
<1>5. CASE \E y \in Points : Try(y) \/ ProbeTaken(y) \/ ProbeFailed(y) \/ Perturb(y)
  BY <1>5 DEF Try, ProbeTaken, ProbeFailed, Evaluates, Perturb
<1>6. CASE \E short \in BOOLEAN : Judge(short)
  BY <1>6 DEF Judge
<1> QED
  BY <1>1, <1>2, <1>3, <1>4, <1>5, <1>6 DEF Iterate

(* The clean solve and its retry run free and under the ordinary merit, and, *)
(* until the model changes, under a landscape of the clean phase.            *)
CleanStages == {"cleaning", "retrying"}
FreeInv == stage \in CleanStages =>
  /\ pin = Free /\ landscape \notin Colour
  /\ ~moved => landscape \in Plain
  /\ opts.constrained <=> config.constrained

LEMMA PhaseStepsFree ==
  ASSUME SolverInv, CycleTypes, FreeInv, PhaseNext
  PROVE  FreeInv'
<1> USE DEF CleanStages
<1>1. CASE SolverStep
  <2>1. /\ UNCHANGED fixedVars /\ UNCHANGED cycleVars
        /\ \/ landscape' = landscape /\ (moved' <=> moved)
           \/ landscape' \in Drift[landscape] /\ moved'
    BY <1>1, IterateKeeps DEF SolverStep
  <2>2. landscape \in Landscapes
    BY DEF SolverInv, TypeInv, SolverTypeOK
  <2> QED
    BY <2>1, <2>2, PhaseAssumption DEF FreeInv, fixedVars, cycleVars
<1>2. ASSUME NEW l \in Landscapes, CleanSolve(l) \/ Retry(l)
      PROVE  FreeInv'
  <2>1. CleanPin = Free /\ CleanLandscapes = Plain
    BY <1>2 DEF CleanSolve, Retry, CycleTypes, CleanPin, CleanLandscapes
  <2>2. pin' = Free /\ landscape' = l /\ l \in Plain /\ opts' = CycleOptions(FALSE) /\ config' = config
    BY <1>2, <2>1 DEF CleanSolve, Retry, Begin
  <2> QED
    BY <2>2, PhaseAssumption DEF FreeInv, CycleOptions
<1>3. CASE StopSolves \/ SwarmStep
  BY <1>3 DEF StopSolves, Stop, SwarmStep, solverVars, fixedVars, cycleVars, FreeInv
<1>4. CASE \/ EscapeEnds \/ SwarmEnds \/ GlassAborted \/ CleanEnds \/ RetryEnds
           \/ \E l \in Landscapes : ExploreByDLS(l) \/ GlassSolve(l) \/ GlassEnds(l)
           \/ \E pos \in [Particles -> Spots] : ExploreBySwarm(pos)
  <2>1. stage' \notin CleanStages
    BY <1>4 DEF EscapeEnds, SwarmEnds, Explored, GlassAborted, CleanEnds, RetryEnds, ExploreByDLS,
                ExploreBySwarm, GlassSolve, GlassEnds, MoveTo
  <2> QED
    BY <2>1 DEF FreeInv
<1> QED
  BY <1>1, <1>2, <1>3, <1>4 DEF PhaseNext, PhaseStep

(* From the clean solve on the cycle holds a design and its merit; the retry *)
(* starts at the escape point and its result replaces the design only if it  *)
(* is better than that merit.                                                *)
HeldDesign == cleanMerit = InnerMerit(landscape, found) /\ cleanMerit < Insane
GainInv ==
  /\ stage \in {"judged", "recorded"} => pc = "done"
  /\ stage = "judged" => HeldDesign /\ (even => landscape \in Plain)
  /\ stage = "retrying" => start = escaped /\ (even /\ ~moved => HeldDesign)
  /\ CycleKeepsTheGain

LEMMA MeritOfAClean ==
  ASSUME NEW p \in Points, NEW l \in Landscapes
  PROVE  InnerMerit(l, p) \in Int /\ (l \in Plain => InnerMerit(l, p) = Merit[l][p])
BY PhaseAssumption, SolverAssumption DEF InnerMerit

LEMMA RetryKeepsTheGain ==
  ASSUME SolverInv, CycleTypes, FreeInv, GainInv, RetryEnds
  PROVE  CycleKeepsTheGain'
<1> SUFFICES ASSUME stage' = "recorded", even', ~config.constrained
             PROVE  InnerMerit(landscape, found)' <= InnerMerit(landscape, escaped)'
  BY DEF CycleKeepsTheGain, RetryEnds
<1>1. /\ stage = "retrying" /\ even /\ ~moved /\ UNCHANGED <<landscape, escaped>>
      /\ found' = IF RetryTaken THEN bestX ELSE found
  BY DEF RetryEnds, solverVars
<1>2. ~opts.constrained /\ landscape \in Plain
  BY <1>1 DEF FreeInv, CleanStages, RetryEnds
<1>3. {bestX, escaped, found} \subseteq Points /\ landscape \in Landscapes
  BY DEF SolverInv, TypeInv, SolverTypeOK, CycleTypes
<1>4. InnerMerit(landscape, bestX) <= InnerMerit(landscape, escaped)
  BY <1>1, <1>2, <1>3, SolverInvProperties, MeritOfAClean DEF DeliveredNotWorse, GainInv
<1>5. HeldDesign
  BY <1>1 DEF GainInv
<1>6. /\ InnerMerit(landscape, bestX) \in Int /\ InnerMerit(landscape, escaped) \in Int
      /\ InnerMerit(landscape, found) \in Int /\ Insane \in Int
  BY <1>3, MeritOfAClean, PhaseAssumption
<1>7. CASE RetryTaken
  BY <1>1, <1>4, <1>7 DEF InnerMerit
<1>8. CASE ~RetryTaken
  <2>1. InnerMerit(landscape, found) <= InnerMerit(landscape, bestX)
    BY <1>5, <1>6, <1>8 DEF RetryTaken, Sane, HeldDesign
  <2>2. InnerMerit(landscape, found) <= InnerMerit(landscape, escaped)
    BY <1>4, <1>6, <2>1
  <2> QED
    BY <1>1, <1>8, <2>2 DEF InnerMerit
<1> QED
  BY <1>7, <1>8

LEMMA PhaseStepsGain ==
  ASSUME SolverInv, CycleTypes, FreeInv, GainInv, PhaseNext
  PROVE  GainInv'
<1>1. CASE SolverStep
  <2>1. /\ UNCHANGED fixedVars /\ UNCHANGED cycleVars /\ pc # "done"
        /\ \/ landscape' = landscape /\ (moved' <=> moved)
           \/ landscape' \in Drift[landscape] /\ moved'
    BY <1>1, IterateKeeps DEF SolverStep
  <2> QED
    BY <2>1 DEF GainInv, HeldDesign, InnerMerit, CycleKeepsTheGain, fixedVars, cycleVars
<1>2. ASSUME NEW l \in Landscapes, Retry(l)
      PROVE  GainInv'
  <2>1. /\ stage = "judged" /\ stage' = "retrying" /\ start' = escaped /\ landscape' = l
        /\ (even' => even /\ l = landscape)
        /\ UNCHANGED <<config, escaped, found, cleanMerit>>
    BY <1>2 DEF Retry, RetryStart, Begin
  <2> QED
    BY <2>1 DEF GainInv, HeldDesign, InnerMerit, CycleKeepsTheGain
<1>3. CASE CleanEnds
  <2>1. /\ stage = "cleaning" /\ pc = "done" /\ UNCHANGED <<solverVars, config, escaped>>
        /\ found' = bestX /\ cleanMerit' = InnerMerit(landscape, bestX)
        /\ (even' <=> ~moved)
        /\ stage' = "judged" => Sane(landscape, bestX)
        /\ stage' = "recorded" => ~(cleanMerit' > InnerMerit(landscape, escaped))
        /\ stage' \in {"aborted", "rejected", "judged", "recorded"}
    BY <1>3 DEF CleanEnds, SolveIsOver
  <2>2. pc' = pc /\ landscape' = landscape
    BY <2>1 DEF solverVars
  <2>3. bestX \in Points /\ escaped \in Points /\ landscape \in Landscapes
    BY DEF SolverInv, TypeInv, SolverTypeOK, CycleTypes
  <2>4. InnerMerit(landscape, bestX) \in Int /\ InnerMerit(landscape, escaped) \in Int
    BY <2>3, MeritOfAClean
  <2>5. ~moved => landscape \in Plain
    BY <2>1 DEF FreeInv, CleanStages
  <2>6. CycleKeepsTheGain'
    BY <2>1, <2>2, <2>4 DEF CycleKeepsTheGain, InnerMerit
  <2> QED
    BY <2>1, <2>2, <2>5, <2>6 DEF GainInv, HeldDesign, InnerMerit, Sane
<1>4. CASE RetryEnds
  <2>1. /\ stage' \in {"aborted", "recorded"} /\ pc = "done" /\ pc' = pc
    BY <1>4 DEF RetryEnds, SolveIsOver, solverVars
  <2> QED
    BY <1>4, <2>1, RetryKeepsTheGain DEF GainInv
<1>5. CASE StopSolves \/ SwarmStep
  BY <1>5 DEF StopSolves, Stop, SwarmStep, solverVars, fixedVars, cycleVars, GainInv, HeldDesign,
              InnerMerit, CycleKeepsTheGain
<1>6. CASE \/ EscapeEnds \/ SwarmEnds \/ GlassAborted
           \/ \E l \in Landscapes : ExploreByDLS(l) \/ GlassSolve(l) \/ GlassEnds(l) \/ CleanSolve(l)
           \/ \E pos \in [Particles -> Spots] : ExploreBySwarm(pos)
  <2>1. stage' \notin {"judged", "recorded", "retrying"}
    BY <1>6 DEF EscapeEnds, SwarmEnds, Explored, GlassAborted, ExploreByDLS, ExploreBySwarm,
                GlassSolve, GlassEnds, CleanSolve, MoveTo
  <2> QED
    BY <2>1 DEF GainInv, CycleKeepsTheGain
<1> QED
  BY <1>1, <1>2, <1>3, <1>4, <1>5, <1>6 DEF PhaseNext, PhaseStep

-----------------------------------------------------------------------------
PhaseInv == SolverInv /\ SwarmInv /\ CycleTypes /\ FreeInv /\ GainInv

LEMMA PhaseInitInv == PhaseInit => PhaseInv
<1> SUFFICES ASSUME PhaseInit
             PROVE  PhaseInv
  OBVIOUS
<1> USE DEF PhaseInit
<1>1. SolverInv
  BY SolverInitInv
<1>2. SwarmInv
  BY DEF SwarmInit, NoSwarm, SwarmInv, SwarmKeepsBest
<1>3. config \in Options
  BY PhaseAssumption
<1>4. CycleTypes
  BY <1>3 DEF CycleTypes, SolverInit
<1>5. FreeInv /\ GainInv
  BY DEF FreeInv, CleanStages, GainInv, CycleKeepsTheGain
<1> QED
  BY <1>1, <1>2, <1>4, <1>5 DEF PhaseInv

LEMMA PhaseNextInv ==
  ASSUME PhaseInv, [PhaseNext]_phaseVars
  PROVE  PhaseInv'
<1> USE DEF PhaseInv
<1>1. CASE PhaseNext
  <2>1. SolverInv'
    BY <1>1, PhaseStepsSolve, SolverNextInv, SolverStutterInv
  <2> QED
    BY <1>1, <2>1, PhaseStepsSwarm, PhaseStepsTypes, PhaseStepsFree, PhaseStepsGain
<1>2. CASE UNCHANGED phaseVars
  <2>1. SolverInv' /\ SwarmInv'
    BY <1>2, SolverStutterInv, SwarmStutterInv DEF phaseVars
  <2>2. CycleTypes' /\ FreeInv' /\ GainInv'
    BY <1>2 DEF phaseVars, solverVars, fixedVars, cycleVars, CycleTypes, FreeInv, GainInv,
                HeldDesign, InnerMerit, CycleKeepsTheGain
  <2> QED
    BY <2>1, <2>2
<1> QED
  BY <1>1, <1>2

LEMMA PhaseInvAlways == PhaseSpec => []PhaseInv
<1>1. PhaseInv /\ [PhaseNext]_phaseVars => PhaseInv'
  BY PhaseNextInv
<1> QED
  BY PhaseInitInv, <1>1, PTL DEF PhaseSpec

-----------------------------------------------------------------------------
(* Types of the solver in every cycle. *)
THEOREM CycleSolverTypes == PhaseSpec => []SolverTypeOK
<1>1. PhaseInv => SolverTypeOK
  BY SolverInvProperties DEF PhaseInv
<1> QED
  BY <1>1, PhaseInvAlways, PTL

(* A step is computed from a whole Jacobian only, whenever the stop comes    *)
(* between the columns of a sweep (solver.go:190-194, 910-933).              *)
THEOREM StepsHaveAWholeJacobian == PhaseSpec => []JacobianComplete
<1>1. PhaseInv => JacobianComplete
  BY SolverInvProperties DEF PhaseInv
<1> QED
  BY <1>1, PhaseInvAlways, PTL

(* The stall escape starts again from a point whose merit is the one it      *)
(* compares with (solver.go:545-582).                                        *)
THEOREM EscapeKnowsItsPoint == PhaseSpec => []KnownCarriesBest
<1>1. PhaseInv => KnownCarriesBest
  BY SolverInvProperties DEF PhaseInv
<1> QED
  BY <1>1, PhaseInvAlways, PTL

(* A solve hands back nothing worse than it was given (solver.go:651-668). *)
THEOREM SolvesNeverLose == PhaseSpec => []DeliveredNotWorse
<1>1. PhaseInv => DeliveredNotWorse
  BY SolverInvProperties DEF PhaseInv
<1> QED
  BY <1>1, PhaseInvAlways, PTL

(* What the glass phase pins stays where it was (solver.go:1026-1036). *)
THEOREM GlassPhasePins == PhaseSpec => []PinnedStays
<1>1. PhaseInv => PinnedStays
  BY SolverInvProperties DEF PhaseInv
<1> QED
  BY <1>1, PhaseInvAlways, PTL

(* "converged" is said of feasible points only (solver.go:515-539). *)
THEOREM ConvergenceIsFeasible == PhaseSpec => []ConvergedAtFeasible
<1>1. PhaseInv => ConvergedAtFeasible
  BY SolverInvProperties DEF PhaseInv
<1> QED
  BY <1>1, PhaseInvAlways, PTL

(* A trial that is evaluated leaves the multipliers of inequalities alone    *)
(* (solver.go:938-945).                                                      *)
THEOREM EvaluationsArePure == PhaseSpec => TrialsKeepMultipliers
<1> DEFINE A == pc \in {"step", "line", "perturb"} =>
                  \A j \in Constraints \ Equality : lambda'[j] = lambda[j]
<1>1. PhaseInv /\ [PhaseNext]_phaseVars => [A]_solverVars
  <2> SUFFICES ASSUME PhaseInv, [PhaseNext]_phaseVars
               PROVE  A \/ UNCHANGED solverVars
    OBVIOUS
  <2>1. SolverNext \/ UNCHANGED solverVars
    BY PhaseStepsSolve DEF PhaseInv, phaseVars
  <2> QED
    BY <2>1, SolverNextMultipliers DEF PhaseInv, SolverInv, Inequality
<1> QED
  BY <1>1, PhaseInvAlways, PTL DEF PhaseSpec, TrialsKeepMultipliers

(* The swarm's best is the best it has seen, through every restart           *)
(* (pso.go:349-371, 439-451).                                                *)
THEOREM SwarmRemembers == PhaseSpec => []SwarmKeepsBest
<1>1. PhaseInv => SwarmKeepsBest
  BY SwarmInvProperties DEF PhaseInv
<1> QED
  BY <1>1, PhaseInvAlways, PTL

(* ... and no worse than the start point (pso.go:502-528). *)
THEOREM SwarmNeverLoses == PhaseSpec => []SwarmNotWorse
<1>1. PhaseInv => SwarmNotWorse
  BY SwarmInvProperties DEF PhaseInv
<1> QED
  BY <1>1, PhaseInvAlways, PTL

(* The clean solve is free and plain after any glass phase                   *)
(* (escape.go:359-385).                                                      *)
THEOREM CleanSolvesAreFree == PhaseSpec => []CleanIsFree
<1>1. PhaseInv => CleanIsFree
  BY DEF PhaseInv, FreeInv, CleanStages, CleanIsFree
<1> QED
  BY <1>1, PhaseInvAlways, PTL

(* A recorded cycle is no worse than its exploration (cycle.go:610-645). *)
THEOREM CyclesKeepTheirGain == PhaseSpec => []CycleKeepsTheGain
<1>1. PhaseInv => CycleKeepsTheGain
  BY DEF PhaseInv, GainInv
<1> QED
  BY <1>1, PhaseInvAlways, PTL

-----------------------------------------------------------------------------
(* A cycle goes on, and comes to an end. *)

(* No stop leaves a cycle waiting for the goroutines of a sweep, in any of   *)
(* its solves (solver.go:897-898).                                           *)
THEOREM CyclesAreNeverStuck == PhaseSpec => []SweepNeverStuck
<1>1. PhaseInv => SweepNeverStuck
  BY NeverStuck DEF PhaseInv, SolverInv, JacobianInv
<1> QED
  BY <1>1, PhaseInvAlways, PTL

(* A swarm restarts only in an iteration it may make. *)
RoundInv == swarming = "restarting" => round < PsoIterations

LEMMA RoundInvStep == RoundInv /\ [PhaseNext]_phaseVars => RoundInv'
<1> SUFFICES ASSUME RoundInv, [PhaseNext]_phaseVars
             PROVE  RoundInv'
  OBVIOUS
<1> USE DEF RoundInv
<1>1. CASE UNCHANGED swarmVars
  BY <1>1 DEF swarmVars
<1>2. CASE SwarmStep
  <2>1. CASE Break(stop) \/ FlownOut
    BY <2>1 DEF Break, FlownOut, Over
  <2>2. ASSUME NEW s \in Settings, NEW pos \in [Particles -> Spots], Fly(stop, s, pos)
        PROVE  RoundInv'
    BY <2>2 DEF Fly
  <2>3. ASSUME NEW lost \in SUBSET Particles, NEW pos \in [Particles -> Spots], Restart(lost, pos)
        PROVE  RoundInv'
    BY <2>3 DEF Restart
  <2> QED
    BY <1>2, <2>1, <2>2, <2>3 DEF SwarmStep
<1>3. CASE SwarmEnds \/ \E pos \in [Particles -> Spots] : ExploreBySwarm(pos)
  BY <1>3 DEF SwarmEnds, SwarmGone, ExploreBySwarm, Launch
<1>4. CASE \/ SolverStep \/ StopSolves \/ EscapeEnds \/ GlassAborted \/ CleanEnds \/ RetryEnds
           \/ \E l \in Landscapes :
                ExploreByDLS(l) \/ GlassSolve(l) \/ GlassEnds(l) \/ CleanSolve(l) \/ Retry(l)
  BY <1>1, <1>4 DEF SolverStep, StopSolves, EscapeEnds, GlassAborted, CleanEnds, RetryEnds,
     ExploreByDLS, GlassSolve, GlassEnds, CleanSolve, Retry
<1> QED
  BY <1>1, <1>2, <1>3, <1>4 DEF PhaseNext, PhaseStep, phaseVars

(* A step of the swarm: the next of its iterations, or later in this one.    *)
Flight(s) == CASE s = "before" -> 0 [] s = "flying" -> 1 [] s = "restarting" -> 2 [] OTHER -> 3

SwarmAdvances ==
  \/ round < PsoIterations /\ round' = round + 1
  \/ round' = round /\ Flight(swarming) < Flight(swarming')

LEMMA SwarmStepAdvances ==
  ASSUME RoundInv, SwarmStep
  PROVE  SwarmAdvances
<1>1. CASE Break(stop) \/ FlownOut
  BY <1>1 DEF Break, FlownOut, Over, SwarmAdvances, Flight
<1>2. ASSUME NEW s \in Settings, NEW pos \in [Particles -> Spots], Fly(stop, s, pos)
      PROVE  SwarmAdvances
  BY <1>2 DEF Fly, SwarmAdvances, Flight
<1>3. ASSUME NEW lost \in SUBSET Particles, NEW pos \in [Particles -> Spots], Restart(lost, pos)
      PROVE  SwarmAdvances
  BY <1>3 DEF Restart, RoundInv, SwarmAdvances
<1> QED
  BY <1>1, <1>2, <1>3 DEF SwarmStep

(* The order of the stages, which only the cycle itself moves on, and a step *)
(* of a cycle: to a later stage, or within a solve or a swarm.               *)
StageOrder(s) ==
  CASE s = "explore" -> 0
    [] s = "exploring" -> 1
    [] s = "glass" -> 2
    [] s = "glassing" -> 3
    [] s = "clean" -> 4
    [] s = "cleaning" -> 5
    [] s = "judged" -> 6
    [] s = "retrying" -> 7
    [] OTHER -> 8

CycleAdvances ==
  \/ StageOrder(stage) < StageOrder(stage')
  \/ stage' = stage /\ UNCHANGED swarmVars /\ SolveAdvances
  \/ stage' = stage /\ UNCHANGED solverVars /\ SwarmAdvances

LEMMA PhaseStepAdvances ==
  ASSUME PhaseInv, RoundInv, PhaseStep
  PROVE  CycleAdvances
<1>1. CASE SolverStep
  <2>1. SolveAdvances
    BY <1>1, IterateAdvances DEF SolverStep, PhaseInv, SolverInv, JacobianInv
  <2> QED
    BY <1>1, <2>1 DEF SolverStep, cycleVars, CycleAdvances
<1>2. CASE SwarmStep
  BY <1>2, SwarmStepAdvances DEF SwarmStep, cycleVars, CycleAdvances
<1>3. CASE EscapeEnds \/ SwarmEnds
  <2>1. stage = "exploring" /\ stage' \in {"aborted", "rejected", "glass", "clean"}
    BY <1>3 DEF EscapeEnds, SwarmEnds, Explored
  <2> QED
    BY <2>1 DEF CycleAdvances, StageOrder
<1>4. CASE \/ \E l \in Landscapes : ExploreByDLS(l)
           \/ \E pos \in [Particles -> Spots] : ExploreBySwarm(pos)
  <2>1. stage = "explore" /\ stage' = "exploring"
    BY <1>4 DEF ExploreByDLS, ExploreBySwarm, MoveTo
  <2> QED
    BY <2>1 DEF CycleAdvances, StageOrder
<1>5. CASE GlassAborted \/ \E l \in Landscapes : GlassSolve(l) \/ GlassEnds(l)
  <2>1. \/ stage = "glass" /\ stage' = "glassing"
        \/ stage = "glassing" /\ stage' \in {"aborted", "clean"}
    BY <1>5 DEF GlassAborted, GlassSolve, GlassEnds
  <2> QED
    BY <2>1 DEF CycleAdvances, StageOrder
<1>6. CASE CleanEnds \/ \E l \in Landscapes : CleanSolve(l)
  <2>1. \/ stage = "clean" /\ stage' = "cleaning"
        \/ stage = "cleaning" /\ stage' \in {"aborted", "rejected", "judged", "recorded"}
    BY <1>6 DEF CleanEnds, CleanSolve
  <2> QED
    BY <2>1 DEF CycleAdvances, StageOrder
<1>7. CASE RetryEnds \/ \E l \in Landscapes : Retry(l)
  <2>1. \/ stage = "judged" /\ stage' = "retrying"
        \/ stage = "retrying" /\ stage' \in {"aborted", "recorded"}
    BY <1>7 DEF RetryEnds, Retry
  <2> QED
    BY <2>1 DEF CycleAdvances, StageOrder
<1> QED
  BY <1>1, <1>2, <1>3, <1>4, <1>5, <1>6, <1>7 DEF PhaseStep

(* Whatever a cycle runs into, none of its steps leads back: its stages      *)
(* follow each other, and within one the solve or the swarm uses up its      *)
(* iterations (cycle.go:401-846).  With the goroutines scheduled this is why *)
(* a cycle ends.                                                             *)
THEOREM CyclesComeToAnEnd == PhaseSpec => [][PhaseStep => CycleAdvances]_phaseVars
<1>1. PhaseInit => RoundInv
  BY DEF PhaseInit, SwarmInit, RoundInv
<1>2. PhaseSpec => []RoundInv
  BY <1>1, RoundInvStep, PTL DEF PhaseSpec
<1>3. PhaseInv /\ RoundInv /\ [PhaseNext]_phaseVars => [PhaseStep => CycleAdvances]_phaseVars
  BY PhaseStepAdvances
<1> QED
  BY <1>2, <1>3, PhaseInvAlways, PTL DEF PhaseSpec
=============================================================================
