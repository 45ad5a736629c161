-------------------------------- MODULE Swarm --------------------------------
(***************************************************************************)
(* pso.Explorer.Explore: the particle swarm.  Where a particle flies is    *)
(* any point; the control is kept: personal and global bests, the two      *)
(* scales a point is ranked on, the stall window with its restart of the   *)
(* worst half, and the check of stop before each iteration.                *)
(***************************************************************************)
EXTENDS Integers, FiniteSets, FiniteSetsExt

CONSTANTS Spots,         \* the points of the design space
          Settings,      \* settings of the model (weights, pupil)
          SpotMerit,     \* merit of a point under a setting
          SpotPenalty,   \* penalty * sum(c_j^2) of a point
          Turns,         \* the settings one may turn into
          SwarmSize, PsoIterations, SwarmWindow

ASSUME SwarmAssumption ==
  /\ SpotMerit \in [Settings -> [Spots -> Int]] /\ SpotPenalty \in [Spots -> Nat]
  /\ Turns \in [Settings -> SUBSET Settings]
  /\ SwarmSize \in Nat \ {0} /\ PsoIterations \in Nat /\ SwarmWindow \in Nat \ {0}

Particles == 1 .. SwarmSize

VARIABLES swarming,    \* "before", "flying" or "over"
          swarmStatus,
          setting,
          penalised,   \* optimization.pso.gbest: which scale gbest is kept on
          round,       \* iter
          flock,       \* the positions of the round that asks for a restart
          pbestPos, pbestFit,
          gbestPos, gbestKey, gbestFit, gbestMerit,
          checked, fitAgo,   \* lastCheckIter, bestFitWindowAgo
          from,              \* history: x0
          seen,              \* history: the points evaluated under one setting
          turned             \* history: the setting has changed

gbestVars == <<gbestPos, gbestKey, gbestFit, gbestMerit>>
swarmVars == <<swarming, swarmStatus, setting, penalised, round, flock, pbestPos, pbestFit,
               gbestVars, checked, fitAgo, from, seen, turned>>

Fit(s, p) == SpotMerit[s][p] + SpotPenalty[p]
Key(s, p) == IF penalised THEN Fit(s, p) ELSE SpotMerit[s][p]

\* The particle the bests are taken from after all were evaluated: the first
\* of the smallest.
IsFirstBest(i, s, pos, among) ==
  \A k \in among : \/ Key(s, pos[i]) < Key(s, pos[k])
                   \/ Key(s, pos[i]) = Key(s, pos[k]) /\ i <= k

\* gbest moves to particle i of pos, evaluated under setting s, if it is better.
FollowFitness(s, pos, i) ==   \* a mutant: the fitness decides on either scale
  IF Fit(s, pos[i]) < gbestFit
  THEN /\ gbestPos' = pos[i] /\ gbestKey' = Key(s, pos[i])
       /\ gbestFit' = Fit(s, pos[i]) /\ gbestMerit' = SpotMerit[s][pos[i]]
  ELSE UNCHANGED gbestVars
Follow(s, pos, i) ==
  IF Key(s, pos[i]) < gbestKey
  THEN /\ gbestPos' = pos[i] /\ gbestKey' = Key(s, pos[i])
       /\ gbestFit' = Fit(s, pos[i]) /\ gbestMerit' = SpotMerit[s][pos[i]]
  ELSE UNCHANGED gbestVars

NoSwarm(x0) ==
  /\ swarmStatus = "none" /\ round = 0 /\ checked = 0 /\ seen = {} /\ turned = FALSE
  /\ gbestPos = x0 /\ gbestKey = 0 /\ gbestFit = 0 /\ gbestMerit = 0 /\ fitAgo = 0
  /\ flock = [i \in Particles |-> x0]
  /\ pbestPos = [i \in Particles |-> x0] /\ pbestFit = [i \in Particles |-> 0]

SwarmInit == /\ swarming = "before" /\ setting \in Settings /\ penalised \in BOOLEAN
             /\ from \in Spots /\ NoSwarm(from)

\* Particle 1 stands at the start point, the others around it.
AllAround(pos, x0) == TRUE   \* a mutant: nobody stands at the start
Placed(pos, x0) == pos[1] = x0

Launch(x0, s, pos) ==
  /\ swarming = "before"
  /\ Placed(pos, x0)
  /\ \E i \in Particles :
       /\ IsFirstBest(i, s, pos, Particles)
       /\ gbestPos' = pos[i] /\ gbestKey' = Key(s, pos[i]) /\ gbestFit' = Fit(s, pos[i])
       /\ gbestMerit' = SpotMerit[s][pos[i]] /\ fitAgo' = Fit(s, pos[i])
  /\ pbestPos' = pos /\ pbestFit' = [i \in Particles |-> Fit(s, pos[i])]
  /\ setting' = s /\ from' = x0 /\ seen' = {pos[i] : i \in Particles}
  /\ swarming' = "flying" /\ swarmStatus' = "running"
  /\ UNCHANGED <<penalised, round, flock, checked, turned>>

Over(s) == /\ swarming' = "over" /\ swarmStatus' = s
           /\ UNCHANGED <<setting, penalised, round, flock, pbestPos, pbestFit, gbestVars,
                          checked, fitAgo, from, seen, turned>>

\* stopSeen: what the check of the stop channel before the iteration finds.
Break(stopSeen) == /\ swarming = "flying" /\ round < PsoIterations /\ stopSeen
                   /\ Over("interrupted")

FlownOut == /\ swarming = "flying" /\ round = PsoIterations
            /\ Over("max_iterations")

WindowOver == round - checked >= SwarmWindow
\* No relative gain over the window, on the penalised scale.
NoGain(fit) == checked > 0 /\ fitAgo - fit <= 0

\* One iteration without a restart: the model may change under the swarm, all
\* particles move and are evaluated, the bests follow.
Fly(stopSeen, s, pos) ==
  /\ swarming = "flying" /\ round < PsoIterations /\ ~stopSeen
  /\ s \in Turns[setting] \cup {setting}
  /\ setting' = s /\ turned' = (turned \/ s # setting)
  /\ pbestPos' = [i \in Particles |-> IF Fit(s, pos[i]) < pbestFit[i] THEN pos[i] ELSE pbestPos[i]]
  /\ pbestFit' = [i \in Particles |-> IF Fit(s, pos[i]) < pbestFit[i] THEN Fit(s, pos[i]) ELSE pbestFit[i]]
  /\ \E i \in Particles : IsFirstBest(i, s, pos, Particles) /\ Follow(s, pos, i)
  /\ seen' = seen \cup {pos[i] : i \in Particles}
  /\ IF WindowOver /\ NoGain(gbestFit')
     THEN swarming' = "restarting" /\ flock' = pos /\ UNCHANGED <<round, checked, fitAgo>>
     ELSE /\ round' = round + 1 /\ UNCHANGED <<swarming, flock>>
          /\ IF WindowOver THEN checked' = round /\ fitAgo' = gbestFit'
                           ELSE UNCHANGED <<checked, fitAgo>>
  /\ UNCHANGED <<swarmStatus, penalised, from>>

\* The stalled iteration goes on: the worst half of the round is set down anew
\* around the global best, personal bests included; gbest stays unless they
\* land on something better.
Half == IF SwarmSize < 2 THEN 1 ELSE SwarmSize \div 2

IsWorstHalf(lost) ==
  /\ lost \subseteq Particles /\ Cardinality(lost) = Half
  /\ \A i \in lost, k \in Particles \ lost : Fit(setting, flock[i]) >= Fit(setting, flock[k])

Restart(lost, pos) ==
  /\ swarming = "restarting"
  /\ IsWorstHalf(lost)
  /\ flock' = [i \in Particles |-> from]
  /\ pbestPos' = [i \in Particles |-> IF i \in lost THEN pos[i] ELSE pbestPos[i]]
  /\ pbestFit' = [i \in Particles |-> IF i \in lost THEN Fit(setting, pos[i]) ELSE pbestFit[i]]
  /\ \E i \in lost : IsFirstBest(i, setting, pos, lost) /\ Follow(setting, pos, i)
  /\ seen' = seen \cup {pos[i] : i \in lost}
  /\ fitAgo' = gbestFit' /\ checked' = round
  /\ round' = round + 1 /\ swarming' = "flying"
  /\ UNCHANGED <<swarmStatus, setting, penalised, from, turned>>

\* The result has been taken; what the explorer held is garbage, and the
\* caller sets the model up anew.
SwarmGone(s) ==
  /\ swarming' = "before" /\ swarmStatus' = "none" /\ round' = 0 /\ checked' = 0
  /\ gbestPos' = from /\ gbestKey' = 0 /\ gbestFit' = 0 /\ gbestMerit' = 0 /\ fitAgo' = 0
  /\ flock' = [i \in Particles |-> from] /\ pbestPos' = flock'
  /\ pbestFit' = [i \in Particles |-> 0] /\ seen' = {} /\ turned' = FALSE
  /\ setting' = s /\ UNCHANGED <<penalised, from>>

-----------------------------------------------------------------------------
\* While the model stays as it is, the global best is the best point ever
\* evaluated, on the scale the search was told to use: no restart loses it and
\* no window forgets it (pso.go:349-371, 439-451).
SwarmKeepsBest ==
  swarming # "before" /\ ~turned =>
    /\ gbestKey = Key(setting, gbestPos)
    /\ \A p \in seen : gbestKey <= Key(setting, p)

\* What the swarm hands to the cycle is no worse than the start point on that
\* scale, and its merit is the merit of the point (pso.go:502-528).
SwarmNotWorse ==
  swarming = "over" /\ ~turned =>
    /\ Key(setting, gbestPos) <= Key(setting, from)
    /\ gbestMerit = SpotMerit[setting][gbestPos]
=============================================================================
