----------------------------- MODULE PhaseSolves -----------------------------
(***************************************************************************)
(* The solves of one escape cycle (escape.Cycle.Run) with the wrapper that *)
(* sets the model up for each: exploration by the swarm or by the solver   *)
(* with bumps, the optional glass phase with every other variable pinned   *)
(* and its own merit, the clean solve, and the retry from the escape point *)
(* when the clean solve ended above it.  Composes the solver and the swarm *)
(* over one model and one stop channel.                                    *)
(***************************************************************************)
EXTENDS SolverLoop, Swarm

CONSTANTS Bumped, Colour, Plain,  \* the landscapes of the three phases
          Unbumped,               \* a landscape without its bumps (InnerMerit)
          Settled,                \* SettlePowerSolve: the layout gives way
          Start,                  \* where the cycle starts
          Insane,                 \* merits from here on are a broken solve
          Configs                 \* what documents ask for: options, jacobian_workers,
                                  \* PSO, a glass phase, PSO's penalised scale

ASSUME PhaseAssumption ==
  /\ Bumped \cup Colour \cup Plain \subseteq Landscapes
  /\ Unbumped \in [Landscapes -> Landscapes]
  /\ Settled \in [Points -> Points]
  /\ Start \in Points /\ Insane \in Int
  /\ Configs \subseteq Options \X Workers \X BOOLEAN \X BOOLEAN \X BOOLEAN
  /\ Spots = Points /\ Settings = Landscapes   \* the swarm explores the same model
  /\ \A l \in Plain : Unbumped[l] = l          \* the bumps are removed before
  /\ \A l \in Landscapes \ Colour : Drift[l] \cap Colour = {}
  /\ Plain \cap Colour = {}                    \* only SetPhase enters the glass phase

VARIABLES config,     \* the options the inner model gives to every solve
          stage,      \* how far the cycle has come
          bySwarm,    \* the cycle explores with the swarm
          glassPhase, \* Wrapper.glassPhase
          inGlass,    \* Wrapper.inGlassPhase
          escaped,    \* escapedX
          cleanStart,
          found,      \* trueX
          cleanMerit, \* cleanMerit, measured before the retry
          even        \* history: one landscape from the clean solve on

cycleVars == <<config, stage, bySwarm, glassPhase, inGlass, escaped, cleanStart, found,
               cleanMerit, even>>
phaseVars == <<solverVars, swarmVars, cycleVars>>

Stages == {"explore", "exploring", "glass", "glassing", "clean", "cleaning",
           "judged", "retrying", "recorded", "rejected", "aborted"}

\* Options(): only the escape phase has bumps instead of the stall escape, and
\* only there an early end may be configured.
CycleOptions(escaping) ==
  [noEscape |-> escaping, stallDone |-> escaping /\ config.stallDone,
   regional |-> config.regional, constrained |-> config.constrained]

InnerMerit(l, p) == Merit[Unbumped[l]][p]
Sane(l, p) == InnerMerit(l, p) < Insane
SolveIsOver == pc = "done"

PhaseInit ==
  /\ SolverInit /\ x = Start /\ landscape \in Bumped
  /\ SwarmInit /\ from = Start /\ setting = Unbumped[landscape]
  /\ \E c \in Configs : /\ config = c[1] /\ crew = c[2]
                       /\ bySwarm = c[3] /\ glassPhase = c[4] /\ penalised = c[5]
  /\ stage = "explore"
  /\ inGlass = FALSE /\ escaped = x /\ cleanStart = x /\ found = x
  /\ cleanMerit = 0 /\ even = TRUE

SolverStep == Iterate /\ UNCHANGED <<swarmVars, cycleVars>>
StopSolves == Stop /\ UNCHANGED <<swarmVars, cycleVars>>
SwarmStep == /\ \/ Break(stop) \/ FlownOut
                \/ \E s \in Settings, pos \in [Particles -> Spots] : Fly(stop, s, pos)
                \/ \E lost \in SUBSET Particles, pos \in [Particles -> Spots] : Restart(lost, pos)
             /\ UNCHANGED <<solverVars, cycleVars>>

\* Only the stage changes in the cycle's own book-keeping.
MoveTo(s) == /\ stage' = s
             /\ UNCHANGED <<config, bySwarm, glassPhase, inGlass, escaped, cleanStart, found,
                            cleanMerit, even>>

ExploreByDLS(l) ==
  /\ stage = "explore" /\ ~bySwarm /\ l \in Bumped
  /\ Begin(Start, l, CycleOptions(TRUE), Free)
  /\ MoveTo("exploring") /\ UNCHANGED swarmVars

ExploreBySwarm(pos) ==
  /\ stage = "explore" /\ bySwarm
  /\ Launch(Start, setting, pos)
  /\ MoveTo("exploring") /\ UNCHANGED solverVars

\* extractX, then recordInterrupted or acceptable.
Explored(p, s, l) ==
  /\ stage' = IF s = "interrupted" THEN "aborted"
              ELSE IF ~Sane(l, p) THEN "rejected"
              ELSE IF glassPhase THEN "glass" ELSE "clean"
  /\ escaped' = p /\ cleanStart' = p /\ found' = p
  /\ UNCHANGED <<config, bySwarm, glassPhase, inGlass, cleanMerit, even>>

EscapeEnds == /\ stage = "exploring" /\ ~bySwarm /\ SolveIsOver
              /\ Explored(bestX, status, landscape)
              /\ UNCHANGED <<solverVars, swarmVars>>
SwarmEnds == /\ stage = "exploring" /\ bySwarm /\ swarming = "over"
             /\ Explored(gbestPos, swarmStatus, setting)
             /\ SwarmGone(Unbumped[landscape]) /\ UNCHANGED solverVars

\* SetPhase(PhaseGlassSolve) enters the glass phase: all but the glasses is
\* pinned at the escape point and the merit is the colour one.
GlassSolve(l) ==
  /\ stage = "glass" /\ l \in Colour
  /\ Begin(escaped, l, CycleOptions(FALSE), escaped.layout)
  /\ inGlass' = TRUE /\ stage' = "glassing"
  /\ UNCHANGED <<config, bySwarm, glassPhase, escaped, cleanStart, found, cleanMerit, even, swarmVars>>

GlassAborted ==
  /\ stage = "glassing" /\ SolveIsOver /\ status = "interrupted"
  /\ found' = bestX /\ stage' = "aborted"
  /\ UNCHANGED <<config, bySwarm, glassPhase, inGlass, escaped, cleanStart, cleanMerit, even,
                 solverVars, swarmVars>>

\* The colour merits are read inside the phase, the layout merits after it,
\* under one landscape l of the clean phase.  The glass merit after is the
\* one the solve reports; it has to gain a hundredth.  (The
\* solver's merits are doubled.)
GlassImproved == \/ 100 * bestMerit < 99 * (2 * InnerMerit(landscape, escaped))
                 \/ InnerMerit(landscape, escaped) <= 0
LayoutKept(l) == \/ 2 * InnerMerit(l, Settled[bestX]) <= 3 * InnerMerit(l, escaped)
                 \/ InnerMerit(l, escaped) <= 0

StaysInGlass == TRUE    \* a mutant: ExitGlassPhase is forgotten
AfterGlass == FALSE

GlassEnds(l) ==
  /\ stage = "glassing" /\ SolveIsOver /\ status # "interrupted" /\ l \in Plain
  /\ inGlass' = AfterGlass /\ stage' = "clean"
  /\ cleanStart' = IF Sane(l, bestX) /\ LayoutKept(l) /\ GlassImproved
                   THEN Settled[bestX] ELSE escaped
  /\ UNCHANGED <<config, bySwarm, glassPhase, escaped, found, cleanMerit, even, solverVars, swarmVars>>

\* SetPhase(PhaseClean) while the glass phase is on would leave it first.
CleanPin == IF inGlass THEN escaped.layout ELSE Free
CleanLandscapes == IF inGlass THEN Colour ELSE Plain

CleanSolve(l) ==
  /\ stage = "clean" /\ l \in CleanLandscapes
  /\ Begin(cleanStart, l, CycleOptions(FALSE), CleanPin)
  /\ even' = TRUE /\ stage' = "cleaning"
  /\ UNCHANGED <<config, bySwarm, glassPhase, inGlass, escaped, cleanStart, found, cleanMerit, swarmVars>>

CleanEnds ==
  /\ stage = "cleaning" /\ SolveIsOver
  /\ found' = bestX /\ cleanMerit' = InnerMerit(landscape, bestX) /\ even' = ~moved
  /\ stage' = IF status = "interrupted" THEN "aborted"
              ELSE IF ~Sane(landscape, bestX) THEN "rejected"
              ELSE IF cleanMerit' > InnerMerit(landscape, escaped) THEN "judged"
              ELSE "recorded"
  /\ UNCHANGED <<config, bySwarm, glassPhase, inGlass, escaped, cleanStart, solverVars, swarmVars>>

\* The clean solve regressed: once more, from the escape point.
RetryFromGlass == cleanStart   \* a mutant
RetryStart == escaped

Retry(l) ==
  /\ stage = "judged" /\ l \in CleanLandscapes
  /\ Begin(RetryStart, l, CycleOptions(FALSE), CleanPin)
  /\ even' = (even /\ l = landscape) /\ stage' = "retrying"
  /\ UNCHANGED <<config, bySwarm, glassPhase, inGlass, escaped, cleanStart, found, cleanMerit, swarmVars>>

RetryTaken == Sane(landscape, bestX) /\ InnerMerit(landscape, bestX) < cleanMerit

RetryEnds ==
  /\ stage = "retrying" /\ SolveIsOver
  /\ stage' = IF status = "interrupted" THEN "aborted" ELSE "recorded"
  /\ found' = IF status = "interrupted" \/ RetryTaken THEN bestX ELSE found
  /\ even' = (even /\ ~moved)
  /\ UNCHANGED <<config, bySwarm, glassPhase, inGlass, escaped, cleanStart, cleanMerit,
                 solverVars, swarmVars>>

PhaseStep == \/ SolverStep \/ SwarmStep
             \/ \E l \in Landscapes : ExploreByDLS(l)
             \/ \E pos \in [Particles -> Spots] : ExploreBySwarm(pos)
             \/ EscapeEnds \/ SwarmEnds
             \/ \E l \in Landscapes : GlassSolve(l)
             \/ GlassAborted \/ \E l \in Landscapes : GlassEnds(l)
             \/ \E l \in Landscapes : CleanSolve(l)
             \/ CleanEnds
             \/ \E l \in Landscapes : Retry(l)
             \/ RetryEnds

PhaseNext == PhaseStep \/ StopSolves

\* The worker runs the phases one after the other and is always scheduled.
PhaseSpec == PhaseInit /\ [][PhaseNext]_phaseVars /\ WF_phaseVars(PhaseStep)

-----------------------------------------------------------------------------
\* The clean solve and its retry run with every variable free and under the
\* ordinary merit, whether a glass phase came before or not (escape.go:
\* 359-385, cycle.go:488, 557).
CleanIsFree == stage \in {"cleaning", "retrying"} => pin = Free /\ landscape \notin Colour

\* What a cycle records is no worse than what its exploration found, on the
\* merit of the clean phase, as long as that merit does not change: a glass
\* phase that spoils the start of the clean solve is undone by the retry
\* (cycle.go:610-645).
CycleKeepsTheGain ==
  stage = "recorded" /\ even /\ ~config.constrained =>
    InnerMerit(landscape, found) <= InnerMerit(landscape, escaped)

\* A cycle comes to an end, however its solves end.
CycleEnds == <>(stage \in {"recorded", "rejected", "aborted"})
=============================================================================
