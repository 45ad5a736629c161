# A TLA+ model of RayWeave's global search

RayWeave designs lenses. Most of it is floating-point computation in one pass:
ray tracing, merit functions, linear algebra. The part that is concurrent,
long-running, interruptible and stateful is the *global search*
(`rayweave escape`, `rayweave pso`): the workers and the store they share, the
solves each of them runs, the guard that watches the memory, the document and
the files written meanwhile, and the tools that launch a search detached, stop
it and keep its result. This project models that part, checks it on small
instances with TLC and proves the most important results for every instance
with TLAPS.

## 1. Inventory

| component | source | state it keeps | operations | status |
|---|---|---|---|---|
| escape store | `internal/escape/store.go` | recorded points, version counts, record handler, one RW lock | `IsNew`, `FindNearest`, `Add`, `Strengthen`, `Replace`, `SortedByMerit` | modelled (`EscapeStore`; its diagnostics only read) |
| escape cycles | `internal/escape/cycle.go` | per worker: cycle number, rejections, current design, best merit, `stopped`, `retired` | `Run`, `recordInterrupted`, `noteRecorded` | modelled (`EscapeSearch`) |
| parallel search | `internal/escape/parallel.go` | wait group, deadline, `timedOut` | start, join, assemble the result | modelled (`EscapeSearch`) |
| wrapper of the model | `internal/escape/escape.go`, `optimize.go` | phase, pinned variables, colour merit, bumps | `SetPhase`, `Options`, `InnerMerit`, settling | partly (`PhaseSolves`; bumps and weights are a setting of the model) |
| DLS solver | `internal/dls/solver.go`, `internal/constraint/region_active.go` | point, best point, merits, multipliers, penalty weights, windows, Jacobian | one iteration, stop checks, parallel sweep, stall escape | modelled (`SolverLoop`, `JacobianSweep`, `RegionActive`; not the linear algebra) |
| PSO explorer | `internal/pso/pso.go` | positions, personal and global bests, window | launch, iterate, restart, stop | modelled (`Swarm`) |
| resource guard | `internal/escape/guard.go` | active, pending, memory limit, breach count, three time stamps | one tick | modelled (`ResourceGuard`) |
| streamed document | `cmd/rayweave/escape_stream.go` | positions, improved points, sticky error | `record`, `improvements`, `complete` | modelled (`EscapeOutput`) |
| saved minima | `cmd/rayweave/escape_save.go` | files, sticky error | `record`, `writeFileAtomic` | modelled (`EscapeOutput`) |
| stop stages | `cmd/rayweave/stopfile.go`, `escape.go`, `optimize.go` | `stageRunner.applied`, signals counted, control file | `request`, `watchStopFile`, the signal handler | modelled (`StopStages`) |
| detached runs | `internal/runctl`, `cmd/rwrun` | pid file, control file | `Launch`, `Stop`, `PidAlive`, `requestStop` | partly (`StopStages`, `DetachedJobs`; not the platforms' process calls) |
| MCP jobs | `internal/mcpsrv/jobs.go` | job directories with `job.pid`, `meta.json` and the output | `Start`, `Status`, `Stop`, `Result` | modelled (`DetachedJobs`; `Status` and `List` only read) |
| MCP document store | `internal/mcpsrv/store.go` | content-addressed documents, `index.jsonl` | `Put`, `WriteFile` (reading is pure) | partly (`DetachedJobs`: `Put`) |
| MCP runner and tools | `internal/mcpsrv/runner.go`, `server.go` | one child process per call | `Run` with cancellation, `runDocTool` | partly (`DetachedJobs`: the tool that stops in stages) |
| optimizer, ray tracing, paraxial, pupil, PSF, aspheres, cams, glass catalog | `internal/optimize`, `ray`, `psf`, ... | none between calls but the phase | numeric | not modelled, except what `SetPhase` does to the variables |
| importers, exporters, other commands, data model | `internal/importer`, `exporter`, `types`, `cmd/rayweave` | none between calls | text in, text out | not modelled |

How they interact. A launcher (`rwrun`, `Jobs.Start`, `Runner.Run`) starts a
process and leaves a pid file and an empty control file. Inside, `runEscapeCore`
turns signals and the control file into stages: a context (stage 1), a hard-stop
channel (stage 2), the exit (stage 3). It chains the saver and the stream into
one record handler and calls `ParallelEscape`, which starts one goroutine per
worker, each with its own model and `Cycle`, all on one `Store`; and the guard,
which reads the workers' atomic counters and closes their retire channels. A
cycle runs up to five solves one after the other; solver and swarm work on the
same wrapped model and listen on the same stop channel, and the solver starts
its own goroutines for each Jacobian. `Store.Add` and `Store.Replace` call the
record handler *with the lock held*, so saving and streaming of one point
exclude every other recording, and a slow disk stops the search. When all
workers have left, the store is sorted, split into solutions and infeasible
basins, and the document is closed; a tool call puts it into the document store.

Hard behaviours: the check of novelty and the recording are separate critical
sections; a design is recorded under the merit of the phase it was reached in;
flags raised by other goroutines are read after the fact to say why a worker
stopped; best point, best merit and the point to return to are separate
variables of the solver; a stop may cut a sweep short at any column; the guard
measures a cooldown from events it only sees at its ticks; stages are asked for
by counting and by naming at once; pids are given away; the process, or the
server that launched it, may be killed between any two writes, or a write may
fail. The list with source lines is `"hazards"` in `PROJECT.json`.

What makes each component correct: the *store* never loses or worsens what it
was given; the *search* always ends in a report that names the best solution and
says truthfully why it ended; a *solve* hands back nothing worse than it was
given, whenever it is stopped, and a *cycle* nothing worse than its exploration
found; the *guard* relieves pressure without going below its floor and gives the
memory back; the *output* equals the store at the end and is usable wherever it
is cut off; a *stop* is never lost, never counted twice and never takes the
document; a *result* is taken only from a run that is over.

## 2. Modules

| module | models | extends |
|---|---|---|
| `EscapeStore` | the store: one operator per critical section | |
| `MinimaRegister` | abstract specification: a register of numbered minima that only improve and is closed once, naming the best | |
| `EscapeSearch` | workers, cycles, stops, result; its refinement mapping | `EscapeStore` |
| `ResourceGuard` | the guard's tick and what it sees of the workers | |
| `GuardedSearch` | composition: the search with its guard, on the workers' own counters and channels | `EscapeSearch`, an instance of `ResourceGuard` |
| `EscapeOutput` | saver and stream hanging on the store | `EscapeStore` |
| `JacobianSweep` | dispatcher and column workers of one Jacobian | |
| `RegionActive` | the active set and its multipliers | |
| `SolverLoop` | the iteration of the DLS solver | `JacobianSweep`, `RegionActive` |
| `Swarm` | the particle swarm | |
| `PhaseSolves` | composition: the solves of one cycle and the wrapper around them | `SolverLoop`, `Swarm` |
| `StopStages` | a run's side of a staged stop | |
| `DetachedJobs` | composition: launchers, jobs, tools and the document store over runs with stages | `StopStages` |
| `EscapeSearchProofs`, `SearchWorkProofs`, `ResourceGuardProofs`, `GuardedSearchProofs`, `EscapeOutputProofs`, `SolverLoopProofs`, `PhaseSolvesProofs`, `DetachedJobsProofs` | theorems about them | |
| `MCEscapeSearch`, `MCResourceGuard`, `MCGuardedSearch`, `MCEscapeOutput`, `MCSolverLoop`, `MCPhaseSolves`, `MCDetachedJobs` | instances for TLC | |

### EscapeSearch

`pc[w]` is the point a worker has reached in `Cycle.Run`: the loop head
(`top`), one of the five solves (`escape`, `glass`, `clean`, `retry`,
`rescue`), one of the calls on the store (`lookup`, `add`, `nearest`,
`strengthen`, `replace`), or behind the loop (`exit`, `done`). A step is what
happens between two such points; a branch of the code is an action or a
disjunct. `Judge` is the shared tail of a cycle (reset the rejections, count
the exploration, validate, drop, rescue or record).

* A *design* is an opaque value with a distance and a fingerprint distance to
  the others, a merit per phase, a verdict, and what the power solve makes of it.
* A *solve* ends at any design: nothing is assumed of the solver. An aborted
  solve (`SolveInterrupted`) ends the same way or has nothing to keep.
* The perturbation, the restart amplitude and the bumps choose where a solve
  starts, which is covered by "any design"; of a bump only how often it was
  strengthened is kept, because a lost strengthening matters.
* `Expire`, `Cancel`, `HardStop` and `Retire` happen at any time their guard
  allows, a retirement in the middle of a cycle included. Which retirements
  really happen, `GuardedSearch` says.
* `Acceptable` is the test on the merit of `Cycle.acceptable`; the test on the
  solver's status is the choice between `Rejected` and the accepting actions.
* `SolveInterrupted` needs the channel the solve listens on to be closed: the
  hard stop, or a retirement when `mid_dls_stop` merges the two.

### ResourceGuard

A tick is one action: `Tighten`, `RetireWorker`, `Restore` or `Watch`, which
share the sampling, the count (`Counted`) and the observation of exits. Time
stamps are ages in ticks, capped at the largest age the guard tells apart
(`Oldest`), `Never` for the zero time. The memory limit is in whole MB with the
code's factors (4/5 down, 5/4 up, floor 3/2 of the live heap). Integer division
rounds down, so restoring may need one step more than in the code; both
directions keep the comparison against the floor and the original limit.
`MinWorkers \in 1 .. N` is assumed; a configured floor above the number of
workers makes the guard retire nobody. The best merit of a worker is kept as the
bits of a float, and zero bits stand for "none yet": `Marked` is that reading, so
a worker with a perfect design is taken for one without any.

### GuardedSearch

`ParallelEscape` starts the guard beside the workers. The two share nothing but
what each worker exports: its recorded count and best merit (`recorded`, `best`),
`Retired()`, and the retire channel, which is `retire` in both modules. The
composition keeps the actions of both and says where they meet:

* `noteRecorded` comes after `Add`, outside the lock of the store. A worker that
  has added a design carries its merit in `unnoted` until `NoteRecorded`; the
  guard may tick in between, the other workers may record in between, the worker
  itself goes no further.
* `Seen` is what the guard can tell of a worker: only that it left at its
  request. A worker that ended otherwise stays in the guard's count.
* `GuardTick` is the guard's own action, and the only one that puts a worker
  into `retire`. `StopGuard` waits for the context or for the workers to be done.
* `Outside` is the clock, the operator and the coordinator.

`ImplementsSearch` is the specification of `EscapeSearch` and `ImplementsGuard`
that of `ResourceGuard`, over the variables here: what each module supposes of
the other is what the other does, and their properties hold of the composition.

### EscapeOutput

The record handler as a sequence of steps under the lock: `SkipSaving`,
`Archive`, `WriteFile`, then `StreamEntry`, `NoteImprovement` or
`SkipStreaming`; each write may fail and leaves its sticky error, and `Kill`
may come between any two. A file is addressed by store number and version
(version 0 is the current name), its content is the merit. `Effective` is how
the readers of the document merge `minima_improvements` into `minima`. The
search is here reduced to what the handler sees: any point discovered, any
point improved. It refines `MinimaRegister` like `EscapeSearch` does, with the
document closing the register and `best_index` leading to its best number.

### SolverLoop, JacobianSweep and RegionActive

`pc` is the place in the iteration: before it (`top`), after the model was
prepared, in the sweep, before the step, in the line search, judging the trial,
in the stall escape, closing the iteration. Steps in between are those of
`dls.Solve`, with every look at the stop channel where the code has it.

* The linear algebra is abstracted to its outcome: a trial is *any* point, a
  step is short or not, the normal equations are singular or not, the gradient
  is flat or not. Damping and scaling only choose among these.
* A point has two variables, because the glass phase pins one and frees the
  other (`Denormalised`). Constraints have violations per point; multipliers and
  penalties are integers, merits are doubled so that the half of the quadratic
  term is whole. Tolerances relative to the merit are zero.
* A *landscape* is a setting of the model: weights, pupil, phase and bumps in
  force. `Prepare` lets it change where `UpdatePupils` and
  `UpdateMeritWeights` are called; the merits the solver holds stay on the old
  one, as in the code.
* `AfterTerms` is the reset of a multiplier inside an evaluation; `TakeStep`
  and `Perturb` update best merit, best point and best known point the way the
  code does, which is not the same way.
* `JacobianSweep` has the unbuffered channel as a joint step of dispatcher and
  worker, the stop cases of both selects, and `SweepReturned` for `wg.Wait`.
* History variables (`start`, `moved`) are read by properties only.

### Swarm

A particle flies anywhere. An iteration evaluates all, moves personal and global
bests, and at the end of a window without gain sets the worst half down anew
(`Restart`, with any worst half when there are ties). The two scales of the code
are kept: personal bests and the window use the penalised one, the global best
the one the document chooses.

### PhaseSolves

`stage` goes through a cycle: exploration by swarm or solver, optional glass
phase, clean solve, retry, verdict. Each hands points to the next through
`escaped`, `cleanStart` and `found`. `Begin` is called with the landscapes of the
phase and the pin that `EnterGlassPhase` puts on. What `Settle` does to the
layout is a constant function. The rest of a cycle is in `EscapeSearch`.

### StopStages and DetachedJobs

A run is a process with its handler (`counted`, over a channel as long as the
stages are many) and its watcher (`seen`, over the control file). `Signal`
before the handler is there kills the process, as the default action does; the
system may merge a signal with one that waits. The last stage exits whatever is
being written.

A tool call is a goroutine: `at[c]` is the step it has reached in `Start`,
`Stop`, `Run`, `Result` or `Put`, and any of its steps may fail where the code
returns an error. `ServerDies` drops the calls and keeps runs and files. Pids of
ended runs may be given to other programs (`Recycle`): `PidAlive` is then wrong,
`Status` and the first look of `Stop` compare the name as well. The two
platforms differ in `byFile`.

## 3. Runs

| run | expects | states | question |
|---|---|---|---|
| `search` | pass | 1,136,516 | Two workers and two cycles on three designs, with the budget, stop requests and retirements. Does the shared store keep its promises under every interleaving (`BestWorkKept`, `BumpsAccountForWork`, `StoreOnlyImproves`), is a design recorded at most once for each worker (`OneCopyPerWorker`), does a worker rejected too often leave (`PatienceKept`), and does the search implement `MinimaRegister`? |
| `guarded` | pass | 107,661 | Two workers and the guard over them, with the budget, both stop stages, rejections and a glass phase without a clean solve. Does the composition implement the search and the guard, does it always report, claim a timeout only for the budget, and work on at the floor? |
| `apart` | violation | | Is what is recorded as new apart from everything recorded? |
| `interrupted` | violation | | Is the best solution kept when a solve is aborted? |
| `solutions` | violation | | Are the listed solutions the designs that pass validation? |
| `guard` | pass | 455,160 | Three workers, floor one, two triggers, two heap sizes, merits zero and one: is the floor kept, does the guard know what it owes, is lasting pressure relieved, the limit given back? |
| `output` | pass | 1,453,752 | Three points, three merits, writes that fail, a kill anywhere: does the document equal the store, is a cut document usable, is nothing saved lost, does the document close the register? |
| `phases` | pass | 331,085 | One cycle over four points, four landscapes and four configurations, a stop at any time. Is a step ever computed from half a Jacobian, does a solve or a swarm lose what it had, is a pin broken or left behind, is convergence claimed at a violated constraint, does the retry undo a bad glass phase, and does the cycle end? |
| `delivered` | violation | | Is the merit a solve reports the merit of the point it hands back? |
| `jobs` | pass | 595,199 | Two runs, two calls, both platforms, a dying server, failing steps, recycled pids. Are stages what was asked, is no request lost, is a result final, is the index true? |
| `forcequit` | violation | | Does no run ever get its last stage from RayWeave itself, neither a search nor a cancelled `optimize`? |
| `overbooked` | violation | | Do never more jobs run than `-max-jobs` allows? |

### What the violations show

* **Aborted solves** (`interrupted`). `recordInterrupted` records the design
  with the merit of the phase it was in. After a glass phase that is the colour
  merit, usually smaller, so `Replace` prefers it and a better minimum is gone;
  it is not validated either. The comment on the function promises that an
  interrupted run never loses its best work.
* **Classification** (`solutions`). `Replace` keeps the status of the point it
  overwrites. A better repeat that fails validation becomes a listed solution;
  by the same line a repeat that passes stays hidden in an infeasible basin.
* **Merit and point** (`delivered`). A perturbed point of the stall escape that
  beats the best merit raises `bestMerit` and `bestKnownNorm`, not `bestXNorm`.
  The solve then returns one point and the merit of another. The result is still
  no worse than the start (`DeliveredNotWorse`), only less good than it says;
  the cycle compares exactly this number when it accepts a new glass.
* **Twice the same basin** (`apart`). `IsNew` and `Add` lock the store one after
  the other, so two workers that look before either has added record one basin
  as two new minima, contrary to docs/escape.md:103-106. What is left of the
  promise is `OneCopyPerWorker`, checked in `search` and proved for any number of
  workers: together they record a design once each at most, because a worker
  only adds what it did not find when it looked.
* **Force quit** (`forcequit`). Two ways lead to it. The runner asks a cancelled
  call twice whatever the command is, but `optimize` has two stages and the
  second is `os.Exit(1)`; this is the shorter one, which the run finds. The other
  is a search: a run counts signals and `requestStop` drops the number of the
  stage on Unix, so stopping a run a second time, as the message of the first
  stop advises, sends the signal that force-quits. With `ToolRuns = {}` instead
  of `{r2}` in `forcequit.cfg` no tool is there and TLC finds this one.
* **One job too many** (`overbooked`). `Start` lets go of the lock of its
  capacity check before the job is launched and has its `meta.json`. Two calls
  that are checked in between both find room. `CapExceededByCallsOnly` proves how
  far it goes: by one job for each further call under way, never more.

Other places where the code does what its comments do not say are listed under
`"hazards"` with a note instead of a run: a repeat replaces the nearest point and
not the one it is a repeat of; a retirement that aborts a solve is reported as a timeout; the guard may retire a second
worker before the first has left; the runtime's "no limit" is the largest
integer. Two further ones lie outside the models: `Runner.Run` waits for the
process while its stderr is still being scanned, and the second request of
`runctl.Stop` does not look at the name again, so it may reach another program
that was given the pid (`AskSecond` has the step; no run of RayWeave is harmed).

### Bounds

* Two workers are enough for every race on the store: each violation of a
  store property involves one worker's two steps and one other worker in between.
  Two cycles let a worker meet its own and the other's earlier points.
* The designs lie on a line. The three of `search` are within the threshold of
  each other, so that repeats, improvements and ambiguous nearest points occur.
  One of them has another fingerprint and is therefore new although it is near,
  and a repeat may be nearest to a point it is not a repeat of; one lies outside
  the hull. Explorations end at one of the designs there, or at an absurd merit;
  the solves after it end anywhere. The violations use others of the six: one far
  away, one that repairs the hull, one that cannot be evaluated.
* `MaxCycles` 2 and `MaxFail` 2 let a worker go on after a rejection, start the
  count anew, and be rejected often enough to leave.
* The clean, exploration and colour merits order the designs differently, so
  that comparing across phases is visible.
* `guard`: a floor two below the number of workers gives two retirements; two
  heaps below and above the ceiling move the tightening floor; 180 MB leaves a
  few steps of tightening. The cooldown is two ticks and the fallback one, which
  tells "none", "running" and "over" apart. `MaxRecorded` bounds the recordings
  per worker. The merits are zero, which the guard reads as none, and one, so
  that the workers differ by merit as well as by count and number.
* `guarded`: two workers over a floor of one give the one retirement that may
  cut a worker short while the other has to work on. One cycle and two designs
  keep the guard's ages in reach of every place of a cycle; the deeper
  interleavings of the store are those of `search`. The live heap leaves no room
  to tighten, so that the guard goes straight to the workers; tightening is
  `guard`'s. The clean solve is off and the glass phase on, the way through a
  cycle that no other run takes: a design is recorded as the glass phase left it.
* `output`: three points and three merits give two replacements of one point
  (two archived versions) and three different numberings of the points;
  `MaxPoints` bounds the store.
* `phases`: the code's counters are scaled down together: three iterations
  (`MaxIter`), one probe of the line search for eight (`LineProbes`), a stall
  after one rejection for ten (`StallAfter`, `StallTail`), convergence after two
  short steps for eight (`NoImproveLimit`), so that a stall escape, a window and
  a convergence all fit into one solve. Two columns and two workers, or one
  worker, give both forms of the sweep. Two layouts and two glasses: a pin has
  something to break and something to leave free. The plain and the colour merit
  order them oppositely, the bump sits on the start, and a fourth landscape turns
  the plain merit around, so that a change under a running solve matters. The one
  band constraint holds on one layout only. The swarm has two particles, three
  iterations and a window of one, which is a restart after the second; on the
  penalised scale another point is best than on the plain one. `Insane` lies
  between the merits, so that the sanity check decides both ways. Four
  configurations pair the options instead of multiplying them.
* `jobs`: two runs and two calls give every race of two callers over one run and
  one document, with equal contents so that both put the same document.
  `MaxJobs` 1 is full with one job.
  Nothing bounds the starts under way but the number of calls.
  `MaxSignals` 1 is one signal from outside; `ToolRuns` keeps one of
  the runs for jobs. Calls are interchangeable (symmetry; no liveness there).
* `forcequit` and `overbooked` have no outside signals (`MaxSignals` 0), so
  whatever quits a run was sent by RayWeave; `overbooked` has no tools either.

`CHECK_DEADLOCK FALSE` is set where the system really ends: a search that has
reported (with its guard or without), a cycle that is over, a guard that was
stopped, a run that is done or killed, runs that have all ended.

### Fairness

* `EscapeSearch`: weak fairness of each worker and of the assembly. The Go
  scheduler runs every runnable goroutine, and a solve ends at its iteration
  limit. Nothing obliges the clock, the operator or the guard to act.
* `GuardedSearch`: the same; the noting of a recorded design belongs to its
  worker. The guard may tick as often or as rarely as it likes, so the report
  does not depend on it, and it may retire whom it wants without holding it up.
* `PhaseSolves` and `SolverLoop`: weak fairness of the worker with its solver
  goroutines, of the same scheduler. Nobody has to ask for a stop. `CycleEnds`
  says what `EscapeSearch` assumes of a solve: it ends, stopped or not.
* `ResourceGuard`: if the sampled verdict is eventually constant, ticks with
  that verdict go on. This is what a ticker gives; which verdicts are sampled is
  left open, and no worker is obliged to leave, so `PressureRelieved` covers
  the worker that is stuck.
* `DetachedJobs` has none: a run may take any time, and nothing promises that it
  obeys.

## 4. Proofs

All theorems hold for every value of the constants allowed by the named
assumptions (`StoreAssumption`, `SearchAssumption`, `GuardAssumption`,
`SweepAssumption`, `RegionAssumption`, `SolverAssumption`, `SwarmAssumption`,
`PhaseAssumption`, `OutputAssumption`, `JobsAssumption`, `GuardedAssumption`):
any finite number of workers, cycles, designs, points, constraints, particles,
runs and calls, any distances, merits, verdicts and options. `GuardedAssumption`
adds only that both modules speak of the same workers, `0 .. N - 1`, and are
guarded at all.

| theorem | states |
|---|---|
| `TypeCorrect` | `Spec => []TypeOK` for the search |
| `StoreImproves` | no step removes, reclassifies, weakens or worsens a recorded point |
| `BestWorkIsKept` | the store is at least as good as the best merit each worker brought |
| `TimedOutIsBudget` | with `mid_dls_stop` off, `timed_out` is only reported when the budget is used up |
| `SearchImplementsRegister` | the search refines `MinimaRegister` |
| `CopiesAreBounded` | where only equal designs have distance zero, the workers record a design once each at most |
| `PatienceIsKept` | a worker rejected `maxFail` times in a row has left |
| `BumpsAreAccounted` | without aborted solves, the bumps in the store and the workers on their way to it are the explorations |
| `RepeatsHaveANearest` | a worker with a repeat always finds a nearest point |
| `WorkersComeToAnEnd` | each step of a worker raises a bounded measure that nobody lowers |
| `GuardTypeCorrect` | types of the guard; the limit stays in `1 .. OrigLimit` |
| `FloorIsKept` | the floor holds and the count of active workers is exact |
| `OneWorkerToAsk` | above the floor there is exactly one worker to ask |
| `AnswersComeToAnEnd` | each answer lowers the limit, at least to 64 MB, or asks one worker more |
| `LimitIsOnTheBooks`, `RestoringRises` | the guard knows that it owes memory as long as it does, and each step back up raises the limit |
| `GuardedImplementsSearch`, `GuardedImplementsGuard` | search and guard together refine each of the two |
| `FloorWorksOn` | in a search nobody stopped, the floor's number of workers worked to the end of their cycles or of their patience |
| `SolverIsSafe` | the solver by itself: all of the following eight at once |
| `CycleSolverTypes`, `StepsHaveAWholeJacobian`, `EscapeKnowsItsPoint`, `SolvesNeverLose`, `GlassPhasePins`, `ConvergenceIsFeasible`, `EvaluationsArePure` | the same for the solver inside a cycle, through all of its solves |
| `SweepsAreNeverStuck`, `CyclesAreNeverStuck` | as long as a sweep has not returned, its dispatcher or a worker can go on |
| `SolvesComeToAnEnd`, `CyclesComeToAnEnd` | every step of a solve, and of a cycle, brings it closer to its end |
| `SwarmRemembers`, `SwarmNeverLoses` | the global best is the best point evaluated; the swarm hands back nothing worse than its start |
| `CleanSolvesAreFree` | clean solve and retry are unpinned and under the ordinary merit |
| `CyclesKeepTheirGain` | a recorded design is no worse than what the exploration found |
| `OutputTyped`, `CutDocumentReadable` | types of files and document; a document cut off anywhere lists the solutions so far |
| `NothingSavedLost`, `NewestCurrent` | no failing write and no kill loses a saved minimum; the newest file is the minimum |
| `DocumentTellsTheStore` | the closed document, merged as its readers do, is the store |
| `OutputImplementsRegister` | the output refines `MinimaRegister`: the document closes it |
| `JobsTypes`, `StagesAreAsked`, `RequestsAreKept` | types; a stage is the highest asked for; no request is lost |
| `ResultsAreFinal`, `IndexIsTrue` | a result is the last word of a run that is over; the index names stored documents, once each |
| `CapExceededByCallsOnly` | more jobs than the cap run only by as many as calls are under way together, less one |

*Search.* Types are not inductive by themselves: `AddNew` needs a candidate,
`ReplaceRepeat` a valid index, `Rejected` a counter below its limit.
`CycleInv(w)` says what is set at each point of a cycle; `CyclesOK` is
`TypeOK` with `CycleInv` for all workers, and one lemma per action shows that
it is preserved (`AddPoint`, `StrengthenPoint` and `ReplacePoint` say once what
the store's operations do). On top of it:

* `StoreImproves` follows from the store lemmas, since only three actions write
  `points`.
* `BestWorkKept` is inductive relative to `CyclesOK` and to the fact that
  points only improve: a worker's best merit changes only in the step that puts
  a design at least as good into the store.
* `StopInv` records why a worker may be cut short: stop flags are never
  lowered, so what held when the worker looked still holds when it leaves. It
  is the strengthening `TimedOutOnlyByBudget` needs.
* The refinement needs `ReportInv`: the result is assembled when all workers
  are done, so no recording can follow the closing of the register. Each
  recording maps to `Discover` or `Improve` or to a stutter.
* `CopiesAreBounded` counts, for a design, the places it is at or may get to:
  the points that hold it, the workers about to add it, and the points that
  workers with a repeat are about to replace by it (`ClaimsInv`). As long as
  nobody has recorded it, each worker has at most one of them. Once it is in the
  store, whoever looks later finds it no longer new and is led to a point that
  holds it, at distance zero, so that no claim is added; and each recording turns
  a claim into a copy.
* `BumpsAccountForWork` compares sizes of sets, not a sum over the store: the
  pairs of a point and one of its bumps, the workers on their way (`OnTheWay`), the
  explorations as pairs of a worker and one of its cycles. A step then moves one element, and
  the library's facts on finite sets do the rest; a sum would need induction.
  It needs that `Strengthen` and the `Replace` after it act on the index of a
  point that is there, which is `CycleInv`.
* `RepeatHasNearest`: a repeat was near a recorded point when it was looked up
  (`RepeatInv`), and points are only replaced, so the store is not empty at any
  later time. That a nearest point exists is shown by two minimisations, of the
  distance and then of the index, each from the well-foundedness of the naturals.
* `WorkersAdvance` takes the measure `12 * cycle + Place`, the places of a cycle
  in their order: it says why the loop of `Cycle.Run` ends, whatever is rejected,
  repeated or aborted. What `SearchReports` adds is the fairness alone.

*Guard.* `FloorInv` says that the retired are workers and that `activeN` is the
cardinality of the rest and between the floor and `N`. Retiring takes one
element out of a finite set. The bounds of the limit use the arithmetic of the
tightening and restoring targets: never below 64 MB on the way down unless the
limit already is, capped by the original limit on the way up.

`OneWorkerToAsk` says that the scan of `selectWorker`, which the model writes as
the least worker in its order, is a choice of one: the order is shown to be a
strict total one (`WorseOrder`, `ProductivityOrder`), and a non-empty finite set
has a least element in it (`SomebodyToAsk`); the floor leaves the set non-empty.
`LimitOnTheBooks` ties the flag `tightened` to the limit in both directions and
keeps a lowered limit at 64 MB or more, where a quarter of it is a whole
megabyte: without that, integer division could make a step up that raises
nothing. `AnswersComeToAnEnd` and `RestoringRises` are the two measures behind
`PressureRelieved` and `LimitRestored`.

*Search with guard.* Neither refinement holds step by step from the types alone.
`EndInv` says why a worker may have left (its cycles, its patience, a stop, or a
retirement the guard has asked for), and `NoteInv` that what a worker has noted
is less than its cycles and that one with a design still to note has just left
`add`; then a worker's step is one of the guard's environment (`Note`,
`RetireAtBoundary`, `Finish`) or a stutter of it, and the guard's tick is
`Retire` for the search or a stutter. `FloorWorksOn` combines the two: the guard's `FloorKept` bounds
the retired, `EndInv` says what the others did.

*Solver.* `SolverInv` is the conjunction of an invariant per concern, each
inductive relative to the types:

* `SweepInv` says which columns the dispatcher has handed out and who still
  works on one; when everybody has left without a stop, all are computed. A
  stop that comes after the last hand-over is harmless, one before it is what
  the solver's own look at the channel is for (`JacobianInv`).
* `MeritInv` relates the three memories of the best: point and best merit agree
  until a stall escape separates them, and the best point is never above the
  start. It needs the merit of the current point to be exact, which holds while
  the landscape and the terms stay as they are; hence the premises `~moved` and
  no constraints.
* `FeasibleInv` ties the residuals kept for the convergence test to the point
  the solver stands on; `MultiplierInv` says that multipliers of inequalities are
  not negative, so that a term can only vanish, never be reset.
* `SweepNeverStuck` needs that a worker leaves only after a stop or after the
  dispatcher has closed the channel (`NoneLeftEarly`, part of `SweepInv`): then a
  dispatcher that waits has a worker to receive, or a stop to take, and workers
  that wait have a dispatcher that is still there.
* `SolveAdvances` orders the steps of a solve by iteration, place, probe and
  what the sweep has still to do (`SweepLeft`), so that no branch of the line
  search or the stall escape leads back.
* That a pinned variable stays needs the start to be on the pin, which `Begin`
  demands and the phases guarantee.

*Cycle.* The solver's steps preserve `SolverInv` by the lemmas above, the
swarm's `SwarmInv`; the stages in between are shown to be a `Begin`, or to leave
both alone. `FreeInv` says in which stages the glass phase may be on. `GainInv`
carries the comparison from the end of the clean solve to the record: either the
clean solve was no worse, or the retry started where the exploration ended and,
by `SolvesNeverLose`, was no worse itself.

*Output.* The record handler is followed through its steps:

* `SavedInv` bounds every file by its minimum: a version the minimum has had, a
  merit it improved on. While a replacement is being archived all versions on
  disk are *smaller* than the one in the store, so the rename hits no file; once
  archived, the plain name is free, so the write hits none. `NothingSavedLost`
  is these two facts, and the order of the versions follows from the archived
  one having been the best so far.
* `StreamInv` says that the positions ascend and stay behind the point being
  entered, hence are one to one, that the document is the positions as long as
  it did not fail, and that a merit that is out of date is either noted as
  improved or being noted. With `PositionsCount`, a bijection of positions and
  solutions, the closing block is right at the step that writes it, and nothing
  follows that step.
* Search and output refine the same `MinimaRegister`, each through its own view
  of the store; the register is what makes the reduced search of `EscapeOutput`
  and the whole one of `EscapeSearch` agree on what a reader is promised.

*Jobs.* `StageInv` relates the stage to the two counters and makes a queue hold
no more than its channel. `CallInv` says what a call at each step may rely on:
a starting job is its own alone, a held output is that of a run that is over,
one call at a time is putting. `StoreInv` says that a document without a line
belongs to the call that renamed it, or to nobody any more. `CapInv` counts the
jobs on record that run together with the calls that have passed the check and
are not on record yet; each call is one of the latter at most once, which gives
the bound of `CapExceededByCallsOnly`. It needs the cardinality lemmas of the
library.

Only model-checked: the liveness properties (`SearchReports`,
`PressureRelieved`, `LimitRestored`, `CycleEnds`). Fairness speaks of `ENABLED`,
which is out of the prover's reach. What is proved of each is its safety half:
steps only lead towards the end (`WorkersComeToAnEnd`, `AnswersComeToAnEnd`,
`RestoringRises`, `CyclesComeToAnEnd`), and where somebody has to wait, he does
not wait for ever (`RepeatsHaveANearest`, `CyclesAreNeverStuck`,
`OneWorkerToAsk`).

## 5. Not modelled, and why

* Merits, rays, aberrations, distances, bumps, weights: floating-point
  functions without control of their own. They appear as constants.
* The linear algebra of the solver, its damping and its step lengths: their
  outcome is left open, which covers every value of them.
* The internals of the optimizer behind the solver's interface: apertures of the
  Jacobian, the anchor of the power solves, caches.
* The layout of the YAML document and of the progress events. `CutDocumentIsReadable`
  speaks of the list's entries, one per write, not of the syntax.
* Partial writes of the stream: a failing `Write` is taken to write nothing. A
  process that exits in the middle of its document leaves a cut one.
* The diagnostic reads of `debug` mode, which read the store without its lock.
* `noteRecorded` is one step in `GuardedSearch`; the code adds to a counter and
  then updates a merit, and the guard may read in between. No decision of the
  guard depends on both being of one recording.
* The line search accepts a strict decrease instead of Armijo's, and the stall
  window asks for equality instead of a relative tolerance, both being the same
  choice on integer merits; a merit that is not a number does not occur.
* `PhaseSolves` always has a clean solve; a cycle without one is in
  `EscapeSearch` and `GuardedSearch`.
* `Jobs.Status` compares the name of a process to tell a run from another one
  that has its pid. `Running` takes that comparison to be right.
* `selectWorker` scans the workers in order; `Selected` is the least of them,
  which is the same one (`OneWorkerToAsk`).
* Importers, exporters, analyses and the remaining commands: one pass from text
  to text, without state that outlives the call. They are most of the lines of
  the repository and hold nothing for a model checker; tests reach them well.
* The MCP pipeline: a sequence of runner calls in one goroutine.

## 6. Plan

1. *Done*: store, register, search, guard, output; solver, sweep, active set,
   swarm, phases; stages, detached runs, jobs, tools, document store; search and
   guard together; the theorems of section 4, among them a theorem for every
   invariant and action property the passing runs check, and the safety half of every
   liveness property.
2. Proofs: the measure of a run that is stopped in stages, and of a tool call,
   so that `DetachedJobs` has a progress argument too.
3. Behind the solver: entering and leaving the glass phase with the power
   solves' anchor, the aperture cache of the Jacobian.
4. The search together with its output: the record handler under the store's
   lock, instead of the reduced search of `EscapeOutput`.
