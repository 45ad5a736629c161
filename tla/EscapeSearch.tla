---------------------------- MODULE EscapeSearch ----------------------------
(***************************************************************************)
(* A global search (internal/escape: ParallelEscape and Cycle.Run): workers*)
(* run explore / glass / clean / rescue solves over one shared store until *)
(* their cycle budget, the time budget, a stop request or the resource     *)
(* guard ends them; the coordinator then reports the store.                *)
(*                                                                         *)
(* A solve is a step whose outcome is any design; what the real solver     *)
(* makes of a start point, a bump or a perturbation is abstracted by that  *)
(* choice.  What a worker does with the outcome is not abstracted.         *)
(***************************************************************************)
EXTENDS EscapeStore, FiniteSets

CONSTANTS
  Workers,      \* the worker goroutines
  MaxCycles,    \* cycle budget of one worker
  MaxFail,      \* consecutive rejected solves that end a worker
  Merit,        \* Merit[ph][x]: the inner model's merit of x in phase ph
  TooLarge,     \* merits from here on mean a broken evaluation
  Verdict,      \* Verdict[x]: what validation says of x
  Settle,       \* Settle[x]: x with the power solve's compensation applied
  GlassPhase,   \* insert the power-preserving glass phase
  CleanDLS,     \* close every cycle with the clean solve
  HullRescue,   \* repair designs outside the real-glass hull
  TimeLimited,  \* max_seconds is set
  Guarded,      \* the resource guard is enabled
  MidDLS,       \* a retirement aborts the running solve too
  NoMerit,      \* stands for the +Inf a worker's best merit starts from
  None          \* a variable of the loop body that is not set

Phases == {"escape", "glass", "clean"}

ASSUME SearchAssumption ==
  /\ IsFiniteSet(Workers) /\ Workers # {}
  /\ MaxCycles \in Nat \ {0} /\ MaxFail \in Nat \ {0}
  /\ Merit \in [Phases -> [Designs -> Merits]]
  /\ TooLarge \in Nat
  /\ Verdict \in [Designs -> Verdicts]
  /\ Settle \in [Designs -> Designs]
  /\ GlassPhase \in BOOLEAN /\ CleanDLS \in BOOLEAN
  /\ HullRescue \in BOOLEAN /\ TimeLimited \in BOOLEAN
  /\ Guarded \in BOOLEAN /\ MidDLS \in BOOLEAN
  /\ NoMerit \notin Merits
  /\ None \notin Designs

VARIABLES
  pc,          \* where each worker is in its cycle
  cycle,       \* cycles each worker has left behind
  failures,    \* rejected solves since the last completed cycle
  escaped,     \* the design the exploration of this cycle ended at
  cand,        \* the design about to be recorded
  partial,     \* whether cand came out of an interrupted solve
  target,      \* the recorded point a repeat goes to
  bestMerit,   \* the best merit a worker has brought to the store
  explored,    \* exploration steps each worker completed
  stopped,     \* the worker was cut short
  retired,     \* the worker left at the guard's request
  expired,     \* the time budget is used up
  cancelled,   \* stop stage 1: the shared context is cancelled
  hardStop,    \* stop stage 2: running solves are to be aborted
  retire,      \* workers the guard asked to stop
  timedOut,    \* some worker reported that the time budget stopped it
  report       \* the result of the search

body == <<escaped, cand, partial, target>>     \* scoped to one cycle
tally == <<failures, explored>>
stops == <<expired, cancelled, hardStop, retire>>
result == <<timedOut, report>>
vars == <<points, pc, cycle, body, tally, bestMerit, stopped, retired,
          stops, result>>

Candidate == [x : Designs, merit : Merits, status : Verdicts]
Solving == {"escape", "glass", "clean", "retry", "rescue"}
Recording == {"lookup", "add", "nearest", "strengthen", "replace"}
Unreported == [done |-> FALSE]
Report == [done : {TRUE}, best : Nat, timedOut : BOOLEAN,
           interrupted : BOOLEAN]

TypeOK ==
  /\ TypeOKStore
  /\ pc \in [Workers -> {"top", "exit", "done"} \cup Solving \cup Recording]
  /\ cycle \in [Workers -> 0 .. MaxCycles]
  /\ failures \in [Workers -> 0 .. MaxFail]
  /\ escaped \in [Workers -> Designs \cup {None}]
  /\ cand \in [Workers -> Candidate \cup {None}]
  /\ partial \in [Workers -> BOOLEAN]
  /\ target \in [Workers -> Nat]
  /\ bestMerit \in [Workers -> Merits \cup {NoMerit}]
  /\ explored \in [Workers -> Nat]
  /\ stopped \in [Workers -> BOOLEAN]
  /\ retired \in [Workers -> BOOLEAN]
  /\ expired \in BOOLEAN /\ cancelled \in BOOLEAN /\ hardStop \in BOOLEAN
  /\ retire \in SUBSET Workers
  /\ timedOut \in BOOLEAN
  /\ report \in Report \cup {Unreported}

Init ==
  /\ StoreInit
  /\ pc = [w \in Workers |-> "top"]
  /\ cycle = [w \in Workers |-> 0]
  /\ failures = [w \in Workers |-> 0]
  /\ escaped = [w \in Workers |-> None]
  /\ cand = [w \in Workers |-> None]
  /\ partial = [w \in Workers |-> FALSE]
  /\ target = [w \in Workers |-> 0]
  /\ bestMerit = [w \in Workers |-> NoMerit]
  /\ explored = [w \in Workers |-> 0]
  /\ stopped = [w \in Workers |-> FALSE]
  /\ retired = [w \in Workers |-> FALSE]
  /\ expired = FALSE /\ cancelled = FALSE /\ hardStop = FALSE
  /\ retire = {}
  /\ timedOut = FALSE
  /\ report = Unreported

-----------------------------------------------------------------------------
(* Shared by the steps of a cycle *)

TimeUp == expired \/ cancelled

(* What aborts the solve a worker is in. *)
Aborted(w) == hardStop \/ (MidDLS /\ w \in retire)

(* A solve that converged, or ran out of iterations, at a sane merit. *)
Acceptable(x, ph) == Merit[ph][x] < TooLarge

(* The phase whose merit the inner model computes while w is solving. *)
PhaseOf(w) == IF pc[w] \in {"escape", "glass"} THEN pc[w] ELSE "clean"

Goto(w, l) == pc' = [pc EXCEPT ![w] = l]

ForgetBody(w) ==
  /\ escaped' = [escaped EXCEPT ![w] = None]
  /\ cand' = [cand EXCEPT ![w] = None]
  /\ partial' = [partial EXCEPT ![w] = FALSE]
  /\ target' = [target EXCEPT ![w] = 0]

(* continue: on to the top of the loop with the next cycle number. *)
NextCycle(w) ==
  /\ Goto(w, "top")
  /\ cycle' = [cycle EXCEPT ![w] = @ + 1]
  /\ ForgetBody(w)

(* break *)
LeaveLoop(w) ==
  /\ Goto(w, "exit")
  /\ ForgetBody(w)
  /\ UNCHANGED cycle

CutShort(w) ==
  /\ LeaveLoop(w)
  /\ stopped' = [stopped EXCEPT ![w] = TRUE]

-----------------------------------------------------------------------------
(* The top of the loop *)

(* Every worker has a retire channel of its own; and if they shared one.   *)
AskedAnybody(w) == retire # {}
Asked(w) == w \in retire

(* The loop's bound, and one cycle too many. *)
AtBoundaryOnceMore(w) == pc[w] = "top" /\ cycle[w] <= MaxCycles
AtBoundary(w) == pc[w] = "top" /\ cycle[w] < MaxCycles

StopAtBoundary(w) ==
  /\ AtBoundary(w)
  /\ TimeUp
  /\ CutShort(w)
  /\ UNCHANGED <<points, tally, bestMerit, retired, stops, result>>

RetireAtBoundary(w) ==
  /\ AtBoundary(w)
  /\ ~ TimeUp
  /\ Asked(w)
  /\ retired' = [retired EXCEPT ![w] = TRUE]
  /\ LeaveLoop(w)
  /\ UNCHANGED <<points, tally, bestMerit, stopped, stops, result>>

StartCycle(w) ==
  /\ AtBoundary(w)
  /\ ~ TimeUp
  /\ ~ Asked(w)
  /\ Goto(w, "escape")
  /\ UNCHANGED <<points, cycle, body, tally, bestMerit, stopped, retired,
                 stops, result>>

CyclesDone(w) ==
  /\ pc[w] = "top"
  /\ cycle[w] = MaxCycles
  /\ LeaveLoop(w)
  /\ UNCHANGED <<points, tally, bestMerit, stopped, retired, stops, result>>

-----------------------------------------------------------------------------
(* The solves of a cycle *)

Judged(x) == [x |-> x, merit |-> Merit["clean"][x], status |-> Verdict[x]]

(* The cycle has produced x: count it, validate it, and drop it when it    *)
(* cannot be evaluated, try to repair it when it is outside the glass hull *)
(* (whose projection may not exist), or else go and record it.             *)
Judge(w, x) ==
  /\ failures' = [failures EXCEPT ![w] = 0]
  /\ explored' = [explored EXCEPT ![w] = @ + 1]
  /\ \/ Verdict[x] = "failure" /\ NextCycle(w)
     \/ /\ Verdict[x] # "failure"
        /\ \/ Goto(w, "lookup")
           \/ /\ Verdict[x] = "hull"
              /\ CleanDLS /\ HullRescue /\ ~ TimeUp /\ ~ hardStop
              /\ Goto(w, "rescue")
        /\ cand' = [cand EXCEPT ![w] = Judged(x)]
        /\ UNCHANGED <<cycle, escaped, partial, target>>

(* failures >= maxFail, and the bound taken one rejection late. *)
GiveUpLate(n) == n > MaxFail
GiveUp(n) == n >= MaxFail

(* A solve that neither converged nor ran to its iteration limit, or ended *)
(* at an absurd merit; the glass, retry and rescue solves do not count.    *)
Rejected(w) ==
  /\ pc[w] \in {"escape", "clean"}
  /\ failures' = [failures EXCEPT ![w] = @ + 1]
  /\ IF GiveUp(failures[w] + 1) THEN LeaveLoop(w) ELSE NextCycle(w)
  /\ UNCHANGED <<points, explored, bestMerit, stopped, retired, stops, result>>

EscapeAccepted(w) ==
  /\ pc[w] = "escape"
  /\ \E x \in Designs :
       /\ Acceptable(x, "escape")
       /\ IF GlassPhase \/ CleanDLS
            THEN /\ Goto(w, IF GlassPhase THEN "glass" ELSE "clean")
                 /\ escaped' = [escaped EXCEPT ![w] = x]
                 /\ UNCHANGED <<cycle, cand, partial, target, tally>>
            ELSE Judge(w, x)
  /\ UNCHANGED <<points, bestMerit, stopped, retired, stops, result>>

(* The settled glass design replaces the exploration's when it improves    *)
(* the colour merit by 1% and costs the layout merit no more than half.    *)
(* That colour merit is the one the solve reports: a stall escape may have *)
(* left it at a better one than the design it returns has (SolverLoop).    *)
GlassBetter(x, from) ==
  /\ 2 * Merit["clean"][Settle[x]] <= 3 * Merit["clean"][from]
       \/ Merit["clean"][from] = 0
  /\ \E r \in Designs :
       /\ Merit["glass"][r] <= Merit["glass"][x]
       /\ 100 * Merit["glass"][r] < 99 * Merit["glass"][from]
            \/ Merit["glass"][from] = 0

GlassDone(w) ==
  /\ pc[w] = "glass"
  /\ \E x \in {escaped[w]} \cup
          {Settle[y] : y \in {z \in Designs : /\ Acceptable(z, "clean")
                                              /\ GlassBetter(z, escaped[w])}} :
       IF CleanDLS
         THEN Goto(w, "clean") /\ UNCHANGED <<cycle, body, tally>>
         ELSE Judge(w, x)
  /\ UNCHANGED <<points, bestMerit, stopped, retired, stops, result>>

CleanAccepted(w) ==
  /\ pc[w] = "clean"
  /\ \E x \in Designs :
       /\ Acceptable(x, "clean")
       /\ IF Merit["clean"][x] > Merit["clean"][escaped[w]]
            THEN /\ Goto(w, "retry")
                 /\ cand' = [cand EXCEPT ![w] = Judged(x)]
                 /\ UNCHANGED <<cycle, escaped, partial, target, tally>>
            ELSE Judge(w, x)
  /\ UNCHANGED <<points, bestMerit, stopped, retired, stops, result>>

(* Clean once more from the exploration's design, kept only when better. *)
RetryDone(w) ==
  /\ pc[w] = "retry"
  /\ \E x \in {cand[w].x} \cup
          {y \in Designs : /\ Acceptable(y, "clean")
                           /\ Merit["clean"][y] < cand[w].merit} :
       Judge(w, x)
  /\ UNCHANGED <<points, bestMerit, stopped, retired, stops, result>>

RescueDone(w) ==
  /\ pc[w] = "rescue"
  /\ Goto(w, "lookup")
  /\ cand' \in {cand} \cup
       {[cand EXCEPT ![w] = Judged(x)] :
          x \in {y \in Designs : /\ Acceptable(y, "clean")
                                 /\ Verdict[y] = "feasible"}}
  /\ UNCHANGED <<points, cycle, escaped, partial, target, tally, bestMerit,
                 stopped, retired, stops, result>>

(* An aborted solve: what it had reached is recorded, unvalidated and with *)
(* the merit of the phase it was in, unless it had not done one iteration  *)
(* or its merit is absurd.                                                 *)
SolveInterrupted(w) ==
  /\ pc[w] \in Solving
  /\ Aborted(w)
  /\ \/ CutShort(w)
     \/ /\ \E x \in Designs :
             /\ Acceptable(x, PhaseOf(w))
             /\ cand' = [cand EXCEPT ![w] =
                  [x |-> x, merit |-> Merit[PhaseOf(w)][x],
                   status |-> "feasible"]]
        /\ partial' = [partial EXCEPT ![w] = TRUE]
        /\ Goto(w, "lookup")
        /\ UNCHANGED <<cycle, escaped, target, stopped>>
  /\ UNCHANGED <<points, tally, bestMerit, retired, stops, result>>

-----------------------------------------------------------------------------
(* Recording: every call on the store is a critical section of its own *)

Better(m, best) == best = NoMerit \/ m < best

(* An interrupted worker stops here; the others remember their best merit. *)
Recorded(w) ==
  IF partial[w]
    THEN CutShort(w) /\ UNCHANGED bestMerit
    ELSE /\ NextCycle(w)
         /\ bestMerit' = IF Better(cand[w].merit, bestMerit[w])
                           THEN [bestMerit EXCEPT ![w] = cand[w].merit]
                           ELSE bestMerit
         /\ UNCHANGED stopped

LookUp(w) ==
  /\ pc[w] = "lookup"
  /\ Goto(w, IF IsNew(cand[w].x) THEN "add" ELSE "nearest")
  /\ UNCHANGED <<points, cycle, body, tally, bestMerit, stopped, retired,
                 stops, result>>

AddNew(w) ==
  /\ pc[w] = "add"
  /\ Add(cand[w].x, cand[w].merit, cand[w].status)
  /\ Recorded(w)
  /\ UNCHANGED <<tally, retired, stops, result>>

FindNearest(w) ==
  /\ pc[w] = "nearest"
  /\ \E i \in Indices :
       /\ IsNearest(cand[w].x, i)
       /\ target' = [target EXCEPT ![w] = i]
  /\ Goto(w, "strengthen")
  /\ UNCHANGED <<points, cycle, escaped, cand, partial, tally, bestMerit,
                 stopped, retired, stops, result>>

StrengthenRepeat(w) ==
  /\ pc[w] = "strengthen"
  /\ Strengthen(target[w])
  /\ Goto(w, "replace")
  /\ UNCHANGED <<cycle, body, tally, bestMerit, stopped, retired, stops,
                 result>>

ReplaceRepeat(w) ==
  /\ pc[w] = "replace"
  /\ Replace(target[w], cand[w].x, cand[w].merit)
  /\ Recorded(w)
  /\ UNCHANGED <<tally, retired, stops, result>>

-----------------------------------------------------------------------------
(* The end of the search *)

(* Cut short, but not by an interrupt nor a hard stop; and a version of it *)
(* that forgets that an interrupt shows as an expired budget in timeUp.    *)
CutShortByAnything(w) == stopped[w] /\ ~ hardStop
StoppedByTime(w) == stopped[w] /\ ~ cancelled /\ ~ hardStop

(* wg.Done runs for every worker that left the loop (it is deferred); and  *)
(* a version that only runs it when the worker was not cut short.          *)
HasFinished(w) == pc[w] = "exit" /\ ~ stopped[w]
HasLeft(w) == pc[w] = "exit"

(* worker_done, and the worker's share of the result. *)
Exit(w) ==
  /\ HasLeft(w)
  /\ Goto(w, "done")
  /\ timedOut' = (timedOut \/ StoppedByTime(w))
  /\ UNCHANGED <<points, cycle, body, tally, bestMerit, stopped, retired,
                 stops, report>>

Assemble ==
  /\ \A w \in Workers : pc[w] = "done"
  /\ report = Unreported
  /\ \E b \in 0 .. Len(points) :
       /\ IF Listed = {} THEN b = 0 ELSE IsBest(b)
       /\ report' = [done |-> TRUE, best |-> b, timedOut |-> timedOut,
                     interrupted |-> cancelled \/ hardStop]
  /\ UNCHANGED <<points, pc, cycle, body, tally, bestMerit, stopped, retired,
                 stops, timedOut>>

(* The clock, the operator's stop requests and the resource guard, which   *)
(* never retires the last worker (min_workers is at least 1).              *)
Unworked == UNCHANGED <<points, pc, cycle, body, tally, bestMerit, stopped,
                        retired, result>>

Expire ==
  /\ TimeLimited /\ ~ expired /\ expired' = TRUE
  /\ UNCHANGED <<cancelled, hardStop, retire>> /\ Unworked

Cancel ==
  /\ ~ cancelled /\ cancelled' = TRUE
  /\ UNCHANGED <<expired, hardStop, retire>> /\ Unworked

HardStop ==
  /\ cancelled /\ ~ hardStop /\ hardStop' = TRUE
  /\ UNCHANGED <<expired, cancelled, retire>> /\ Unworked

Retire(w) ==
  /\ Guarded /\ w \notin retire
  /\ Cardinality(retire) + 1 < Cardinality(Workers)
  /\ retire' = retire \cup {w}
  /\ UNCHANGED <<expired, cancelled, hardStop>> /\ Unworked

Solve(w) ==
  \/ Rejected(w) \/ EscapeAccepted(w) \/ GlassDone(w) \/ CleanAccepted(w)
  \/ RetryDone(w) \/ RescueDone(w) \/ SolveInterrupted(w)

Record(w) ==
  LookUp(w) \/ AddNew(w) \/ FindNearest(w) \/ StrengthenRepeat(w)
    \/ ReplaceRepeat(w)

Worker(w) ==
  \/ StopAtBoundary(w) \/ RetireAtBoundary(w) \/ StartCycle(w)
  \/ CyclesDone(w) \/ Solve(w) \/ Record(w) \/ Exit(w)

Environment == Expire \/ Cancel \/ HardStop \/ \E w \in Workers : Retire(w)

Next == (\E w \in Workers : Worker(w)) \/ Assemble \/ Environment

Spec == Init /\ [][Next]_vars

(* The Go scheduler runs every goroutine that can run and a solve stops at *)
(* its iteration limit; nobody promises a stop request or a timeout.       *)
FairSpec ==
  Spec /\ (\A w \in Workers : WF_vars(Worker(w))) /\ WF_vars(Assemble)

-----------------------------------------------------------------------------
(* Why the properties hold: what is true of each worker at every step *)

(* What the steps of a cycle find set, and how far the counters are. *)
CycleInv(w) ==
  /\ pc[w] \in {"glass", "clean"} => escaped[w] \in Designs
  /\ pc[w] \in {"retry", "rescue"} \cup Recording => cand[w] \in Candidate
  /\ pc[w] \in {"rescue"} \cup Recording => cand[w].status \in Recordable
  /\ pc[w] \in {"strengthen", "replace"} => target[w] \in Indices
  /\ pc[w] \in Solving \cup Recording => cycle[w] < MaxCycles
  /\ pc[w] \in {"top"} \cup Solving \cup Recording => failures[w] < MaxFail

(* Why a worker was cut short, when retirements abort no solve.  The flags *)
(* are only ever raised, so what was true of them when the worker looked   *)
(* is still true when it leaves.                                           *)
StopInv ==
  /\ \A w \in Workers : partial[w] => hardStop
  /\ \A w \in Workers : stopped[w] => TimeUp \/ hardStop
  /\ timedOut => expired
  /\ report # Unreported => (report.timedOut => timedOut)

(* The result is assembled when every worker is done. *)
ReportInv == report # Unreported => \A w \in Workers : pc[w] = "done"

(* Rejections count over the exploration and the clean solve, over several *)
(* cycles, and start anew only with a cycle that came to its judgement: a  *)
(* worker rejected maxFail times in a row has left its loop (cycle.go:438, *)
(* 593) and does not spend its remaining cycles on broken solves.          *)
PatienceKept ==
  \A w \in Workers : failures[w] = MaxFail => pc[w] \in {"exit", "done"}

(* No worker outlives its work: whatever the other workers have replaced   *)
(* since, the store still holds a point at least as good as the best merit *)
(* the worker brought to it, so the best value Cycle.Run computes is never *)
(* better than what the report can be built from.                          *)
BestWorkKept ==
  \A w \in Workers : bestMerit[w] # NoMerit =>
    \E i \in Indices : points[i].merit <= bestMerit[w]

-----------------------------------------------------------------------------
(* Properties *)

(* What the stream and the saver rely on when onRecord gives them an index *)
(* and a version: a step keeps every index, its classification and its     *)
(* bump, and changes the design of an index only for a strictly lower      *)
(* merit under the next version number.                                    *)
KeptOrImproved(i) ==
  LET p == points[i]  q == points'[i] IN
    /\ q.status = p.status
    /\ q.strengthened >= p.strengthened
    /\ \/ q.x = p.x /\ q.merit = p.merit /\ q.version = p.version
       \/ q.merit < p.merit /\ q.version = p.version + 1

StoreOnlyImproves ==
  [][/\ Len(points) <= Len(points')
     /\ \A i \in Indices : KeptOrImproved(i)]_vars

(* Every completed exploration either leaves a new bump or strengthens an  *)
(* old one, exactly once, whatever the workers do to each other's points:  *)
(* a lost Strengthen would let the search fall into the same basin again.  *)
(* Interrupted solves and designs that cannot be evaluated count apart.    *)
Bumps == UNION {{<<i, k>> : k \in 0 .. points[i].strengthened} : i \in Indices}
Explorations == UNION {{<<w, k>> : k \in 1 .. explored[w]} : w \in Workers}

OnTheWay ==
  {w \in Workers : pc[w] \in {"rescue", "lookup", "add", "nearest", "strengthen"}}

BumpsAccountForWork ==
  (~ hardStop /\ ~ MidDLS /\ \A x \in Designs : Verdict[x] # "failure") =>
    Cardinality(Bumps) + Cardinality(OnTheWay) = Cardinality(Explorations)

(* "true if the search was cut short by max_seconds": when the time budget *)
(* was never used up, no race between a stop request and the last checks   *)
(* of a worker makes the result claim so.                                  *)
TimedOutOnlyByBudget == report # Unreported => (report.timedOut => expired)

(* A search is always reported, whatever combination of rejected solves,   *)
(* retirements, expiry and stop requests its workers run into.             *)
SearchReports == <>(report # Unreported)

(* A minimum recorded as new is further than the threshold from every      *)
(* recorded one, in one of the two senses (docs/escape.md:103-106).        *)
NewIsApart ==
  [][\A i \in Indices, n \in DOMAIN points' :
       n > Len(points) => ~ SameAs(points'[n].x, points[i].x)]_vars

(* That is not kept: IsNew and Add are two critical sections (cycle.go:    *)
(* 785-786), and workers that looked before any of them added record one   *)
(* basin several times.  What is left of it: however many cycles they run, *)
(* and whatever they replace meanwhile, the workers together record a      *)
(* design at most once each, and a search of one worker records it once.   *)
Copies(x) == {i \in Indices : points[i].x = x}

OneCopyPerWorker ==
  \A x \in Designs : Cardinality(Copies(x)) <= Cardinality(Workers)

(* "The point passes validation; it is recorded and reported as a          *)
(* solution", "the point fails validation; it is not listed as a solution" *)
(* (docs/escape.md): as long as no solve was aborted, the solutions are    *)
(* the recorded designs that pass validation.                              *)
SolutionsPassValidation ==
  ~ hardStop =>
    \A i \in Indices : i \in Listed <=> Verdict[points[i].x] = "feasible"

(* An interrupted run never loses its best work: once the result would     *)
(* list a design of some merit, it lists one no worse ever after, by the   *)
(* merit that result reports (that of the clean phase).                    *)
BestSolutionKept ==
  [][\A i \in Listed : \E j \in 1 .. Len(points') :
       /\ points'[j].status = "feasible"
       /\ Merit["clean"][points'[j].x] <= Merit["clean"][points[i].x]]_vars

(* The search implements the register its readers are promised.            *)
Register == INSTANCE MinimaRegister WITH
  Classes <- Recordable,
  Solution <- "feasible",
  entries <- [i \in Indices |-> [class |-> points[i].status,
                                 merit |-> points[i].merit]],
  best <- IF report = Unreported THEN 0 ELSE report.best,
  closed <- report # Unreported

ImplementsRegister == Register!Spec
=============================================================================
