---------------------------- MODULE ResourceGuard ----------------------------
(***************************************************************************)
(* The memory watchdog of a global search (internal/escape/guard.go).  At  *)
(* every tick it samples the memory state; under lasting pressure it first *)
(* lowers the Go memory limit step by step and then, when there is no room *)
(* left, asks the least productive worker to stop at its next cycle        *)
(* boundary.  When the pressure is gone it raises the limit again.         *)
(*                                                                         *)
(* Time is counted in ticks.  The guard's time stamps appear as ages, up   *)
(* to the largest one the guard tells apart.                               *)
(***************************************************************************)
EXTENDS Integers, FiniteSets, FiniteSetsExt

CONSTANTS
  N,            \* global_workers; a worker is its number
  MinWorkers,   \* min_workers, the floor
  Need,         \* Need[r]: consecutive breaching checks reason r requires
  Cooldown,     \* retire_cooldown_seconds
  Fallback,     \* exitFallbackWait: how long an exit is waited for
  OrigLimit,    \* the Go memory limit at the start, MB
  Heaps,        \* heap samples: reserved from the OS and live, MB
  Ceiling,      \* heap_ceiling_mb
  Merits,       \* merits a worker can record
  MaxRecorded,  \* bound: recordings per worker
  Never, None

WorkerIds == 0 .. N - 1
Reasons == DOMAIN Need
Samples == [sys : Nat, live : Nat]

ASSUME GuardAssumption ==
  /\ N \in Nat /\ MinWorkers \in 1 .. N
  /\ Reasons \subseteq {"memory_pressure", "heap_ceiling", "compaction_rate"}
  /\ Reasons # {} /\ Need \in [Reasons -> Nat \ {0}]
  /\ Cooldown \in Nat \ {0} /\ Fallback \in Nat
  /\ OrigLimit \in Nat \ {0} /\ Ceiling \in Nat
  /\ Heaps \subseteq Samples
  /\ Merits \subseteq Nat
  /\ MaxRecorded \in Nat
  /\ Never \notin Nat /\ None \notin Reasons /\ None \notin Merits

VARIABLES
  guarding,     \* the guard goroutine runs
  worker,       \* each worker: running, retired at a boundary, or finished
  recorded,     \* minima each worker added
  best,         \* best merit among them
  reason,       \* what the last sample breached, None for nothing
  breaches,     \* consecutive samples that breached for that reason
  limit,        \* the Go memory limit, MB
  tightened,    \* whether the guard lowered it
  retire,       \* workers asked to stop
  pending,      \* those among them whose exit was not observed yet
  activeN,      \* workers the guard counts as active
  sinceExit,    \* age of the last observed exit
  sincePending, \* age of the retirement whose exit is awaited
  sinceAction   \* age of the last change of the limit

work == <<worker, recorded, best>>
memory == <<limit, tightened, sinceAction>>
crew == <<retire, activeN>>
vars == <<guarding, work, reason, breaches, memory, crew, pending,
          sinceExit, sincePending>>

(* No age beyond this is told apart from it. *)
Oldest == Max({Cooldown, Fallback + 1})

TypeOK ==
  /\ guarding \in BOOLEAN
  /\ worker \in [WorkerIds -> {"running", "retired", "finished"}]
  /\ recorded \in [WorkerIds -> 0 .. MaxRecorded]
  /\ best \in [WorkerIds -> Merits \cup {None}]
  /\ reason \in Reasons \cup {None}
  /\ breaches \in Nat
  /\ limit \in 1 .. OrigLimit
  /\ tightened \in BOOLEAN
  /\ retire \subseteq WorkerIds /\ pending \subseteq retire
  /\ activeN \in 0 .. N
  /\ {sinceExit, sinceAction} \subseteq 0 .. Cooldown \cup {Never}
  /\ sincePending \in 0 .. Oldest \cup {Never}

Init ==
  /\ guarding = TRUE
  /\ worker = [w \in WorkerIds |-> "running"]
  /\ recorded = [w \in WorkerIds |-> 0]
  /\ best = [w \in WorkerIds |-> None]
  /\ reason = None
  /\ breaches = 0
  /\ limit = OrigLimit /\ tightened = FALSE
  /\ retire = {} /\ pending = {} /\ activeN = N
  /\ sinceExit = Never /\ sincePending = Never /\ sinceAction = Never

-----------------------------------------------------------------------------
(* The memory limit, in units of one MB *)

(* 1.5 times the live heap, never below 64 MB. *)
TightenFloor(h) == Max({64, (3 * h.live) \div 2})

(* 0.8 of the limit, or of the heap when the limit reads as unlimited; and *)
(* without the floor.                                                      *)
TightenUnfloored(h) == (4 * (IF limit = 0 THEN h.sys ELSE limit)) \div 5
TightenTarget(h) ==
  Max({(4 * (IF limit = 0 THEN h.sys ELSE limit)) \div 5, TightenFloor(h)})

CanTighten(h) == limit = 0 \/ TightenTarget(h) < limit

(* One step back up, at most to the original limit, and without that cap.  *)
RestoreUnclamped == (5 * limit) \div 4
RestoreTarget == Min({(5 * limit) \div 4, OrigLimit})

(* Whether steps remain after this one, and forgetting that some do.       *)
RestoredAtOnce == FALSE
StepsRemain == RestoreTarget < OrigLimit

-----------------------------------------------------------------------------
(* One tick: sample, count, observe the exits, then act or not *)

Older(age, oldest) == IF age = Never THEN Never ELSE Min({age + 1, oldest})

(* A breach for another reason, or none, starts the count again; it is     *)
(* followed up to the number that matters.  And a count that starts again  *)
(* at every breach.                                                        *)
CountedAnew(r) == IF r = None THEN 0 ELSE 1
Counted(r) ==
  CASE r = None -> 0
    [] r # None /\ r # reason -> 1
    [] OTHER -> Min({breaches + 1, Need[r]})

Observed == {w \in pending : worker[w] = "retired"}

ExitAge == IF Observed # {} THEN 0 ELSE Older(sinceExit, Cooldown)

PendingAge ==
  IF Observed # {} /\ pending = Observed THEN Never ELSE Older(sincePending, Oldest)

(* The cooldown runs from the last exit, or from the decision when the     *)
(* worker retired last does not leave; with neither there is none.         *)
Overdue == PendingAge # Never /\ PendingAge > Fallback
Origin == IF Overdue THEN PendingAge ELSE ExitAge
CooledDown == Origin # Never => Origin >= Cooldown

Pressed(r) == r # None /\ Counted(r) >= Need[r]

(* The conditions are tried in this order; the OS level and the compaction *)
(* rate are independent of the heap.                                       *)
Breaching(r, h) ==
  /\ r = "heap_ceiling" => h.sys > Ceiling
  /\ r \in {"compaction_rate", None} => h.sys <= Ceiling

(* The sample and what the guard notes of it before it decides anything.   *)
Sampled(r, h) ==
  /\ guarding
  /\ Breaching(r, h)
  /\ reason' = r
  /\ sinceExit' = ExitAge
  /\ UNCHANGED <<guarding, work>>

Tighten(r, h) ==
  /\ Sampled(r, h)
  /\ Pressed(r) /\ CooledDown /\ CanTighten(h)
  /\ limit' = TightenTarget(h) /\ tightened' = TRUE
  /\ breaches' = 0 /\ sinceAction' = 0
  /\ pending' = pending \ Observed /\ sincePending' = PendingAge
  /\ UNCHANGED crew

(* Fewest recorded minima, then the worst best merit, then the highest     *)
(* number; no merit counts as infinitely bad.                              *)
Worse(m, n) == n # None /\ (m # None => m > n)

LessProductive(v, w) ==
  \/ recorded[v] < recorded[w]
  \/ recorded[v] = recorded[w] /\ Worse(best[v], best[w])
  \/ recorded[v] = recorded[w] /\ best[v] = best[w] /\ v > w

(* The floor, and the floor missed by one. *)
MaySelectOneMore == activeN >= MinWorkers
MaySelect == activeN > MinWorkers

(* What the scan of selectWorker ends at: the order is total, so above the *)
(* floor there is always one such worker, and only one.                    *)
Selected(w) ==
  /\ MaySelect
  /\ w \notin retire
  /\ \A v \in WorkerIds \ (retire \cup {w}) : LessProductive(w, v)

RetireWorker(r, h) ==
  /\ Sampled(r, h)
  /\ Pressed(r) /\ CooledDown /\ ~ CanTighten(h)
  /\ \E w \in WorkerIds :
       /\ Selected(w)
       /\ retire' = retire \cup {w}
       /\ pending' = (pending \ Observed) \cup {w}
  /\ activeN' = activeN - 1
  /\ breaches' = 0 /\ sincePending' = 0
  /\ sinceAction' = Older(sinceAction, Cooldown)
  /\ UNCHANGED <<limit, tightened>>

Eased(r) ==
  /\ r = None /\ tightened
  /\ sinceAction # Never => Older(sinceAction, Cooldown) >= Cooldown

Restore(r, h) ==
  /\ Sampled(r, h)
  /\ Eased(r)
  /\ limit' = RestoreTarget
  /\ tightened' = StepsRemain
  /\ breaches' = 0 /\ sinceAction' = 0
  /\ pending' = pending \ Observed /\ sincePending' = PendingAge
  /\ UNCHANGED crew

(* Nothing to do, or nobody left to retire. *)
Watch(r, h) ==
  /\ Sampled(r, h)
  /\ ~ Eased(r)
  /\ Pressed(r) /\ CooledDown =>
       ~ CanTighten(h) /\ ~ \E w \in WorkerIds : Selected(w)
  /\ breaches' = Counted(r)
  /\ sinceAction' = Older(sinceAction, Cooldown)
  /\ pending' = pending \ Observed /\ sincePending' = PendingAge
  /\ UNCHANGED <<limit, tightened, crew>>

Tick(r) ==
  \E h \in Heaps :
    Tighten(r, h) \/ RetireWorker(r, h) \/ Restore(r, h) \/ Watch(r, h)

-----------------------------------------------------------------------------
(* The workers, and the end *)

guard == <<reason, breaches, memory, crew, pending, sinceExit,
           sincePending>>

(* noteRecorded: a new minimum, and the high-water mark of the merits,     *)
(* which is kept as its bits: those of zero read as "none".                *)
Marked(m) == IF m = 0 THEN None ELSE m

Note(w, m) ==
  /\ worker[w] = "running" /\ recorded[w] < MaxRecorded
  /\ recorded' = [recorded EXCEPT ![w] = @ + 1]
  /\ best' = [best EXCEPT ![w] = IF Worse(@, m) THEN Marked(m) ELSE @]
  /\ UNCHANGED <<guarding, worker, guard>>

RetireAtBoundary(w) ==
  /\ worker[w] = "running" /\ w \in retire
  /\ worker' = [worker EXCEPT ![w] = "retired"]
  /\ UNCHANGED <<guarding, recorded, best, guard>>

(* Cycles used up, too many rejections, or cut short. *)
Finish(w) ==
  /\ worker[w] = "running"
  /\ worker' = [worker EXCEPT ![w] = "finished"]
  /\ UNCHANGED <<guarding, recorded, best, guard>>

(* The context is cancelled, or the workers are all done. *)
StopGuard ==
  /\ guarding /\ guarding' = FALSE
  /\ UNCHANGED <<work, guard>>

Next ==
  \/ \E r \in Reasons \cup {None} : Tick(r)
  \/ \E w \in WorkerIds :
       RetireAtBoundary(w) \/ Finish(w) \/ \E m \in Merits : Note(w, m)
  \/ StopGuard

Spec == Init /\ [][Next]_vars

(* The ticker keeps ticking: when the samples no longer change their       *)
(* verdict, the ticks with that verdict go on.  No worker is obliged to do *)
(* anything, and nothing is said of which samples are taken.               *)
FairSpec ==
  /\ Spec
  /\ \A r \in Reasons \cup {None} : <>[](reason = r) => WF_vars(Tick(r))

-----------------------------------------------------------------------------
(* Properties *)

(* The guard never asks so many workers to stop that fewer than            *)
(* min_workers were left even if all the others ran on, and the number it  *)
(* reports as active is the number it has not asked (guard.go:289, 218).   *)
FloorKept ==
  /\ Cardinality(WorkerIds \ retire) >= MinWorkers
  /\ activeN = Cardinality(WorkerIds \ retire)

(* The guard knows for how much it has to give back: it restores as long   *)
(* as the limit is not the original one and no longer, and a lowered limit *)
(* is one that a step up raises, a quarter of it being a whole MB or more  *)
(* (guard.go:241-249, 390-421).                                            *)
LimitOnTheBooks ==
  /\ tightened <=> limit < OrigLimit
  /\ tightened => limit >= 64

(* Pressure that lasts is relieved as far as the floor allows: tightening  *)
(* runs out of room, and then one worker after another is asked to stop,   *)
(* even if none of them ever leaves (the fallback of guard.go:18-21).      *)
PressureRelieved ==
  \A r \in Reasons :
    (<>[](reason = r) /\ []guarding) => <>(activeN = MinWorkers)

(* When the pressure is gone for good the limit returns to the original    *)
(* one, however often it was lowered, and stays there (guard.go:241-258).  *)
LimitRestored ==
  (<>[](reason = None) /\ []guarding) => <>[](limit = OrigLimit)
=============================================================================
