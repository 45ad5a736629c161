---------------------------- MODULE GuardedSearch ----------------------------
(***************************************************************************)
(* A global search together with its resource guard (internal/escape:      *)
(* ParallelEscape starts both, parallel.go:287-356).  The guard reads the  *)
(* atomic counters of the cycles and closes their retire channels; the     *)
(* cycles look at their channels at their boundaries.  Here the guard's    *)
(* decisions are the only retirements, and what the workers record and     *)
(* when they leave is all the guard sees of them.                          *)
(***************************************************************************)
EXTENDS EscapeSearch

CONSTANTS
  N,            \* global_workers
  MinWorkers, Need, Cooldown, Fallback, OrigLimit, Heaps, Ceiling, Never

VARIABLES
  unnoted,      \* the merit a worker has added and not noted yet
  guarding, recorded, best, reason, breaches, limit, tightened, pending,
  activeN, sinceExit, sincePending, sinceAction

(* What the guard can tell of a worker: that it left at its request.  A    *)
(* worker that leaves otherwise is not different from a running one.       *)
Seen(w) ==
  IF retired[w] THEN "retired" ELSE IF pc[w] = "done" THEN "finished" ELSE "running"

Guard == INSTANCE ResourceGuard WITH
  worker <- [w \in Workers |-> Seen(w)],
  MaxRecorded <- MaxCycles

ASSUME GuardedAssumption ==
  /\ N \in Nat /\ Workers = 0 .. N - 1 /\ MinWorkers \in 1 .. N
  /\ Guarded
  /\ DOMAIN Need \subseteq {"memory_pressure", "heap_ceiling", "compaction_rate"}
  /\ DOMAIN Need # {} /\ Need \in [DOMAIN Need -> Nat \ {0}]
  /\ Cooldown \in Nat \ {0} /\ Fallback \in Nat
  /\ OrigLimit \in Nat \ {0} /\ Ceiling \in Nat
  /\ Heaps \subseteq [sys : Nat, live : Nat]
  /\ Never \notin Nat /\ None \notin DOMAIN Need /\ None \notin Merits

tallies == <<recorded, best>>
watch == <<reason, breaches, limit, tightened, pending, activeN, sinceExit,
           sincePending, sinceAction>>
guardVars == <<guarding, tallies, watch>>
allVars == <<vars, unnoted, guardVars>>

GuardedInit ==
  /\ Init
  /\ Guard!Init
  /\ unnoted = [w \in Workers |-> None]

-----------------------------------------------------------------------------
(* noteRecorded follows the Add of the same worker, outside the lock of    *)
(* the store: the guard may look in between.  And a worker that would not  *)
(* wait for it.                                                            *)
NotedLater(w) == pc[w] # "add" \/ unnoted[w] = None
Noted(w) == unnoted[w] = None

WorkerStep(w) ==
  /\ Noted(w)
  /\ Worker(w)
  /\ unnoted' = IF pc[w] = "add" THEN [unnoted EXCEPT ![w] = cand[w].merit]
                                 ELSE unnoted
  /\ UNCHANGED guardVars

NoteRecorded(w) ==
  /\ unnoted[w] # None
  /\ recorded' = [recorded EXCEPT ![w] = @ + 1]
  /\ best' = [best EXCEPT ![w] =
       IF Guard!Worse(@, unnoted[w]) THEN Guard!Marked(unnoted[w]) ELSE @]
  /\ unnoted' = [unnoted EXCEPT ![w] = None]
  /\ UNCHANGED <<vars, guarding, watch>>

(* The coordinator, the clock and the operator. *)
Outside ==
  /\ Assemble \/ Expire \/ Cancel \/ HardStop
  /\ UNCHANGED <<unnoted, guardVars>>

GuardTick ==
  /\ Unworked
  /\ UNCHANGED <<expired, cancelled, hardStop, unnoted>>
  /\ \E r \in Guard!Reasons \cup {None} : Guard!Tick(r)

(* The context of the guard is the one stage 1 cancels; guardDone is       *)
(* closed when every worker has left.  A tick may come first.              *)
StopGuard ==
  /\ guarding
  /\ cancelled \/ \A w \in Workers : pc[w] = "done"
  /\ guarding' = FALSE
  /\ UNCHANGED <<vars, unnoted, tallies, watch>>

GuardedNext ==
  \/ \E w \in Workers : WorkerStep(w) \/ NoteRecorded(w)
  \/ Outside \/ GuardTick \/ StopGuard

GuardedSpec == GuardedInit /\ [][GuardedNext]_allVars

(* The scheduler runs every worker that can run and the coordinator; the   *)
(* guard may tick as often or as rarely as it likes.                       *)
GuardedFairSpec ==
  /\ GuardedSpec
  /\ \A w \in Workers : WF_allVars(WorkerStep(w) \/ NoteRecorded(w))
  /\ WF_allVars(Outside /\ Assemble)

-----------------------------------------------------------------------------
(* Properties *)

(* What EscapeSearch leaves to its environment is what the guard does: the *)
(* retirements it decides are among those the search is made for, so every *)
(* property of the search holds with the guard at work.                    *)
ImplementsSearch == Spec

(* What ResourceGuard supposes of the workers is what the cycles do: they  *)
(* note a minimum while they run, leave as retired only when asked, and    *)
(* are done once; so every property of the guard holds over real workers.  *)
ImplementsGuard == Guard!Spec

(* The guard alone never ends a search: when nobody asked for a stop and   *)
(* the time is not up, at least min_workers workers went on to the end of  *)
(* their cycles, or of their patience with rejected solves, whatever the   *)
(* memory was like (guard.go:285-291).                                     *)
WorkedToTheEnd(w) == cycle[w] = MaxCycles \/ failures[w] = MaxFail

FloorWorksToTheEnd ==
  report # Unreported /\ ~ expired /\ ~ cancelled =>
    Cardinality({w \in Workers : WorkedToTheEnd(w)}) >= MinWorkers
=============================================================================
