------------------------- MODULE GuardedSearchProofs -------------------------
(***************************************************************************)
(* What holds of a search with its guard, for any number of workers and    *)
(* cycles, any designs, floor, cooldown, limits and samples.               *)
(***************************************************************************)
EXTENDS GuardedSearch, EscapeSearchProofs, FiniteSetTheorems

-----------------------------------------------------------------------------
(* What one step of one worker can do to the places and flags *)

Gone == {"exit", "done"}

(* Of the worker that steps, seen from outside its solves.                 *)
Moves(w) ==
  \/ /\ pc[w] = "add" /\ pc'[w] \in {"top", "exit"} /\ UNCHANGED retired
     /\ cycle'[w] = IF pc'[w] = "top" THEN cycle[w] + 1 ELSE cycle[w]
  \/ /\ pc[w] = "top" /\ pc'[w] = "exit" /\ w \in retire
     /\ retired' = [retired EXCEPT ![w] = TRUE] /\ UNCHANGED cycle
  \/ pc[w] = "exit" /\ pc'[w] = "done" /\ UNCHANGED <<retired, cycle>>
  \/ /\ pc[w] \notin Gone \cup {"add"} /\ pc'[w] # "done"
     /\ UNCHANGED retired /\ cycle'[w] \in {cycle[w], cycle[w] + 1}

LEMMA JudgeMoves ==
  ASSUME CyclesOK, NEW w \in Workers, NEW x, Judge(w, x)
  PROVE  /\ \A v \in Workers \ {w} : pc'[v] = pc[v] /\ cycle'[v] = cycle[v]
         /\ pc'[w] # "done" /\ cycle'[w] \in {cycle[w], cycle[w] + 1}
  BY DEF Judge, NextCycle, Goto, CyclesOK, TypeOK

LEMMA WorkerMoves ==
  ASSUME CyclesOK, NEW w \in Workers, Worker(w)
  PROVE  /\ Moves(w)
         /\ \A v \in Workers \ {w} : pc'[v] = pc[v] /\ cycle'[v] = cycle[v]
<1> USE DEF CyclesOK, TypeOK, Moves, Gone
<1>1. CASE StopAtBoundary(w) \/ CyclesDone(w)
  BY <1>1 DEF StopAtBoundary, CyclesDone, AtBoundary, CutShort, LeaveLoop, Goto
<1>2. CASE RetireAtBoundary(w)
  BY <1>2 DEF RetireAtBoundary, AtBoundary, Asked, LeaveLoop, Goto
<1>3. CASE StartCycle(w)
  BY <1>3 DEF StartCycle, AtBoundary, Goto
<1>4. CASE Exit(w)
  BY <1>4 DEF Exit, HasLeft, Goto
<1>5. CASE Rejected(w)
  BY <1>5 DEF Rejected, LeaveLoop, NextCycle, Goto
<1>6. CASE EscapeAccepted(w)
  BY <1>6, JudgeMoves DEF EscapeAccepted, Goto
<1>7. CASE GlassDone(w)
  BY <1>7, JudgeMoves DEF GlassDone, Goto
<1>8. CASE CleanAccepted(w)
  BY <1>8, JudgeMoves DEF CleanAccepted, Goto
<1>9. CASE RetryDone(w)
  BY <1>9, JudgeMoves DEF RetryDone
<1>10. CASE RescueDone(w)
  BY <1>10 DEF RescueDone, Goto
<1>11. CASE SolveInterrupted(w)
  BY <1>11 DEF SolveInterrupted, Solving, CutShort, LeaveLoop, Goto
<1>12. CASE LookUp(w) \/ FindNearest(w) \/ StrengthenRepeat(w)
  BY <1>12 DEF LookUp, FindNearest, StrengthenRepeat, Goto
<1>13. CASE AddNew(w) \/ ReplaceRepeat(w)
  BY <1>13 DEF AddNew, ReplaceRepeat, Recorded, CutShort, LeaveLoop, NextCycle, Goto
<1> QED
  BY <1>1, <1>2, <1>3, <1>4, <1>5, <1>6, <1>7, <1>8, <1>9, <1>10, <1>11, <1>12,
     <1>13 DEF Worker, Solve, Record

(* Workers look at the stop flags and raise none.                          *)
LEMMA WorkersAskNothing ==
  ASSUME NEW w \in Workers, Worker(w)
  PROVE  UNCHANGED stops
BY DEF Worker, StopAtBoundary, RetireAtBoundary, StartCycle, CyclesDone, Solve,
   Rejected, EscapeAccepted, GlassDone, CleanAccepted, RetryDone, RescueDone,
   SolveInterrupted, Record, LookUp, AddNew, FindNearest, StrengthenRepeat,
   ReplaceRepeat, Exit

-----------------------------------------------------------------------------
(* Why a worker left *)

Excused(w) == TimeUp \/ hardStop \/ w \in retire

(* A worker that left without an excuse worked to the end; an interrupted  *)
(* solve has one.                                                          *)
EndInv ==
  \A w \in Workers :
    /\ partial[w] => Excused(w)
    /\ pc[w] \in Gone => Excused(w) \/ WorkedToTheEnd(w)

LEMMA ExcusesStay ==
  ASSUME [Next]_vars, NEW w, Excused(w)
  PROVE  Excused(w)'
<1>1. retire \subseteq retire'
  BY WorkersAskNothing DEF Next, Assemble, Environment, Expire, Cancel, HardStop,
     Retire, vars, stops
<1> QED
  BY <1>1, StopsStay DEF Excused, TimeUp

(* How a step of a worker leaves what EndInv speaks of.                    *)
Leaves(w) ==
  /\ partial'[w] => partial[w] \/ Excused(w)
  /\ pc'[w] \in Gone =>
       \/ partial[w] \/ Excused(w)
       \/ pc[w] \in Gone /\ cycle'[w] = cycle[w] /\ failures'[w] = failures[w]
       \/ cycle'[w] = MaxCycles \/ failures'[w] = MaxFail

LEMMA JudgeLeaves ==
  ASSUME CyclesOK, NEW w \in Workers, NEW x, Judge(w, x)
  PROVE  /\ Leaves(w)
         /\ \A v \in Workers \ {w} :
              partial'[v] = partial[v] /\ failures'[v] = failures[v]
  BY DEF Judge, NextCycle, Goto, ForgetBody, Leaves, Gone, CyclesOK, TypeOK

LEMMA WorkerLeaves ==
  ASSUME CyclesOK, NEW w \in Workers, Worker(w)
  PROVE  /\ Leaves(w)
         /\ \A v \in Workers \ {w} :
              partial'[v] = partial[v] /\ failures'[v] = failures[v]
<1> USE DEF CyclesOK, TypeOK, Leaves, Gone
<1>1. CASE StopAtBoundary(w) \/ CyclesDone(w) \/ RetireAtBoundary(w)
  BY <1>1 DEF StopAtBoundary, CyclesDone, RetireAtBoundary, AtBoundary, Asked,
     CutShort, LeaveLoop, ForgetBody, Goto, tally, Excused
<1>2. CASE StartCycle(w)
  BY <1>2 DEF StartCycle, Goto, body, tally
<1>3. CASE Exit(w)
  BY <1>3 DEF Exit, HasLeft, Goto, body, tally
<1>4. CASE Rejected(w)
  <2>1. failures' = [failures EXCEPT ![w] = failures[w] + 1] /\ failures[w] < MaxFail
    BY <1>4 DEF Rejected, Solving, CycleInv
  <2>2. CASE GiveUp(failures[w] + 1)
    <3>1. failures'[w] = MaxFail
      BY <2>1, <2>2, SearchAssumption DEF GiveUp
    <3> QED
      BY <1>4, <2>1, <2>2, <3>1 DEF Rejected, LeaveLoop, ForgetBody, Goto
  <2>3. CASE ~ GiveUp(failures[w] + 1)
    BY <1>4, <2>1, <2>3 DEF Rejected, NextCycle, ForgetBody, Goto
  <2> QED
    BY <2>2, <2>3
<1>5. CASE EscapeAccepted(w)
  BY <1>5, JudgeLeaves DEF EscapeAccepted, Goto, tally
<1>6. CASE GlassDone(w)
  BY <1>6, JudgeLeaves DEF GlassDone, Goto, body, tally
<1>7. CASE CleanAccepted(w)
  BY <1>7, JudgeLeaves DEF CleanAccepted, Goto, tally
<1>8. CASE RetryDone(w)
  BY <1>8, JudgeLeaves DEF RetryDone
<1>9. CASE RescueDone(w)
  BY <1>9 DEF RescueDone, Goto, tally
<1>10. CASE SolveInterrupted(w)
  BY <1>10 DEF SolveInterrupted, Aborted, CutShort, LeaveLoop, ForgetBody, Goto,
     tally, Excused
<1>11. CASE LookUp(w) \/ FindNearest(w) \/ StrengthenRepeat(w)
  BY <1>11 DEF LookUp, FindNearest, StrengthenRepeat, Goto, body, tally
<1>12. CASE AddNew(w) \/ ReplaceRepeat(w)
  BY <1>12 DEF AddNew, ReplaceRepeat, Recorded, CutShort, LeaveLoop, NextCycle,
     ForgetBody, Goto, tally
<1> QED
  BY <1>1, <1>2, <1>3, <1>4, <1>5, <1>6, <1>7, <1>8, <1>9, <1>10, <1>11, <1>12
     DEF Worker, Solve, Record

LEMMA EndInvStep == CyclesOK /\ EndInv /\ [Next]_vars => EndInv'
<1> SUFFICES ASSUME CyclesOK, EndInv, [Next]_vars, NEW w \in Workers
             PROVE  /\ partial'[w] => Excused(w)'
                    /\ pc'[w] \in Gone => Excused(w)' \/ WorkedToTheEnd(w)'
  BY DEF EndInv, Excused
<1>1. Excused(w) => Excused(w)'
  BY ExcusesStay
<1>2. CASE Worker(w)
  BY <1>1, <1>2, WorkerLeaves DEF Leaves, EndInv, WorkedToTheEnd
<1>3. ASSUME NEW v \in Workers \ {w}, Worker(v)
      PROVE  /\ partial'[w] = partial[w] /\ pc'[w] = pc[w]
             /\ cycle'[w] = cycle[w] /\ failures'[w] = failures[w]
  BY <1>3, WorkerLeaves, WorkerMoves
<1>4. CASE Assemble \/ Environment \/ UNCHANGED vars
  <2>1. UNCHANGED <<pc, cycle, failures, partial>>
    BY <1>4 DEF Assemble, Environment, Expire, Cancel, HardStop, Retire, Unworked,
       vars, body, tally
  <2> QED
    BY <1>1, <2>1 DEF EndInv, WorkedToTheEnd
<1> QED
  BY <1>1, <1>2, <1>3, <1>4 DEF Next, EndInv, WorkedToTheEnd

-----------------------------------------------------------------------------
(* The guard's floor, over the workers of the search *)

GuardFloor ==
  /\ retire \subseteq Workers
  /\ activeN = Cardinality(Workers \ retire)
  /\ activeN \in MinWorkers .. N

LEMMA WorkersCounted == IsFiniteSet(Workers) /\ Cardinality(Workers) = N
<1>1. N \in Nat /\ N - 1 \in Int /\ 0 \in Int
  BY GuardedAssumption
<1>2. IsFiniteSet(0 .. N - 1) /\ Cardinality(0 .. N - 1) = N
  BY <1>1, FS_Interval
<1> QED
  BY <1>2, GuardedAssumption

LEMMA GuardedWorkers == Guard!WorkerIds = Workers
  BY GuardedAssumption DEF Guard!WorkerIds

(* A tick asks nobody, or one more worker above the floor.                 *)
LEMMA TickAsks ==
  ASSUME GuardTick
  PROVE  \/ UNCHANGED <<retire, activeN>>
         \/ \E w \in Workers \ retire :
              /\ retire' = retire \cup {w}
              /\ activeN > MinWorkers /\ activeN' = activeN - 1
<1>1. PICK r \in Guard!Reasons \cup {None}, h \in Heaps :
        Guard!Tighten(r, h) \/ Guard!RetireWorker(r, h) \/ Guard!Restore(r, h)
          \/ Guard!Watch(r, h)
  BY DEF GuardTick, Guard!Tick
<1>2. CASE Guard!RetireWorker(r, h)
  <2>1. PICK w \in Workers : Guard!Selected(w) /\ retire' = retire \cup {w}
    BY <1>2, GuardedWorkers DEF Guard!RetireWorker
  <2> QED
    BY <1>2, <2>1 DEF Guard!RetireWorker, Guard!Selected, Guard!MaySelect
<1>3. CASE Guard!Tighten(r, h) \/ Guard!Restore(r, h) \/ Guard!Watch(r, h)
  BY <1>3 DEF Guard!Tighten, Guard!Restore, Guard!Watch, Guard!crew
<1> QED
  BY <1>1, <1>2, <1>3

(* With two or more left before, what remains is a retirement the search   *)
(* expects.                                                                *)
LEMMA OneMore ==
  ASSUME GuardFloor, NEW w \in Workers \ retire, activeN > MinWorkers
  PROVE  /\ Cardinality(retire) + 1 < Cardinality(Workers)
         /\ Cardinality(Workers \ (retire \cup {w})) = activeN - 1
<1>1. IsFiniteSet(retire) /\ IsFiniteSet(Workers \ retire)
  BY WorkersCounted, FS_Subset, FS_Difference DEF GuardFloor
<1>2. Cardinality(Workers \ retire) = Cardinality(Workers) - Cardinality(retire)
  <2>1. Workers \cap retire = retire
    BY DEF GuardFloor
  <2> QED
    BY <2>1, WorkersCounted, FS_Difference
<1>3. Workers \ (retire \cup {w}) = (Workers \ retire) \ {w}
  OBVIOUS
<1>4. Cardinality(Workers \ (retire \cup {w})) = activeN - 1
  BY <1>1, <1>3, FS_RemoveElement DEF GuardFloor
<1>5. MinWorkers \in Nat /\ MinWorkers >= 1 /\ activeN \in Nat
  BY GuardedAssumption DEF GuardFloor
<1>6. Cardinality(retire) \in Nat /\ Cardinality(Workers) \in Nat
  BY <1>1, WorkersCounted, FS_CardinalityType
<1> QED
  BY <1>2, <1>4, <1>5, <1>6 DEF GuardFloor

LEMMA GuardFloorInit == GuardedInit => GuardFloor
<1> SUFFICES ASSUME GuardedInit PROVE GuardFloor
  OBVIOUS
<1>1. retire = {} /\ activeN = N
  BY DEF GuardedInit, Guard!Init
<1>2. Workers \ retire = Workers
  BY <1>1
<1> QED
  BY <1>1, <1>2, WorkersCounted, GuardedAssumption DEF GuardFloor

(* Workers and coordinator leave the guard's part alone.                   *)
LEMMA RetireFrame ==
  ASSUME GuardedNext \/ UNCHANGED allVars, ~ GuardTick
  PROVE  UNCHANGED <<retire, activeN>>
<1>1. ASSUME NEW w \in Workers, WorkerStep(w) PROVE UNCHANGED <<retire, activeN>>
  BY <1>1, WorkersAskNothing DEF WorkerStep, guardVars, watch, stops
<1>2. ASSUME NEW w \in Workers, NoteRecorded(w) PROVE UNCHANGED <<retire, activeN>>
  BY <1>2 DEF NoteRecorded, watch, vars, stops
<1>3. CASE Outside
  BY <1>3 DEF Outside, guardVars, watch, Assemble, Expire, Cancel, HardStop, stops
<1>4. CASE StopGuard \/ UNCHANGED allVars
  BY <1>4 DEF StopGuard, allVars, guardVars, watch, vars, stops
<1> QED
  BY <1>1, <1>2, <1>3, <1>4 DEF GuardedNext

LEMMA GuardFloorStep == GuardFloor /\ [GuardedNext]_allVars => GuardFloor'
<1> SUFFICES ASSUME GuardFloor, [GuardedNext]_allVars PROVE GuardFloor'
  OBVIOUS
<1>1. CASE UNCHANGED <<retire, activeN>>
  BY <1>1 DEF GuardFloor
<1>2. CASE GuardTick /\ ~ UNCHANGED <<retire, activeN>>
  <2>1. PICK w \in Workers \ retire :
          /\ retire' = retire \cup {w}
          /\ activeN > MinWorkers /\ activeN' = activeN - 1
    BY <1>2, TickAsks
  <2>2. Cardinality(Workers \ retire') = activeN'
    BY <2>1, OneMore
  <2>3. activeN' \in MinWorkers .. N
    BY <2>1, GuardedAssumption DEF GuardFloor
  <2> QED
    BY <2>1, <2>2, <2>3 DEF GuardFloor
<1> QED
  BY <1>1, <1>2, RetireFrame

-----------------------------------------------------------------------------
(* The guarded search is a search *)

LEMMA SearchStep == GuardFloor /\ [GuardedNext]_allVars => [Next]_vars
<1> SUFFICES ASSUME GuardFloor, [GuardedNext]_allVars PROVE [Next]_vars
  OBVIOUS
<1>1. ASSUME NEW w \in Workers, WorkerStep(w) PROVE Next
  BY <1>1 DEF WorkerStep, Next
<1>2. ASSUME NEW w \in Workers, NoteRecorded(w) PROVE UNCHANGED vars
  BY <1>2 DEF NoteRecorded
<1>3. CASE Outside
  BY <1>3 DEF Outside, Next, Environment
<1>4. CASE GuardTick
  <2>1. Unworked /\ UNCHANGED <<expired, cancelled, hardStop>>
    BY <1>4 DEF GuardTick
  <2>2. CASE UNCHANGED retire
    BY <2>1, <2>2 DEF Unworked, vars, stops
  <2>3. CASE ~ UNCHANGED retire
    <3>1. PICK w \in Workers \ retire :
            retire' = retire \cup {w} /\ activeN > MinWorkers
      BY <1>4, <2>3, TickAsks
    <3>2. Cardinality(retire) + 1 < Cardinality(Workers)
      BY <3>1, OneMore
    <3>3. Retire(w)
      BY <2>1, <3>1, <3>2, GuardedAssumption DEF Retire
    <3> QED
      BY <3>1, <3>3 DEF Next, Environment
  <2> QED
    BY <2>2, <2>3
<1>5. CASE StopGuard \/ UNCHANGED allVars
  BY <1>5 DEF StopGuard, allVars
<1> QED
  BY <1>1, <1>2, <1>3, <1>4, <1>5 DEF GuardedNext

(* Every behaviour of the search with its guard is one of the search with  *)
(* any retirements: what is proved of EscapeSearch holds here.             *)
THEOREM GuardedImplementsSearch == GuardedSpec => ImplementsSearch
<1>1. GuardedInit => Init
  BY DEF GuardedInit
<1> QED
  BY <1>1, SearchStep, GuardFloorInit, GuardFloorStep, PTL
     DEF GuardedSpec, Spec, ImplementsSearch

-----------------------------------------------------------------------------
(* The guard alone never ends a search *)

StagesInOrder == hardStop => cancelled

LEMMA StagesStep == StagesInOrder /\ [Next]_vars => StagesInOrder'
  BY WorkersAskNothing DEF StagesInOrder, Next, Assemble, Environment, Expire, Cancel,
     HardStop, Retire, vars, stops

LEMMA SearchInvariants == Spec => [](CyclesOK /\ EndInv /\ ReportInv /\ StagesInOrder)
<1>1. Init => CyclesOK /\ EndInv /\ ReportInv /\ StagesInOrder
  BY CyclesOKInit DEF Init, EndInv, Gone, ReportInv, StagesInOrder
<1> QED
  BY <1>1, CyclesOKStep, EndInvStep, ReportStep, StagesStep, PTL DEF Spec

LEMMA FloorWorks ==
  ASSUME GuardFloor, CyclesOK, EndInv, ReportInv, StagesInOrder
  PROVE  FloorWorksToTheEnd
<1> DEFINE Worked == {w \in Workers : WorkedToTheEnd(w)}
<1> SUFFICES ASSUME report # Unreported, ~ expired, ~ cancelled
             PROVE  Cardinality(Worked) >= MinWorkers
  BY DEF FloorWorksToTheEnd
<1>1. \A w \in Workers : pc[w] \in Gone
  BY DEF ReportInv, Gone
<1>2. Workers \ retire \subseteq Worked
  BY <1>1 DEF EndInv, Excused, TimeUp, StagesInOrder
<1>3. IsFiniteSet(Worked)
  BY WorkersCounted, FS_Subset
<1>4. Cardinality(Workers \ retire) <= Cardinality(Worked)
  BY <1>2, <1>3, FS_Subset
<1>5. Cardinality(Worked) \in Nat /\ MinWorkers \in Nat
  BY <1>3, FS_CardinalityType, GuardedAssumption
<1> QED
  BY <1>4, <1>5 DEF GuardFloor

(* Whatever the memory is like and whichever workers it asks, a search     *)
(* that nobody stopped has min_workers workers that worked to the end of   *)
(* their cycles or of their patience.                                      *)
THEOREM FloorWorksOn == GuardedSpec => []FloorWorksToTheEnd
<1>1. GuardedSpec => []GuardFloor
  BY GuardFloorInit, GuardFloorStep, PTL DEF GuardedSpec
<1>2. GuardedSpec => [](CyclesOK /\ EndInv /\ ReportInv /\ StagesInOrder)
  BY GuardedImplementsSearch, SearchInvariants DEF ImplementsSearch
<1> QED
  BY <1>1, <1>2, FloorWorks, PTL

-----------------------------------------------------------------------------
(* What the workers show the guard *)

Due(w) == IF unnoted[w] = None THEN 0 ELSE 1

(* A worker owes a note only where it has just added a point, leaves at a  *)
(* request only once, and adds no more points than it does cycles.         *)
NoteInv ==
  /\ unnoted \in [Workers -> Merits \cup {None}]
  /\ recorded \in [Workers -> Nat]
  /\ \A w \in Workers :
       /\ unnoted[w] # None => pc[w] \in {"top", "exit"} /\ ~ retired[w]
       /\ retired[w] => pc[w] \in Gone
       /\ recorded[w] + Due(w) <= MaxCycles
       /\ pc[w] \notin Gone => recorded[w] + Due(w) <= cycle[w]

LEMMA NoteInvInit == GuardedInit => NoteInv
<1> SUFFICES ASSUME GuardedInit PROVE NoteInv
  OBVIOUS
<1>1. recorded = [w \in Workers |-> 0] /\ unnoted = [w \in Workers |-> None]
  BY GuardedWorkers DEF GuardedInit, Guard!Init
<1>2. \A w \in Workers : pc[w] = "top" /\ cycle[w] = 0 /\ retired[w] = FALSE
  BY DEF GuardedInit, Init
<1> QED
  BY <1>1, <1>2, SearchAssumption DEF NoteInv, Due, Gone

LEMMA WorkerNotes ==
  ASSUME CyclesOK, NoteInv, NEW w \in Workers, WorkerStep(w)
  PROVE  NoteInv'
<1>1. /\ Moves(w)
      /\ \A v \in Workers \ {w} : pc'[v] = pc[v] /\ cycle'[v] = cycle[v]
  BY WorkerMoves DEF WorkerStep
<1>2. unnoted[w] = None /\ recorded' = recorded
  BY DEF WorkerStep, Noted, guardVars, tallies
<1>3. \A v \in Workers \ {w} : retired'[v] = retired[v] /\ unnoted'[v] = unnoted[v]
  BY <1>1 DEF Moves, WorkerStep, CyclesOK, TypeOK, NoteInv
<1>4. /\ cycle[w] \in Nat /\ MaxCycles \in Nat /\ cycle[w] <= MaxCycles
      /\ recorded[w] \in Nat
  BY SearchAssumption DEF CyclesOK, TypeOK, NoteInv
<1>5. unnoted' \in [Workers -> Merits \cup {None}]
  <2>1. pc[w] = "add" => cand[w].merit \in Merits
    BY CandOK DEF Recording
  <2> QED
    BY <2>1 DEF WorkerStep, NoteInv
<1>6. /\ unnoted'[w] # None => pc'[w] \in {"top", "exit"} /\ ~ retired'[w]
      /\ retired'[w] => pc'[w] \in Gone
      /\ recorded'[w] + Due(w)' <= MaxCycles
      /\ pc'[w] \notin Gone => recorded'[w] + Due(w)' <= cycle'[w]
  <2>1. CASE pc[w] = "add"
    <3>1. /\ pc'[w] \in {"top", "exit"} /\ UNCHANGED retired
          /\ cycle'[w] = IF pc'[w] = "top" THEN cycle[w] + 1 ELSE cycle[w]
      BY <1>1, <2>1 DEF Moves, Gone
    <3>2. ~ retired[w] /\ recorded[w] <= cycle[w]
      BY <1>2, <1>4, <2>1 DEF NoteInv, Gone, Due
    <3>3. cycle[w] < MaxCycles
      BY <2>1, CandOK DEF Recording
    <3>4. Due(w)' \in {0, 1}
      BY DEF Due
    <3> QED
      BY <1>2, <1>4, <3>1, <3>2, <3>3, <3>4 DEF Gone
  <2>2. CASE pc[w] # "add"
    <3>1. unnoted'[w] = None /\ Due(w)' = 0 /\ Due(w) = 0
      BY <1>2, <2>2 DEF WorkerStep, Due
    <3>2. recorded[w] <= MaxCycles
      BY <1>4, <3>1 DEF NoteInv
    <3>3. pc'[w] \notin Gone => recorded[w] <= cycle'[w]
      BY <1>1, <1>4, <2>2, <3>1 DEF NoteInv, Moves, Gone
    <3>4. retired'[w] => pc'[w] \in Gone
      BY <1>1, <2>2 DEF NoteInv, Moves, Gone, CyclesOK, TypeOK
    <3> QED
      BY <1>2, <1>4, <3>1, <3>2, <3>3, <3>4
  <2> QED
    BY <2>1, <2>2
<1>7. ASSUME NEW v \in Workers \ {w}
      PROVE  /\ unnoted'[v] # None => pc'[v] \in {"top", "exit"} /\ ~ retired'[v]
             /\ retired'[v] => pc'[v] \in Gone
             /\ recorded'[v] + Due(v)' <= MaxCycles
             /\ pc'[v] \notin Gone => recorded'[v] + Due(v)' <= cycle'[v]
  <2>1. Due(v)' = Due(v)
    BY <1>3 DEF Due
  <2> QED
    BY <1>1, <1>2, <1>3, <2>1 DEF NoteInv
<1> QED
  BY <1>2, <1>5, <1>6, <1>7 DEF NoteInv

LEMMA NoteNotes ==
  ASSUME CyclesOK, NoteInv, NEW w \in Workers, NoteRecorded(w)
  PROVE  NoteInv'
<1>1. /\ recorded' = [recorded EXCEPT ![w] = @ + 1]
      /\ unnoted' = [unnoted EXCEPT ![w] = None]
      /\ UNCHANGED <<pc, retired, cycle>>
  BY DEF NoteRecorded, vars
<1>2. recorded'[w] + Due(w)' = recorded[w] + Due(w)
  BY <1>1 DEF NoteRecorded, NoteInv, Due
<1>3. \A v \in Workers \ {w} : recorded'[v] + Due(v)' = recorded[v] + Due(v)
  BY <1>1 DEF NoteInv, Due
<1> QED
  BY <1>1, <1>2, <1>3 DEF NoteInv

LEMMA NoteInvStep == CyclesOK /\ NoteInv /\ [GuardedNext]_allVars => NoteInv'
<1> SUFFICES ASSUME CyclesOK, NoteInv, [GuardedNext]_allVars PROVE NoteInv'
  OBVIOUS
<1>1. ASSUME UNCHANGED <<pc, retired, cycle, unnoted, recorded>> PROVE NoteInv'
  BY <1>1 DEF NoteInv, Due
<1>2. CASE Outside
  BY <1>1, <1>2 DEF Outside, Assemble, Expire, Cancel, HardStop, Unworked, guardVars,
     tallies
<1>3. CASE GuardTick
  <2>1. UNCHANGED recorded
    BY <1>3 DEF GuardTick, Guard!Tick, Guard!Tighten, Guard!RetireWorker,
       Guard!Restore, Guard!Watch, Guard!Sampled, Guard!work
  <2> QED
    BY <1>1, <1>3, <2>1 DEF GuardTick, Unworked
<1>4. CASE StopGuard \/ UNCHANGED allVars
  BY <1>1, <1>4 DEF StopGuard, allVars, vars, guardVars, tallies
<1> QED
  BY <1>2, <1>3, <1>4, WorkerNotes, NoteNotes DEF GuardedNext

-----------------------------------------------------------------------------
(* The guarded search is a guard with its workers *)

SeenOf == [w \in Workers |-> Seen(w)]

(* What a step of a worker changes of what the guard can tell.             *)
LEMMA SeenMoves ==
  ASSUME CyclesOK, NoteInv, NEW w \in Workers, Worker(w)
  PROVE  \/ SeenOf' = SeenOf
         \/ /\ Seen(w) = "running"
            /\ \/ w \in retire /\ SeenOf' = [SeenOf EXCEPT ![w] = "retired"]
               \/ SeenOf' = [SeenOf EXCEPT ![w] = "finished"]
<1>1. /\ Moves(w)
      /\ \A v \in Workers \ {w} : pc'[v] = pc[v]
  BY WorkerMoves
<1>2. \A v \in Workers \ {w} : retired'[v] = retired[v]
  BY <1>1 DEF Moves, CyclesOK, TypeOK
<1>3. \A v \in Workers \ {w} : Seen(v)' = Seen(v)
  BY <1>1, <1>2 DEF Seen
<1>4. CASE Seen(w)' = Seen(w)
  BY <1>3, <1>4 DEF SeenOf
<1>5. CASE Seen(w)' # Seen(w)
  <2>1. CASE pc[w] = "top" /\ pc'[w] = "exit" /\ w \in retire
               /\ retired' = [retired EXCEPT ![w] = TRUE]
    <3>1. Seen(w) = "running" /\ Seen(w)' = "retired"
      BY <2>1 DEF Seen, NoteInv, Gone, CyclesOK, TypeOK
    <3> QED
      BY <1>3, <2>1, <3>1 DEF SeenOf
  <2>2. CASE pc[w] = "exit" /\ pc'[w] = "done" /\ UNCHANGED retired
    <3>1. Seen(w) = "running" /\ Seen(w)' = "finished"
      BY <1>5, <2>2 DEF Seen
    <3> QED
      BY <1>3, <3>1 DEF SeenOf
  <2> QED
    BY <1>1, <1>5, <2>1, <2>2 DEF Moves, Seen, Gone
<1> QED
  BY <1>4, <1>5

LEMMA WorkerSeen ==
  ASSUME CyclesOK, NoteInv, NEW w \in Workers, WorkerStep(w)
  PROVE  Guard!Next \/ UNCHANGED Guard!vars
<1>1. UNCHANGED <<retire, activeN>> /\ UNCHANGED guardVars
  BY WorkersAskNothing DEF WorkerStep, guardVars, watch, stops
<1>2. /\ UNCHANGED <<guarding, recorded, best>> /\ UNCHANGED Guard!guard
  BY <1>1 DEF guardVars, tallies, watch, Guard!guard, Guard!memory, Guard!crew
<1>3. w \in Guard!WorkerIds
  BY GuardedWorkers
<1>4. Worker(w)
  BY DEF WorkerStep
<1>5. CASE SeenOf' = SeenOf
  BY <1>2, <1>5 DEF SeenOf, Guard!vars, Guard!work, Guard!guard
<1>6. CASE Seen(w) = "running" /\ w \in retire
             /\ SeenOf' = [SeenOf EXCEPT ![w] = "retired"]
  <2>1. Guard!RetireAtBoundary(w)
    BY <1>2, <1>6 DEF SeenOf, Guard!RetireAtBoundary
  <2> QED
    BY <1>3, <2>1 DEF Guard!Next
<1>7. CASE Seen(w) = "running" /\ SeenOf' = [SeenOf EXCEPT ![w] = "finished"]
  <2>1. Guard!Finish(w)
    BY <1>2, <1>7 DEF SeenOf, Guard!Finish
  <2> QED
    BY <1>3, <2>1 DEF Guard!Next
<1> QED
  BY <1>4, <1>5, <1>6, <1>7, SeenMoves

LEMMA NoteSeen ==
  ASSUME CyclesOK, NoteInv, NEW w \in Workers, NoteRecorded(w)
  PROVE  Guard!Next
<1>1. /\ unnoted[w] \in Merits /\ unnoted[w] # None
      /\ Seen(w) = "running" /\ recorded[w] < MaxCycles
  <2>1. unnoted[w] # None /\ Due(w) = 1
    BY DEF NoteRecorded, Due
  <2>2. recorded[w] + 1 <= MaxCycles /\ recorded[w] \in Nat
    BY <2>1 DEF NoteInv
  <2> QED
    BY <2>1, <2>2, SearchAssumption DEF NoteInv, Seen
<1>2. SeenOf' = SeenOf
  BY DEF NoteRecorded, vars, SeenOf, Seen
<1>3. UNCHANGED guarding /\ UNCHANGED Guard!guard
  BY DEF NoteRecorded, vars, stops, watch, Guard!guard, Guard!memory, Guard!crew
<1>4. Guard!Note(w, unnoted[w])
  BY <1>1, <1>2, <1>3 DEF NoteRecorded, SeenOf, Guard!Note
<1> QED
  BY <1>1, <1>4, GuardedWorkers DEF Guard!Next

LEMMA GuardStep ==
  CyclesOK /\ NoteInv /\ [GuardedNext]_allVars => [Guard!Next]_(Guard!vars)
<1> SUFFICES ASSUME CyclesOK, NoteInv, [GuardedNext]_allVars
             PROVE  Guard!Next \/ UNCHANGED Guard!vars
  OBVIOUS
<1>1. ASSUME UNCHANGED <<pc, retired>> PROVE SeenOf' = SeenOf
  BY <1>1 DEF SeenOf, Seen
<1>2. CASE Outside
  <2>1. UNCHANGED <<pc, retired, retire>>
    BY <1>2 DEF Outside, Assemble, Expire, Cancel, HardStop, Unworked, stops
  <2> QED
    BY <1>1, <1>2, <2>1 DEF Outside, guardVars, tallies, watch, SeenOf, Guard!vars,
       Guard!work, Guard!memory, Guard!crew
<1>3. CASE GuardTick
  BY <1>3 DEF GuardTick, Guard!Next
<1>4. CASE StopGuard
  <2>1. SeenOf' = SeenOf
    BY <1>1, <1>4 DEF StopGuard, vars
  <2>2. Guard!StopGuard
    BY <1>4, <2>1 DEF StopGuard, vars, stops, tallies, watch, SeenOf,
       Guard!StopGuard, Guard!work, Guard!guard, Guard!memory, Guard!crew
  <2> QED
    BY <2>2 DEF Guard!Next
<1>5. CASE UNCHANGED allVars
  <2>1. SeenOf' = SeenOf
    BY <1>1, <1>5 DEF allVars, vars
  <2> QED
    BY <1>5, <2>1 DEF allVars, vars, stops, guardVars, tallies, watch, SeenOf,
       Guard!vars, Guard!work, Guard!memory, Guard!crew
<1> QED
  BY <1>2, <1>3, <1>4, <1>5, WorkerSeen, NoteSeen DEF GuardedNext

(* What the guard supposes of its workers, the cycles of the search do, so *)
(* what is proved of ResourceGuard holds over the workers themselves.      *)
THEOREM GuardedImplementsGuard == GuardedSpec => ImplementsGuard
<1>1. GuardedInit => Guard!Init
  BY DEF GuardedInit
<1>2. GuardedSpec => []CyclesOK
  BY GuardedImplementsSearch, SearchInvariants, PTL DEF ImplementsSearch
<1>3. GuardedSpec => [](CyclesOK /\ NoteInv)
  BY <1>2, NoteInvInit, NoteInvStep, PTL DEF GuardedSpec
<1> QED
  BY <1>1, <1>3, GuardStep, PTL DEF GuardedSpec, Guard!Spec, ImplementsGuard
=============================================================================
