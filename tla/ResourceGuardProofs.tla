-------------------------- MODULE ResourceGuardProofs --------------------------
(***************************************************************************)
(* What holds of the resource guard for any number of workers, any floor,  *)
(* cooldown, limits and samples.                                           *)
(***************************************************************************)
EXTENDS ResourceGuard, FiniteSetTheorems, TLAPS

-----------------------------------------------------------------------------
(* The larger and the smaller of two numbers *)

LEMMA MaxOfTwo ==
  ASSUME NEW x \in Nat, NEW y \in Nat
  PROVE  Max({x, y}) \in Nat /\ Max({x, y}) >= x /\ Max({x, y}) >= y
<1>1. \E z \in {x, y} : \A u \in {x, y} : z >= u
  OBVIOUS
<1> QED
  BY <1>1 DEF Max

LEMMA MinOfTwo ==
  ASSUME NEW x \in Nat, NEW y \in Nat
  PROVE  Min({x, y}) \in Nat /\ Min({x, y}) <= x /\ Min({x, y}) <= y
<1>1. \E z \in {x, y} : \A u \in {x, y} : z <= u
  OBVIOUS
<1> QED
  BY <1>1 DEF Min

-----------------------------------------------------------------------------
(* The floor *)

(* What keeps the floor: the count is the size of the set it stands for,   *)
(* so the test of one is the test of the other.                            *)
FloorInv ==
  /\ retire \subseteq WorkerIds
  /\ activeN = Cardinality(WorkerIds \ retire)
  /\ activeN \in MinWorkers .. N

LEMMA WorkersFinite == IsFiniteSet(WorkerIds) /\ Cardinality(WorkerIds) = N
<1>1. N - 1 \in Int /\ 0 \in Int
  BY GuardAssumption
<1> QED
  BY <1>1, FS_Interval, GuardAssumption DEF WorkerIds

LEMMA FloorInit == Init => FloorInv
<1> SUFFICES ASSUME Init PROVE FloorInv
  OBVIOUS
<1>1. WorkerIds \ retire = WorkerIds
  BY DEF Init
<1> QED
  BY <1>1, WorkersFinite, GuardAssumption DEF Init, FloorInv

(* Asking one more worker takes one from those left, and only when more    *)
(* than min_workers are left.                                              *)
LEMMA FloorRetire ==
  ASSUME FloorInv, NEW r, NEW h, RetireWorker(r, h)
  PROVE  FloorInv'
<1>1. PICK w \in WorkerIds : Selected(w) /\ retire' = retire \cup {w}
  BY DEF RetireWorker
<1>2. IsFiniteSet(WorkerIds \ retire) /\ w \in WorkerIds \ retire
  BY <1>1, WorkersFinite, FS_Difference DEF Selected
<1>3. WorkerIds \ retire' = (WorkerIds \ retire) \ {w}
  BY <1>1
<1>4. Cardinality(WorkerIds \ retire') = Cardinality(WorkerIds \ retire) - 1
  BY <1>2, <1>3, FS_RemoveElement
<1>5. activeN' = activeN - 1 /\ activeN > MinWorkers
  BY <1>1 DEF RetireWorker, Selected, MaySelect
<1> QED
  BY <1>1, <1>4, <1>5, GuardAssumption DEF FloorInv, WorkerIds

LEMMA FloorStep == FloorInv /\ [Next]_vars => FloorInv'
<1> SUFFICES ASSUME FloorInv, [Next]_vars PROVE FloorInv'
  OBVIOUS
<1>1. ASSUME NEW r \in Reasons \cup {None}, Tick(r) PROVE FloorInv'
  <2>1. PICK h \in Heaps : Tighten(r, h) \/ RetireWorker(r, h)
                             \/ Restore(r, h) \/ Watch(r, h)
    BY <1>1 DEF Tick
  <2>2. CASE RetireWorker(r, h)
    BY <2>2, FloorRetire
  <2>3. CASE Tighten(r, h) \/ Restore(r, h) \/ Watch(r, h)
    BY <2>3 DEF Tighten, Restore, Watch, FloorInv, WorkerIds, crew
  <2> QED
    BY <2>1, <2>2, <2>3
<1>2. ASSUME UNCHANGED crew PROVE FloorInv'
  BY <1>2 DEF FloorInv, WorkerIds, crew
<1>3. ASSUME NEW w \in WorkerIds,
             RetireAtBoundary(w) \/ Finish(w) \/ \E m \in Merits : Note(w, m)
      PROVE  FloorInv'
  BY <1>2, <1>3 DEF RetireAtBoundary, Finish, Note, guard
<1>4. CASE StopGuard
  BY <1>2, <1>4 DEF StopGuard, guard
<1>5. CASE UNCHANGED vars
  BY <1>2, <1>5 DEF vars
<1> QED
  BY <1>1, <1>3, <1>4, <1>5 DEF Next

(* However long the pressure lasts and whichever workers leave, the guard  *)
(* keeps min_workers of them, and the count it reports is exact.           *)
THEOREM FloorIsKept == Spec => []FloorKept
<1>1. FloorInv => FloorKept
  BY GuardAssumption DEF FloorInv, FloorKept
<1> QED
  BY <1>1, FloorInit, FloorStep, PTL DEF Spec
-----------------------------------------------------------------------------
(* Types, and the range of the memory limit *)

LEMMA OldestType == Oldest \in Nat /\ Cooldown \in Nat
<1>1. Cooldown \in Nat /\ Fallback + 1 \in Nat
  BY GuardAssumption
<1> QED
  BY <1>1, MaxOfTwo DEF Oldest

LEMMA OlderType ==
  ASSUME NEW oldest \in Nat, NEW age \in 0 .. oldest \cup {Never}
  PROVE  Older(age, oldest) \in 0 .. oldest \cup {Never}
<1>1. CASE age = Never
  BY <1>1 DEF Older
<1>2. CASE age # Never
  <2>1. age \in Nat /\ age + 1 \in Nat
    BY <1>2
  <2>2. Min({age + 1, oldest}) \in 0 .. oldest
    BY <2>1, MinOfTwo
  <2> QED
    BY <1>2, <2>2 DEF Older
<1> QED
  BY <1>1, <1>2

(* The ages a tick computes keep their range. *)
LEMMA AgesType ==
  ASSUME TypeOK
  PROVE  /\ ExitAge \in 0 .. Cooldown \cup {Never}
         /\ PendingAge \in 0 .. Oldest \cup {Never}
         /\ Older(sinceAction, Cooldown) \in 0 .. Cooldown \cup {Never}
<1>1. sinceExit \in 0 .. Cooldown \cup {Never}
  BY DEF TypeOK
<1>2. sinceAction \in 0 .. Cooldown \cup {Never}
  BY DEF TypeOK
<1>3. sincePending \in 0 .. Oldest \cup {Never}
  BY DEF TypeOK
<1>4. Older(sinceExit, Cooldown) \in 0 .. Cooldown \cup {Never}
  BY <1>1, OlderType, OldestType
<1>5. Older(sincePending, Oldest) \in 0 .. Oldest \cup {Never}
  BY <1>3, OlderType, OldestType
<1>6. Older(sinceAction, Cooldown) \in 0 .. Cooldown \cup {Never}
  BY <1>2, OlderType, OldestType
<1> QED
  BY <1>4, <1>5, <1>6, OldestType DEF ExitAge, PendingAge

LEMMA CountedType ==
  ASSUME TypeOK, NEW r \in Reasons \cup {None}
  PROVE  Counted(r) \in Nat
<1>1. CASE r = None \/ r # reason
  BY <1>1 DEF Counted
<1>2. CASE r # None /\ r = reason
  <2>1. Need[r] \in Nat
    <3>1. r \in Reasons /\ Need \in [Reasons -> Nat \ {0}]
      BY <1>2, GuardAssumption
    <3> QED
      BY <3>1
  <2>2. breaches + 1 \in Nat
    BY DEF TypeOK
  <2> QED
    BY <1>2, <2>1, <2>2, MinOfTwo DEF Counted
<1> QED
  BY <1>1, <1>2

(* A tightening lowers the limit and never to zero, which would read as    *)
(* unlimited.                                                              *)
LEMMA TightenedLimit ==
  ASSUME TypeOK, NEW h \in Heaps, CanTighten(h)
  PROVE  TightenTarget(h) \in 1 .. OrigLimit
<1>1. h.live \in Nat
  BY GuardAssumption DEF Samples
<1>2. (3 * h.live) \div 2 \in Nat
  BY <1>1
<1>3. TightenFloor(h) \in Nat /\ TightenFloor(h) >= 64
  BY <1>2, MaxOfTwo DEF TightenFloor
<1>4. limit \in 1 .. OrigLimit /\ OrigLimit \in Nat
  BY GuardAssumption DEF TypeOK
<1>5. (4 * (IF limit = 0 THEN h.sys ELSE limit)) \div 5 \in Nat
  BY <1>4
<1>6. TightenTarget(h) \in Nat /\ TightenTarget(h) >= 64
  BY <1>3, <1>5, MaxOfTwo DEF TightenTarget
<1>7. TightenTarget(h) < limit
  BY <1>4 DEF CanTighten
<1> QED
  BY <1>4, <1>6, <1>7

(* A step back up stays between the limit it leaves and the original one.  *)
LEMMA RestoredLimit ==
  ASSUME TypeOK
  PROVE  RestoreTarget \in limit .. OrigLimit
<1>1. limit \in 1 .. OrigLimit /\ OrigLimit \in Nat
  BY GuardAssumption DEF TypeOK
<1>2. (5 * limit) \div 4 \in Nat /\ (5 * limit) \div 4 >= limit
  BY <1>1
<1>3. RestoreTarget \in {(5 * limit) \div 4, OrigLimit}
  <2>1. \E z \in {(5 * limit) \div 4, OrigLimit} :
          \A u \in {(5 * limit) \div 4, OrigLimit} : z <= u
    BY <1>1, <1>2
  <2> QED
    BY <2>1 DEF RestoreTarget, Min
<1>4. RestoreTarget <= OrigLimit
  BY <1>1, <1>2, MinOfTwo DEF RestoreTarget
<1> QED
  BY <1>1, <1>2, <1>3, <1>4

(* What every tick does to the part of the state it does not decide on.    *)
LEMMA SampledType ==
  ASSUME TypeOK, NEW r \in Reasons \cup {None}, NEW h, Sampled(r, h)
  PROVE  /\ guarding' \in BOOLEAN
         /\ worker' \in [WorkerIds -> {"running", "retired", "finished"}]
         /\ recorded' \in [WorkerIds -> 0 .. MaxRecorded]
         /\ best' \in [WorkerIds -> Merits \cup {None}]
         /\ reason' \in Reasons \cup {None}
         /\ sinceExit' \in 0 .. Cooldown \cup {Never}
  BY AgesType DEF TypeOK, Sampled, work

LEMMA TickType ==
  ASSUME TypeOK, FloorInv, NEW r \in Reasons \cup {None}, Tick(r)
  PROVE  TypeOK'
<1>1. PICK h \in Heaps : Tighten(r, h) \/ RetireWorker(r, h)
                           \/ Restore(r, h) \/ Watch(r, h)
  BY DEF Tick
<1>2. Sampled(r, h)
  BY <1>1 DEF Tighten, RetireWorker, Restore, Watch
<1>3. pending \ Observed \subseteq retire /\ retire \subseteq WorkerIds
  BY DEF TypeOK
<1>4. 0 \in 0 .. Cooldown /\ 0 \in 0 .. Oldest
  BY OldestType
<1>5. CASE Tighten(r, h)
  <2>1. limit' \in 1 .. OrigLimit /\ tightened' \in BOOLEAN
    BY <1>5, TightenedLimit DEF Tighten
  <2>2. activeN' \in 0 .. N /\ retire' \subseteq WorkerIds /\ pending' \subseteq retire'
    BY <1>3, <1>5 DEF Tighten, crew, TypeOK
  <2>3. /\ breaches' \in Nat
        /\ sinceAction' \in 0 .. Cooldown \cup {Never}
        /\ sincePending' \in 0 .. Oldest \cup {Never}
    BY <1>4, <1>5, AgesType DEF Tighten
  <2> QED
    BY <1>2, <2>1, <2>2, <2>3, SampledType DEF TypeOK
<1>6. CASE RetireWorker(r, h)
  <2>1. limit' \in 1 .. OrigLimit /\ tightened' \in BOOLEAN
    BY <1>6 DEF RetireWorker, TypeOK
  <2>2. retire' \subseteq WorkerIds /\ pending' \subseteq retire'
    BY <1>3, <1>6 DEF RetireWorker
  <2>3. activeN' \in 0 .. N
    <3>1. FloorInv'
      BY <1>6, FloorRetire
    <3> QED
      BY <3>1, GuardAssumption DEF FloorInv
  <2>4. /\ breaches' \in Nat
        /\ sinceAction' \in 0 .. Cooldown \cup {Never}
        /\ sincePending' \in 0 .. Oldest \cup {Never}
    BY <1>4, <1>6, AgesType DEF RetireWorker
  <2> QED
    BY <1>2, <2>1, <2>2, <2>3, <2>4, SampledType DEF TypeOK
<1>7. CASE Restore(r, h)
  <2>1. limit' \in 1 .. OrigLimit /\ tightened' \in BOOLEAN
    BY <1>7, RestoredLimit, GuardAssumption DEF Restore, StepsRemain, TypeOK
  <2>2. activeN' \in 0 .. N /\ retire' \subseteq WorkerIds /\ pending' \subseteq retire'
    BY <1>3, <1>7 DEF Restore, crew, TypeOK
  <2>3. /\ breaches' \in Nat
        /\ sinceAction' \in 0 .. Cooldown \cup {Never}
        /\ sincePending' \in 0 .. Oldest \cup {Never}
    BY <1>4, <1>7, AgesType DEF Restore
  <2> QED
    BY <1>2, <2>1, <2>2, <2>3, SampledType DEF TypeOK
<1>8. CASE Watch(r, h)
  <2>1. limit' \in 1 .. OrigLimit /\ tightened' \in BOOLEAN
    BY <1>8 DEF Watch, TypeOK
  <2>2. activeN' \in 0 .. N /\ retire' \subseteq WorkerIds /\ pending' \subseteq retire'
    BY <1>3, <1>8 DEF Watch, crew, TypeOK
  <2>3. /\ breaches' \in Nat
        /\ sinceAction' \in 0 .. Cooldown \cup {Never}
        /\ sincePending' \in 0 .. Oldest \cup {Never}
    BY <1>8, AgesType, CountedType DEF Watch
  <2> QED
    BY <1>2, <2>1, <2>2, <2>3, SampledType DEF TypeOK
<1> QED
  BY <1>1, <1>5, <1>6, <1>7, <1>8

(* Whatever is sampled, the limit the guard sets lies between zero, which  *)
(* would mean none, and the limit the user gave; and the rest of the state *)
(* keeps its type.                                                         *)
THEOREM GuardTypeCorrect == Spec => []TypeOK
<1>1. Init => TypeOK
  <2> SUFFICES ASSUME Init PROVE TypeOK
    OBVIOUS
  <2>1. OrigLimit \in 1 .. OrigLimit /\ N \in 0 .. N /\ 0 \in 0 .. MaxRecorded
    BY GuardAssumption
  <2> QED
    BY <2>1 DEF Init, TypeOK
<1>2. TypeOK /\ FloorInv /\ [Next]_vars => TypeOK'
  <2> SUFFICES ASSUME TypeOK, FloorInv, [Next]_vars PROVE TypeOK'
    OBVIOUS
  <2>1. ASSUME NEW r \in Reasons \cup {None}, Tick(r) PROVE TypeOK'
    BY <2>1, TickType
  <2>2. ASSUME NEW w \in WorkerIds, RetireAtBoundary(w) \/ Finish(w)
        PROVE  TypeOK'
    BY <2>2 DEF RetireAtBoundary, Finish, guard, memory, crew, TypeOK
  <2>3. ASSUME NEW w \in WorkerIds, NEW m \in Merits, Note(w, m)
        PROVE  TypeOK'
    <3>1. recorded[w] + 1 \in 0 .. MaxRecorded
      BY <2>3, GuardAssumption DEF Note, TypeOK
    <3>2. recorded' \in [WorkerIds -> 0 .. MaxRecorded]
      BY <2>3, <3>1 DEF Note, TypeOK
    <3>3. best' \in [WorkerIds -> Merits \cup {None}]
      BY <2>3 DEF Note, Marked, TypeOK
    <3> QED
      BY <2>3, <3>2, <3>3 DEF Note, guard, memory, crew, TypeOK
  <2>4. CASE StopGuard
    BY <2>4 DEF StopGuard, work, guard, memory, crew, TypeOK
  <2>5. CASE UNCHANGED vars
    BY <2>5 DEF vars, work, memory, crew, TypeOK
  <2> QED
    BY <2>1, <2>2, <2>3, <2>4, <2>5 DEF Next
<1> QED
  BY <1>1, <1>2, FloorInit, FloorStep, PTL DEF Spec

(* The step invariant of the types, for the proofs that rest on them.      *)
LEMMA GuardTypes == Spec => [](TypeOK /\ FloorInv)
  BY GuardTypeCorrect, FloorInit, FloorStep, PTL DEF Spec

-----------------------------------------------------------------------------
(* The limit is given back *)

LEMMA TightenedFurther ==
  ASSUME TypeOK, NEW h \in Heaps, CanTighten(h)
  PROVE  64 <= TightenTarget(h) /\ TightenTarget(h) < limit
<1>1. h.live \in Nat
  BY GuardAssumption DEF Samples
<1>2. (3 * h.live) \div 2 \in Nat
  BY <1>1
<1>3. TightenFloor(h) \in Nat /\ TightenFloor(h) >= 64
  BY <1>2, MaxOfTwo DEF TightenFloor
<1>4. limit \in 1 .. OrigLimit /\ OrigLimit \in Nat
  BY GuardAssumption DEF TypeOK
<1>5. (4 * (IF limit = 0 THEN h.sys ELSE limit)) \div 5 \in Nat
  BY <1>4
<1>6. TightenTarget(h) \in Nat /\ TightenTarget(h) >= 64
  BY <1>3, <1>5, MaxOfTwo DEF TightenTarget
<1> QED
  BY <1>4, <1>6 DEF CanTighten

(* A step up from a lowered limit raises it, or arrives.                   *)
LEMMA RestoreRises ==
  ASSUME TypeOK, LimitOnTheBooks, tightened
  PROVE  limit < RestoreTarget
<1>1. limit \in Nat /\ OrigLimit \in Nat /\ limit >= 64 /\ limit < OrigLimit
  BY GuardAssumption DEF TypeOK, LimitOnTheBooks
<1>2. (5 * limit) \div 4 \in Nat /\ (5 * limit) \div 4 > limit
  BY <1>1
<1>3. \E z \in {(5 * limit) \div 4, OrigLimit} :
        \A u \in {(5 * limit) \div 4, OrigLimit} : z <= u
  BY <1>1, <1>2
<1>4. RestoreTarget \in {(5 * limit) \div 4, OrigLimit}
  BY <1>3 DEF RestoreTarget, Min
<1> QED
  BY <1>1, <1>2, <1>4

LEMMA LimitStep ==
  ASSUME TypeOK, LimitOnTheBooks, [Next]_vars
  PROVE  LimitOnTheBooks'
<1>1. limit \in 1 .. OrigLimit /\ OrigLimit \in Nat
  BY GuardAssumption DEF TypeOK
<1>2. ASSUME UNCHANGED <<limit, tightened>> PROVE LimitOnTheBooks'
  BY <1>2 DEF LimitOnTheBooks
<1>3. ASSUME NEW r \in Reasons \cup {None}, NEW h \in Heaps, Tighten(r, h)
      PROVE  LimitOnTheBooks'
  <2>1. CanTighten(h) /\ limit' = TightenTarget(h) /\ tightened' = TRUE
    BY <1>3 DEF Tighten
  <2>2. limit' \in 1 .. OrigLimit /\ 64 <= limit' /\ limit' < limit
    BY <2>1, TightenedFurther, TightenedLimit
  <2>3. 64 <= limit' /\ limit' < OrigLimit
    BY <1>1, <2>2
  <2> QED
    BY <2>1, <2>3 DEF LimitOnTheBooks
<1>4. ASSUME NEW r \in Reasons \cup {None}, NEW h \in Heaps, Restore(r, h)
      PROVE  LimitOnTheBooks'
  <2>1. tightened /\ limit >= 64
    BY <1>4 DEF Restore, Eased, LimitOnTheBooks
  <2>2. limit < RestoreTarget /\ RestoreTarget \in limit .. OrigLimit
    BY <2>1, RestoreRises, RestoredLimit
  <2>3. limit' = RestoreTarget /\ tightened' = (RestoreTarget < OrigLimit)
    BY <1>4 DEF Restore, StepsRemain
  <2>4. 64 <= limit'
    BY <1>1, <2>1, <2>2, <2>3
  <2> QED
    BY <2>3, <2>4 DEF LimitOnTheBooks
<1>5. ASSUME NEW r \in Reasons \cup {None}, Tick(r) PROVE LimitOnTheBooks'
  <2>1. PICK h \in Heaps : Tighten(r, h) \/ RetireWorker(r, h)
                             \/ Restore(r, h) \/ Watch(r, h)
    BY <1>5 DEF Tick
  <2>2. CASE RetireWorker(r, h) \/ Watch(r, h)
    BY <1>2, <2>2 DEF RetireWorker, Watch
  <2> QED
    BY <1>3, <1>4, <2>1, <2>2
<1>6. ASSUME NEW w \in WorkerIds,
             RetireAtBoundary(w) \/ Finish(w) \/ \E m \in Merits : Note(w, m)
      PROVE  LimitOnTheBooks'
  BY <1>2, <1>6 DEF RetireAtBoundary, Finish, Note, guard, memory
<1>7. CASE StopGuard \/ UNCHANGED vars
  BY <1>2, <1>7 DEF StopGuard, guard, memory, vars
<1> QED
  BY <1>5, <1>6, <1>7 DEF Next

(* However often and from whichever samples the limit was lowered, the     *)
(* guard knows that it was, and can step back up from where it stands.     *)
THEOREM LimitIsOnTheBooks == Spec => []LimitOnTheBooks
<1>1. Init => LimitOnTheBooks
  BY GuardAssumption DEF Init, LimitOnTheBooks
<1> QED
  BY <1>1, GuardTypes, LimitStep, PTL DEF Spec

(* Every step back up raises the limit: with the limit between 64 MB and   *)
(* the original one, this is why finitely many of them bring it back.      *)
THEOREM RestoringRises ==
  Spec => [][\A r \in Reasons \cup {None}, h \in Heaps :
               Restore(r, h) => limit < limit' /\ limit' <= OrigLimit]_vars
<1>1. ASSUME TypeOK, LimitOnTheBooks, NEW r \in Reasons \cup {None},
             NEW h \in Heaps, Restore(r, h)
      PROVE  limit < limit' /\ limit' <= OrigLimit
  <2>1. tightened /\ limit' = RestoreTarget
    BY <1>1 DEF Restore, Eased
  <2>2. limit < RestoreTarget /\ RestoreTarget \in limit .. OrigLimit
    BY <1>1, <2>1, RestoreRises, RestoredLimit
  <2> QED
    BY <1>1, <2>1, <2>2, GuardAssumption DEF TypeOK
<1>2. TypeOK /\ LimitOnTheBooks =>
        [\A r \in Reasons \cup {None}, h \in Heaps :
           Restore(r, h) => limit < limit' /\ limit' <= OrigLimit]_vars
  BY <1>1
<1> QED
  BY <1>2, GuardTypes, LimitIsOnTheBooks, PTL DEF Spec

-----------------------------------------------------------------------------
(* Somebody to ask *)

(* The order of selectWorker is a strict total order of the workers.       *)
LEMMA WorseOrder ==
  ASSUME NEW m \in Merits \cup {None}, NEW n \in Merits \cup {None},
         NEW o \in Merits \cup {None}
  PROVE  /\ ~ Worse(m, m)
         /\ m = n \/ Worse(m, n) \/ Worse(n, m)
         /\ Worse(m, n) /\ Worse(n, o) => Worse(m, o)
<1>1. \A x \in Merits \cup {None} : x # None => x \in Nat
  BY GuardAssumption
<1> QED
  BY <1>1 DEF Worse

LEMMA ProductivityOrder ==
  ASSUME TypeOK, NEW u \in WorkerIds, NEW v \in WorkerIds, NEW w \in WorkerIds
  PROVE  /\ ~ LessProductive(u, u)
         /\ u = v \/ LessProductive(u, v) \/ LessProductive(v, u)
         /\ LessProductive(u, v) /\ LessProductive(v, w) => LessProductive(u, w)
<1>1. \A x \in WorkerIds : x \in Int /\ recorded[x] \in Nat
  BY GuardAssumption DEF WorkerIds, TypeOK
<1>2. \A x \in WorkerIds : best[x] \in Merits \cup {None}
  BY DEF TypeOK
<1>3. ~ LessProductive(u, u)
  BY <1>1, <1>2, WorseOrder DEF LessProductive
<1>4. u = v \/ LessProductive(u, v) \/ LessProductive(v, u)
  BY <1>1, <1>2, WorseOrder DEF LessProductive
<1>5. LessProductive(u, v) /\ LessProductive(v, w) => LessProductive(u, w)
  BY <1>1, <1>2, WorseOrder DEF LessProductive
<1> QED
  BY <1>3, <1>4, <1>5

(* Among the workers not asked yet there is one that is less productive    *)
(* than all the others: the one with the fewest below it has none below.   *)
LEMMA SomebodyToAsk ==
  ASSUME TypeOK, retire # WorkerIds
  PROVE  \E w \in WorkerIds \ retire :
           \A v \in WorkerIds \ (retire \cup {w}) : LessProductive(w, v)
<1> DEFINE S == WorkerIds \ retire
           Below(w) == {v \in S : LessProductive(v, w)}
           T == {Below(w) : w \in S}
<1>1. IsFiniteSet(S) /\ S # {}
  BY WorkersFinite, FS_Difference DEF TypeOK
<1>2. IsWellFoundedOn(StrictSubsetOrdering(S), SUBSET S)
  BY <1>1, FS_StrictSubsetOrderingWellFounded, FS_FiniteSubsetsOfFinite
<1>3. T \subseteq SUBSET S /\ T # {}
  BY <1>1
<1>4. \E x \in T : \A y \in T : ~ (<<y, x>> \in StrictSubsetOrdering(S))
  <2> HIDE DEF S, T
  <2> QED
    BY <1>2, <1>3, WFMin
<1>5. PICK w \in S : \A v \in S : <<Below(v), Below(w)>> \notin StrictSubsetOrdering(S)
  BY <1>4
<1>6. Below(w) = {}
  <2> SUFFICES ASSUME NEW v \in Below(w) PROVE FALSE
    OBVIOUS
  <2>1. v \in S /\ LessProductive(v, w)
    OBVIOUS
  <2>2. Below(v) \subseteq Below(w)
    BY <2>1, ProductivityOrder
  <2>3. v \notin Below(v)
    BY <2>1, ProductivityOrder
  <2>4. <<Below(v), Below(w)>> \in StrictSubsetOrdering(S)
    BY <2>2, <2>3 DEF StrictSubsetOrdering
  <2> QED
    BY <1>5, <2>1, <2>4
<1>7. \A v \in S \ {w} : LessProductive(w, v)
  BY <1>6, ProductivityOrder
<1> QED
  BY <1>7

LEMMA AboveTheFloor ==
  ASSUME TypeOK, FloorInv, activeN # MinWorkers
  PROVE  \E w \in WorkerIds : Selected(w)
<1>1. activeN > MinWorkers /\ MinWorkers \in Nat \ {0}
  BY GuardAssumption DEF FloorInv
<1>2. retire # WorkerIds
  <2> SUFFICES ASSUME retire = WorkerIds PROVE FALSE
    OBVIOUS
  <2>1. WorkerIds \ retire = {}
    OBVIOUS
  <2> QED
    BY <1>1, <2>1, FS_EmptySet DEF FloorInv
<1> QED
  BY <1>1, <1>2, SomebodyToAsk DEF Selected, MaySelect

(* Above the floor the guard always has one worker to ask and no choice    *)
(* which: whatever the workers have recorded, and however merits of zero   *)
(* or none tie, the scan of selectWorker (guard.go:292-319) has one end.   *)
SelectionIsDefinite ==
  activeN # MinWorkers =>
    \E w \in WorkerIds : Selected(w) /\ \A v \in WorkerIds : Selected(v) => v = w

THEOREM OneWorkerToAsk == Spec => []SelectionIsDefinite
<1>1. ASSUME TypeOK, FloorInv, activeN # MinWorkers
      PROVE  \E w \in WorkerIds :
               Selected(w) /\ \A v \in WorkerIds : Selected(v) => v = w
  <2>1. PICK w \in WorkerIds : Selected(w)
    BY <1>1, AboveTheFloor
  <2>2. ASSUME NEW v \in WorkerIds, Selected(v), v # w PROVE FALSE
    <3>1. LessProductive(w, v) /\ LessProductive(v, w)
      BY <2>1, <2>2 DEF Selected
    <3> QED
      BY <1>1, <3>1, ProductivityOrder
  <2> QED
    BY <2>1, <2>2
<1>2. TypeOK /\ FloorInv => SelectionIsDefinite
  BY <1>1 DEF SelectionIsDefinite
<1> QED
  BY <1>2, GuardTypes, PTL

(* Each answer is a step towards the end of the pressure: it lowers the    *)
(* limit, never below 64 MB, and asks nobody, or it asks one worker above  *)
(* the floor and leaves the limit.  As neither can go on for ever, this is *)
(* why lasting pressure ends at the floor (guard.go:188-221).              *)
AnswersAdvance ==
  [][\A r \in Reasons :
       Tick(r) /\ Pressed(r) /\ CooledDown /\ activeN # MinWorkers =>
         \/ 64 <= limit' /\ limit' < limit /\ activeN' = activeN
         \/ limit' = limit /\ MinWorkers <= activeN' /\ activeN' < activeN]_vars

THEOREM AnswersComeToAnEnd == Spec => AnswersAdvance
<1>1. ASSUME TypeOK, FloorInv, NEW r \in Reasons, Tick(r), Pressed(r), CooledDown,
             activeN # MinWorkers
      PROVE  \/ 64 <= limit' /\ limit' < limit /\ activeN' = activeN
             \/ limit' = limit /\ MinWorkers <= activeN' /\ activeN' < activeN
  <2>1. r # None
    BY GuardAssumption
  <2>2. PICK h \in Heaps : Tighten(r, h) \/ RetireWorker(r, h)
                             \/ Restore(r, h) \/ Watch(r, h)
    BY <1>1 DEF Tick
  <2>3. CASE Tighten(r, h)
    <3>1. CanTighten(h) /\ limit' = TightenTarget(h) /\ activeN' = activeN
      BY <2>3 DEF Tighten, crew
    <3> QED
      BY <1>1, <3>1, TightenedFurther
  <2>4. CASE RetireWorker(r, h)
    <3>1. limit' = limit /\ activeN' = activeN - 1
      BY <2>4 DEF RetireWorker
    <3>2. activeN \in Nat /\ MinWorkers \in Nat /\ MinWorkers <= activeN
      BY <1>1, GuardAssumption DEF FloorInv, TypeOK
    <3> QED
      BY <1>1, <3>1, <3>2
  <2>5. ~ Restore(r, h)
    BY <2>1 DEF Restore, Eased
  <2>6. ~ Watch(r, h)
    BY <1>1, AboveTheFloor DEF Watch
  <2> QED
    BY <2>2, <2>3, <2>4, <2>5, <2>6
<1>2. TypeOK /\ FloorInv =>
        [\A r \in Reasons :
           Tick(r) /\ Pressed(r) /\ CooledDown /\ activeN # MinWorkers =>
             \/ 64 <= limit' /\ limit' < limit /\ activeN' = activeN
             \/ limit' = limit /\ MinWorkers <= activeN' /\ activeN' < activeN]_vars
  BY <1>1
<1> QED
  BY <1>2, GuardTypes, PTL DEF Spec, AnswersAdvance
=============================================================================
