--------------------------- MODULE SearchWorkProofs ---------------------------
(***************************************************************************)
(* Nothing the workers of a search do to each other's points loses a bump: *)
(* the store's bumps, counted with the times they were strengthened, are   *)
(* the explorations completed, for any number of workers, cycles and       *)
(* designs.  Sums are sizes of finite sets, so a step that counts one more *)
(* is a step that adds one element.  And however the workers race, they    *)
(* record a design once each at most.                                      *)
(***************************************************************************)
EXTENDS EscapeSearchProofs, FiniteSetTheorems, WellFoundedInduction

-----------------------------------------------------------------------------
(* The two sides of the account *)

LEMMA InBumps ==
  \A b : b \in Bumps <=> \E i \in Indices : \E k \in 0 .. points[i].strengthened : b = <<i, k>>
  BY DEF Bumps

LEMMA InExplorations ==
  \A b : b \in Explorations <=> \E w \in Workers : \E k \in 1 .. explored[w] : b = <<w, k>>
  BY DEF Explorations

(* As long as every point keeps its bump, there is nothing to account for. *)
LEMMA SameBumps ==
  ASSUME Len(points') = Len(points),
         \A i \in Indices : points'[i].strengthened = points[i].strengthened
  PROVE  Bumps' = Bumps
<1>1. Indices' = Indices
  BY DEF Indices
<1> QED
  BY <1>1 DEF Bumps

(* A new point brings one bump that was not there. *)
LEMMA AddAccounts ==
  ASSUME TypeOKStore, NEW x \in Designs, NEW m \in Merits, NEW st \in Recordable,
         Add(x, m, st)
  PROVE  \E b : b \notin Bumps /\ Bumps' = Bumps \cup {b}
<1> DEFINE n == Len(points) + 1
<1>1. /\ Len(points') = n
      /\ \A i \in Indices : points'[i] = points[i]
      /\ points'[n].strengthened = 0
  <2>1. /\ Len(points') = n
        /\ \A i \in Indices : points'[i] = points[i]
        /\ points'[Len(points')] = [x |-> x, merit |-> m, status |-> st,
                                    version |-> 0, strengthened |-> 0]
    BY AddPoint
  <2> QED
    BY <2>1
<1>2. Len(points) \in Nat
  BY LenProperties DEF TypeOKStore
<1>3. Indices' = Indices \cup {n} /\ n \notin Indices
  BY <1>1, <1>2 DEF Indices
<1>4. <<n, 0>> \notin Bumps
  BY <1>3, InBumps
<1>5. {<<n, k>> : k \in 0 .. points'[n].strengthened} = {<<n, 0>>}
  BY <1>1
<1>6. Bumps' = Bumps \cup {<<n, 0>>}
  <2>1. Bumps' = UNION {{<<i, k>> : k \in 0 .. points'[i].strengthened} : i \in Indices \cup {n}}
    BY <1>3 DEF Bumps
  <2>2. \A i \in Indices : {<<i, k>> : k \in 0 .. points'[i].strengthened}
                             = {<<i, k>> : k \in 0 .. points[i].strengthened}
    BY <1>1
  <2> QED
    BY <2>1, <2>2, <1>5 DEF Bumps
<1> QED
  BY <1>4, <1>6

(* So does strengthening a point that is there. *)
LEMMA StrengthenAccounts ==
  ASSUME TypeOKStore, NEW i \in Indices, Strengthen(i)
  PROVE  \E b : b \notin Bumps /\ Bumps' = Bumps \cup {b}
<1> DEFINE s == points[i].strengthened + 1
<1>1. points[i] \in Point
  BY PointAt
<1>2. points[i].strengthened \in Nat
  BY <1>1 DEF Point
<1>3. /\ Len(points') = Len(points)
      /\ points'[i].strengthened = s
      /\ \A j \in Indices \ {i} : points'[j] = points[j]
  <2> DEFINE p == [points[i] EXCEPT !.strengthened = @ + 1]
  <2>1. p \in Point
    BY <1>1 DEF Point
  <2>2. p.strengthened = s
    BY <1>1 DEF Point
  <2>3. points' = [points EXCEPT ![i] = p]
    BY DEF Strengthen
  <2> HIDE DEF p
  <2>4. Len(points') = Len(points) /\ \A j \in Indices : points'[j] = IF j = i THEN p ELSE points[j]
    BY <2>1, <2>3, ExceptPoint
  <2> QED
    BY <2>2, <2>4
<1>4. Indices' = Indices
  BY <1>3 DEF Indices
<1>5. <<i, s>> \notin Bumps
  <2> SUFFICES ASSUME <<i, s>> \in Bumps PROVE FALSE
    OBVIOUS
  <2>1. PICK j \in Indices : \E k \in 0 .. points[j].strengthened : <<i, s>> = <<j, k>>
    BY InBumps
  <2>2. j = i /\ s \in 0 .. points[i].strengthened
    BY <2>1
  <2> QED
    BY <2>2, <1>2
<1>6. {<<i, k>> : k \in 0 .. s} = {<<i, k>> : k \in 0 .. points[i].strengthened} \cup {<<i, s>>}
  <2>1. 0 .. s = (0 .. points[i].strengthened) \cup {s}
    BY <1>2
  <2> HIDE DEF s
  <2> QED
    BY <2>1
<1>7. Bumps' = Bumps \cup {<<i, s>>}
  <2>1. Bumps' = UNION {{<<j, k>> : k \in 0 .. points'[j].strengthened} : j \in Indices}
    BY <1>4 DEF Bumps
  <2>2. \A j \in Indices \ {i} : {<<j, k>> : k \in 0 .. points'[j].strengthened}
                                   = {<<j, k>> : k \in 0 .. points[j].strengthened}
    BY <1>3
  <2>3. {<<i, k>> : k \in 0 .. points'[i].strengthened} = {<<i, k>> : k \in 0 .. s}
    BY <1>3
  <2> HIDE DEF s
  <2> QED
    BY <2>1, <2>2, <2>3, <1>6 DEF Bumps
<1> QED
  BY <1>5, <1>7

(* A better design takes over the bump it replaces. *)
LEMMA ReplaceAccounts ==
  ASSUME TypeOKStore, NEW i \in Indices, NEW x \in Designs, NEW m \in Merits,
         Replace(i, x, m)
  PROVE  Bumps' = Bumps
<1> DEFINE p == Improved(points[i], x, m)
<1>1. points[i] \in Point
  BY PointAt
<1>2. CASE m < points[i].merit
  <2>1. p \in Point /\ p.strengthened = points[i].strengthened
    BY <1>1 DEF Point, Improved
  <2>2. points' = [points EXCEPT ![i] = p]
    BY <1>2 DEF Replace
  <2>3. Len(points') = Len(points) /\ \A j \in Indices : points'[j] = IF j = i THEN p ELSE points[j]
    BY <2>1, <2>2, ExceptPoint
  <2> QED
    BY <2>1, <2>3, SameBumps
<1>3. CASE ~ (m < points[i].merit)
  BY <1>3, SameBumps DEF Replace
<1> QED
  BY <1>2, <1>3

(* A completed exploration is one more. *)
LEMMA ExploredAccounts ==
  ASSUME explored \in [Workers -> Nat], NEW w \in Workers,
         explored' = [explored EXCEPT ![w] = @ + 1]
  PROVE  \E b : b \notin Explorations /\ Explorations' = Explorations \cup {b}
<1> DEFINE n == explored[w] + 1
<1>1. explored[w] \in Nat
  OBVIOUS
<1>2. explored'[w] = n /\ \A v \in Workers \ {w} : explored'[v] = explored[v]
  OBVIOUS
<1>3. <<w, n>> \notin Explorations
  <2> SUFFICES ASSUME <<w, n>> \in Explorations PROVE FALSE
    OBVIOUS
  <2>1. PICK v \in Workers : \E k \in 1 .. explored[v] : <<w, n>> = <<v, k>>
    BY InExplorations
  <2>2. v = w /\ n \in 1 .. explored[w]
    BY <2>1
  <2> QED
    BY <2>2, <1>1
<1>4. {<<w, k>> : k \in 1 .. n} = {<<w, k>> : k \in 1 .. explored[w]} \cup {<<w, n>>}
  <2>1. 1 .. n = (1 .. explored[w]) \cup {n}
    BY <1>1
  <2> HIDE DEF n
  <2> QED
    BY <2>1
<1>5. Explorations' = Explorations \cup {<<w, n>>}
  <2>1. \A v \in Workers \ {w} : {<<v, k>> : k \in 1 .. explored'[v]} = {<<v, k>> : k \in 1 .. explored[v]}
    BY <1>2
  <2>2. {<<w, k>> : k \in 1 .. explored'[w]} = {<<w, k>> : k \in 1 .. n}
    BY <1>2
  <2> HIDE DEF n
  <2> QED
    BY <2>1, <2>2, <1>4 DEF Explorations
<1> QED
  BY <1>3, <1>5

-----------------------------------------------------------------------------
(* The account *)

(* When the account is kept: no solve is aborted, every design evaluates.  *)
Accounted == ~ hardStop /\ ~ MidDLS /\ \A x \in Designs : Verdict[x] # "failure"

Balanced ==
  /\ IsFiniteSet(Bumps) /\ IsFiniteSet(Explorations)
  /\ Cardinality(Bumps) + Cardinality(OnTheWay) = Cardinality(Explorations)

WorkInv == Accounted => Balanced

OnTheWayAt == {"rescue", "lookup", "add", "nearest", "strengthen"}

LEMMA OnTheWayFinite == IsFiniteSet(OnTheWay) /\ IsFiniteSet(OnTheWay)'
<1>1. OnTheWay \in SUBSET Workers /\ OnTheWay' \in SUBSET Workers
  BY DEF OnTheWay
<1> QED
  BY <1>1, FS_Subset, SearchAssumption

(* One worker moves from one place to another. *)
LEMMA OnTheWayMoves ==
  ASSUME TypeOK, NEW w \in Workers, NEW l, pc' = [pc EXCEPT ![w] = l]
  PROVE  /\ w \in OnTheWay <=> pc[w] \in OnTheWayAt
         /\ OnTheWay' = IF l \in OnTheWayAt THEN OnTheWay \cup {w} ELSE OnTheWay \ {w}
<1>1. pc'[w] = l /\ \A v \in Workers \ {w} : pc'[v] = pc[v]
  BY DEF TypeOK
<1>2. OnTheWay = {v \in Workers : pc[v] \in OnTheWayAt}
  BY DEF OnTheWay, OnTheWayAt
<1>3. OnTheWay' = {v \in Workers : pc'[v] \in OnTheWayAt}
  BY DEF OnTheWay, OnTheWayAt
<1> QED
  BY <1>1, <1>2, <1>3

(* And stays on its way, or off it.                                        *)
LEMMA StaysPut ==
  ASSUME TypeOK, NEW w \in Workers, NEW l, pc' = [pc EXCEPT ![w] = l],
         pc[w] \in OnTheWayAt <=> l \in OnTheWayAt
  PROVE  OnTheWay' = OnTheWay
<1>1. CASE l \in OnTheWayAt
  <2>1. w \in OnTheWay /\ OnTheWay' = OnTheWay \cup {w}
    BY <1>1, OnTheWayMoves
  <2> QED
    BY <2>1
<1>2. CASE l \notin OnTheWayAt
  <2>1. w \notin OnTheWay /\ OnTheWay' = OnTheWay \ {w}
    BY <1>2, OnTheWayMoves
  <2> QED
    BY <2>1
<1> QED
  BY <1>1, <1>2

(* A step that neither completes an exploration nor touches a bump.        *)
LEMMA NothingToAccount ==
  ASSUME Balanced, Bumps' = Bumps, explored' = explored, OnTheWay' = OnTheWay
  PROVE  Balanced'
<1>1. Explorations' = Explorations
  BY DEF Explorations
<1> QED
  BY <1>1 DEF Balanced

(* A worker that has completed an exploration is on its way to the store.  *)
LEMMA SetsOut ==
  ASSUME TypeOK, Balanced, NEW w \in Workers, Bumps' = Bumps,
         explored' = [explored EXCEPT ![w] = @ + 1],
         pc[w] \notin OnTheWayAt, NEW l \in OnTheWayAt, pc' = [pc EXCEPT ![w] = l]
  PROVE  Balanced'
<1>1. w \notin OnTheWay /\ OnTheWay' = OnTheWay \cup {w}
  BY OnTheWayMoves
<1>2. PICK b : b \notin Explorations /\ Explorations' = Explorations \cup {b}
  BY ExploredAccounts DEF TypeOK
<1>3. /\ IsFiniteSet(Explorations')
      /\ Cardinality(Explorations') = Cardinality(Explorations) + 1
  BY <1>2, FS_AddElement DEF Balanced
<1>4. Cardinality(OnTheWay') = Cardinality(OnTheWay) + 1
  BY <1>1, OnTheWayFinite, FS_AddElement
<1>5. /\ Cardinality(Bumps) \in Nat /\ Cardinality(OnTheWay) \in Nat
      /\ Cardinality(Explorations) \in Nat
  BY OnTheWayFinite, FS_CardinalityType DEF Balanced
<1> QED
  BY <1>3, <1>4, <1>5 DEF Balanced

(* And it arrives in the step that adds or strengthens a bump.             *)
LEMMA Arrives ==
  ASSUME TypeOK, Balanced, NEW w \in Workers, explored' = explored,
         \E b : b \notin Bumps /\ Bumps' = Bumps \cup {b},
         pc[w] \in OnTheWayAt, NEW l, l \notin OnTheWayAt, pc' = [pc EXCEPT ![w] = l]
  PROVE  Balanced'
<1>1. w \in OnTheWay /\ OnTheWay' = OnTheWay \ {w}
  BY OnTheWayMoves
<1>2. PICK b : b \notin Bumps /\ Bumps' = Bumps \cup {b}
  OBVIOUS
<1>3. IsFiniteSet(Bumps') /\ Cardinality(Bumps') = Cardinality(Bumps) + 1
  BY <1>2, FS_AddElement DEF Balanced
<1>4. Cardinality(OnTheWay') = Cardinality(OnTheWay) - 1
  BY <1>1, OnTheWayFinite, FS_RemoveElement
<1>5. /\ Cardinality(Bumps) \in Nat /\ Cardinality(OnTheWay) \in Nat
      /\ Cardinality(Explorations) \in Nat
  BY OnTheWayFinite, FS_CardinalityType DEF Balanced
<1>6. Explorations' = Explorations
  BY DEF Explorations
<1> QED
  BY <1>3, <1>4, <1>5, <1>6 DEF Balanced

(* A step of one worker that leaves the store alone and explores nothing.  *)
LEMMA MovesOn ==
  ASSUME TypeOK, Balanced, NEW w \in Workers, UNCHANGED <<points, explored>>,
         NEW l, pc' = [pc EXCEPT ![w] = l], pc[w] \in OnTheWayAt <=> l \in OnTheWayAt
  PROVE  Balanced'
<1>1. OnTheWay' = OnTheWay
  BY StaysPut
<1>2. Bumps' = Bumps
  BY DEF Bumps, Indices
<1> QED
  BY <1>1, <1>2, NothingToAccount

-----------------------------------------------------------------------------
(* Step by step *)

LEMMA JudgeBalances ==
  ASSUME TypeOK, Balanced, Accounted, NEW w \in Workers, NEW x \in Designs, Judge(w, x),
         pc[w] \notin OnTheWayAt, UNCHANGED points
  PROVE  Balanced'
<1>1. Verdict[x] # "failure"
  BY DEF Accounted
<1>2. PICK l \in {"lookup", "rescue"} : Goto(w, l)
  BY <1>1 DEF Judge
<1>3. l \in OnTheWayAt /\ pc' = [pc EXCEPT ![w] = l]
  BY <1>2 DEF OnTheWayAt, Goto
<1>4. Bumps' = Bumps
  BY DEF Bumps, Indices
<1>5. explored' = [explored EXCEPT ![w] = @ + 1]
  BY DEF Judge
<1> QED
  BY <1>3, <1>4, <1>5, SetsOut

LEMMA BoundaryBalances ==
  ASSUME TypeOK, Balanced, NEW w \in Workers,
         \/ StopAtBoundary(w) \/ RetireAtBoundary(w) \/ StartCycle(w)
         \/ CyclesDone(w) \/ Exit(w)
  PROVE  Balanced'
<1>1. PICK l \in {"exit", "escape", "done"} : pc' = [pc EXCEPT ![w] = l]
  BY DEF StopAtBoundary, RetireAtBoundary, StartCycle, CyclesDone, Exit, CutShort,
         LeaveLoop, Goto
<1>2. pc[w] \in {"top", "exit"} /\ UNCHANGED <<points, explored>>
  BY DEF StopAtBoundary, RetireAtBoundary, StartCycle, CyclesDone, Exit, AtBoundary,
         HasLeft, tally
<1> QED
  BY <1>1, <1>2, MovesOn DEF OnTheWayAt

LEMMA SolveBalances ==
  ASSUME TypeOK, Balanced, Accounted, NEW w \in Workers, Solve(w),
         \A v \in Workers : CycleInv(v)
  PROVE  Balanced'
<1>1. CASE Rejected(w)
  <2>1. PICK l \in {"exit", "top"} : pc' = [pc EXCEPT ![w] = l]
    BY <1>1 DEF Rejected, LeaveLoop, NextCycle, Goto
  <2> QED
    BY <1>1, <2>1, MovesOn DEF Rejected, OnTheWayAt
<1>2. CASE EscapeAccepted(w)
  <2>1. PICK x \in Designs :
          IF GlassPhase \/ CleanDLS
            THEN Goto(w, IF GlassPhase THEN "glass" ELSE "clean") /\ UNCHANGED tally
            ELSE Judge(w, x)
    BY <1>2 DEF EscapeAccepted
  <2>2. pc[w] = "escape" /\ UNCHANGED points
    BY <1>2 DEF EscapeAccepted
  <2>3. CASE GlassPhase \/ CleanDLS
    <3>1. PICK l \in {"glass", "clean"} : pc' = [pc EXCEPT ![w] = l]
      BY <2>1, <2>3 DEF Goto
    <3>2. UNCHANGED explored
      BY <2>1, <2>3 DEF tally
    <3> QED
      BY <2>2, <3>1, <3>2, MovesOn DEF OnTheWayAt
  <2>4. CASE ~ (GlassPhase \/ CleanDLS)
    BY <2>1, <2>2, <2>4, JudgeBalances DEF OnTheWayAt
  <2> QED
    BY <2>3, <2>4
<1>3. CASE GlassDone(w)
  <2>1. escaped[w] \in Designs /\ pc[w] = "glass" /\ UNCHANGED points
    BY <1>3 DEF GlassDone, CycleInv
  <2>2. PICK x \in Designs :
          IF CleanDLS THEN Goto(w, "clean") /\ UNCHANGED tally ELSE Judge(w, x)
    BY <1>3, <2>1, SearchAssumption DEF GlassDone
  <2>3. CASE CleanDLS
    BY <2>1, <2>2, <2>3, MovesOn DEF Goto, tally, OnTheWayAt
  <2>4. CASE ~ CleanDLS
    BY <2>1, <2>2, <2>4, JudgeBalances DEF OnTheWayAt
  <2> QED
    BY <2>3, <2>4
<1>4. CASE CleanAccepted(w)
  <2>1. pc[w] = "clean" /\ UNCHANGED points
    BY <1>4 DEF CleanAccepted
  <2>2. PICK x \in Designs :
          (Goto(w, "retry") /\ UNCHANGED tally) \/ Judge(w, x)
    BY <1>4 DEF CleanAccepted
  <2>3. CASE Goto(w, "retry") /\ UNCHANGED tally
    BY <2>1, <2>3, MovesOn DEF Goto, tally, OnTheWayAt
  <2>4. CASE Judge(w, x)
    BY <2>1, <2>4, JudgeBalances DEF OnTheWayAt
  <2> QED
    BY <2>2, <2>3, <2>4
<1>5. CASE RetryDone(w)
  <2>1. pc[w] = "retry" /\ UNCHANGED points /\ cand[w].x \in Designs
    BY <1>5 DEF RetryDone, CycleInv, Candidate
  <2>2. PICK x \in Designs : Judge(w, x)
    BY <1>5, <2>1 DEF RetryDone
  <2> QED
    BY <2>1, <2>2, JudgeBalances DEF OnTheWayAt
<1>6. CASE RescueDone(w)
  BY <1>6, MovesOn DEF RescueDone, Goto, tally, OnTheWayAt
<1>7. CASE SolveInterrupted(w)
  BY <1>7 DEF SolveInterrupted, Aborted, Accounted
<1> QED
  BY <1>1, <1>2, <1>3, <1>4, <1>5, <1>6, <1>7 DEF Solve

LEMMA RecordBalances ==
  ASSUME CyclesOK, Balanced, NEW w \in Workers, Record(w)
  PROVE  Balanced'
<1>0. TypeOK /\ TypeOKStore
  BY DEF CyclesOK, TypeOK
<1>1. CASE LookUp(w)
  <2>1. PICK l \in {"add", "nearest"} : pc' = [pc EXCEPT ![w] = l]
    BY <1>1 DEF LookUp, Goto
  <2>2. pc[w] = "lookup" /\ UNCHANGED <<points, explored>>
    BY <1>1 DEF LookUp, tally
  <2> QED
    BY <1>0, <2>1, <2>2, MovesOn DEF OnTheWayAt
<1>2. CASE AddNew(w)
  <2>1. /\ cand[w].x \in Designs /\ cand[w].merit \in Merits
        /\ cand[w].status \in Recordable
    BY <1>2, CandOK DEF AddNew, Recording
  <2>2. PICK l \in {"exit", "top"} : pc' = [pc EXCEPT ![w] = l]
    BY <1>2 DEF AddNew, Recorded, CutShort, LeaveLoop, NextCycle, Goto
  <2>3. \E b : b \notin Bumps /\ Bumps' = Bumps \cup {b}
    BY <1>0, <1>2, <2>1, AddAccounts DEF AddNew
  <2>4. pc[w] = "add" /\ UNCHANGED explored
    BY <1>2 DEF AddNew, tally
  <2> QED
    BY <1>0, <2>2, <2>3, <2>4, Arrives DEF OnTheWayAt
<1>3. CASE FindNearest(w)
  BY <1>0, <1>3, MovesOn DEF FindNearest, Goto, tally, OnTheWayAt
<1>4. CASE StrengthenRepeat(w)
  <2>1. target[w] \in Indices
    BY <1>4, CandOK DEF StrengthenRepeat, Recording
  <2>2. \E b : b \notin Bumps /\ Bumps' = Bumps \cup {b}
    BY <1>0, <1>4, <2>1, StrengthenAccounts DEF StrengthenRepeat
  <2>3. /\ pc[w] = "strengthen" /\ pc' = [pc EXCEPT ![w] = "replace"]
        /\ UNCHANGED explored
    BY <1>4 DEF StrengthenRepeat, Goto, tally
  <2> QED
    BY <1>0, <2>2, <2>3, Arrives DEF OnTheWayAt
<1>5. CASE ReplaceRepeat(w)
  <2>1. /\ target[w] \in Indices
        /\ cand[w].x \in Designs /\ cand[w].merit \in Merits
    BY <1>5, CandOK DEF ReplaceRepeat, Recording
  <2>2. Bumps' = Bumps
    BY <1>0, <1>5, <2>1, ReplaceAccounts DEF ReplaceRepeat
  <2>3. PICK l \in {"exit", "top"} : pc' = [pc EXCEPT ![w] = l]
    BY <1>5 DEF ReplaceRepeat, Recorded, CutShort, LeaveLoop, NextCycle, Goto
  <2>4. pc[w] = "replace" /\ explored' = explored
    BY <1>5 DEF ReplaceRepeat, tally
  <2>5. OnTheWay' = OnTheWay
    <3>1. pc[w] \in OnTheWayAt <=> l \in OnTheWayAt
      BY <2>4, <2>3 DEF OnTheWayAt
    <3> QED
      BY <1>0, <2>3, <3>1, StaysPut
  <2> QED
    BY <2>2, <2>4, <2>5, NothingToAccount
<1> QED
  BY <1>1, <1>2, <1>3, <1>4, <1>5 DEF Record

LEMMA WorkInvInit == Init => WorkInv
<1> SUFFICES ASSUME Init PROVE Balanced
  BY DEF WorkInv
<1>1. Indices = {}
  BY DEF Init, StoreInit, Indices
<1>2. Bumps = {}
  BY <1>1 DEF Bumps
<1>3. Explorations = {}
  <2>1. \A w \in Workers : explored[w] = 0
    BY DEF Init
  <2> QED
    BY <2>1, InExplorations
<1>4. OnTheWay = {}
  BY DEF Init, OnTheWay
<1> QED
  BY <1>2, <1>3, <1>4, FS_EmptySet DEF Balanced

LEMMA WorkInvStep == CyclesOK /\ WorkInv /\ [Next]_vars => WorkInv'
<1> SUFFICES ASSUME CyclesOK, WorkInv, [Next]_vars, Accounted' PROVE Balanced'
  BY DEF WorkInv
<1>1. TypeOK /\ (\A w \in Workers : CycleInv(w))
  BY DEF CyclesOK
<1>2. Accounted
  <2>1. hardStop => hardStop'
    BY StopsStay
  <2> QED
    BY <2>1 DEF Accounted
<1>3. Balanced
  BY <1>2 DEF WorkInv
<1>4. ASSUME NEW w \in Workers, Worker(w) PROVE Balanced'
  BY <1>1, <1>2, <1>3, <1>4, BoundaryBalances, SolveBalances, RecordBalances DEF Worker
<1>5. CASE Assemble \/ Environment \/ UNCHANGED vars
  <2>1. UNCHANGED <<points, pc, explored>>
    BY <1>5 DEF Assemble, Environment, Expire, Cancel, HardStop, Retire, Unworked,
                tally, vars
  <2>2. Bumps' = Bumps /\ OnTheWay' = OnTheWay
    BY <2>1 DEF Bumps, Indices, OnTheWay
  <2> QED
    BY <1>3, <2>1, <2>2, NothingToAccount
<1> QED
  BY <1>4, <1>5 DEF Next

(* As long as no solve is aborted and every design evaluates, the bumps of *)
(* the store and the workers on their way to it are the explorations: no   *)
(* interleaving of Add, Strengthen and Replace loses or repeats one.       *)
THEOREM BumpsAreAccounted == Spec => []BumpsAccountForWork
<1>1. WorkInv => BumpsAccountForWork
  BY DEF WorkInv, Accounted, Balanced, BumpsAccountForWork
<1>2. Spec => []CyclesOK
  BY CyclesOKInit, CyclesOKStep, PTL DEF Spec
<1>3. Spec => []WorkInv
  BY <1>2, WorkInvInit, WorkInvStep, PTL DEF Spec
<1> QED
  BY <1>1, <1>3, PTL

-----------------------------------------------------------------------------
(* A repeat always has a point to go to. *)

(* FindNearest returns -1 on an empty store (store.go:70-83), with which   *)
(* Strengthen and Replace would index the points.  The store was looked at *)
(* in another critical section, and by then held a point.                  *)
RepeatHasNearest ==
  \A w \in Workers : pc[w] = "nearest" => \E i \in Indices : IsNearest(cand[w].x, i)

LEMMA SmallestOf ==
  ASSUME NEW T, T \subseteq Nat, T # {}
  PROVE  \E m \in T : \A n \in T : m <= n
<1>1. PICK m \in T : \A n \in T : ~ (<<n, m>> \in OpToRel(<, Nat))
  BY NatLessThanWellFounded, WFMin
<1>2. \A n \in T : ~ (n < m)
  BY <1>1 DEF OpToRel
<1> QED
  BY <1>2

LEMMA NearestExists ==
  ASSUME TypeOKStore, NEW x \in Designs, Indices # {}
  PROVE  \E i \in Indices : IsNearest(x, i)
<1> DEFINE d(i) == Dist[x][points[i].x]
           D == {d(i) : i \in Indices}
<1>1. \A i \in Indices : d(i) \in Nat
  BY PointAt, StoreAssumption DEF Point, StoreAssumption
<1>2. PICK m \in D : \A n \in D : m <= n
  <2>1. D \subseteq Nat /\ D # {}
    BY <1>1
  <2> HIDE DEF D
  <2> QED
    BY <2>1, SmallestOf
<1> DEFINE I == {i \in Indices : d(i) = m}
<1>3. PICK i \in I : \A j \in I : i <= j
  <2>1. I \subseteq Nat /\ I # {}
    BY <1>2 DEF Indices
  <2> HIDE DEF I
  <2> QED
    BY <2>1, SmallestOf
<1>4. i \in Indices /\ d(i) = m /\ \A j \in Indices : d(i) <= d(j)
  BY <1>2, <1>3
<1>5. ASSUME NEW j \in 1 .. i - 1 PROVE d(i) < d(j)
  <2>1. j \in Indices /\ ~ (i <= j) /\ i \in Nat
    BY <1>4, <1>5, LenProperties DEF Indices, TypeOKStore
  <2>2. j \notin I
    BY <2>1, <1>3
  <2>3. d(j) # m /\ m <= d(j) /\ d(j) \in Nat /\ m \in Nat
    BY <2>1, <2>2, <1>1, <1>2, <1>4
  <2> QED
    BY <2>3, <1>4
<1> QED
  BY <1>4, <1>5 DEF IsNearest

(* What the look that called it a repeat leaves behind. *)
RepeatInv == \A w \in Workers : pc[w] = "nearest" => Indices # {}

LEMMA RepeatInvStep == CyclesOK /\ RepeatInv /\ [Next]_vars => RepeatInv'
<1> SUFFICES ASSUME CyclesOK, RepeatInv, [Next]_vars,
                    NEW v \in Workers, pc'[v] = "nearest"
             PROVE  Indices' # {}
  BY DEF RepeatInv
<1>1. TypeOK
  BY DEF CyclesOK
<1>2. Indices \subseteq Indices'
  BY StoreStep, <1>1, LenProperties DEF StoreKept, Indices, TypeOK, TypeOKStore
<1>3. CASE pc[v] = "nearest"
  BY <1>2, <1>3 DEF RepeatInv
<1>4. CASE pc[v] # "nearest"
  <2>1. PICK w \in Workers : LookUp(w) /\ ~ IsNew(cand[w].x)
    BY <1>1, <1>4 DEF Next, Worker, StopAtBoundary, RetireAtBoundary, StartCycle,
       CyclesDone, Solve, Record, Rejected, EscapeAccepted, GlassDone, CleanAccepted,
       RetryDone, RescueDone, SolveInterrupted, LookUp, AddNew, FindNearest,
       StrengthenRepeat, ReplaceRepeat, Recorded, Exit, Judge, CutShort, LeaveLoop,
       NextCycle, Goto, Assemble, Environment, Expire, Cancel, HardStop, Retire,
       Unworked, vars, TypeOK
  <2>2. Indices # {}
    BY <2>1 DEF IsNew
  <2> QED
    BY <2>2, <1>2
<1> QED
  BY <1>3, <1>4

(* Whatever the other workers recorded or replaced since the look-up, a    *)
(* worker with a repeat finds a nearest point: the one step of a cycle     *)
(* whose way out depends on the store is never stuck, and never indexes    *)
(* the points with -1.                                                     *)
THEOREM RepeatsHaveANearest == Spec => []RepeatHasNearest
<1>1. Spec => []CyclesOK
  BY CyclesOKInit, CyclesOKStep, PTL DEF Spec
<1>2. Init => RepeatInv
  BY DEF Init, RepeatInv
<1>3. Spec => []RepeatInv
  BY <1>1, <1>2, RepeatInvStep, PTL DEF Spec
<1>4. CyclesOK /\ RepeatInv => RepeatHasNearest
  <2> SUFFICES ASSUME CyclesOK, RepeatInv, NEW w \in Workers, pc[w] = "nearest"
               PROVE  \E i \in Indices : IsNearest(cand[w].x, i)
    BY DEF RepeatHasNearest
  <2>1. Indices # {} /\ TypeOKStore /\ cand[w].x \in Designs
    BY DEF RepeatInv, CyclesOK, TypeOK, CycleInv, Candidate, Recording
  <2> QED
    BY <2>1, NearestExists
<1> QED
  BY <1>1, <1>3, <1>4, PTL

-----------------------------------------------------------------------------
(* A design is recorded once, or once for every worker at most. *)

(* What a worker looks up is the same design as itself, and no other is at *)
(* no distance from it.                                                    *)
DistancesTell ==
  /\ \A x, y \in Designs : Dist[x][y] = 0 <=> x = y
  /\ \A x \in Designs : FpDist[x][x] = 0
  /\ Dt > 0

(* The places x is at or may get to: the points that hold it, those a      *)
(* worker is about to put it in, and a new one for every worker that is    *)
(* about to add it.                                                        *)
Adders(x) == {w \in Workers : pc[w] = "add" /\ cand[w].x = x}
Repeaters(x) == {w \in Workers : pc[w] \in {"strengthen", "replace"} /\ cand[w].x = x}

Claims(x) ==
  {<<"at", i>> : i \in Copies(x)} \cup {<<"at", target[w]>> : w \in Repeaters(x)}
    \cup {<<"new", w>> : w \in Adders(x)}

(* Once x is in the store, whoever looks finds it there: the only claims   *)
(* that are left are those of the workers that had looked before, one each.*)
ClaimsOf(x) == Copies(x) # {} => Cardinality(Claims(x)) <= Cardinality(Workers)
ClaimsInv == \A x \in Designs : ClaimsOf(x)

LEMMA SubsetBelow ==
  ASSUME NEW S, IsFiniteSet(S), NEW T, T \subseteq S, NEW n \in Nat,
         Cardinality(S) <= n
  PROVE  Cardinality(T) <= n
  BY FS_Subset, FS_CardinalityType

LEMMA ClaimsFinite ==
  ASSUME CyclesOK, NEW x
  PROVE  IsFiniteSet(Claims(x)) /\ Cardinality(Claims(x)) \in Nat
<1> DEFINE A == {"at"} \X Indices
           B == {"new"} \X Workers
<1>1. IsFiniteSet(Indices) /\ IsFiniteSet({"at"}) /\ IsFiniteSet({"new"})
  <2>1. Len(points) \in Nat
    BY LenProperties DEF CyclesOK, TypeOK, TypeOKStore
  <2>2. IsFiniteSet(1 .. Len(points))
    BY <2>1, FS_Interval
  <2> QED
    BY <2>2, FS_Singleton DEF Indices
<1>2. IsFiniteSet(A) /\ IsFiniteSet(B)
  BY <1>1, FS_Product, SearchAssumption DEF SearchAssumption
<1>3. Claims(x) \subseteq A \cup B
  BY CandOK DEF Claims, Copies, Repeaters, Adders, Recording
<1>4. IsFiniteSet(A \cup B)
  BY <1>2, FS_Union
<1> QED
  BY <1>3, <1>4, FS_Subset, FS_CardinalityType

(* The first copy leaves each of the other workers one claim at most.      *)
LEMMA FirstCopy ==
  ASSUME NEW x, NEW w \in Workers, NEW i,
         Copies(x)' \subseteq {i}, Copies(x)' # {},
         pc'[w] \notin {"add", "strengthen", "replace"}
  PROVE  Cardinality(Claims(x)') <= Cardinality(Workers)
<1> DEFINE claim(v) == IF v = w THEN <<"at", i>>
                       ELSE IF pc'[v] = "add" THEN <<"new", v>>
                       ELSE <<"at", target'[v]>>
           f == [v \in Workers |-> claim(v)]
           T == {f[v] : v \in Workers}
<1>1. f \in Surjection(Workers, T)
  BY DEF Surjection
<1>2. IsFiniteSet(Workers)
  BY SearchAssumption DEF SearchAssumption
<1>3. IsFiniteSet(T) /\ Cardinality(T) <= Cardinality(Workers)
  BY <1>1, <1>2, FS_Surjection
<1>4. Claims(x)' \subseteq T
  <2>1. \A v \in Adders(x)' : v \in Workers /\ v # w /\ pc'[v] = "add"
    BY DEF Adders
  <2>2. \A v \in Repeaters(x)' : v \in Workers /\ v # w /\ pc'[v] # "add"
    BY DEF Repeaters
  <2>3. \A j \in Copies(x)' : <<"at", j>> = f[w]
    OBVIOUS
  <2>4. \A v \in Adders(x)' : <<"new", v>> = f[v]
    BY <2>1
  <2>5. \A v \in Repeaters(x)' : <<"at", target'[v]>> = f[v]
    BY <2>2
  <2> QED
    BY <2>1, <2>2, <2>3, <2>4, <2>5 DEF Claims
<1> HIDE DEF T
<1>5. Cardinality(Workers) \in Nat
  BY <1>2, FS_CardinalityType
<1> QED
  BY <1>3, <1>4, <1>5, SubsetBelow

(* How a worker comes to add a design, or to go to a point with it.        *)
LEMMA HowClaimed ==
  ASSUME TypeOK, [Next]_vars, NEW v \in Workers
  PROVE  /\ pc'[v] = "add" =>
              /\ cand'[v] = cand[v]
              /\ pc[v] = "add" \/ (LookUp(v) /\ IsNew(cand[v].x))
         /\ pc'[v] \in {"strengthen", "replace"} =>
              /\ cand'[v] = cand[v]
              /\ \/ pc[v] \in {"strengthen", "replace"} /\ target'[v] = target[v]
                 \/ FindNearest(v)
<1>1. CASE Worker(v)
  BY <1>1 DEF Worker, StopAtBoundary, RetireAtBoundary, StartCycle, CyclesDone, Solve,
     Record, Rejected, EscapeAccepted, GlassDone, CleanAccepted, RetryDone, RescueDone,
     SolveInterrupted, LookUp, AddNew, FindNearest, StrengthenRepeat, ReplaceRepeat,
     Recorded, Exit, Judge, CutShort, LeaveLoop, NextCycle, Goto, body, TypeOK
<1>2. ASSUME NEW w \in Workers \ {v}, Worker(w)
      PROVE  pc'[v] = pc[v] /\ cand'[v] = cand[v] /\ target'[v] = target[v]
  BY <1>2 DEF Worker, StopAtBoundary, RetireAtBoundary, StartCycle, CyclesDone, Solve,
     Record, Rejected, EscapeAccepted, GlassDone, CleanAccepted, RetryDone, RescueDone,
     SolveInterrupted, LookUp, AddNew, FindNearest, StrengthenRepeat, ReplaceRepeat,
     Recorded, Exit, Judge, CutShort, LeaveLoop, NextCycle, Goto, ForgetBody, body, TypeOK
<1>3. Assemble \/ Environment \/ UNCHANGED vars =>
        pc'[v] = pc[v] /\ cand'[v] = cand[v] /\ target'[v] = target[v]
  BY DEF Assemble, Environment, Expire, Cancel, HardStop, Retire, Unworked, body, vars
<1> QED
  BY <1>1, <1>2, <1>3 DEF Next

(* Where x is in the store, a step of whoever had not looked yet claims    *)
(* nothing more: IsNew says no, and the nearest point is one that holds x. *)
LEMMA NoMoreClaims ==
  ASSUME DistancesTell, CyclesOK, [Next]_vars, NEW x \in Designs, Copies(x) # {}
  PROVE  /\ Adders(x)' \subseteq Adders(x)
         /\ \A v \in Repeaters(x)' :
              \/ v \in Repeaters(x) /\ target'[v] = target[v]
              \/ target'[v] \in Copies(x)
<1>1. PICK j \in Indices : points[j].x = x
  BY DEF Copies
<1>2. TypeOK /\ \A i \in Indices : points[i].x \in Designs
  BY PointAt DEF CyclesOK, TypeOK, Point
<1>3. ~ IsNew(x)
  BY <1>1, StoreAssumption DEF IsNew, SameAs, DistancesTell, StoreAssumption
<1>4. ASSUME NEW i, IsNearest(x, i) PROVE i \in Copies(x)
  <2>1. i \in Indices /\ Dist[x][points[i].x] <= Dist[x][x]
    BY <1>1, <1>4 DEF IsNearest
  <2>2. Dist[x][x] = 0 /\ Dist[x][points[i].x] \in Nat
    BY <1>2, <2>1, StoreAssumption DEF DistancesTell, StoreAssumption
  <2> QED
    BY <1>2, <2>1, <2>2 DEF DistancesTell, Copies
<1>5. Adders(x)' \subseteq Adders(x)
  BY <1>2, <1>3, HowClaimed DEF Adders
<1>6. ASSUME NEW v \in Repeaters(x)'
      PROVE  \/ v \in Repeaters(x) /\ target'[v] = target[v]
             \/ target'[v] \in Copies(x)
  <2>1. /\ v \in Workers /\ cand'[v] = cand[v] /\ cand[v].x = x
        /\ \/ pc[v] \in {"strengthen", "replace"} /\ target'[v] = target[v]
           \/ FindNearest(v)
    BY <1>2, <1>6, HowClaimed DEF Repeaters
  <2>2. FindNearest(v) => IsNearest(x, target'[v])
    BY <1>2, <2>1 DEF FindNearest, TypeOK
  <2> QED
    BY <1>4, <2>1, <2>2 DEF Repeaters
<1> QED
  BY <1>5, <1>6

(* What the two steps that write a design do to the copies of x.           *)
LEMMA AddCopies ==
  ASSUME CyclesOK, NEW w \in Workers, AddNew(w), NEW x
  PROVE  /\ Copies(x)' = IF cand[w].x = x THEN Copies(x) \cup {Len(points) + 1}
                                          ELSE Copies(x)
         /\ pc[w] = "add" /\ pc'[w] \in {"top", "exit"}
<1>1. /\ TypeOKStore /\ Len(points) \in Nat
      /\ Len(points') = Len(points) + 1
      /\ \A i \in Indices : points'[i] = points[i]
      /\ points'[Len(points) + 1].x = cand[w].x
  <2>1. /\ cand[w].x \in Designs /\ cand[w].merit \in Merits
        /\ cand[w].status \in Recordable
    BY CandOK DEF AddNew, Recording
  <2>2. /\ TypeOKStore /\ Add(cand[w].x, cand[w].merit, cand[w].status)
    BY DEF AddNew, CyclesOK, TypeOK
  <2>3. /\ Len(points') = Len(points) + 1
        /\ \A i \in Indices : points'[i] = points[i]
        /\ points'[Len(points')] =
             [x |-> cand[w].x, merit |-> cand[w].merit, status |-> cand[w].status,
              version |-> 0, strengthened |-> 0]
    BY <2>1, <2>2, AddPoint
  <2> QED
    BY <2>2, <2>3, LenProperties DEF TypeOKStore
<1>2. Indices' = Indices \cup {Len(points) + 1}
  BY <1>1 DEF Indices
<1>3. pc[w] = "add" /\ pc'[w] \in {"top", "exit"}
  BY DEF AddNew, Recorded, CutShort, LeaveLoop, NextCycle, Goto, CyclesOK, TypeOK
<1> QED
  BY <1>1, <1>2, <1>3 DEF Copies

LEMMA ReplaceCopies ==
  ASSUME CyclesOK, NEW w \in Workers, ReplaceRepeat(w), NEW x
  PROVE  /\ Copies(x)' \subseteq IF cand[w].x = x THEN Copies(x) \cup {target[w]}
                                                  ELSE Copies(x)
         /\ pc[w] = "replace" /\ pc'[w] \in {"top", "exit"}
<1>1. /\ target[w] \in Indices
      /\ cand[w].x \in Designs /\ cand[w].merit \in Merits
      /\ TypeOKStore /\ Replace(target[w], cand[w].x, cand[w].merit)
  BY CandOK DEF ReplaceRepeat, Recording, CyclesOK, TypeOK
<1>2. Len(points') = Len(points)
  BY <1>1, ReplacePoint
<1>3. \A i \in Indices :
        points'[i].x = points[i].x \/ (i = target[w] /\ points'[i].x = cand[w].x)
  <2>1. CASE points' = points
    BY <2>1
  <2>2. CASE points' = [points EXCEPT ![target[w]] =
                          Improved(@, cand[w].x, cand[w].merit)]
    BY <1>1, <2>2 DEF Improved, TypeOKStore, Indices
  <2> QED
    BY <1>1, <2>1, <2>2 DEF Replace
<1>4. pc[w] = "replace" /\ pc'[w] \in {"top", "exit"}
  BY DEF ReplaceRepeat, Recorded, CutShort, LeaveLoop, NextCycle, Goto, CyclesOK, TypeOK
<1> QED
  BY <1>2, <1>3, <1>4 DEF Copies, Indices

LEMMA StrengthenCopies ==
  ASSUME CyclesOK, NEW w \in Workers, StrengthenRepeat(w), NEW x
  PROVE  Copies(x)' = Copies(x)
<1>1. /\ target[w] \in Indices
      /\ TypeOKStore /\ Strengthen(target[w])
  BY CandOK DEF StrengthenRepeat, Recording, CyclesOK, TypeOK
<1>2. Len(points') = Len(points)
  BY <1>1, StrengthenPoint
<1>3. \A i \in Indices : points'[i].x = points[i].x
  BY <1>1, PointAt DEF Strengthen, Point, TypeOKStore, Indices
<1> QED
  BY <1>2, <1>3 DEF Copies, Indices

(* Claims only shrink where x has a copy and no step makes another one.    *)
LEMMA ClaimsShrink ==
  ASSUME DistancesTell, CyclesOK, [Next]_vars, NEW x \in Designs,
         Copies(x)' \subseteq Copies(x), ClaimsOf(x)
  PROVE  ClaimsOf(x)'
<1> SUFFICES ASSUME Copies(x)' # {}
             PROVE  Cardinality(Claims(x)') <= Cardinality(Workers)
  BY DEF ClaimsOf
<1>1. Copies(x) # {} /\ Cardinality(Claims(x)) <= Cardinality(Workers)
  BY DEF ClaimsOf
<1>2. Claims(x)' \subseteq Claims(x)
  BY <1>1, NoMoreClaims DEF Claims
<1>3. Cardinality(Workers) \in Nat
  BY SearchAssumption, FS_CardinalityType DEF SearchAssumption
<1> QED
  BY <1>1, <1>2, <1>3, ClaimsFinite, SubsetBelow

(* An Add turns the claim of its worker into a copy.                       *)
LEMMA AddKeepsClaims ==
  ASSUME DistancesTell, CyclesOK, [Next]_vars, NEW x \in Designs, ClaimsOf(x),
         NEW w \in Workers, AddNew(w)
  PROVE  ClaimsOf(x)'
<1> DEFINE n == Len(points) + 1
<1> SUFFICES ASSUME Copies(x)' # {}, cand[w].x = x
             PROVE  Cardinality(Claims(x)') <= Cardinality(Workers)
  BY AddCopies, ClaimsShrink DEF ClaimsOf
<1>1. /\ Copies(x)' = Copies(x) \cup {n}
      /\ pc[w] = "add" /\ pc'[w] \notin {"add", "strengthen", "replace"}
  BY AddCopies
<1>2. CASE Copies(x) = {}
  BY <1>1, <1>2, FirstCopy
<1>3. CASE Copies(x) # {}
  <2> DEFINE C == Claims(x) \ {<<"new", w>>}
  <2>1. <<"new", w>> \in Claims(x)
    BY <1>1 DEF Claims, Adders
  <2>2. /\ \A v \in Adders(x)' : v \in Adders(x) /\ v # w
        /\ \A v \in Repeaters(x)' :
             \/ v \in Repeaters(x) /\ target'[v] = target[v]
             \/ target'[v] \in Copies(x)
    BY <1>1, <1>3, NoMoreClaims DEF Adders
  <2>3. Claims(x)' \subseteq C \cup {<<"at", n>>}
    <3>1. \A i : i \in Copies(x) => <<"at", i>> \in C
      BY DEF Claims
    <3>2. \A v \in Repeaters(x) : <<"at", target[v]>> \in C
      BY DEF Claims
    <3>3. \A v \in Adders(x)' : <<"new", v>> \in C
      BY <2>2 DEF Claims
    <3>4. \A v \in Repeaters(x)' : <<"at", target'[v]>> \in C
      BY <2>2, <3>1, <3>2
    <3> HIDE DEF C
    <3> QED
      BY <1>1, <3>1, <3>3, <3>4 DEF Claims
  <2>4. /\ IsFiniteSet(C) /\ Cardinality(C) = Cardinality(Claims(x)) - 1
        /\ Cardinality(Claims(x)) \in Nat
        /\ Cardinality(Claims(x)) <= Cardinality(Workers)
    BY <1>3, <2>1, ClaimsFinite, FS_RemoveElement DEF ClaimsOf
  <2> HIDE DEF C
  <2>5. /\ IsFiniteSet(C \cup {<<"at", n>>})
        /\ Cardinality(C \cup {<<"at", n>>}) <= Cardinality(C) + 1
    <3>1. Cardinality(C) \in Nat
      BY <2>4, FS_CardinalityType
    <3>2. /\ IsFiniteSet(C \cup {<<"at", n>>})
          /\ Cardinality(C \cup {<<"at", n>>}) =
               IF <<"at", n>> \in C THEN Cardinality(C) ELSE Cardinality(C) + 1
      BY <2>4, FS_AddElement
    <3> QED
      BY <3>1, <3>2
  <2>6. Cardinality(Workers) \in Nat
    BY SearchAssumption, FS_CardinalityType DEF SearchAssumption
  <2>7. Cardinality(C \cup {<<"at", n>>}) <= Cardinality(Workers)
    <3>1. Cardinality(C \cup {<<"at", n>>}) \in Nat
      BY <2>5, FS_CardinalityType
    <3> QED
      BY <2>4, <2>5, <2>6, <3>1
  <2> QED
    BY <2>3, <2>5, <2>6, <2>7, SubsetBelow
<1> QED
  BY <1>2, <1>3

(* A Replace puts the design where its worker had claimed it would.        *)
LEMMA ReplaceKeepsClaims ==
  ASSUME DistancesTell, CyclesOK, [Next]_vars, NEW x \in Designs, ClaimsOf(x),
         NEW w \in Workers, ReplaceRepeat(w)
  PROVE  ClaimsOf(x)'
<1> SUFFICES ASSUME Copies(x)' # {}, cand[w].x = x
             PROVE  Cardinality(Claims(x)') <= Cardinality(Workers)
  BY ReplaceCopies, ClaimsShrink DEF ClaimsOf
<1>1. /\ Copies(x)' \subseteq Copies(x) \cup {target[w]}
      /\ pc[w] = "replace" /\ pc'[w] \notin {"add", "strengthen", "replace"}
  BY ReplaceCopies
<1>2. CASE Copies(x) = {}
  BY <1>1, <1>2, FirstCopy
<1>3. CASE Copies(x) # {}
  <2>1. w \in Repeaters(x)
    BY <1>1 DEF Repeaters
  <2>2. Claims(x)' \subseteq Claims(x)
    BY <1>1, <1>3, <2>1, NoMoreClaims DEF Claims
  <2>3. Cardinality(Claims(x)) <= Cardinality(Workers) /\ Cardinality(Workers) \in Nat
    BY <1>3, SearchAssumption, FS_CardinalityType DEF ClaimsOf, SearchAssumption
  <2> QED
    BY <2>2, <2>3, ClaimsFinite, SubsetBelow
<1> QED
  BY <1>2, <1>3

LEMMA ClaimsInvStep ==
  ASSUME DistancesTell
  PROVE  CyclesOK /\ ClaimsInv /\ [Next]_vars => ClaimsInv'
<1> SUFFICES ASSUME CyclesOK, ClaimsInv, [Next]_vars, NEW x \in Designs
             PROVE  ClaimsOf(x)'
  BY DEF ClaimsInv
<1>1. ClaimsOf(x)
  BY DEF ClaimsInv
<1>2. CASE UNCHANGED points
  BY <1>1, <1>2, ClaimsShrink DEF Copies, Indices
<1>3. CASE \E w \in Workers : StrengthenRepeat(w)
  BY <1>1, <1>3, StrengthenCopies, ClaimsShrink
<1>4. CASE \E w \in Workers : AddNew(w)
  BY <1>1, <1>4, AddKeepsClaims
<1>5. CASE \E w \in Workers : ReplaceRepeat(w)
  BY <1>1, <1>5, ReplaceKeepsClaims
<1> QED
  BY <1>2, <1>3, <1>4, <1>5, WritersOnly

LEMMA ClaimsInvInit == Init => ClaimsInv
<1>1. Init => \A x : Copies(x) = {}
  BY DEF Init, StoreInit, Copies, Indices
<1> QED
  BY <1>1 DEF ClaimsInv, ClaimsOf

(* Where the distances tell the designs apart, the workers together record *)
(* a design at most once each, for any number of workers and cycles: the   *)
(* gap between IsNew and Add lets in one copy for every worker that had    *)
(* looked before the first was there, and none ever after.                 *)
THEOREM CopiesAreBounded ==
  ASSUME DistancesTell
  PROVE  Spec => []OneCopyPerWorker
<1>1. CyclesOK /\ ClaimsInv => OneCopyPerWorker
  <2> SUFFICES ASSUME CyclesOK, ClaimsInv, NEW x \in Designs
               PROVE  Cardinality(Copies(x)) <= Cardinality(Workers)
    BY DEF OneCopyPerWorker
  <2>0. Cardinality(Workers) \in Nat
    BY SearchAssumption, FS_CardinalityType DEF SearchAssumption
  <2> SUFFICES ASSUME Copies(x) # {}
               PROVE  Cardinality(Copies(x)) <= Cardinality(Workers)
    BY <2>0, FS_EmptySet
  <2> DEFINE f == [i \in Copies(x) |-> <<"at", i>>]
  <2>1. f \in Injection(Copies(x), Claims(x))
    BY DEF Injection, IsInjective, Claims
  <2>2. IsFiniteSet(Claims(x)) /\ Cardinality(Claims(x)) <= Cardinality(Workers)
    BY ClaimsFinite DEF ClaimsInv, ClaimsOf
  <2>3. IsFiniteSet(Copies(x)) /\ Cardinality(Copies(x)) <= Cardinality(Claims(x))
    BY <2>1, <2>2, FS_Injection
  <2>4. Cardinality(Copies(x)) \in Nat /\ Cardinality(Claims(x)) \in Nat
    BY <2>2, <2>3, FS_CardinalityType
  <2> QED
    BY <2>0, <2>2, <2>3, <2>4
<1>2. Spec => []CyclesOK
  BY CyclesOKInit, CyclesOKStep, PTL DEF Spec
<1>3. CyclesOK /\ ClaimsInv /\ [Next]_vars => ClaimsInv'
  BY ClaimsInvStep
<1>4. Spec => []ClaimsInv
  BY <1>2, <1>3, ClaimsInvInit, PTL DEF Spec
<1> QED
  BY <1>1, <1>2, <1>4, PTL

-----------------------------------------------------------------------------
(* Every worker comes to an end. *)

(* The order of the places within a cycle, and how far a worker has come:  *)
(* a cycle has no more than a dozen places.                                *)
Place(l) ==
  CASE l = "top" -> 0
    [] l = "escape" -> 1
    [] l = "glass" -> 2
    [] l = "clean" -> 3
    [] l = "retry" -> 4
    [] l = "rescue" -> 5
    [] l = "lookup" -> 6
    [] l = "add" -> 7
    [] l = "nearest" -> 7
    [] l = "strengthen" -> 8
    [] l = "replace" -> 9
    [] l = "exit" -> 10
    [] OTHER -> 11

Way(w) == 12 * cycle[w] + Place(pc[w])

Advances(w) ==
  \/ cycle'[w] = cycle[w] /\ Place(pc[w]) < Place(pc'[w])
  \/ cycle'[w] = cycle[w] + 1 /\ Place(pc[w]) < 10

LEMMA PlaceType == \A l : Place(l) \in 0 .. 11
  BY DEF Place

LEMMA AdvancesMeans ==
  ASSUME TypeOK, NEW w \in Workers, Advances(w)
  PROVE  Way(w) < Way(w)'
<1>1. cycle[w] \in Nat /\ Place(pc[w]) \in 0 .. 11 /\ Place(pc'[w]) \in 0 .. 11
  BY PlaceType DEF TypeOK
<1>2. Way(w)' = 12 * cycle'[w] + Place(pc'[w])
  BY DEF Way
<1> QED
  BY <1>1, <1>2 DEF Advances, Way

(* The two ways a step leaves its place, and that of one that goes on.     *)
LEMMA NextCycleAdvances ==
  ASSUME TypeOK, NEW w \in Workers, NextCycle(w), pc[w] \in Solving \cup Recording
  PROVE  Advances(w)
  BY DEF TypeOK, NextCycle, Advances, Place, Solving, Recording

LEMMA LeaveLoopAdvances ==
  ASSUME TypeOK, NEW w \in Workers, LeaveLoop(w),
         pc[w] \in {"top"} \cup Solving \cup Recording, UNCHANGED cycle
  PROVE  Advances(w)
  BY DEF TypeOK, LeaveLoop, Goto, Advances, Place, Solving, Recording

LEMMA GotoAdvances ==
  ASSUME TypeOK, NEW w \in Workers, NEW l, Goto(w, l), UNCHANGED cycle,
         Place(pc[w]) < Place(l)
  PROVE  Advances(w)
  BY DEF TypeOK, Goto, Advances

LEMMA JudgeAdvances ==
  ASSUME TypeOK, NEW w \in Workers, NEW x, Judge(w, x), pc[w] \in Solving \ {"rescue"}
  PROVE  Advances(w)
<1>1. CASE NextCycle(w)
  BY <1>1, NextCycleAdvances
<1>2. ASSUME NEW l \in {"lookup", "rescue"}, Goto(w, l), UNCHANGED cycle
      PROVE  Advances(w)
  <2>1. Place(pc[w]) < Place(l)
    BY <1>2 DEF Place, Solving
  <2> QED
    BY <1>2, <2>1, GotoAdvances
<1> QED
  BY <1>1, <1>2 DEF Judge

LEMMA BoundaryAdvances ==
  ASSUME TypeOK, NEW w \in Workers,
         StopAtBoundary(w) \/ RetireAtBoundary(w) \/ StartCycle(w) \/ CyclesDone(w)
  PROVE  Advances(w)
<1>1. CASE StartCycle(w)
  BY <1>1, GotoAdvances DEF StartCycle, AtBoundary, Place
<1>2. CASE ~ StartCycle(w)
  BY <1>2, LeaveLoopAdvances
     DEF StopAtBoundary, RetireAtBoundary, CyclesDone, AtBoundary, CutShort, LeaveLoop
<1> QED
  BY <1>1, <1>2

LEMMA SolveAdvances ==
  ASSUME TypeOK, NEW w \in Workers, Solve(w)
  PROVE  Advances(w)
<1>1. CASE Rejected(w)
  BY <1>1, NextCycleAdvances, LeaveLoopAdvances DEF Rejected, LeaveLoop, Solving
<1>2. CASE EscapeAccepted(w)
  <2>1. pc[w] = "escape" /\ pc[w] \in Solving \ {"rescue"}
    BY <1>2 DEF EscapeAccepted, Solving
  <2>2. ASSUME NEW l \in {"glass", "clean"}, Goto(w, l), UNCHANGED cycle
        PROVE  Advances(w)
    BY <2>1, <2>2, GotoAdvances DEF Place
  <2> QED
    BY <1>2, <2>1, <2>2, JudgeAdvances DEF EscapeAccepted
<1>3. CASE GlassDone(w)
  <2>1. pc[w] = "glass" /\ pc[w] \in Solving \ {"rescue"}
    BY <1>3 DEF GlassDone, Solving
  <2>2. Goto(w, "clean") /\ UNCHANGED cycle => Advances(w)
    BY <2>1, GotoAdvances DEF Place
  <2> QED
    BY <1>3, <2>1, <2>2, JudgeAdvances DEF GlassDone
<1>4. CASE CleanAccepted(w)
  <2>1. pc[w] = "clean" /\ pc[w] \in Solving \ {"rescue"}
    BY <1>4 DEF CleanAccepted, Solving
  <2>2. Goto(w, "retry") /\ UNCHANGED cycle => Advances(w)
    BY <2>1, GotoAdvances DEF Place
  <2> QED
    BY <1>4, <2>1, <2>2, JudgeAdvances DEF CleanAccepted
<1>5. CASE RetryDone(w)
  BY <1>5, JudgeAdvances DEF RetryDone, Solving
<1>6. CASE RescueDone(w)
  BY <1>6, GotoAdvances DEF RescueDone, Place
<1>7. CASE SolveInterrupted(w)
  <2>1. pc[w] \in Solving
    BY <1>7 DEF SolveInterrupted
  <2>2. CutShort(w) => Advances(w)
    BY <2>1, LeaveLoopAdvances DEF CutShort, LeaveLoop
  <2>3. Goto(w, "lookup") /\ UNCHANGED cycle => Advances(w)
    <3>1. Place(pc[w]) < Place("lookup")
      BY <2>1 DEF Place, Solving
    <3> QED
      BY <3>1, GotoAdvances
  <2> QED
    BY <1>7, <2>2, <2>3 DEF SolveInterrupted
<1> QED
  BY <1>1, <1>2, <1>3, <1>4, <1>5, <1>6, <1>7 DEF Solve

LEMMA RecordAdvances ==
  ASSUME TypeOK, NEW w \in Workers, Record(w)
  PROVE  Advances(w)
<1>1. CASE LookUp(w)
  <2>1. ASSUME NEW l \in {"add", "nearest"}, Goto(w, l), UNCHANGED cycle
        PROVE  Advances(w)
    BY <1>1, <2>1, GotoAdvances DEF LookUp, Place
  <2> QED
    BY <1>1, <2>1 DEF LookUp
<1>2. CASE AddNew(w) \/ ReplaceRepeat(w)
  <2>1. pc[w] \in Recording /\ Recorded(w)
    BY <1>2 DEF AddNew, ReplaceRepeat, Recording
  <2> QED
    BY <2>1, NextCycleAdvances, LeaveLoopAdvances DEF Recorded, CutShort, LeaveLoop
<1>3. CASE FindNearest(w)
  BY <1>3, GotoAdvances DEF FindNearest, Place
<1>4. CASE StrengthenRepeat(w)
  BY <1>4, GotoAdvances DEF StrengthenRepeat, Place
<1> QED
  BY <1>1, <1>2, <1>3, <1>4 DEF Record

LEMMA WorkerAdvances ==
  ASSUME TypeOK, NEW w \in Workers, Worker(w)
  PROVE  Way(w) < Way(w)'
<1>1. CASE Exit(w)
  <2>1. Goto(w, "done") /\ UNCHANGED cycle /\ Place(pc[w]) < Place("done")
    BY <1>1 DEF Exit, HasLeft, Place
  <2> QED
    BY <2>1, GotoAdvances, AdvancesMeans
<1> QED
  BY <1>1, BoundaryAdvances, SolveAdvances, RecordAdvances, AdvancesMeans DEF Worker

(* A worker's steps touch no other worker's place.                         *)
LEMMA OneAtATime ==
  ASSUME TypeOK, NEW w \in Workers, Worker(w), NEW v \in Workers \ {w}
  PROVE  pc'[v] = pc[v] /\ cycle'[v] = cycle[v]
  BY DEF Worker, StopAtBoundary, RetireAtBoundary, StartCycle, CyclesDone, Solve,
     Record, Rejected, EscapeAccepted, GlassDone, CleanAccepted, RetryDone, RescueDone,
     SolveInterrupted, LookUp, AddNew, FindNearest, StrengthenRepeat, ReplaceRepeat,
     Recorded, Exit, Judge, CutShort, LeaveLoop, NextCycle, Goto, TypeOK

(* Whatever the workers run into, each step of a worker brings it further  *)
(* on a way that has an end (a dozen places in each of its cycles, and the *)
(* exit), and nobody else's step brings it back: a worker that is          *)
(* scheduled leaves the loop of Cycle.Run, and wg.Wait returns.            *)
WorkersAdvance ==
  [][\A w \in Workers :
       /\ Way(w) <= Way(w)' /\ Way(w)' <= 12 * MaxCycles + 11
       /\ Worker(w) => Way(w) < Way(w)']_vars

THEOREM WorkersComeToAnEnd == Spec => WorkersAdvance
<1>1. Spec => []CyclesOK
  BY CyclesOKInit, CyclesOKStep, PTL DEF Spec
<1>2. CyclesOK /\ CyclesOK' /\ [Next]_vars =>
        [\A w \in Workers :
           /\ Way(w) <= Way(w)' /\ Way(w)' <= 12 * MaxCycles + 11
           /\ Worker(w) => Way(w) < Way(w)']_vars
  <2> SUFFICES ASSUME CyclesOK, CyclesOK', Next, NEW w \in Workers
               PROVE  /\ Way(w) <= Way(w)' /\ Way(w)' <= 12 * MaxCycles + 11
                      /\ Worker(w) => Way(w) < Way(w)'
    OBVIOUS
  <2>1. TypeOK /\ TypeOK'
    BY DEF CyclesOK
  <2>2. Worker(w) => Way(w) < Way(w)'
    BY <2>1, WorkerAdvances
  <2>3. /\ Way(w) = 12 * cycle[w] + Place(pc[w])
        /\ Way(w)' = 12 * cycle'[w] + Place(pc'[w])
    BY DEF Way
  <2>4. /\ cycle[w] \in Nat /\ cycle'[w] \in 0 .. MaxCycles /\ MaxCycles \in Nat
        /\ Place(pc[w]) \in 0 .. 11 /\ Place(pc'[w]) \in 0 .. 11
    BY <2>1, PlaceType, SearchAssumption DEF TypeOK, SearchAssumption
  <2>5. Way(w)' <= 12 * MaxCycles + 11
    BY <2>3, <2>4
  <2>6. ~ Worker(w) => pc'[w] = pc[w] /\ cycle'[w] = cycle[w]
    BY <2>1, OneAtATime
       DEF Next, Assemble, Environment, Expire, Cancel, HardStop, Retire, Unworked
  <2>7. Way(w) <= Way(w)'
    BY <2>2, <2>3, <2>4, <2>6
  <2> QED
    BY <2>2, <2>5, <2>7
<1> QED
  BY <1>1, <1>2, PTL DEF Spec, WorkersAdvance
=============================================================================
