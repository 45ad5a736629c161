-------------------------- MODULE EscapeSearchProofs --------------------------
(***************************************************************************)
(* What holds of EscapeSearch for any number of workers and cycles, any    *)
(* designs, distances, merits and verdicts, and any setting of the options.*)
(***************************************************************************)
EXTENDS EscapeSearch, SequenceTheorems, TLAPS

-----------------------------------------------------------------------------
(* The store's operations, in terms of the points only. *)

(* Add leaves every point alone and puts the new one after them. *)
LEMMA AddPoint ==
  ASSUME TypeOKStore, NEW x \in Designs, NEW m \in Merits,
         NEW st \in Recordable, Add(x, m, st)
  PROVE  /\ TypeOKStore'
         /\ Len(points') = Len(points) + 1
         /\ \A i \in Indices : points'[i] = points[i]
         /\ points'[Len(points')] = [x |-> x, merit |-> m, status |-> st,
                                     version |-> 0, strengthened |-> 0]
<1> DEFINE p == [x |-> x, merit |-> m, status |-> st,
                 version |-> 0, strengthened |-> 0]
<1>1. p \in Point
  BY DEF Point
<1>2. points' = Append(points, p) /\ points \in Seq(Point)
  BY DEF Add, TypeOKStore
<1> QED
  BY <1>1, <1>2, AppendProperties DEF TypeOKStore, Indices

(* Overwriting one point keeps the others, and their number. *)
LEMMA ExceptPoint ==
  ASSUME TypeOKStore, NEW i \in Indices, NEW p \in Point,
         points' = [points EXCEPT ![i] = p]
  PROVE  /\ TypeOKStore'
         /\ Len(points') = Len(points)
         /\ \A j \in Indices : points'[j] = IF j = i THEN p ELSE points[j]
  BY ExceptSeq DEF TypeOKStore, Indices

LEMMA PointAt ==
  ASSUME TypeOKStore, NEW i \in Indices
  PROVE  points[i] \in Point
  BY ElementOfSeq DEF TypeOKStore, Indices

(* Strengthen touches nothing but the bump of one point. *)
LEMMA StrengthenPoint ==
  ASSUME TypeOKStore, NEW i \in Indices, Strengthen(i)
  PROVE  /\ TypeOKStore'
         /\ Len(points') = Len(points)
         /\ \A j \in Indices : KeptOrImproved(j)
<1> DEFINE p == [points[i] EXCEPT !.strengthened = @ + 1]
<1>1. \A j \in Indices : points[j] \in Point
  BY PointAt
<1>2. p \in Point
  BY <1>1 DEF Point
<1>3. points' = [points EXCEPT ![i] = p]
  BY DEF Strengthen
<1>4. \A j \in Indices : points'[j] = IF j = i THEN p ELSE points[j]
  BY <1>2, <1>3, ExceptPoint
<1>5. \A j \in Indices : KeptOrImproved(j)
  BY <1>1, <1>4 DEF KeptOrImproved, Point
<1> QED
  BY <1>2, <1>3, <1>5, ExceptPoint

(* Replace installs the design only when it is better, and whether it does *)
(* or not the point is at least as good as the design afterwards.          *)
LEMMA ReplacePoint ==
  ASSUME TypeOKStore, NEW i \in Indices, NEW x \in Designs, NEW m \in Merits,
         Replace(i, x, m)
  PROVE  /\ TypeOKStore'
         /\ Len(points') = Len(points)
         /\ \A j \in Indices : KeptOrImproved(j)
         /\ points'[i].merit <= m
<1> DEFINE p == Improved(points[i], x, m)
<1>1. /\ \A j \in Indices : points[j] \in Point
      /\ points[i] \in Point
  BY PointAt
<1>2. /\ Merits \subseteq Nat
      /\ points[i].merit \in Nat /\ m \in Nat
  BY <1>1, StoreAssumption DEF StoreAssumption, Point
<1>3. CASE m < points[i].merit
  <2>1. p \in Point
    BY <1>1 DEF Point, Improved
  <2>2. points' = [points EXCEPT ![i] = p]
    BY <1>3 DEF Replace
  <2>3. \A j \in Indices : points'[j] = IF j = i THEN p ELSE points[j]
    BY <2>1, <2>2, ExceptPoint
  <2>4. \A j \in Indices : KeptOrImproved(j)
    BY <1>1, <1>2, <1>3, <2>3 DEF KeptOrImproved, Point, Improved
  <2>5. points'[i].merit <= m
    BY <1>2, <2>3 DEF Improved
  <2> QED
    BY <2>1, <2>2, <2>4, <2>5, ExceptPoint
<1>4. CASE ~ (m < points[i].merit)
  <2>1. points' = points
    BY <1>4 DEF Replace
  <2>2. \A j \in Indices : KeptOrImproved(j)
    BY <1>1, <1>2, <2>1 DEF KeptOrImproved, Point
  <2>3. points'[i].merit <= m
    BY <1>2, <1>4, <2>1
  <2> QED
    BY <2>1, <2>2, <2>3 DEF TypeOKStore
<1> QED
  BY <1>3, <1>4

-----------------------------------------------------------------------------
(* Types, and what the steps of a cycle rely on. *)

CyclesOK == TypeOK /\ \A w \in Workers : CycleInv(w)

LEMMA CyclesOKInit == Init => CyclesOK
<1> SUFFICES ASSUME Init PROVE CyclesOK
  OBVIOUS
<1>1. TypeOK
  <2>1. TypeOKStore
    BY EmptySeq DEF Init, StoreInit, TypeOKStore
  <2>2. pc \in [Workers -> {"top", "exit", "done"} \cup Solving \cup Recording]
    BY DEF Init
  <2>3. cycle \in [Workers -> 0 .. MaxCycles] /\ failures \in [Workers -> 0 .. MaxFail]
    BY SearchAssumption DEF Init, SearchAssumption
  <2>4. report \in Report \cup {Unreported}
    BY DEF Init
  <2>5. /\ escaped \in [Workers -> Designs \cup {None}]
        /\ cand \in [Workers -> Candidate \cup {None}]
        /\ partial \in [Workers -> BOOLEAN]
        /\ target \in [Workers -> Nat]
        /\ bestMerit \in [Workers -> Merits \cup {NoMerit}]
        /\ explored \in [Workers -> Nat]
        /\ stopped \in [Workers -> BOOLEAN]
        /\ retired \in [Workers -> BOOLEAN]
    BY DEF Init
  <2>6. /\ expired \in BOOLEAN /\ cancelled \in BOOLEAN /\ hardStop \in BOOLEAN
        /\ retire \in SUBSET Workers
        /\ timedOut \in BOOLEAN
    BY DEF Init
  <2> QED
    BY <2>1, <2>2, <2>3, <2>4, <2>5, <2>6 DEF TypeOK
<1>2. \A w \in Workers : CycleInv(w)
  BY SearchAssumption
     DEF Init, CycleInv, Solving, Recording, SearchAssumption
<1> QED
  BY <1>1, <1>2 DEF CyclesOK

(* The part of the types that a step of the cycle changes. *)
FlowOK ==
  /\ pc \in [Workers -> {"top", "exit", "done"} \cup Solving \cup Recording]
  /\ cycle \in [Workers -> 0 .. MaxCycles]
  /\ escaped \in [Workers -> Designs \cup {None}]
  /\ cand \in [Workers -> Candidate \cup {None}]
  /\ partial \in [Workers -> BOOLEAN]
  /\ target \in [Workers -> Nat]

LEMMA NextCycleOK ==
  ASSUME CyclesOK, NEW w \in Workers, cycle[w] < MaxCycles, NextCycle(w)
  PROVE  FlowOK' /\ pc' = [pc EXCEPT ![w] = "top"]
  BY SearchAssumption
     DEF CyclesOK, TypeOK, NextCycle, Goto, ForgetBody, FlowOK, SearchAssumption

LEMMA LeaveLoopOK ==
  ASSUME CyclesOK, NEW w \in Workers, LeaveLoop(w)
  PROVE  FlowOK' /\ pc' = [pc EXCEPT ![w] = "exit"]
  BY DEF CyclesOK, TypeOK, LeaveLoop, Goto, ForgetBody, FlowOK

LEMMA JudgedOK ==
  ASSUME NEW x \in Designs
  PROVE  /\ Judged(x) \in [x : Designs, merit : Merits, status : Verdicts]
         /\ Verdict[x] # "failure" => Judged(x).status \in Recordable
  BY SearchAssumption DEF Judged, SearchAssumption, Phases, Verdicts

(* Every step that ends in Judge. *)
LEMMA JudgeOK ==
  ASSUME CyclesOK, NEW w \in Workers, NEW x \in Designs,
         pc[w] \in Solving, Judge(w, x),
         UNCHANGED <<points, bestMerit, stopped, retired, stops, result>>
  PROVE  CyclesOK'
<1>1. cycle[w] < MaxCycles /\ MaxFail \in Nat \ {0}
  BY SearchAssumption DEF CyclesOK, CycleInv, SearchAssumption
<1>2. FlowOK'
  <2>1. CASE Verdict[x] = "failure"
    BY <1>1, <2>1, NextCycleOK DEF Judge
  <2>2. CASE Verdict[x] # "failure"
    BY <2>2, JudgedOK
       DEF CyclesOK, TypeOK, FlowOK, Judge, Goto, Candidate, Solving, Recording
  <2> QED
    BY <2>1, <2>2
<1>3. TypeOK'
  <2>1. failures' \in [Workers -> 0 .. MaxFail]
    BY <1>1 DEF CyclesOK, TypeOK, Judge
  <2>2. explored' \in [Workers -> Nat]
    BY DEF CyclesOK, TypeOK, Judge
  <2> QED
    BY <1>2, <2>1, <2>2
       DEF CyclesOK, TypeOK, TypeOKStore, FlowOK, stops, result
<1>4. ASSUME NEW v \in Workers PROVE CycleInv(v)'
  <2>1. CASE v # w
    BY <2>1 DEF CyclesOK, CycleInv, TypeOK, Judge, NextCycle, Goto, ForgetBody,
           Indices
  <2>2. CASE v = w /\ Verdict[x] = "failure"
    BY <1>1, <2>2
       DEF CyclesOK, CycleInv, TypeOK, Judge, NextCycle, Goto, Solving, Recording
  <2>3. CASE v = w /\ Verdict[x] # "failure"
    BY <1>1, <2>3, JudgedOK
       DEF CyclesOK, CycleInv, TypeOK, Judge, Goto, Solving, Recording, Candidate
  <2> QED
    BY <2>1, <2>2, <2>3
<1> QED
  BY <1>3, <1>4 DEF CyclesOK

(* Every step that only leaves the loop. *)
LEMMA LeaveOK ==
  ASSUME CyclesOK, NEW w \in Workers, LeaveLoop(w),
         stopped' \in [Workers -> BOOLEAN], retired' \in [Workers -> BOOLEAN],
         UNCHANGED <<points, tally, bestMerit, stops, result>>
  PROVE  CyclesOK'
<1>1. FlowOK' /\ pc' = [pc EXCEPT ![w] = "exit"]
  BY LeaveLoopOK
<1>2. TypeOK'
  BY <1>1 DEF CyclesOK, TypeOK, TypeOKStore, FlowOK, stops, result, tally
<1>3. ASSUME NEW v \in Workers PROVE CycleInv(v)'
  <2>1. CASE v # w
    BY <2>1 DEF CyclesOK, CycleInv, TypeOK, LeaveLoop, Goto, ForgetBody, Indices,
           tally
  <2>2. CASE v = w
    BY <1>1, <2>2 DEF CyclesOK, CycleInv, TypeOK, Solving, Recording
  <2> QED
    BY <2>1, <2>2
<1> QED
  BY <1>2, <1>3 DEF CyclesOK

LEMMA CutShortOK ==
  ASSUME CyclesOK, NEW w \in Workers, CutShort(w),
         UNCHANGED <<points, tally, bestMerit, retired, stops, result>>
  PROVE  CyclesOK'
<1>1. /\ stopped' \in [Workers -> BOOLEAN] /\ retired' \in [Workers -> BOOLEAN]
      /\ LeaveLoop(w)
  BY DEF CyclesOK, TypeOK, CutShort
<1> QED
  BY <1>1, LeaveOK

LEMMA BoundaryOK ==
  ASSUME CyclesOK, NEW w \in Workers,
         \/ StopAtBoundary(w) \/ RetireAtBoundary(w) \/ CyclesDone(w)
  PROVE  CyclesOK'
<1>1. CASE StopAtBoundary(w)
  BY <1>1, CutShortOK DEF StopAtBoundary
<1>2. CASE RetireAtBoundary(w)
  BY <1>2, LeaveOK DEF RetireAtBoundary, CyclesOK, TypeOK
<1>3. CASE CyclesDone(w)
  BY <1>3, LeaveOK DEF CyclesDone, CyclesOK, TypeOK
<1> QED
  BY <1>1, <1>2, <1>3

LEMMA StartOK ==
  ASSUME CyclesOK, NEW w \in Workers, StartCycle(w)
  PROVE  CyclesOK'
<1>1. TypeOK'
  BY DEF CyclesOK, TypeOK, TypeOKStore, StartCycle, Goto, body, tally, stops,
     result, Solving
<1>2. \A v \in Workers : CycleInv(v)'
  BY SearchAssumption
     DEF CyclesOK, TypeOK, CycleInv, StartCycle, AtBoundary, Goto, body, tally,
         Solving, Recording, Indices, SearchAssumption
<1> QED
  BY <1>1, <1>2 DEF CyclesOK

LEMMA RejectedOK ==
  ASSUME CyclesOK, NEW w \in Workers, Rejected(w)
  PROVE  CyclesOK'
<1>1. cycle[w] < MaxCycles /\ failures[w] < MaxFail /\ MaxFail \in Nat
  BY SearchAssumption
     DEF CyclesOK, CycleInv, Rejected, Solving, SearchAssumption
<1>2. failures' = [failures EXCEPT ![w] = @ + 1] /\ failures[w] + 1 \in 0 .. MaxFail
  BY <1>1 DEF CyclesOK, TypeOK, Rejected
<1>3. FlowOK'
  BY <1>1, NextCycleOK, LeaveLoopOK DEF Rejected
<1>4. TypeOK'
  BY <1>2, <1>3
     DEF CyclesOK, TypeOK, TypeOKStore, FlowOK, Rejected, stops, result
<1>5. ASSUME NEW v \in Workers PROVE CycleInv(v)'
  <2>1. CASE v # w
    BY <2>1 DEF CyclesOK, CycleInv, TypeOK, Rejected, LeaveLoop, NextCycle, Goto,
           ForgetBody, Indices
  <2>2. CASE v = w
    BY <1>1, <1>2, <2>2
       DEF CyclesOK, CycleInv, TypeOK, Rejected, GiveUp, LeaveLoop, NextCycle,
           Goto, Solving, Recording
  <2> QED
    BY <2>1, <2>2
<1> QED
  BY <1>4, <1>5 DEF CyclesOK

(* A step of one worker within its cycle that leaves the store alone: what *)
(* has to be shown is that the worker's own part of the state is right.    *)
LEMMA MoveOK ==
  ASSUME CyclesOK, NEW w \in Workers, pc[w] \in Solving \cup Recording,
         FlowOK', CycleInv(w)',
         \A v \in Workers \ {w} :
            /\ pc'[v] = pc[v] /\ escaped'[v] = escaped[v]
            /\ cand'[v] = cand[v] /\ target'[v] = target[v],
         UNCHANGED <<points, cycle, tally, bestMerit, stopped, retired, stops,
                     result>>
  PROVE  CyclesOK'
<1>1. TypeOK'
  BY DEF CyclesOK, TypeOK, TypeOKStore, FlowOK, tally, stops, result
<1>2. \A v \in Workers \ {w} : CycleInv(v)'
  BY DEF CyclesOK, CycleInv, Indices, tally
<1> QED
  BY <1>1, <1>2 DEF CyclesOK

LEMMA EscapeAcceptedOK ==
  ASSUME CyclesOK, NEW w \in Workers, EscapeAccepted(w)
  PROVE  CyclesOK'
<1>1. PICK x \in Designs :
        IF GlassPhase \/ CleanDLS
          THEN /\ Goto(w, IF GlassPhase THEN "glass" ELSE "clean")
               /\ escaped' = [escaped EXCEPT ![w] = x]
               /\ UNCHANGED <<cycle, cand, partial, target, tally>>
          ELSE Judge(w, x)
  BY DEF EscapeAccepted
<1>2. pc[w] = "escape" /\ pc[w] \in Solving
  BY DEF EscapeAccepted, Solving
<1>3. CASE GlassPhase \/ CleanDLS
  <2> DEFINE l == IF GlassPhase THEN "glass" ELSE "clean"
  <2>1. /\ pc' = [pc EXCEPT ![w] = l] /\ l \in {"glass", "clean"}
        /\ escaped' = [escaped EXCEPT ![w] = x]
        /\ UNCHANGED <<cycle, cand, partial, target, tally>>
    BY <1>1, <1>3 DEF Goto
  <2>2. FlowOK'
    BY <2>1 DEF CyclesOK, TypeOK, FlowOK, Solving
  <2>3. CycleInv(w)'
    BY <1>2, <2>1
       DEF CyclesOK, TypeOK, CycleInv, Solving, Recording, tally
  <2>4. \A v \in Workers \ {w} :
          /\ pc'[v] = pc[v] /\ escaped'[v] = escaped[v]
          /\ cand'[v] = cand[v] /\ target'[v] = target[v]
    BY <2>1 DEF CyclesOK, TypeOK
  <2> QED
    BY <1>2, <2>1, <2>2, <2>3, <2>4, MoveOK DEF EscapeAccepted
<1>4. CASE ~ (GlassPhase \/ CleanDLS)
  BY <1>1, <1>2, <1>4, JudgeOK DEF EscapeAccepted
<1> QED
  BY <1>3, <1>4

LEMMA GlassDoneOK ==
  ASSUME CyclesOK, NEW w \in Workers, GlassDone(w)
  PROVE  CyclesOK'
<1>1. pc[w] = "glass" /\ pc[w] \in Solving /\ escaped[w] \in Designs
  BY DEF GlassDone, Solving, CyclesOK, CycleInv
<1>2. CASE CleanDLS
  <2>1. pc' = [pc EXCEPT ![w] = "clean"] /\ UNCHANGED <<cycle, body, tally>>
    BY <1>2 DEF GlassDone, Goto
  <2>2. FlowOK'
    BY <2>1 DEF CyclesOK, TypeOK, FlowOK, Solving, body
  <2>3. CycleInv(w)'
    BY <1>1, <2>1 DEF CyclesOK, TypeOK, CycleInv, Solving, Recording, body, tally
  <2>4. \A v \in Workers \ {w} :
          /\ pc'[v] = pc[v] /\ escaped'[v] = escaped[v]
          /\ cand'[v] = cand[v] /\ target'[v] = target[v]
    BY <2>1 DEF CyclesOK, TypeOK, body
  <2> QED
    BY <1>1, <2>1, <2>2, <2>3, <2>4, MoveOK DEF GlassDone
<1>3. CASE ~ CleanDLS
  <2>1. \A y \in Designs : Settle[y] \in Designs
    BY SearchAssumption DEF SearchAssumption
  <2>2. PICK x \in Designs : Judge(w, x)
    BY <1>1, <1>3, <2>1 DEF GlassDone
  <2> QED
    BY <1>1, <2>2, JudgeOK DEF GlassDone
<1> QED
  BY <1>2, <1>3

LEMMA CleanAcceptedOK ==
  ASSUME CyclesOK, NEW w \in Workers, CleanAccepted(w)
  PROVE  CyclesOK'
<1>1. PICK x \in Designs :
        IF Merit["clean"][x] > Merit["clean"][escaped[w]]
          THEN /\ Goto(w, "retry")
               /\ cand' = [cand EXCEPT ![w] = Judged(x)]
               /\ UNCHANGED <<cycle, escaped, partial, target, tally>>
          ELSE Judge(w, x)
  BY DEF CleanAccepted
<1>2. pc[w] = "clean" /\ pc[w] \in Solving
  BY DEF CleanAccepted, Solving
<1>3. CASE Merit["clean"][x] > Merit["clean"][escaped[w]]
  <2>1. /\ pc' = [pc EXCEPT ![w] = "retry"]
        /\ cand' = [cand EXCEPT ![w] = Judged(x)] /\ Judged(x) \in Candidate
        /\ UNCHANGED <<cycle, escaped, partial, target, tally>>
    BY <1>1, <1>3, JudgedOK DEF Goto, Candidate
  <2>2. FlowOK'
    BY <2>1 DEF CyclesOK, TypeOK, FlowOK, Solving
  <2>3. CycleInv(w)'
    BY <1>2, <2>1 DEF CyclesOK, TypeOK, CycleInv, Solving, Recording, tally
  <2>4. \A v \in Workers \ {w} :
          /\ pc'[v] = pc[v] /\ escaped'[v] = escaped[v]
          /\ cand'[v] = cand[v] /\ target'[v] = target[v]
    BY <2>1 DEF CyclesOK, TypeOK
  <2> QED
    BY <1>2, <2>1, <2>2, <2>3, <2>4, MoveOK DEF CleanAccepted
<1>4. CASE ~ (Merit["clean"][x] > Merit["clean"][escaped[w]])
  BY <1>1, <1>2, <1>4, JudgeOK DEF CleanAccepted
<1> QED
  BY <1>3, <1>4

LEMMA RetryDoneOK ==
  ASSUME CyclesOK, NEW w \in Workers, RetryDone(w)
  PROVE  CyclesOK'
<1>1. pc[w] = "retry" /\ pc[w] \in Solving /\ cand[w].x \in Designs
  BY DEF RetryDone, Solving, CyclesOK, CycleInv, Candidate
<1>2. PICK x \in Designs : Judge(w, x)
  BY <1>1 DEF RetryDone
<1> QED
  BY <1>1, <1>2, JudgeOK DEF RetryDone

LEMMA RescueDoneOK ==
  ASSUME CyclesOK, NEW w \in Workers, RescueDone(w)
  PROVE  CyclesOK'
<1>1. /\ pc[w] = "rescue" /\ pc[w] \in Solving
      /\ cand[w] \in Candidate /\ cand[w].status \in Recordable
  BY DEF RescueDone, Solving, CyclesOK, CycleInv
<1>2. pc' = [pc EXCEPT ![w] = "lookup"] /\ UNCHANGED <<cycle, escaped, partial, target>>
  BY DEF RescueDone, Goto
<1>3. \/ cand' = cand
      \/ \E x \in Designs : /\ cand' = [cand EXCEPT ![w] = Judged(x)]
                            /\ Verdict[x] = "feasible"
  BY DEF RescueDone
<1>4. \E c \in Candidate : c.status \in Recordable /\ cand' = [cand EXCEPT ![w] = c]
  BY <1>1, <1>3, JudgedOK DEF CyclesOK, TypeOK, Candidate
<1>5. FlowOK'
  BY <1>2, <1>4 DEF CyclesOK, TypeOK, FlowOK, Recording
<1>6. CycleInv(w)'
  BY <1>1, <1>2, <1>4
     DEF CyclesOK, TypeOK, CycleInv, Solving, Recording, RescueDone, tally
<1>7. \A v \in Workers \ {w} :
        /\ pc'[v] = pc[v] /\ escaped'[v] = escaped[v]
        /\ cand'[v] = cand[v] /\ target'[v] = target[v]
  BY <1>2, <1>4 DEF CyclesOK, TypeOK
<1> QED
  BY <1>1, <1>2, <1>5, <1>6, <1>7, MoveOK DEF RescueDone

LEMMA SolveInterruptedOK ==
  ASSUME CyclesOK, NEW w \in Workers, SolveInterrupted(w)
  PROVE  CyclesOK'
<1>1. CASE CutShort(w)
  BY <1>1, CutShortOK DEF SolveInterrupted
<1>2. CASE ~ CutShort(w)
  <2>1. pc[w] \in Solving
    BY DEF SolveInterrupted
  <2>2. PICK x \in Designs :
          cand' = [cand EXCEPT ![w] =
                    [x |-> x, merit |-> Merit[PhaseOf(w)][x],
                     status |-> "feasible"]]
    BY <1>2 DEF SolveInterrupted
  <2>3. /\ pc' = [pc EXCEPT ![w] = "lookup"]
        /\ partial' = [partial EXCEPT ![w] = TRUE]
        /\ UNCHANGED <<cycle, escaped, target, stopped>>
    BY <1>2 DEF SolveInterrupted, Goto
  <2> DEFINE c == [x |-> x, merit |-> Merit[PhaseOf(w)][x], status |-> "feasible"]
  <2>4. c \in Candidate /\ c.status \in Recordable
    <3>1. PhaseOf(w) \in Phases
      BY DEF PhaseOf, Phases
    <3>2. Merit[PhaseOf(w)][x] \in Merits
      BY <3>1, SearchAssumption DEF SearchAssumption
    <3> QED
      BY <3>2 DEF Candidate, Verdicts, Recordable
  <2> HIDE DEF c
  <2>5. cand' = [cand EXCEPT ![w] = c]
    BY <2>2 DEF c
  <2>6. FlowOK'
    BY <2>3, <2>4, <2>5 DEF CyclesOK, TypeOK, FlowOK, Recording
  <2>7. CycleInv(w)'
    BY <2>1, <2>3, <2>4, <2>5
       DEF CyclesOK, TypeOK, CycleInv, Solving, Recording, SolveInterrupted, tally
  <2>8. \A v \in Workers \ {w} :
          /\ pc'[v] = pc[v] /\ escaped'[v] = escaped[v]
          /\ cand'[v] = cand[v] /\ target'[v] = target[v]
    BY <2>3, <2>5 DEF CyclesOK, TypeOK
  <2> QED
    BY <2>1, <2>3, <2>6, <2>7, <2>8, MoveOK DEF SolveInterrupted
<1> QED
  BY <1>1, <1>2

-----------------------------------------------------------------------------
(* Recording. *)

(* What every step of the store guarantees to the other workers. *)
StoreKept ==
  /\ TypeOKStore'
  /\ Len(points) <= Len(points')
  /\ \A i \in Indices : KeptOrImproved(i)

LEMMA CandOK ==
  ASSUME CyclesOK, NEW w \in Workers, pc[w] \in Recording
  PROVE  /\ cand[w].x \in Designs /\ cand[w].merit \in Merits
         /\ cand[w].status \in Recordable
         /\ cycle[w] < MaxCycles
         /\ failures[w] < MaxFail
         /\ pc[w] \in {"strengthen", "replace"} => target[w] \in Indices
  BY DEF CyclesOK, CycleInv, Candidate, Recording

LEMMA AddKept ==
  ASSUME CyclesOK, NEW w \in Workers, AddNew(w)
  PROVE  StoreKept /\ \E i \in 1 .. Len(points') : points'[i].merit <= cand[w].merit
<1>1. /\ cand[w].x \in Designs /\ cand[w].merit \in Merits
      /\ cand[w].status \in Recordable
  BY CandOK DEF AddNew, Recording
<1>2. TypeOKStore /\ Add(cand[w].x, cand[w].merit, cand[w].status)
  BY DEF AddNew, CyclesOK, TypeOK
<1>3. /\ TypeOKStore'
      /\ Len(points') = Len(points) + 1
      /\ \A i \in Indices : points'[i] = points[i]
      /\ points'[Len(points')] =
           [x |-> cand[w].x, merit |-> cand[w].merit, status |-> cand[w].status,
            version |-> 0, strengthened |-> 0]
  BY <1>1, <1>2, AddPoint
<1>4. Len(points) \in Nat /\ cand[w].merit \in Nat
  BY <1>1, <1>2, StoreAssumption, LenProperties DEF TypeOKStore, StoreAssumption
<1>5. \A i \in Indices : KeptOrImproved(i)
  BY <1>2, <1>3, PointAt DEF KeptOrImproved, Point
<1>6. \E i \in 1 .. Len(points') : points'[i].merit <= cand[w].merit
  <2>1. Len(points') \in 1 .. Len(points')
    BY <1>3, <1>4
  <2>2. points'[Len(points')].merit <= cand[w].merit
    BY <1>3, <1>4
  <2> QED
    BY <2>1, <2>2
<1> QED
  BY <1>3, <1>4, <1>5, <1>6 DEF StoreKept

LEMMA StrengthenKept ==
  ASSUME CyclesOK, NEW w \in Workers, StrengthenRepeat(w)
  PROVE  StoreKept
<1>1. target[w] \in Indices
  BY CandOK DEF StrengthenRepeat, Recording
<1>2. /\ TypeOKStore' /\ Len(points') = Len(points)
      /\ \A i \in Indices : KeptOrImproved(i)
  BY <1>1, StrengthenPoint DEF StrengthenRepeat, CyclesOK, TypeOK
<1>3. Len(points) \in Nat
  BY LenProperties DEF CyclesOK, TypeOK, TypeOKStore
<1> QED
  BY <1>2, <1>3 DEF StoreKept

LEMMA ReplaceKept ==
  ASSUME CyclesOK, NEW w \in Workers, ReplaceRepeat(w)
  PROVE  StoreKept /\ \E i \in 1 .. Len(points') : points'[i].merit <= cand[w].merit
<1>1. /\ target[w] \in Indices
      /\ cand[w].x \in Designs /\ cand[w].merit \in Merits
  BY CandOK DEF ReplaceRepeat, Recording
<1>2. /\ TypeOKStore' /\ Len(points') = Len(points)
      /\ \A i \in Indices : KeptOrImproved(i)
      /\ points'[target[w]].merit <= cand[w].merit
  BY <1>1, ReplacePoint DEF ReplaceRepeat, CyclesOK, TypeOK
<1>3. Len(points) \in Nat
  BY LenProperties DEF CyclesOK, TypeOK, TypeOKStore
<1> QED
  BY <1>1, <1>2, <1>3 DEF StoreKept, Indices

(* Every step that ends with Recorded, whatever it did to the store. *)
LEMMA RecordedOK ==
  ASSUME CyclesOK, NEW w \in Workers, pc[w] \in Recording, Recorded(w), StoreKept,
         UNCHANGED <<tally, retired, stops, result>>
  PROVE  CyclesOK'
<1>1. /\ cand[w].merit \in Merits /\ cycle[w] < MaxCycles /\ failures[w] < MaxFail
  BY CandOK
<1>2. FlowOK' /\ pc' = [pc EXCEPT ![w] = IF partial[w] THEN "exit" ELSE "top"]
  BY <1>1, NextCycleOK, LeaveLoopOK DEF Recorded, CutShort
<1>3. /\ bestMerit' \in [Workers -> Merits \cup {NoMerit}]
      /\ stopped' \in [Workers -> BOOLEAN]
  BY <1>1 DEF Recorded, CutShort, CyclesOK, TypeOK
<1>4. TypeOK'
  BY <1>2, <1>3
     DEF CyclesOK, TypeOK, FlowOK, StoreKept, tally, stops, result
<1>5. Indices \subseteq Indices'
  BY LenProperties DEF StoreKept, Indices, CyclesOK, TypeOK, TypeOKStore
<1>6. ASSUME NEW v \in Workers PROVE CycleInv(v)'
  <2>1. CASE v # w
    BY <1>5, <2>1
       DEF CyclesOK, CycleInv, TypeOK, Recorded, CutShort, LeaveLoop, NextCycle,
           Goto, ForgetBody, tally
  <2>2. CASE v = w
    BY <1>1, <1>2, <2>2 DEF CyclesOK, TypeOK, CycleInv, Solving, Recording, tally
  <2> QED
    BY <2>1, <2>2
<1> QED
  BY <1>4, <1>6 DEF CyclesOK

LEMMA LookUpOK ==
  ASSUME CyclesOK, NEW w \in Workers, LookUp(w)
  PROVE  CyclesOK'
<1> DEFINE l == IF IsNew(cand[w].x) THEN "add" ELSE "nearest"
<1>1. /\ pc[w] = "lookup" /\ pc[w] \in Solving \cup Recording
      /\ pc' = [pc EXCEPT ![w] = l] /\ l \in {"add", "nearest"}
      /\ UNCHANGED <<cycle, escaped, cand, partial, target, tally>>
  BY DEF LookUp, Goto, Recording, body
<1> HIDE DEF l
<1>2. FlowOK'
  BY <1>1 DEF CyclesOK, TypeOK, FlowOK, Recording
<1>3. CycleInv(w)'
  BY <1>1 DEF CyclesOK, TypeOK, CycleInv, Solving, Recording, tally
<1>4. \A v \in Workers \ {w} :
        /\ pc'[v] = pc[v] /\ escaped'[v] = escaped[v]
        /\ cand'[v] = cand[v] /\ target'[v] = target[v]
  BY <1>1 DEF CyclesOK, TypeOK
<1> QED
  BY <1>1, <1>2, <1>3, <1>4, MoveOK DEF LookUp

LEMMA FindNearestOK ==
  ASSUME CyclesOK, NEW w \in Workers, FindNearest(w)
  PROVE  CyclesOK'
<1>1. PICK i \in Indices : target' = [target EXCEPT ![w] = i]
  BY DEF FindNearest
<1>2. i \in Nat
  BY DEF Indices
<1>3. /\ pc[w] = "nearest" /\ pc[w] \in Solving \cup Recording
      /\ pc' = [pc EXCEPT ![w] = "strengthen"]
      /\ UNCHANGED <<points, cycle, escaped, cand, partial, tally>>
  BY DEF FindNearest, Goto, Recording
<1>4. FlowOK'
  BY <1>1, <1>2, <1>3 DEF CyclesOK, TypeOK, FlowOK, Recording
<1>5. CycleInv(w)'
  BY <1>1, <1>3 DEF CyclesOK, TypeOK, CycleInv, Solving, Recording, Indices, tally
<1>6. \A v \in Workers \ {w} :
        /\ pc'[v] = pc[v] /\ escaped'[v] = escaped[v]
        /\ cand'[v] = cand[v] /\ target'[v] = target[v]
  BY <1>1, <1>3 DEF CyclesOK, TypeOK
<1> QED
  BY <1>3, <1>4, <1>5, <1>6, MoveOK DEF FindNearest

LEMMA StrengthenRepeatOK ==
  ASSUME CyclesOK, NEW w \in Workers, StrengthenRepeat(w)
  PROVE  CyclesOK'
<1>1. StoreKept
  BY StrengthenKept
<1>2. /\ pc[w] = "strengthen"
      /\ pc' = [pc EXCEPT ![w] = "replace"]
      /\ UNCHANGED <<cycle, body, tally, bestMerit, stopped, retired, stops,
                     result>>
  BY DEF StrengthenRepeat, Goto
<1>3. TypeOK'
  BY <1>1, <1>2
     DEF CyclesOK, TypeOK, StoreKept, Recording, body, tally, stops, result
<1>4. Indices \subseteq Indices'
  BY <1>1, LenProperties DEF StoreKept, Indices, CyclesOK, TypeOK, TypeOKStore
<1>5. \A v \in Workers : CycleInv(v)'
  BY <1>2, <1>4
     DEF CyclesOK, TypeOK, CycleInv, Solving, Recording, body, tally
<1> QED
  BY <1>3, <1>5 DEF CyclesOK

LEMMA RecordOK ==
  ASSUME CyclesOK, NEW w \in Workers, Record(w)
  PROVE  CyclesOK'
<1>1. CASE AddNew(w)
  BY <1>1, AddKept, RecordedOK DEF AddNew, Recording
<1>2. CASE ReplaceRepeat(w)
  BY <1>2, ReplaceKept, RecordedOK DEF ReplaceRepeat, Recording
<1> QED
  BY <1>1, <1>2, LookUpOK, FindNearestOK, StrengthenRepeatOK DEF Record

LEMMA SolveOK ==
  ASSUME CyclesOK, NEW w \in Workers, Solve(w)
  PROVE  CyclesOK'
  BY RejectedOK, EscapeAcceptedOK, GlassDoneOK, CleanAcceptedOK, RetryDoneOK,
     RescueDoneOK, SolveInterruptedOK DEF Solve

LEMMA ExitOK ==
  ASSUME CyclesOK, NEW w \in Workers, Exit(w)
  PROVE  CyclesOK'
<1>1. TypeOK'
  BY DEF CyclesOK, TypeOK, TypeOKStore, Exit, StoppedByTime, Goto, body, tally, stops
<1>2. \A v \in Workers : CycleInv(v)'
  BY DEF CyclesOK, TypeOK, CycleInv, Exit, Goto, body, tally, Solving, Recording,
         Indices
<1> QED
  BY <1>1, <1>2 DEF CyclesOK

LEMMA AssembleOK ==
  ASSUME CyclesOK, Assemble
  PROVE  CyclesOK'
<1>1. Len(points) \in Nat
  BY LenProperties DEF CyclesOK, TypeOK, TypeOKStore
<1>2. report' \in Report
  BY <1>1 DEF Assemble, Report, CyclesOK, TypeOK
<1>3. TypeOK'
  BY <1>2 DEF CyclesOK, TypeOK, TypeOKStore, Assemble, body, tally, stops
<1>4. \A v \in Workers : CycleInv(v)'
  BY DEF CyclesOK, CycleInv, Assemble, body, tally, Indices
<1> QED
  BY <1>3, <1>4 DEF CyclesOK

LEMMA EnvironmentOK ==
  ASSUME CyclesOK, Environment
  PROVE  CyclesOK'
<1>1. /\ Unworked
      /\ expired' \in BOOLEAN /\ cancelled' \in BOOLEAN /\ hardStop' \in BOOLEAN
      /\ retire' \in SUBSET Workers
  BY DEF CyclesOK, TypeOK, Environment, Expire, Cancel, HardStop, Retire
<1>2. TypeOK'
  BY <1>1 DEF CyclesOK, TypeOK, TypeOKStore, Unworked, body, tally, result
<1>3. \A v \in Workers : CycleInv(v)'
  BY <1>1 DEF CyclesOK, CycleInv, Unworked, body, tally, Indices
<1> QED
  BY <1>2, <1>3 DEF CyclesOK

LEMMA CyclesOKStep ==
  CyclesOK /\ [Next]_vars => CyclesOK'
<1> SUFFICES ASSUME CyclesOK, [Next]_vars PROVE CyclesOK'
  OBVIOUS
<1>1. ASSUME NEW w \in Workers, Worker(w) PROVE CyclesOK'
  BY <1>1, BoundaryOK, StartOK, SolveOK, RecordOK, ExitOK DEF Worker
<1>2. CASE UNCHANGED vars
  BY <1>2 DEF CyclesOK, TypeOK, TypeOKStore, CycleInv, Indices, vars, body,
     tally, stops, result
<1> QED
  BY <1>1, <1>2, AssembleOK, EnvironmentOK DEF Next

(* Type correctness: every variable, the store included, stays in its type *)
(* whatever the workers, the clock, the operator and the guard do; the     *)
(* counters never pass the cycle budget and the rejection limit.           *)
THEOREM TypeCorrect == Spec => []TypeOK
<1>1. Spec => []CyclesOK
  BY CyclesOKInit, CyclesOKStep, PTL DEF Spec
<1>2. CyclesOK => TypeOK
  BY DEF CyclesOK
<1> QED
  BY <1>1, <1>2, PTL

(* A worker that was rejected maxFail times in a row has left its loop,    *)
(* for every maxFail and every number of cycles and workers.               *)
THEOREM PatienceIsKept == Spec => []PatienceKept
<1>1. Spec => []CyclesOK
  BY CyclesOKInit, CyclesOKStep, PTL DEF Spec
<1>2. CyclesOK => PatienceKept
  <2> SUFFICES ASSUME CyclesOK, NEW w \in Workers, failures[w] = MaxFail
               PROVE  pc[w] \in {"exit", "done"}
    BY DEF PatienceKept
  <2>1. pc[w] \in {"top", "exit", "done"} \cup Solving \cup Recording
    BY DEF CyclesOK, TypeOK
  <2>2. pc[w] \notin {"top"} \cup Solving \cup Recording
    BY SearchAssumption DEF CyclesOK, CycleInv, SearchAssumption
  <2> QED
    BY <2>1, <2>2
<1> QED
  BY <1>1, <1>2, PTL

-----------------------------------------------------------------------------
(* The store only improves. *)

LEMMA UntouchedKept ==
  ASSUME CyclesOK, UNCHANGED points
  PROVE  StoreKept
<1>1. Len(points) \in Nat
  BY LenProperties DEF CyclesOK, TypeOK, TypeOKStore
<1>2. \A i \in Indices : KeptOrImproved(i)
  BY PointAt DEF KeptOrImproved, Point, CyclesOK, TypeOK
<1> QED
  BY <1>1, <1>2 DEF StoreKept, CyclesOK, TypeOK, TypeOKStore

(* Only three steps write to the store. *)
LEMMA WritersOnly ==
  ASSUME [Next]_vars
  PROVE  \/ UNCHANGED points
         \/ \E w \in Workers : AddNew(w) \/ StrengthenRepeat(w) \/ ReplaceRepeat(w)
<1>1. ASSUME NEW w \in Workers, Worker(w),
             ~ (AddNew(w) \/ StrengthenRepeat(w) \/ ReplaceRepeat(w))
      PROVE  UNCHANGED points
  BY <1>1 DEF Worker, StopAtBoundary, RetireAtBoundary, StartCycle, CyclesDone,
     Solve, Rejected, EscapeAccepted, GlassDone, CleanAccepted, RetryDone,
     RescueDone, SolveInterrupted, Record, LookUp, FindNearest, Exit
<1>2. Assemble \/ Environment => UNCHANGED points
  BY DEF Assemble, Environment, Expire, Cancel, HardStop, Retire, Unworked
<1> QED
  BY <1>1, <1>2 DEF Next, vars

LEMMA StoreStep ==
  ASSUME CyclesOK, [Next]_vars
  PROVE  StoreKept
  BY WritersOnly, UntouchedKept, AddKept, StrengthenKept, ReplaceKept

(* The indices and versions the stream and the saver are given mean what   *)
(* they take them to mean, whatever the interleaving of the workers: no    *)
(* step of Store.Add, Strengthen or Replace takes a point away, changes    *)
(* its classification, weakens its bump or puts a worse design in it.      *)
THEOREM StoreImproves == Spec => StoreOnlyImproves
<1>1. CyclesOK /\ [Next]_vars =>
        [/\ Len(points) <= Len(points')
         /\ \A i \in Indices : KeptOrImproved(i)]_vars
  BY StoreStep DEF StoreKept
<1> QED
  BY <1>1, CyclesOKInit, CyclesOKStep, PTL DEF Spec, StoreOnlyImproves

-----------------------------------------------------------------------------
(* No work is lost. *)

(* What is as good as m stays as good as m in a store that only improves. *)
LEMMA StaysAsGood ==
  ASSUME CyclesOK, StoreKept, NEW m \in Merits,
         NEW i \in Indices, points[i].merit <= m
  PROVE  i \in Indices' /\ points'[i].merit <= m
<1>1. /\ Len(points) \in Nat /\ Len(points') \in Nat
      /\ Merits \subseteq Nat
  BY LenProperties, StoreAssumption
     DEF CyclesOK, TypeOK, StoreKept, TypeOKStore, StoreAssumption
<1>2. i \in Indices'
  BY <1>1 DEF StoreKept, Indices
<1>3. points[i] \in Point /\ points'[i] \in Point
  BY <1>2, ElementOfSeq DEF StoreKept, TypeOKStore, Indices, CyclesOK, TypeOK
<1>4. points[i].merit \in Nat /\ points'[i].merit \in Nat /\ m \in Nat
  BY <1>1, <1>3 DEF Point
<1>5. \/ points'[i].merit = points[i].merit
      \/ points'[i].merit < points[i].merit
  BY DEF StoreKept, KeptOrImproved
<1> QED
  BY <1>2, <1>4, <1>5

(* A worker remembers a merit only when it has just put it in the store. *)
LEMMA BestMeritStep ==
  ASSUME CyclesOK, [Next]_vars, NEW w \in Workers
  PROVE  \/ bestMerit'[w] = bestMerit[w]
         \/ /\ bestMerit'[w] = cand[w].merit
            /\ \E i \in 1 .. Len(points') : points'[i].merit <= cand[w].merit
<1>1. ASSUME NEW v \in Workers, Worker(v),
             ~ (AddNew(v) \/ ReplaceRepeat(v))
      PROVE  UNCHANGED bestMerit
  BY <1>1 DEF Worker, StopAtBoundary, RetireAtBoundary, StartCycle, CyclesDone,
     Solve, Rejected, EscapeAccepted, GlassDone, CleanAccepted, RetryDone,
     RescueDone, SolveInterrupted, Record, LookUp, FindNearest, StrengthenRepeat,
     Exit
<1>2. Assemble \/ Environment \/ UNCHANGED vars => UNCHANGED bestMerit
  BY DEF Assemble, Environment, Expire, Cancel, HardStop, Retire, Unworked, vars
<1>3. ASSUME NEW v \in Workers, AddNew(v) \/ ReplaceRepeat(v)
      PROVE  \/ bestMerit'[w] = bestMerit[w]
             \/ v = w /\ bestMerit'[w] = cand[w].merit
  BY <1>3 DEF AddNew, ReplaceRepeat, Recorded, CyclesOK, TypeOK
<1> QED
  BY <1>1, <1>2, <1>3, AddKept, ReplaceKept DEF Next

LEMMA BestWorkStep ==
  ASSUME CyclesOK, BestWorkKept, [Next]_vars
  PROVE  BestWorkKept'
<1> SUFFICES ASSUME NEW w \in Workers, bestMerit'[w] # NoMerit
             PROVE  \E i \in Indices' : points'[i].merit <= bestMerit'[w]
  BY DEF BestWorkKept
<1>1. CASE bestMerit'[w] = bestMerit[w]
  <2>1. PICK i \in Indices : points[i].merit <= bestMerit[w]
    BY <1>1 DEF BestWorkKept
  <2>2. bestMerit[w] \in Merits
    BY <1>1 DEF CyclesOK, TypeOK
  <2> QED
    BY <1>1, <2>1, <2>2, StoreStep, StaysAsGood
<1>2. CASE bestMerit'[w] # bestMerit[w]
  BY <1>2, BestMeritStep DEF Indices
<1> QED
  BY <1>1, <1>2

(* For any number of workers, no step of any of them makes the store lose  *)
(* what a worker's cycle achieved: it is at least as good as the best      *)
(* merit each worker brought to it.                                        *)
THEOREM BestWorkIsKept == Spec => []BestWorkKept
<1>1. Init => BestWorkKept
  BY DEF Init, BestWorkKept
<1>2. CyclesOK /\ BestWorkKept /\ [Next]_vars => BestWorkKept'
  BY BestWorkStep
<1> QED
  BY <1>1, <1>2, CyclesOKInit, CyclesOKStep, PTL DEF Spec

-----------------------------------------------------------------------------
(* Why a worker was cut short. *)

(* Stop requests and the expiry of the budget are never taken back. *)
LEMMA StopsStay ==
  ASSUME [Next]_vars
  PROVE  /\ expired => expired'
         /\ cancelled => cancelled'
         /\ hardStop => hardStop'
<1>1. ASSUME NEW w \in Workers, Worker(w) PROVE UNCHANGED stops
  BY <1>1 DEF Worker, StopAtBoundary, RetireAtBoundary, StartCycle, CyclesDone,
     Solve, Rejected, EscapeAccepted, GlassDone, CleanAccepted, RetryDone,
     RescueDone, SolveInterrupted, Record, LookUp, AddNew, FindNearest,
     StrengthenRepeat, ReplaceRepeat, Exit
<1>2. Assemble => UNCHANGED stops
  BY DEF Assemble
<1> QED
  BY <1>1, <1>2 DEF Next, Environment, Expire, Cancel, HardStop, Retire, vars, stops

(* A candidate is marked as partial only under a hard stop. *)
LEMMA PartialStep ==
  ASSUME CyclesOK, StopInv, MidDLS = FALSE, [Next]_vars, NEW w \in Workers,
         partial'[w]
  PROVE  hardStop
<1>1. CASE partial[w]
  BY <1>1 DEF StopInv
<1>2. CASE ~ partial[w]
  <2>1. ASSUME NEW v \in Workers, NextCycle(v) \/ LeaveLoop(v) PROVE ~ partial'[w]
    BY <1>2, <2>1 DEF NextCycle, LeaveLoop, ForgetBody, CyclesOK, TypeOK
  <2>2. ASSUME NEW v \in Workers, NEW x, Judge(v, x) PROVE ~ partial'[w]
    BY <1>2, <2>1, <2>2 DEF Judge
  <2>3. ASSUME NEW v \in Workers, Worker(v), ~ SolveInterrupted(v) PROVE FALSE
    <3>1. CASE StopAtBoundary(v) \/ RetireAtBoundary(v) \/ CyclesDone(v) \/ Rejected(v)
      BY <2>1, <3>1 DEF StopAtBoundary, RetireAtBoundary, CyclesDone, Rejected,
         CutShort
    <3>2. CASE StartCycle(v) \/ RescueDone(v) \/ Exit(v) \/ LookUp(v)
                 \/ FindNearest(v) \/ StrengthenRepeat(v)
      BY <1>2, <3>2 DEF StartCycle, RescueDone, Exit, LookUp, FindNearest,
         StrengthenRepeat, body
    <3>3. CASE EscapeAccepted(v)
      BY <1>2, <2>2, <3>3 DEF EscapeAccepted
    <3>4. CASE GlassDone(v)
      BY <1>2, <2>2, <3>4 DEF GlassDone, body
    <3>5. CASE CleanAccepted(v)
      BY <1>2, <2>2, <3>5 DEF CleanAccepted
    <3>6. CASE RetryDone(v)
      BY <2>2, <3>6 DEF RetryDone
    <3>7. CASE AddNew(v) \/ ReplaceRepeat(v)
      BY <2>1, <3>7 DEF AddNew, ReplaceRepeat, Recorded, CutShort
    <3> QED
      BY <2>3, <3>1, <3>2, <3>3, <3>4, <3>5, <3>6, <3>7 DEF Worker, Solve, Record
  <2>4. ASSUME NEW v \in Workers, SolveInterrupted(v) PROVE hardStop
    BY <2>4 DEF SolveInterrupted, Aborted
  <2>5. ~ Assemble /\ ~ Environment /\ ~ UNCHANGED vars
    BY <1>2 DEF Assemble, Environment, Expire, Cancel, HardStop, Retire, Unworked,
       vars, body
  <2> QED
    BY <2>3, <2>4, <2>5 DEF Next
<1> QED
  BY <1>1, <1>2

(* A worker is cut short by the budget or a stop request, nothing else. *)
LEMMA StoppedStep ==
  ASSUME CyclesOK, StopInv, MidDLS = FALSE, [Next]_vars, NEW w \in Workers,
         stopped'[w]
  PROVE  TimeUp \/ hardStop
<1>1. CASE stopped[w]
  BY <1>1 DEF StopInv
<1>2. CASE ~ stopped[w]
  <2>1. ASSUME NEW v \in Workers, Worker(v), ~ StopAtBoundary(v),
               ~ SolveInterrupted(v), ~ AddNew(v), ~ ReplaceRepeat(v)
        PROVE  UNCHANGED stopped
    BY <2>1 DEF Worker, RetireAtBoundary, StartCycle, CyclesDone, Solve, Rejected,
       EscapeAccepted, GlassDone, CleanAccepted, RetryDone, RescueDone, Record,
       LookUp, FindNearest, StrengthenRepeat, Exit
  <2>2. Assemble \/ Environment \/ UNCHANGED vars => UNCHANGED stopped
    BY DEF Assemble, Environment, Expire, Cancel, HardStop, Retire, Unworked, vars
  <2>3. ASSUME NEW v \in Workers, AddNew(v) \/ ReplaceRepeat(v)
        PROVE  stopped' = stopped \/ (partial[v] /\ hardStop)
    BY <2>3 DEF AddNew, ReplaceRepeat, Recorded, StopInv
  <2>4. ASSUME NEW v \in Workers, StopAtBoundary(v) \/ SolveInterrupted(v)
        PROVE  TimeUp \/ hardStop
    BY <2>4 DEF StopAtBoundary, SolveInterrupted, Aborted
  <2> QED
    BY <1>2, <2>1, <2>2, <2>3, <2>4 DEF Next
<1> QED
  BY <1>1, <1>2

LEMMA TimedOutStep ==
  ASSUME CyclesOK, StopInv, [Next]_vars
  PROVE  /\ timedOut' => expired
         /\ report' # Unreported => (report'.timedOut => timedOut')
<1>1. ASSUME NEW w \in Workers, Exit(w) PROVE timedOut' => expired
  BY <1>1 DEF Exit, StoppedByTime, StopInv, TimeUp
<1>2. ASSUME NEW w \in Workers, Exit(w) PROVE (timedOut => timedOut') /\ UNCHANGED report
  BY <1>2 DEF Exit, CyclesOK, TypeOK
<1>3. ASSUME NEW w \in Workers, Worker(w), ~ Exit(w) PROVE UNCHANGED result
  BY <1>3 DEF Worker, StopAtBoundary, RetireAtBoundary, StartCycle, CyclesDone,
     Solve, Rejected, EscapeAccepted, GlassDone, CleanAccepted, RetryDone,
     RescueDone, SolveInterrupted, Record, LookUp, AddNew, FindNearest,
     StrengthenRepeat, ReplaceRepeat
<1>4. Environment \/ UNCHANGED vars => UNCHANGED result
  BY DEF Environment, Expire, Cancel, HardStop, Retire, Unworked, vars
<1>5. Assemble => UNCHANGED timedOut /\ (report'.timedOut => timedOut)
  BY DEF Assemble
<1> QED
  BY <1>1, <1>2, <1>3, <1>4, <1>5 DEF Next, StopInv, result

LEMMA StopInvStep ==
  ASSUME MidDLS = FALSE
  PROVE  CyclesOK /\ StopInv /\ [Next]_vars => StopInv'
<1> SUFFICES ASSUME CyclesOK, StopInv, [Next]_vars PROVE StopInv'
  OBVIOUS
<1>1. \A w \in Workers : partial'[w] => hardStop'
  BY PartialStep, StopsStay
<1>2. \A w \in Workers : stopped'[w] => TimeUp' \/ hardStop'
  BY StoppedStep, StopsStay DEF TimeUp
<1>3. timedOut' => expired'
  BY TimedOutStep, StopsStay
<1>4. report' # Unreported => (report'.timedOut => timedOut')
  BY TimedOutStep
<1> QED
  BY <1>1, <1>2, <1>3, <1>4 DEF StopInv

(* A result says timed_out only when the time budget is used up, however a *)
(* stop request and the last checks of the workers race, provided that     *)
(* retirements wait for the cycle boundary (mid_dls_stop off): with it the *)
(* property fails.                                                         *)
THEOREM TimedOutIsBudget ==
  ASSUME MidDLS = FALSE
  PROVE  Spec => []TimedOutOnlyByBudget
<1>1. Init => StopInv
  BY DEF Init, StopInv
<1>2. CyclesOK /\ StopInv /\ [Next]_vars => StopInv'
  BY StopInvStep
<1>3. StopInv => TimedOutOnlyByBudget
  BY DEF StopInv, TimedOutOnlyByBudget
<1> QED
  BY <1>1, <1>2, <1>3, CyclesOKInit, CyclesOKStep, PTL DEF Spec

-----------------------------------------------------------------------------
(* The search implements the register. *)

LEMMA ReportStep ==
  ASSUME CyclesOK, ReportInv, [Next]_vars
  PROVE  ReportInv'
<1>1. CASE report # Unreported
  <2>1. \A w \in Workers : pc[w] = "done"
    BY <1>1 DEF ReportInv
  <2>2. ~ \E w \in Workers : Worker(w)
    BY <2>1 DEF Worker, StopAtBoundary, RetireAtBoundary, StartCycle, CyclesDone,
       AtBoundary, Solve, Rejected, EscapeAccepted, GlassDone, CleanAccepted,
       RetryDone, RescueDone, SolveInterrupted, Solving, Record, LookUp, AddNew,
       FindNearest, StrengthenRepeat, ReplaceRepeat, Exit, HasLeft
  <2>3. UNCHANGED pc
    BY <2>2 DEF Next, Assemble, Environment, Expire, Cancel, HardStop, Retire,
       Unworked, vars
  <2> QED
    BY <2>1, <2>3 DEF ReportInv
<1>2. CASE report = Unreported /\ Assemble
  BY <1>2 DEF Assemble, ReportInv
<1>3. CASE report = Unreported /\ ~ Assemble
  <2>1. ASSUME NEW w \in Workers, Worker(w) PROVE UNCHANGED report
    BY <2>1 DEF Worker, StopAtBoundary, RetireAtBoundary, StartCycle, CyclesDone,
       Solve, Rejected, EscapeAccepted, GlassDone, CleanAccepted, RetryDone,
       RescueDone, SolveInterrupted, Record, LookUp, AddNew, FindNearest,
       StrengthenRepeat, ReplaceRepeat, Exit, result
  <2>2. UNCHANGED report
    BY <1>3, <2>1 DEF Next, Environment, Expire, Cancel, HardStop, Retire, Unworked,
       vars, result
  <2> QED
    BY <1>3, <2>2 DEF ReportInv
<1> QED
  BY <1>1, <1>2, <1>3

(* The register entries the points stand for. *)
Entries == [i \in Indices |-> [class |-> points[i].status, merit |-> points[i].merit]]

LEMMA EntriesSeq ==
  ASSUME TypeOKStore
  PROVE  /\ Entries \in Seq(Register!Entry)
         /\ Len(Entries) = Len(points)
<1>1. Len(points) \in Nat
  BY LenProperties DEF TypeOKStore
<1>2. \A i \in Indices : [class |-> points[i].status, merit |-> points[i].merit]
                            \in Register!Entry
  BY PointAt DEF Point, Register!Entry
<1> QED
  BY <1>1, <1>2, IsASeq DEF Entries, Indices

(* A worker that is still at work precedes the report. *)
LEMMA AtWork ==
  ASSUME ReportInv, NEW w \in Workers, pc[w] # "done"
  PROVE  report = Unreported
  BY DEF ReportInv

LEMMA AddDiscovers ==
  ASSUME CyclesOK, ReportInv, NEW w \in Workers, AddNew(w)
  PROVE  \E e \in Register!Entry : Register!Discover(e)
<1> DEFINE e == [class |-> cand[w].status, merit |-> cand[w].merit]
<1>1. /\ cand[w].x \in Designs /\ cand[w].merit \in Merits
      /\ cand[w].status \in Recordable
  BY CandOK DEF AddNew, Recording
<1>2. e \in Register!Entry
  BY <1>1 DEF Register!Entry
<1>3. TypeOKStore /\ Add(cand[w].x, cand[w].merit, cand[w].status)
  BY DEF AddNew, CyclesOK, TypeOK
<1>4. /\ TypeOKStore'
      /\ Len(points') = Len(points) + 1
      /\ \A i \in Indices : points'[i] = points[i]
      /\ points'[Len(points')] =
           [x |-> cand[w].x, merit |-> cand[w].merit, status |-> cand[w].status,
            version |-> 0, strengthened |-> 0]
  BY <1>1, <1>3, AddPoint
<1>5. Len(points) \in Nat
  BY <1>3, LenProperties DEF TypeOKStore
<1>6. Entries' = Append(Entries, e)
  <2>1. /\ Entries \in Seq(Register!Entry) /\ Len(Entries) = Len(points)
    BY <1>3, EntriesSeq
  <2>2. /\ Append(Entries, e) \in Seq(Register!Entry)
        /\ Len(Append(Entries, e)) = Len(points) + 1
        /\ \A i \in 1 .. Len(points) : Append(Entries, e)[i] = Entries[i]
        /\ Append(Entries, e)[Len(points) + 1] = e
    BY <1>2, <2>1, AppendProperties
  <2>3. /\ Entries' \in Seq(Register!Entry) /\ Len(Entries') = Len(points) + 1
    <3>1. \A i \in Indices' : points'[i] \in Point
      BY <1>4, ElementOfSeq DEF TypeOKStore, Indices
    <3>2. \A i \in Indices' : [class |-> points'[i].status,
                               merit |-> points'[i].merit] \in Register!Entry
      BY <3>1 DEF Point, Register!Entry
    <3> QED
      BY <1>4, <1>5, <3>2, IsASeq DEF Entries, Indices
  <2>4. \A i \in 1 .. Len(points) + 1 : Entries'[i] = Append(Entries, e)[i]
    BY <1>4, <1>5, <2>2 DEF Entries, Indices
  <2> QED
    BY <2>2, <2>3, <2>4, SeqEqual
<1>7. report = Unreported /\ report' = report
  BY AtWork DEF AddNew, result
<1> QED
  BY <1>2, <1>6, <1>7 DEF Register!Discover, Entries

(* What a replacement does to the points, and when. *)
LEMMA ReplaceEffect ==
  ASSUME TypeOKStore, NEW i \in Indices, NEW x \in Designs, NEW m \in Merits,
         Replace(i, x, m)
  PROVE  \/ UNCHANGED points
         \/ /\ m < points[i].merit
            /\ Len(points') = Len(points)
            /\ \A j \in Indices :
                 points'[j] = IF j = i THEN Improved(points[i], x, m) ELSE points[j]
<1>1. points[i] \in Point
  BY PointAt
<1>2. Improved(points[i], x, m) \in Point
  BY <1>1 DEF Point, Improved
<1> QED
  BY <1>2, ExceptPoint DEF Replace

LEMMA ReplaceImproves ==
  ASSUME CyclesOK, ReportInv, NEW w \in Workers, ReplaceRepeat(w)
  PROVE  \/ UNCHANGED <<Entries, report>>
         \/ \E i \in 1 .. Len(Entries), m \in Merits : Register!Improve(i, m)
<1> DEFINE i == target[w]
           m == cand[w].merit
<1>1. /\ i \in Indices /\ cand[w].x \in Designs /\ m \in Merits
      /\ Replace(i, cand[w].x, m) /\ TypeOKStore
  BY CandOK DEF ReplaceRepeat, Recording, CyclesOK, TypeOK
<1>2. report = Unreported /\ report' = report
  BY AtWork DEF ReplaceRepeat, result
<1>3. CASE UNCHANGED points
  BY <1>2, <1>3 DEF Entries, Indices
<1>4. CASE ~ UNCHANGED points
  <2>1. /\ m < points[i].merit
        /\ Len(points') = Len(points)
        /\ \A j \in Indices :
             points'[j] = IF j = i THEN Improved(points[i], cand[w].x, m)
                          ELSE points[j]
    BY <1>1, <1>4, ReplaceEffect
  <2>2. Entries' = [Entries EXCEPT ![i].merit = m]
    BY <1>1, <2>1 DEF Entries, Improved, Indices
  <2>3. m < Entries[i].merit /\ i \in 1 .. Len(Entries)
    BY <1>1, <2>1, EntriesSeq DEF Entries, Indices
  <2> HIDE DEF i, m
  <2> QED
    BY <1>1, <1>2, <2>2, <2>3 DEF Register!Improve, Entries
<1> QED
  BY <1>3, <1>4

LEMMA StrengthenStutters ==
  ASSUME CyclesOK, NEW w \in Workers, StrengthenRepeat(w)
  PROVE  UNCHANGED <<Entries, report>>
<1> DEFINE i == target[w]
           p == [points[i] EXCEPT !.strengthened = @ + 1]
<1>1. i \in Indices /\ TypeOKStore /\ Strengthen(i)
  BY CandOK DEF StrengthenRepeat, Recording, CyclesOK, TypeOK
<1>2. points[i] \in Point
  BY <1>1, PointAt
<1>3. p \in Point /\ p.status = points[i].status /\ p.merit = points[i].merit
  BY <1>2 DEF Point
<1>4. points' = [points EXCEPT ![i] = p]
  BY <1>1 DEF Strengthen
<1> HIDE DEF p
<1>5. /\ Len(points') = Len(points)
      /\ \A j \in Indices : points'[j] = IF j = i THEN p ELSE points[j]
  BY <1>1, <1>3, <1>4, ExceptPoint
<1>6. Entries' = Entries
  BY <1>3, <1>5 DEF Entries, Indices
<1> QED
  BY <1>6 DEF StrengthenRepeat, result

LEMMA AssembleCloses ==
  ASSUME CyclesOK, Assemble
  PROVE  Register!Close
<1>1. Len(points) \in Nat /\ UNCHANGED points /\ report = Unreported
  BY LenProperties DEF Assemble, CyclesOK, TypeOK, TypeOKStore
<1>2. PICK b \in 0 .. Len(points) :
        /\ IF Listed = {} THEN b = 0 ELSE IsBest(b)
        /\ report' = [done |-> TRUE, best |-> b, timedOut |-> timedOut,
                      interrupted |-> cancelled \/ hardStop]
  BY DEF Assemble
<1>3. report' # Unreported /\ report'.best = b
  BY <1>2 DEF Unreported
<1>4. Len(Entries) = Len(points)
  BY EntriesSeq DEF CyclesOK, TypeOK
<1>5. Register!Solutions = Listed
  BY <1>4 DEF Register!Solutions, Listed, Entries, Indices
<1>6. Entries' = Entries
  BY <1>1 DEF Entries, Indices
<1>7. \A i \in Listed : Entries[i].merit = points[i].merit
  BY DEF Entries, Listed
<1>8. \/ Register!Solutions = {} /\ b = 0
      \/ /\ b \in Register!Solutions
         /\ \A j \in Register!Solutions : Entries[b].merit <= Entries[j].merit
  BY <1>2, <1>5, <1>7 DEF IsBest
<1> QED
  BY <1>1, <1>3, <1>6, <1>8 DEF Register!Close, Entries

LEMMA OthersStutter ==
  ASSUME NEW w \in Workers, Worker(w),
         ~ AddNew(w), ~ StrengthenRepeat(w), ~ ReplaceRepeat(w)
  PROVE  UNCHANGED <<points, report>>
  BY DEF Worker, StopAtBoundary, RetireAtBoundary, StartCycle, CyclesDone, Solve,
     Rejected, EscapeAccepted, GlassDone, CleanAccepted, RetryDone, RescueDone,
     SolveInterrupted, Record, LookUp, FindNearest, Exit, result

LEMMA RegisterStep ==
  ASSUME CyclesOK, ReportInv, [Next]_vars
  PROVE  Register!Next \/ UNCHANGED <<Entries, report>>
<1>1. ASSUME NEW w \in Workers, AddNew(w) PROVE Register!Next
  BY <1>1, AddDiscovers DEF Register!Next
<1>2. ASSUME NEW w \in Workers, ReplaceRepeat(w)
      PROVE  Register!Next \/ UNCHANGED <<Entries, report>>
  BY <1>2, ReplaceImproves DEF Register!Next, Entries
<1>3. ASSUME NEW w \in Workers, StrengthenRepeat(w)
      PROVE  UNCHANGED <<Entries, report>>
  BY <1>3, StrengthenStutters
<1>4. Assemble => Register!Next
  BY AssembleCloses DEF Register!Next
<1>5. UNCHANGED <<points, report>> => UNCHANGED <<Entries, report>>
  BY DEF Entries, Indices
<1>6. Environment \/ UNCHANGED vars => UNCHANGED <<points, report>>
  BY DEF Environment, Expire, Cancel, HardStop, Retire, Unworked, vars, result
<1> QED
  BY <1>1, <1>2, <1>3, <1>4, <1>5, <1>6, OthersStutter DEF Next

(* Whatever the number of workers, the search keeps what its result        *)
(* promises: minima are numbered for good in discovery order, their merits *)
(* only improve, and the best solution is named once, at the end.          *)
THEOREM SearchImplementsRegister == Spec => ImplementsRegister
<1>1. Init => Register!Init
  BY DEF Init, StoreInit, Register!Init, Indices, Unreported
<1>2. CyclesOK /\ ReportInv /\ [Next]_vars => [Register!Next]_(Register!vars)
  BY RegisterStep DEF Register!vars, Entries
<1>3. Init => ReportInv
  BY DEF Init, ReportInv
<1>4. CyclesOK /\ ReportInv /\ [Next]_vars => ReportInv'
  BY ReportStep
<1> QED
  BY <1>1, <1>2, <1>3, <1>4, CyclesOKInit, CyclesOKStep, PTL
     DEF Spec, ImplementsRegister, Register!Spec

=============================================================================
