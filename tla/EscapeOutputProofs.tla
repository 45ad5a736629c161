-------------------------- MODULE EscapeOutputProofs --------------------------
(***************************************************************************)
(* What a global search leaves behind, for any number of points, any       *)
(* merits, any failure of a write and any moment of a kill: no saved       *)
(* minimum is lost, the newest file is the minimum, and the document is    *)
(* the store.                                                              *)
(***************************************************************************)
EXTENDS EscapeOutput, FiniteSetTheorems, TLAPS

-----------------------------------------------------------------------------
(* What a recording does to the store *)

LEMMA StoreTypes ==
  ASSUME TypeOK
  PROVE  /\ points \in Seq(Point) /\ Len(points) \in Nat
         /\ \A i \in Indices : /\ points[i] \in Point /\ points[i].merit \in Nat
                               /\ points[i].merit \in Merits
                               /\ points[i].version \in Nat
         /\ \A s \in Merits : s \in Nat
         /\ Listed \subseteq Indices
<1>1. points \in Seq(Point)
  BY DEF TypeOK, TypeOKStore
<1>2. Len(points) \in Nat /\ \A i \in Indices : points[i] \in Point
  BY <1>1 DEF Indices
<1>3. \A s \in Merits : s \in Nat
  BY StoreAssumption
<1>4. \A p \in Point : p.merit \in Merits /\ p.version \in Nat
  BY DEF Point
<1>5. Listed \subseteq Indices
  BY DEF Listed
<1> QED
  BY <1>1, <1>2, <1>3, <1>4, <1>5

(* No record is None. *)
LEMMA RecordIsSet ==
  \A i \in Nat, b \in BOOLEAN, at \in {"save", "write", "stream"} :
    [point |-> i, new |-> b, at |-> at] # None
BY OutputAssumption

LEMMA DiscoverAppends ==
  ASSUME TypeOK, NEW x \in Designs, NEW m \in Merits, NEW st \in Recordable,
         Discover(x, m, st)
  PROVE  /\ points' \in Seq(Point) /\ Len(points') = Len(points) + 1
         /\ \A i \in Indices : points'[i] = points[i]
         /\ Indices' = Indices \cup {Len(points) + 1}
         /\ Listed \subseteq Listed' /\ Listed' \subseteq Listed \cup {Len(points) + 1}
         /\ step = None
         /\ step' = [point |-> Len(points) + 1, new |-> TRUE, at |-> "save"]
         /\ Len(points) + 1 \notin Indices
         /\ step' # None
<1>1. points \in Seq(Point) /\ Len(points) \in Nat
  BY StoreTypes
<1>2. [x |-> x, merit |-> m, status |-> st, version |-> 0, strengthened |-> 0] \in Point
  BY DEF Point
<1>3. /\ points' \in Seq(Point) /\ Len(points') = Len(points) + 1
      /\ \A i \in Indices : points'[i] = points[i]
  BY <1>1, <1>2 DEF Discover, Add, Indices
<1>4. Indices' = Indices \cup {Len(points) + 1} /\ Len(points) + 1 \notin Indices
  BY <1>1, <1>3 DEF Indices
<1>5. Listed \subseteq Listed' /\ Listed' \subseteq Listed \cup {Len(points) + 1}
  BY <1>3, <1>4 DEF Listed
<1>6. [point |-> Len(points) + 1, new |-> TRUE, at |-> "save"] # None
  <2>1. Len(points) + 1 \in Nat
    BY <1>1
  <2> QED BY <2>1, RecordIsSet, Zenon
<1> QED
  BY <1>3, <1>4, <1>5, <1>6 DEF Discover

LEMMA ImproveLowers ==
  ASSUME TypeOK, NEW i \in Indices, NEW x \in Designs, NEW m \in Merits,
         Improve(i, x, m)
  PROVE  /\ points' \in Seq(Point) /\ Len(points') = Len(points)
         /\ Indices' = Indices /\ Listed' = Listed
         /\ \A j \in Indices \ {i} : points'[j] = points[j]
         /\ points'[i].version = points[i].version + 1
         /\ points'[i].merit < points[i].merit
         /\ step = None
         /\ step' = [point |-> i, new |-> FALSE, at |-> "save"]
         /\ step' # None
<1> DEFINE p == Improved(points[i], x, m)
<1>1. points \in Seq(Point) /\ Len(points) \in Nat /\ points[i] \in Point
  BY StoreTypes
<1>2. m < points[i].merit /\ points' = [points EXCEPT ![i] = p]
  BY DEF Improve, Replace
<1>3. p \in Point /\ p.merit = m /\ p.version = points[i].version + 1
      /\ p.status = points[i].status
  BY <1>1 DEF Improved, Point
<1>4. /\ points' \in Seq(Point) /\ Len(points') = Len(points)
      /\ \A j \in Indices \ {i} : points'[j] = points[j]
      /\ points'[i] = p
  <2> HIDE DEF p
  <2> QED BY <1>1, <1>2, <1>3 DEF Indices
<1>5. Indices' = Indices
  BY <1>4 DEF Indices
<1>6. Listed' = Listed
  <2> HIDE DEF p
  <2> QED BY <1>3, <1>4, <1>5 DEF Listed
<1>7. [point |-> i, new |-> FALSE, at |-> "save"] # None
  <2>1. i \in Nat
    BY <1>1 DEF Indices
  <2> QED BY <2>1, RecordIsSet, Zenon
<1> QED
  <2> HIDE DEF p
  <2> QED BY <1>2, <1>3, <1>4, <1>5, <1>6, <1>7 DEF Improve

(* The next place in the record handler. *)
LEMMA GotoMoves ==
  ASSUME TypeOK, NEW at \in {"save", "write", "stream"}, step # None, Goto(at)
  PROVE  /\ step \in [point : Indices, new : BOOLEAN, at : {"save", "write", "stream"}]
         /\ step' = [point |-> step.point, new |-> step.new, at |-> at]
BY DEF TypeOK, Goto

-----------------------------------------------------------------------------
(* The saved files *)

(* The files of the point being recorded are not rewritten yet. *)
Unwritten(i) == step # None /\ step.point = i /\ step.at \in {"save", "write"}

(* Where the record handler can be. *)
StepInv ==
  step # None =>
    /\ step \in [point : Indices, new : BOOLEAN, at : {"save", "write", "stream"}]
    /\ step.new => /\ step.point = Len(points) /\ step.at # "write"
                   /\ points[step.point].version = 0

(* Every file's version is one the minimum has had and its merit one the   *)
(* minimum improved on; the name a file is renamed to is not taken, and    *)
(* the name a file is written to has just been freed.                      *)
FileInv(i, v) ==
  /\ dir[<<i, v>>] \in Merits
  /\ v <= points[i].version
  /\ dir[<<i, v>>] >= points[i].merit
  /\ v # 0 \/ Unwritten(i) => dir[<<i, v>>] > points[i].merit
  /\ Unwritten(i) /\ step.at = "save" => v < points[i].version
  /\ Unwritten(i) /\ step.at = "write" => v # 0

VersionsDescend(i) ==
  \A v, w \in Nat :
    /\ <<i, v>> \in DOMAIN dir /\ <<i, w>> \in DOMAIN dir
    /\ v # 0 /\ (w > v \/ w = 0)
    => dir[<<i, w>>] < dir[<<i, v>>]

NewestInv(i) ==
  ~saveFailed /\ (KeepInfeasible \/ i \in Listed) =>
    \/ Unwritten(i)
    \/ Current(i) \in DOMAIN dir /\ dir[Current(i)] = points[i].merit

SavedInv ==
  /\ DOMAIN dir \subseteq Indices \X Nat
  /\ \A i \in Indices, v \in Nat : <<i, v>> \in DOMAIN dir => FileInv(i, v)
  /\ \A i \in Indices : VersionsDescend(i) /\ NewestInv(i)

(* The conjuncts of TypeOK that say where the files and the handler are. *)
LEMMA FilesTyped ==
  ASSUME SavedInv
  PROVE  DOMAIN dir \subseteq Indices \X Nat /\ Range(dir) \subseteq Merits
<1>1. \A n \in DOMAIN dir : n = <<n[1], n[2]>> /\ n[1] \in Indices /\ n[2] \in Nat
  BY DEF SavedInv
<1>2. \A n \in DOMAIN dir : dir[n] \in Merits
  BY <1>1 DEF SavedInv, FileInv
<1> QED
  BY <1>2 DEF SavedInv, Range

LEMMA SavedInvImplies ==
  ASSUME SavedInv
  PROVE  NewestIsCurrent
<1>1. ASSUME step = None, ~saveFailed, NEW i \in Indices, Saves(i)
      PROVE  Current(i) \in DOMAIN dir /\ dir[Current(i)] = points[i].merit
  BY <1>1 DEF SavedInv, NewestInv, Unwritten, Saves
<1>2. ASSUME NEW n \in DOMAIN dir, NEW o \in DOMAIN dir, n[1] = o[1], n[2] # 0,
             o[2] > n[2] \/ o[2] = 0
      PROVE  dir[o] < dir[n]
  <2>1. /\ n = <<n[1], n[2]>> /\ n[1] \in Indices /\ n[2] \in Nat
        /\ o = <<n[1], o[2]>> /\ o[2] \in Nat
    BY <1>2 DEF SavedInv
  <2>2. VersionsDescend(n[1])
    BY <2>1 DEF SavedInv
  <2> QED
    BY <2>1, <2>2, <1>2 DEF VersionsDescend
<1> QED
  BY <1>1, <1>2 DEF NewestIsCurrent

LEMMA SavedInit ==
  ASSUME Init
  PROVE  SavedInv /\ StepInv
<1>1. DOMAIN dir = {} /\ Indices = {} /\ step = None
  BY DEF Init, StoreInit, Indices
<1> QED
  BY <1>1 DEF SavedInv, StepInv

(* A new point has no files: nothing of the others changes. *)
LEMMA SavedDiscover ==
  ASSUME TypeOK, SavedInv, NEW x \in Designs, NEW m \in Merits,
         NEW st \in Recordable, Discover(x, m, st)
  PROVE  SavedInv'
<1> DEFINE k == Len(points) + 1
<1>1. /\ \A i \in Indices : points'[i] = points[i]
      /\ Indices' = Indices \cup {k} /\ k \notin Indices
      /\ Listed \subseteq Listed' /\ Listed' \subseteq Listed \cup {k}
      /\ step = None /\ step' = [point |-> k, new |-> TRUE, at |-> "save"]
      /\ k \in Nat /\ step' # None
  BY DiscoverAppends, StoreTypes
<1>2. UNCHANGED <<dir, saveFailed>>
  BY DEF Discover, files
<1>4. \A i \in Indices : ~Unwritten(i) /\ ~Unwritten(i)' /\ i # k
  BY <1>1 DEF Unwritten
<1>5. \A v \in Nat : <<k, v>> \notin DOMAIN dir
  BY <1>1 DEF SavedInv
<1> HIDE DEF k
<1>7. DOMAIN dir' \subseteq Indices' \X Nat
  BY <1>1, <1>2 DEF SavedInv
<1>8. ASSUME NEW i \in Indices', NEW v \in Nat, <<i, v>> \in DOMAIN dir'
      PROVE  FileInv(i, v)'
  <2>1. i \in Indices /\ <<i, v>> \in DOMAIN dir
    BY <1>8, <1>1, <1>2, <1>5
  <2>2. FileInv(i, v)
    BY <2>1 DEF SavedInv
  <2> QED
    BY <2>1, <2>2, <1>1, <1>2, <1>4 DEF FileInv
<1>9. ASSUME NEW i \in Indices'
      PROVE  VersionsDescend(i)' /\ NewestInv(i)'
  <2>1. CASE i = k
    <3>1. Unwritten(i)'
      BY <2>1, <1>1 DEF Unwritten
    <3> QED
      BY <3>1, <2>1, <1>2, <1>5 DEF VersionsDescend, NewestInv
  <2>2. CASE i \in Indices
    <3>1. VersionsDescend(i) /\ NewestInv(i)
      BY <2>2 DEF SavedInv
    <3>2. i \in Listed' => i \in Listed
      BY <1>1, <1>4, <2>2
    <3> QED
      BY <3>1, <3>2, <2>2, <1>1, <1>2, <1>4 DEF VersionsDescend, NewestInv, Current
  <2> QED
    BY <2>1, <2>2, <1>1
<1> QED
  BY <1>7, <1>8, <1>9 DEF SavedInv

(* A replacement improves on all the files its point has. *)
LEMMA SavedImprove ==
  ASSUME TypeOK, SavedInv, NEW k \in Indices, NEW x \in Designs, NEW m \in Merits,
         Improve(k, x, m)
  PROVE  SavedInv'
<1>1. /\ Indices' = Indices /\ Listed' = Listed
      /\ \A j \in Indices \ {k} : points'[j] = points[j]
      /\ points'[k].version = points[k].version + 1
      /\ points'[k].merit < points[k].merit
      /\ step = None /\ step' = [point |-> k, new |-> FALSE, at |-> "save"]
      /\ step' # None
  BY ImproveLowers
<1>2. UNCHANGED <<dir, saveFailed>>
  BY DEF Improve, files
<1>3. /\ \A i \in Indices : ~Unwritten(i)
      /\ \A i \in Indices \ {k} : ~Unwritten(i)'
  BY <1>1 DEF Unwritten
<1>4. points[k].version \in Nat /\ points[k].merit \in Nat /\ \A s \in Merits : s \in Nat
  BY StoreTypes
<1>5. ASSUME NEW i \in Indices', NEW v \in Nat, <<i, v>> \in DOMAIN dir'
      PROVE  FileInv(i, v)'
  <2>1. i \in Indices /\ FileInv(i, v) /\ dir'[<<i, v>>] = dir[<<i, v>>]
    BY <1>5, <1>1, <1>2 DEF SavedInv
  <2>2. CASE i # k
    BY <2>1, <2>2, <1>1, <1>3 DEF FileInv
  <2>3. CASE i = k
    <3>1. /\ dir'[<<i, v>>] \in Merits /\ dir'[<<i, v>>] \in Nat
          /\ v <= points[k].version /\ dir'[<<i, v>>] >= points[k].merit
      BY <2>1, <2>3, <1>4 DEF FileInv
    <3>2. points'[k].merit \in Nat
      <4>1. \A j \in 1 .. Len(points') : points'[j] \in Point
        BY ImproveLowers
      <4> QED BY <4>1, <1>1, StoreAssumption DEF Indices, Point
    <3>3. v < points'[k].version /\ dir'[<<i, v>>] > points'[k].merit
      BY <3>1, <3>2, <1>1, <1>4
    <3>4. step'.at = "save"
      BY <1>1
    <3>5. \A a, b \in Nat : a < b => a <= b
      OBVIOUS
    <3>6. points'[k].version \in Nat
      BY <1>1, <1>4
    <3> QED
      BY <3>1, <3>2, <3>3, <3>4, <3>6, <2>3 DEF FileInv
  <2> QED
    BY <2>2, <2>3
<1>6. ASSUME NEW i \in Indices'
      PROVE  VersionsDescend(i)' /\ NewestInv(i)'
  <2>1. i \in Indices /\ VersionsDescend(i) /\ NewestInv(i)
    BY <1>1 DEF SavedInv
  <2>2. VersionsDescend(i)'
    BY <2>1, <1>2 DEF VersionsDescend
  <2>3. NewestInv(i)'
    <3>1. CASE i = k
      BY <3>1, <1>1 DEF NewestInv, Unwritten
    <3>2. CASE i # k
      BY <3>2, <2>1, <1>1, <1>2, <1>3 DEF NewestInv, Current
    <3> QED BY <3>1, <3>2
  <2> QED
    BY <2>2, <2>3
<1> QED
  BY <1>1, <1>2, <1>5, <1>6 DEF SavedInv

(* The recording of a point the saver does not save, or no longer. *)
LEMMA SavedSkip ==
  ASSUME TypeOK, SavedInv, SkipSaving
  PROVE  SavedInv'
<1>1. /\ UNCHANGED <<points, dir, saveFailed>>
      /\ step # None /\ ~Saves(step.point)
      /\ step' = [point |-> step.point, new |-> step.new, at |-> "stream"]
  BY GotoMoves DEF SkipSaving, At, files
<1>2. \A i : ~Unwritten(i)'
  BY <1>1 DEF Unwritten
<1>3. /\ Indices' = Indices /\ Listed' = Listed
      /\ saveFailed \in BOOLEAN /\ saveFailed' = saveFailed
  BY <1>1 DEF Indices, Listed, TypeOK
<1>4. ASSUME NEW i \in Indices, NEW v \in Nat, <<i, v>> \in DOMAIN dir
      PROVE  FileInv(i, v)'
  BY <1>1, <1>2, <1>4 DEF SavedInv, FileInv
<1>5. ASSUME NEW i \in Indices
      PROVE  VersionsDescend(i)' /\ NewestInv(i)'
  <2>1. VersionsDescend(i) /\ NewestInv(i)
    BY DEF SavedInv
  <2>2. VersionsDescend(i)'
    BY <2>1, <1>1 DEF VersionsDescend
  <2>3. CASE Unwritten(i)
    BY <2>2, <2>3, <1>1, <1>3 DEF NewestInv, Unwritten, Saves
  <2>4. CASE ~Unwritten(i)
    BY <2>1, <2>2, <2>4, <1>1, <1>3 DEF NewestInv, Current
  <2> QED
    BY <2>2, <2>3, <2>4
<1> QED
  BY <1>1, <1>3, <1>4, <1>5 DEF SavedInv

(* A failed rename or write leaves the files as they are. *)
LEMMA SavedFailure ==
  ASSUME TypeOK, SavedInv, step # None, Goto("stream"),
         points' = points, dir' = dir, saveFailed' = TRUE
  PROVE  SavedInv'
<1>1. Indices' = Indices
  BY DEF Indices
<1>2. \A i : ~Unwritten(i)'
  BY GotoMoves DEF Unwritten
<1>3. ASSUME NEW i \in Indices, NEW v \in Nat, <<i, v>> \in DOMAIN dir
      PROVE  FileInv(i, v)'
  BY <1>2, <1>3 DEF SavedInv, FileInv
<1>4. ASSUME NEW i \in Indices
      PROVE  VersionsDescend(i)' /\ NewestInv(i)'
  <2>1. VersionsDescend(i)
    BY DEF SavedInv
  <2> QED
    BY <2>1 DEF VersionsDescend, NewestInv
<1> QED
  BY <1>1, <1>3, <1>4 DEF SavedInv

(* A minimum may lose a name but not what was saved under it.              *)
NothingLost == \A n \in DOMAIN dir : \E o \in DOMAIN dir' :
                 o[1] = n[1] /\ dir'[o] = dir[n]

(* The replaced version takes a name no file has, which is the latest.     *)
LEMMA SavedArchive ==
  ASSUME TypeOK, SavedInv, StepInv, Archive
  PROVE  SavedInv' /\ NothingLost
<1>0. PICK k \in Indices : k = step.point
  BY DEF StepInv, Archive, At
<1> DEFINE ver == points[k].version
           from == <<k, 0>>
           to == <<k, ver>>
<1>1. /\ step \in [point : Indices, new : BOOLEAN, at : {"save", "write", "stream"}]
      /\ step # None /\ step.at = "save"
      /\ Indices' = Indices /\ Listed' = Listed /\ points' = points
      /\ saveFailed \in BOOLEAN
  BY DEF Archive, At, StepInv, Indices, Listed, TypeOK
<1>2. k \in Nat /\ step.new \in BOOLEAN /\ ver \in Nat /\ from = Current(k) /\ to = ArchiveName(k)
  BY <1>0, <1>1, StoreTypes DEF Current, Archived, ArchiveName, Indices
<1>3. /\ Unwritten(k)
      /\ \A i \in Indices \ {k} : ~Unwritten(i) /\ ~Unwritten(i)'
  BY <1>0, <1>1 DEF Unwritten, Archive, Goto
<1>4. \A i \in Indices : NewestInv(i) /\ VersionsDescend(i)
  BY DEF SavedInv
<1>5. CASE saveFailed' = TRUE /\ dir' = dir /\ Goto("stream")
  BY <1>1, <1>5, SavedFailure DEF NothingLost
<1>6. CASE dir' = Renamed(from, to) /\ saveFailed' = saveFailed /\ Goto("write")
  <2>1. /\ step' = [point |-> k, new |-> step.new, at |-> "write"]
        /\ \A i \in Indices : i # k => <<i, 0>> # from /\ <<i, 0>> # to
    BY <1>0, <1>1, <1>6, GotoMoves
  <2>2. [point |-> k, new |-> step.new, at |-> "write"] # None
    BY <1>2, RecordIsSet, Zenon
  <2>3. Unwritten(k)' /\ step'.at = "write"
    BY <2>1, <2>2 DEF Unwritten
  <2>4. \A v \in Nat : <<k, v>> \in DOMAIN dir =>
          /\ dir[<<k, v>>] \in Merits /\ dir[<<k, v>>] > points[k].merit
          /\ v < ver
    BY <1>1, <1>2, <1>3 DEF SavedInv, FileInv
  <2>5. to \notin DOMAIN dir
    BY <2>4, <1>2
  <2>6. CASE from \notin DOMAIN dir
    <3>1. dir' = dir
      BY <2>6, <1>6 DEF Renamed
    <3>2. ASSUME NEW i \in Indices, NEW v \in Nat, <<i, v>> \in DOMAIN dir
          PROVE  FileInv(i, v)'
      <4>1. i = k => v # 0
        BY <2>6, <3>2
      <4> QED
        BY <1>1, <1>3, <1>6, <2>3, <3>1, <3>2, <4>1 DEF SavedInv, FileInv
    <3>3. ASSUME NEW i \in Indices
          PROVE  VersionsDescend(i)' /\ NewestInv(i)'
      <4>1. VersionsDescend(i)'
        BY <1>4, <3>1 DEF VersionsDescend
      <4>2. NewestInv(i)'
        <5>1. CASE i = k
          BY <5>1, <2>1, <2>2 DEF NewestInv, Unwritten
        <5>2. CASE i # k
          BY <5>2, <1>1, <1>3, <1>4, <1>6, <3>1 DEF NewestInv
        <5> QED
          BY <5>1, <5>2
      <4> QED
        BY <4>1, <4>2
    <3> QED
      BY <1>1, <3>1, <3>2, <3>3 DEF SavedInv, NothingLost
  <2>7. CASE from \in DOMAIN dir
    <3>1. 0 < ver /\ to # from
      BY <2>4, <2>7
    <3>2. /\ DOMAIN dir' = (DOMAIN dir \ {from}) \cup {to}
          /\ dir'[to] = dir[from]
          /\ \A n \in DOMAIN dir : n # from => dir'[n] = dir[n]
      BY <2>5, <2>7, <3>1, <1>6 DEF Renamed
    <3> HIDE DEF ver
    <3>3. ASSUME NEW i \in Indices, NEW v \in Nat, <<i, v>> \in DOMAIN dir'
          PROVE  FileInv(i, v)'
      <4>1. CASE i # k
        <5>1. <<i, v>> \in DOMAIN dir /\ dir'[<<i, v>>] = dir[<<i, v>>]
          BY <3>2, <3>3, <4>1
        <5> QED
          BY <1>1, <1>3, <4>1, <5>1 DEF SavedInv, FileInv
      <4>2. CASE i = k
        <5>1. /\ dir'[<<k, v>>] \in Merits /\ dir'[<<k, v>>] > points[k].merit
              /\ v # 0 /\ v <= ver
          <6>1. CASE v = ver
            BY <6>1, <2>4, <2>7, <3>1, <3>2
          <6>2. CASE v # ver
            <7>1. <<k, v>> \in DOMAIN dir /\ <<k, v>> # from
              BY <6>2, <3>2, <3>3, <4>2, <3>1
            <7> QED
              BY <7>1, <2>4, <3>2, <1>2
          <6> QED
            BY <6>1, <6>2
        <5>2. dir'[<<k, v>>] \in Nat /\ points[k].merit \in Nat
          BY <5>1, <1>2, StoreTypes
        <5>3. dir'[<<k, v>>] >= points[k].merit
          BY <5>1, <5>2
        <5>4. points'[k].version = ver
          BY <1>1 DEF ver
        <5> QED
          BY <5>1, <5>3, <5>4, <4>2, <1>1, <2>3 DEF FileInv
      <4> QED
        BY <4>1, <4>2
    <3>4. VersionsDescend(k)'
      <4> SUFFICES ASSUME NEW v \in Nat, NEW w \in Nat,
                          <<k, v>> \in DOMAIN dir', <<k, w>> \in DOMAIN dir',
                          v # 0, w > v \/ w = 0
                   PROVE  dir'[<<k, w>>] < dir'[<<k, v>>]
        BY DEF VersionsDescend
      <4>1. w # 0 /\ w > v
        BY <3>1, <3>2
      <4>2. w <= ver /\ v < ver
        BY <2>4, <3>2, <4>1, <1>2
      <4>3. <<k, v>> \in DOMAIN dir /\ dir'[<<k, v>>] = dir[<<k, v>>]
        BY <3>2, <4>2, <3>1
      <4>4. CASE w = ver
        BY <4>3, <4>4, <3>2, <2>7, <1>2, <1>4 DEF VersionsDescend
      <4>5. CASE w # ver
        <5>1. <<k, w>> \in DOMAIN dir /\ dir'[<<k, w>>] = dir[<<k, w>>]
          BY <3>2, <4>1, <4>5, <3>1
        <5> QED
          BY <5>1, <4>1, <4>3, <1>2, <1>4 DEF VersionsDescend
      <4> QED
        BY <4>4, <4>5
    <3>5. ASSUME NEW i \in Indices, i # k
          PROVE  VersionsDescend(i)' /\ NewestInv(i)'
      <4>1. \A v : /\ <<i, v>> \in DOMAIN dir' <=> <<i, v>> \in DOMAIN dir
                   /\ <<i, v>> \in DOMAIN dir => dir'[<<i, v>>] = dir[<<i, v>>]
        BY <3>2, <3>5
      <4>2. VersionsDescend(i)'
        BY <4>1, <1>4 DEF VersionsDescend
      <4>3. NewestInv(i)'
        BY <4>1, <1>1, <1>3, <1>4, <1>6, <3>5 DEF NewestInv, Current
      <4> QED
        BY <4>2, <4>3
    <3>6. NewestInv(k)'
      BY <2>1, <2>2 DEF NewestInv, Unwritten
    <3>7. DOMAIN dir' \subseteq Indices' \X Nat
      BY <3>2, <1>1, <1>2 DEF SavedInv, ver
    <3>8. NothingLost
      <4> SUFFICES ASSUME NEW n \in DOMAIN dir
                   PROVE  \E o \in DOMAIN dir' : o[1] = n[1] /\ dir'[o] = dir[n]
        BY DEF NothingLost
      <4>1. CASE n = from
        BY <4>1, <3>2
      <4>2. CASE n # from
        BY <4>2, <3>2
      <4> QED
        BY <4>1, <4>2
    <3>9. \A i \in Indices' : VersionsDescend(i)' /\ NewestInv(i)'
      <4> SUFFICES ASSUME NEW i \in Indices
                   PROVE  VersionsDescend(i)' /\ NewestInv(i)'
        BY <1>1
      <4>1. CASE i # k
        BY <4>1, <3>5
      <4>2. CASE i = k
        BY <4>2, <3>4, <3>6 DEF VersionsDescend, NewestInv, Unwritten
      <4> QED
        BY <4>1, <4>2
    <3> QED
      BY <3>3, <3>7, <3>8, <3>9, <1>1 DEF SavedInv
  <2> QED
    BY <2>6, <2>7
<1> QED
  BY <1>0, <1>2, <1>5, <1>6 DEF Archive

(* The file is written under the name the archiving has freed. *)
LEMMA SavedWrite ==
  ASSUME TypeOK, SavedInv, StepInv, WriteFile
  PROVE  SavedInv' /\ NothingLost
<1>0. PICK k \in Indices : k = step.point
  BY DEF StepInv, WriteFile, At
<1> DEFINE name == <<k, 0>>
<1>1. /\ step \in [point : Indices, new : BOOLEAN, at : {"save", "write", "stream"}]
      /\ step # None /\ step.at \in {"save", "write"}
      /\ step.at = "save" => points[k].version = 0
      /\ Indices' = Indices /\ Listed' = Listed /\ points' = points
      /\ Goto("stream") /\ name = Current(k)
  BY <1>0 DEF WriteFile, At, StepInv, Indices, Listed, Current
<1>2. /\ points[k].merit \in Merits /\ points[k].merit \in Nat
      /\ points[k].version \in Nat /\ \A m \in Merits : m \in Nat
  BY StoreTypes
<1>3. Unwritten(k) /\ \A i \in Indices \ {k} : ~Unwritten(i)
  BY <1>0, <1>1 DEF Unwritten
<1>4. \A i : ~Unwritten(i)'
  BY <1>1, GotoMoves DEF Unwritten
<1>5. \A v \in Nat : <<k, v>> \in DOMAIN dir =>
        v # 0 /\ dir[<<k, v>>] \in Nat /\ points[k].merit < dir[<<k, v>>]
  <2> SUFFICES ASSUME NEW v \in Nat, <<k, v>> \in DOMAIN dir
               PROVE  v # 0 /\ dir[<<k, v>>] \in Nat /\ points[k].merit < dir[<<k, v>>]
    OBVIOUS
  <2>1. FileInv(k, v)
    BY DEF SavedInv
  <2>2. dir[<<k, v>>] \in Nat /\ points[k].merit < dir[<<k, v>>]
    BY <2>1, <1>2, <1>3 DEF FileInv
  <2>3. v # 0
    BY <2>1, <1>1, <1>2, <1>3 DEF FileInv
  <2> QED
    BY <2>2, <2>3
<1>6. name \notin DOMAIN dir
  BY <1>5
<1>7. CASE saveFailed' = TRUE /\ dir' = dir
  BY <1>1, <1>7, SavedFailure DEF NothingLost
<1>8. CASE dir' = Written(name, points[k].merit) /\ saveFailed' = saveFailed
  <2>1. /\ DOMAIN dir' = DOMAIN dir \cup {name}
        /\ dir'[name] = points[k].merit
        /\ \A n \in DOMAIN dir : dir'[n] = dir[n]
    BY <1>6, <1>8 DEF Written
  <2>2. ASSUME NEW i \in Indices, NEW v \in Nat, <<i, v>> \in DOMAIN dir'
        PROVE  FileInv(i, v)'
    <3>1. CASE <<i, v>> \in DOMAIN dir
      <4>1. FileInv(i, v) /\ dir'[<<i, v>>] = dir[<<i, v>>]
        BY <2>1, <3>1 DEF SavedInv
      <4> QED
        BY <4>1, <1>1, <1>4 DEF FileInv
    <3>2. CASE i = k /\ v = 0
      <4>1. dir'[<<i, v>>] = points[i].merit
        BY <2>1, <3>2
      <4>2. points[i].merit >= points[i].merit /\ v <= points[i].version
        BY <1>2, <3>2
      <4> QED
        BY <4>1, <4>2, <1>1, <1>2, <1>4, <3>2 DEF FileInv
    <3> QED
      BY <3>1, <3>2, <2>1, <2>2
  <2>3. ASSUME NEW i \in Indices
        PROVE  VersionsDescend(i)'
    <3> SUFFICES ASSUME NEW v \in Nat, NEW w \in Nat,
                        <<i, v>> \in DOMAIN dir', <<i, w>> \in DOMAIN dir',
                        v # 0, w > v \/ w = 0
                 PROVE  dir'[<<i, w>>] < dir'[<<i, v>>]
      BY DEF VersionsDescend
    <3>1. <<i, v>> \in DOMAIN dir /\ dir'[<<i, v>>] = dir[<<i, v>>]
      BY <2>1
    <3>2. CASE <<i, w>> \in DOMAIN dir
      <4>1. VersionsDescend(i) /\ dir'[<<i, w>>] = dir[<<i, w>>]
        BY <2>1, <3>2 DEF SavedInv
      <4> QED
        BY <4>1, <3>1, <3>2 DEF VersionsDescend
    <3>3. CASE i = k /\ w = 0
      BY <3>1, <3>3, <2>1, <1>5
    <3> QED
      BY <3>2, <3>3, <2>1
  <2>4. ASSUME NEW i \in Indices
        PROVE  NewestInv(i)'
    <3>1. CASE i = k
      BY <3>1, <2>1, <1>1 DEF NewestInv, Current
    <3>2. CASE i # k
      <4>1. NewestInv(i) /\ <<i, 0>> # name
        BY <3>2 DEF SavedInv
      <4> QED
        BY <4>1, <3>2, <2>1, <1>1, <1>3, <1>8 DEF NewestInv, Current
    <3> QED
      BY <3>1, <3>2
  <2>5. DOMAIN dir' \subseteq Indices' \X Nat
    BY <2>1, <1>1 DEF SavedInv
  <2>6. NothingLost
    BY <2>1 DEF NothingLost
  <2> QED
    BY <2>2, <2>3, <2>4, <2>5, <2>6, <1>1 DEF SavedInv
<1> QED
  BY <1>0, <1>1, <1>7, <1>8 DEF WriteFile

(* The other steps touch neither the files nor the points, and the point   *)
(* being recorded has passed the saver.                                    *)
LEMMA SavedUnchanged ==
  ASSUME SavedInv, UNCHANGED <<points, dir, saveFailed>>,
         step' = step \/ (step # None /\ step.at = "stream" /\ step' = None)
  PROVE  SavedInv'
<1>1. Indices' = Indices /\ Listed' = Listed
  BY DEF Indices, Listed
<1>2. \A i : Unwritten(i)' <=> Unwritten(i)
  BY DEF Unwritten
<1>3. ASSUME NEW i \in Indices, NEW v \in Nat, <<i, v>> \in DOMAIN dir
      PROVE  FileInv(i, v)'
  <2>1. Unwritten(i)' => step' = step
    BY DEF Unwritten
  <2> QED
    BY <1>2, <1>3, <2>1 DEF SavedInv, FileInv
<1>4. ASSUME NEW i \in Indices
      PROVE  VersionsDescend(i)' /\ NewestInv(i)'
  <2>1. VersionsDescend(i) /\ NewestInv(i)
    BY DEF SavedInv
  <2>2. VersionsDescend(i)'
    BY <2>1 DEF VersionsDescend
  <2>3. NewestInv(i)'
    BY <2>1, <1>1, <1>2 DEF NewestInv, Current
  <2> QED
    BY <2>2, <2>3
<1> QED
  BY <1>1, <1>3, <1>4 DEF SavedInv

-----------------------------------------------------------------------------
(* The streamed document *)

(* The point being recorded, when it is new and when it is a replacement.  *)
Entering(i) == step # None /\ step.point = i /\ step.new
Improving(i) == step # None /\ step.point = i /\ ~step.new

(* The positions are solutions in the order of discovery, the document     *)
(* lists them as far as it got, and while it did not fail a solution is on *)
(* its way, listed with its merit, or noted as improved.                   *)
StreamInv ==
  /\ pos \in Seq(Nat) /\ doc \in Seq([index : Nat, merit : Merits])
  /\ \A k \in 1 .. Len(pos) : pos[k] \in Listed /\ ~Entering(pos[k])
  /\ \A k, l \in 1 .. Len(pos) : k < l => pos[k] < pos[l]
  /\ improved \subseteq Range(pos) /\ streamFailed \in BOOLEAN
  /\ Len(doc) <= Len(pos) /\ \A k \in 1 .. Len(doc) : doc[k].index = pos[k]
  /\ ~streamFailed =>
       /\ Len(doc) = Len(pos)
       /\ \A i \in Listed : i \in Range(pos) \/ Entering(i)
       /\ \A k \in 1 .. Len(doc) :
            \/ doc[k].merit = points[pos[k]].merit
            \/ pos[k] \in improved \/ Improving(pos[k])

LEMMA StreamInit ==
  ASSUME Init
  PROVE  StreamInv
<1>1. /\ pos = << >> /\ doc = << >> /\ improved = {} /\ streamFailed \in BOOLEAN
      /\ Listed = {}
  BY DEF Init, StoreInit, Listed, Indices
<1> QED
  BY <1>1 DEF StreamInv, Range

LEMMA SeqOf ==
  ASSUME NEW S, NEW T, NEW s \in Seq(T), \A k \in 1 .. Len(s) : s[k] \in S
  PROVE  s \in Seq(S)
<1>1. Len(s) \in Nat /\ s \in [1 .. Len(s) -> S]
  OBVIOUS
<1> QED
  BY <1>1

LEMMA SeqElements ==
  ASSUME NEW T, NEW s \in Seq(T)
  PROVE  \A k \in 1 .. Len(s) : s[k] \in T
OBVIOUS

LEMMA StreamFacts ==
  ASSUME StreamInv
  PROVE  /\ Len(doc) \in Nat /\ Len(pos) \in Nat
         /\ DOMAIN doc = 1 .. Len(doc) /\ DOMAIN pos = 1 .. Len(pos)
         /\ \A k \in 1 .. Len(doc) :
              /\ k \in 1 .. Len(pos) /\ doc[k].index = pos[k]
              /\ doc[k].merit \in Merits
              /\ doc[k] \in [index : Listed, merit : Merits]
<1>1. /\ Len(doc) \in Nat /\ Len(pos) \in Nat /\ Len(doc) <= Len(pos)
      /\ DOMAIN doc = 1 .. Len(doc) /\ DOMAIN pos = 1 .. Len(pos)
  BY DEF StreamInv
<1>2. \A k \in 1 .. Len(doc) : doc[k] \in [index : Nat, merit : Merits]
  <2>1. doc \in Seq([index : Nat, merit : Merits])
    BY DEF StreamInv
  <2> QED
    BY <2>1, SeqElements
<1>3. \A k \in 1 .. Len(doc) : /\ k \in 1 .. Len(pos) /\ doc[k].index = pos[k]
                                /\ pos[k] \in Listed
  <2>1. \A k \in 1 .. Len(doc) : k \in 1 .. Len(pos)
    BY <1>1
  <2>2. /\ \A k \in 1 .. Len(doc) : doc[k].index = pos[k]
        /\ \A k \in 1 .. Len(pos) : pos[k] \in Listed
    BY DEF StreamInv
  <2> QED
    BY <2>1, <2>2
<1>4. \A k \in 1 .. Len(doc) : doc[k] \in [index : Listed, merit : Merits]
  <2> SUFFICES ASSUME NEW k \in 1 .. Len(doc)
               PROVE  doc[k] \in [index : Listed, merit : Merits]
    OBVIOUS
  <2>1. /\ doc[k] = [index |-> doc[k].index, merit |-> doc[k].merit]
        /\ doc[k].merit \in Merits
    BY <1>2
  <2>2. doc[k].index \in Listed
    BY <1>3
  <2> QED
    BY <2>1, <2>2
<1>5. \A k \in 1 .. Len(doc) : doc[k].merit \in Merits
  BY <1>2
<1> QED
  BY <1>1, <1>3, <1>4, <1>5

LEMMA StreamTypes ==
  ASSUME StreamInv
  PROVE  /\ pos \in Seq(Listed) /\ improved \subseteq Range(pos)
         /\ doc \in Seq([index : Listed, merit : Merits])
<1>1. /\ pos \in Seq(Nat) /\ \A k \in 1 .. Len(pos) : pos[k] \in Listed
      /\ doc \in Seq([index : Nat, merit : Merits])
  BY DEF StreamInv
<1>2. pos \in Seq(Listed)
  BY <1>1, SeqOf
<1>3. doc \in Seq([index : Listed, merit : Merits])
  BY <1>1, SeqOf, StreamFacts
<1> QED
  BY <1>2, <1>3 DEF StreamInv

LEMMA StreamInvImplies ==
  ASSUME StreamInv
  PROVE  CutDocumentIsReadable
<1>1. ASSUME NEW k \in DOMAIN doc, NEW l \in DOMAIN doc, k < l
      PROVE  doc[k].index < doc[l].index
  <2>1. /\ k \in 1 .. Len(pos) /\ l \in 1 .. Len(pos)
        /\ doc[k].index = pos[k] /\ doc[l].index = pos[l]
    BY StreamFacts
  <2> QED
    BY <1>1, <2>1 DEF StreamInv
<1>2. ASSUME ~streamFailed, NEW i \in Listed
      PROVE  \/ \E k \in DOMAIN doc : doc[k].index = i
             \/ step # None /\ step.point = i /\ step.new
  <2>1. CASE Entering(i)
    BY <2>1 DEF Entering
  <2>2. CASE i \in Range(pos)
    <3>1. PICK k \in 1 .. Len(pos) : pos[k] = i
      BY <2>2, StreamFacts DEF Range
    <3>2. k \in DOMAIN doc /\ doc[k].index = i
      BY <1>2, <3>1, StreamFacts DEF StreamInv
    <3> QED
      BY <3>2
  <2> QED
    BY <1>2, <2>1, <2>2 DEF StreamInv
<1> QED
  BY <1>1, <1>2 DEF CutDocumentIsReadable

LEMMA StreamDiscover ==
  ASSUME TypeOK, StreamInv, NEW x \in Designs, NEW m \in Merits,
         NEW st \in Recordable, Discover(x, m, st)
  PROVE  StreamInv'
<1> DEFINE k == Len(points) + 1
<1>1. /\ \A i \in Indices : points'[i] = points[i]
      /\ Indices' = Indices \cup {k} /\ k \notin Indices
      /\ Listed \subseteq Listed' /\ Listed' \subseteq Listed \cup {k}
      /\ step = None /\ step' = [point |-> k, new |-> TRUE, at |-> "save"]
      /\ step' # None
  BY DiscoverAppends
<1>2. UNCHANGED <<doc, pos, improved, streamFailed>> /\ Listed \subseteq Indices
  BY StoreTypes DEF Discover, stream
<1> HIDE DEF k
<1>3. \A i : (Entering(i)' <=> i = k) /\ ~Entering(i) /\ ~Improving(i) /\ ~Improving(i)'
  BY <1>1 DEF Entering, Improving
<1>4. \A j \in 1 .. Len(pos) : pos[j] \in Listed /\ pos[j] \in Listed' /\ pos[j] # k
                               /\ points'[pos[j]] = points[pos[j]]
  BY <1>1, <1>2 DEF StreamInv
<1>5. \A j \in 1 .. Len(pos) : ~Entering(pos[j])'
  BY <1>1, <1>2, <1>4 DEF Entering
<1>6. ~streamFailed => \A i \in Listed' : i \in Range(pos) \/ Entering(i)'
  BY <1>1, <1>3 DEF StreamInv
<1>7. ~streamFailed => \A j \in 1 .. Len(doc) :
         doc[j].merit = points'[pos[j]].merit \/ pos[j] \in improved
  BY <1>3, <1>4 DEF StreamInv
<1> QED
  BY <1>2, <1>4, <1>5, <1>6, <1>7 DEF StreamInv

LEMMA StreamImprove ==
  ASSUME TypeOK, StreamInv, NEW k \in Indices, NEW x \in Designs, NEW m \in Merits,
         Improve(k, x, m)
  PROVE  StreamInv'
<1>1. /\ Listed' = Listed
      /\ \A j \in Indices \ {k} : points'[j] = points[j]
      /\ step = None /\ step' = [point |-> k, new |-> FALSE, at |-> "save"]
      /\ step' # None
  BY ImproveLowers
<1>2. UNCHANGED <<doc, pos, improved, streamFailed>> /\ Listed \subseteq Indices
  BY StoreTypes DEF Improve, stream
<1>3. \A i : ~Entering(i) /\ ~Entering(i)' /\ ~Improving(i) /\ (Improving(i)' <=> i = k)
  BY <1>1 DEF Entering, Improving
<1>4. ~streamFailed => \A j \in 1 .. Len(doc) :
         \/ doc[j].merit = points'[pos[j]].merit
         \/ pos[j] \in improved \/ Improving(pos[j])'
  <2> SUFFICES ASSUME ~streamFailed, NEW j \in 1 .. Len(doc), pos[j] \notin improved
               PROVE  doc[j].merit = points'[pos[j]].merit \/ Improving(pos[j])'
    OBVIOUS
  <2>1. pos[j] \in Indices /\ doc[j].merit = points[pos[j]].merit
    BY <1>2, <1>3 DEF StreamInv
  <2> QED
    BY <2>1, <1>1, <1>2 DEF Improving
<1>5. \A j \in 1 .. Len(pos) : pos[j] \in Listed /\ ~Entering(pos[j])'
  BY <1>1 DEF Entering, StreamInv
<1>6. ~streamFailed => \A i \in Listed : i \in Range(pos)
  BY <1>3 DEF StreamInv
<1>7. ~streamFailed => \A j \in 1 .. Len(doc) :
        doc'[j].merit = points'[pos'[j]].merit \/ pos'[j] \in improved' \/ Improving(pos[j])'
  BY <1>2, <1>4
<1> QED
  BY <1>1, <1>2, <1>5, <1>6, <1>7 DEF StreamInv

(* The saver's steps, and a kill, leave the document and its state alone.  *)
LEMMA StreamKept ==
  ASSUME StreamInv, UNCHANGED <<points, stream>>,
         \/ step' = step
         \/ /\ step # None /\ step' # None
            /\ step'.point = step.point /\ step'.new = step.new
  PROVE  StreamInv'
<1>1. /\ \A i : (Entering(i)' <=> Entering(i)) /\ (Improving(i)' <=> Improving(i))
      /\ Listed' = Listed
  BY DEF Entering, Improving, Listed, Indices
<1> QED
  BY <1>1 DEF StreamInv, stream

(* A new solution goes to the end: no position is behind it.               *)
LEMMA StreamEnters ==
  ASSUME TypeOK, StepInv, StreamInv, StreamEntry
  PROVE  StreamInv'
<1>0. PICK i \in Listed : i = step.point
  BY DEF StreamEntry
<1>1. /\ step # None /\ step' = None /\ step.new /\ i = Len(points)
      /\ Listed' = Listed /\ points' = points /\ improved' = improved
      /\ pos' = Append(pos, i) /\ ~streamFailed
  BY <1>0 DEF StreamEntry, At, Streams, StepInv, Listed, Indices
<1>2. \A j : ~Entering(j)' /\ ~Improving(j)' /\ ~Improving(j) /\ (Entering(j) => j = i)
  BY <1>0, <1>1 DEF Entering, Improving
<1>3. /\ Len(doc) \in Nat /\ Len(pos) \in Nat /\ Len(doc) = Len(pos)
      /\ \A k \in 1 .. Len(doc) : k \in 1 .. Len(pos) /\ doc[k].index = pos[k]
  BY <1>1, StreamFacts DEF StreamInv
<1>4. \A k \in 1 .. Len(pos) : pos[k] \in Listed /\ pos[k] \in Nat /\ pos[k] < i
  <2> SUFFICES ASSUME NEW k \in 1 .. Len(pos)
               PROVE  pos[k] \in Listed /\ pos[k] \in Nat /\ pos[k] < i
    OBVIOUS
  <2>1. pos[k] \in Listed /\ ~Entering(pos[k])
    BY DEF StreamInv
  <2>2. pos[k] # i /\ pos[k] \in 1 .. Len(points) /\ Len(points) \in Nat
    BY <2>1, <1>0, <1>1, StoreTypes DEF Entering, Indices
  <2> QED
    BY <2>1, <2>2, <1>1
<1>5. i \in Nat /\ points[i].merit \in Merits
  BY <1>0, StoreTypes DEF Indices
<1>6. /\ pos \in Seq(Nat) /\ doc \in Seq([index : Nat, merit : Merits])
      /\ \A k, l \in 1 .. Len(pos) : k < l => pos[k] < pos[l]
  BY DEF StreamInv
<1>7. /\ pos' \in Seq(Nat) /\ Len(pos') = Len(pos) + 1
      /\ \A k \in 1 .. Len(pos) : pos'[k] = pos[k]
      /\ pos'[Len(pos) + 1] = i
  BY <1>1, <1>5, <1>6
<1>8. /\ \A k \in 1 .. Len(pos') : pos'[k] \in Listed
      /\ \A k, l \in 1 .. Len(pos') : k < l => pos'[k] < pos'[l]
  <2>1. \A k \in 1 .. Len(pos') : k \in 1 .. Len(pos) \/ k = Len(pos) + 1
    BY <1>3, <1>7
  <2>2. \A k \in 1 .. Len(pos') : pos'[k] \in Listed
    BY <2>1, <1>0, <1>4, <1>7
  <2>3. ASSUME NEW k \in 1 .. Len(pos'), NEW l \in 1 .. Len(pos'), k < l
        PROVE  pos'[k] < pos'[l]
    <3>1. k \in 1 .. Len(pos)
      BY <2>3, <1>3, <1>7
    <3>2. CASE l \in 1 .. Len(pos)
      BY <3>1, <3>2, <2>3, <1>6, <1>7
    <3>3. CASE l = Len(pos) + 1
      BY <3>1, <3>3, <1>4, <1>7
    <3> QED
      BY <2>1, <3>2, <3>3
  <2> QED
    BY <2>2, <2>3
<1>9. Range(pos') = Range(pos) \cup {i}
  <2>1. DOMAIN pos' = 1 .. Len(pos) + 1 /\ DOMAIN pos = 1 .. Len(pos)
    BY <1>6, <1>7
  <2>2. 1 .. Len(pos) + 1 = (1 .. Len(pos)) \cup {Len(pos) + 1}
    BY <1>3
  <2> QED
    BY <2>1, <2>2, <1>7 DEF Range
<1>10. improved \subseteq Range(pos) /\ \A j \in Listed : j \in Range(pos) \/ j = i
  BY <1>1, <1>2 DEF StreamInv
<1>11. \A k \in 1 .. Len(doc) : doc[k].merit = points[pos[k]].merit \/ pos[k] \in improved
  BY <1>1, <1>2 DEF StreamInv
<1>12. CASE streamFailed' = TRUE /\ doc' = doc
  <2>1. /\ Len(doc') <= Len(pos') /\ \A k \in 1 .. Len(doc') : doc'[k].index = pos'[k]
    BY <1>3, <1>7, <1>12
  <2> QED
    BY <2>1, <1>1, <1>2, <1>6, <1>7, <1>8, <1>9, <1>10, <1>12 DEF StreamInv
<1>13. CASE streamFailed' = streamFailed
            /\ doc' = Append(doc, [index |-> i, merit |-> points[i].merit])
  <2> DEFINE e == [index |-> i, merit |-> points[i].merit]
  <2>1. e \in [index : Nat, merit : Merits] /\ e.index = i /\ e.merit = points[i].merit
    BY <1>5
  <2> HIDE DEF e
  <2>2. /\ doc' \in Seq([index : Nat, merit : Merits]) /\ Len(doc') = Len(doc) + 1
        /\ \A k \in 1 .. Len(doc) : doc'[k] = doc[k]
        /\ doc'[Len(doc) + 1] = e
    BY <2>1, <1>6, <1>13 DEF e
  <2>3. \A k \in 1 .. Len(doc') : k \in 1 .. Len(doc) \/ k = Len(doc) + 1
    BY <2>2, <1>3
  <2>4. \A k \in 1 .. Len(doc') : doc'[k].index = pos'[k]
    BY <2>1, <2>2, <2>3, <1>3, <1>7
  <2>5. \A k \in 1 .. Len(doc') :
          doc'[k].merit = points[pos'[k]].merit \/ pos'[k] \in improved
    BY <2>1, <2>2, <2>3, <1>3, <1>7, <1>11
  <2>6. Len(doc') = Len(pos') /\ Len(doc') <= Len(pos')
    BY <2>2, <1>3, <1>7
  <2>7. ~streamFailed' /\ streamFailed' \in BOOLEAN
    BY <1>1, <1>13 DEF StreamInv
  <2>8. \A j \in Listed : j \in Range(pos')
    BY <1>9, <1>10
  <2> QED
    BY <2>2, <2>4, <2>5, <2>6, <2>7, <2>8, <1>1, <1>2, <1>7, <1>8, <1>9, <1>10
    DEF StreamInv
<1> QED
  BY <1>0, <1>12, <1>13 DEF StreamEntry

LEMMA StreamNotes ==
  ASSUME StreamInv, NoteImprovement
  PROVE  StreamInv'
<1>1. /\ step # None /\ ~step.new /\ step' = None /\ Listed' = Listed
      /\ UNCHANGED <<points, doc, pos, streamFailed>>
      /\ improved' = improved \cup ({step.point} \cap Range(pos))
  BY DEF NoteImprovement, At, Listed, Indices, Remember
<1>2. \A i : /\ ~Entering(i) /\ ~Entering(i)' /\ ~Improving(i)'
             /\ Improving(i) => i = step.point
  BY <1>1 DEF Entering, Improving
<1>3. \A k \in 1 .. Len(doc) : pos[k] \in Range(pos)
  BY StreamFacts DEF Range
<1>4. ~streamFailed => \A k \in 1 .. Len(doc) :
        doc[k].merit = points[pos[k]].merit \/ pos[k] \in improved'
  BY <1>1, <1>2, <1>3 DEF StreamInv
<1>5. improved' \subseteq Range(pos)
  BY <1>1 DEF StreamInv
<1>6. ~streamFailed => \A i \in Listed : i \in Range(pos)
  BY <1>2 DEF StreamInv
<1> QED
  BY <1>1, <1>2, <1>4, <1>5, <1>6 DEF StreamInv

LEMMA StreamSkips ==
  ASSUME StreamInv, SkipStreaming
  PROVE  StreamInv'
<1>1. /\ step' = None /\ Listed' = Listed
      /\ UNCHANGED <<points, doc, pos, improved, streamFailed>>
      /\ streamFailed \/ (step # None /\ step.new /\ step.point \notin Listed)
  BY DEF SkipStreaming, At, Listed, Indices, Streams, stream
<1>2. /\ \A i : ~Entering(i)' /\ ~Improving(i)'
      /\ ~streamFailed => \A i \in Listed : ~Entering(i) /\ ~Improving(i)
  BY <1>1 DEF Entering, Improving
<1>3. ~streamFailed => \A k \in 1 .. Len(doc) : ~Improving(pos[k])
  BY <1>1 DEF Improving
<1> QED
  BY <1>1, <1>2, <1>3 DEF StreamInv

-----------------------------------------------------------------------------
(* The closing block *)

(* Nothing follows the closing block, and it is right.                     *)
DoneInv ==
  /\ run \in {"running", "done", "killed"}
  /\ completion # None =>
       /\ run # "running"
       /\ completion.best \in 0 .. Len(doc)
  /\ DocumentIsTheStore

(* Before the run is over there is no closing block.                       *)
LEMMA DoneKept ==
  ASSUME DoneInv, run = "running", run' \in {"running", "done", "killed"},
         completion' = completion
  PROVE  DoneInv'
BY DEF DoneInv, DocumentIsTheStore

(* Positions and solutions are one to one.                                 *)
LEMMA PositionsCount ==
  ASSUME StreamInv, step = None, ~streamFailed
  PROVE  /\ Len(doc) = Len(pos) /\ Len(pos) = Cardinality(Listed)
         /\ \A i \in Listed : /\ Position(i) \in 1 .. Len(pos)
                              /\ pos[Position(i)] = i
         /\ \A k \in 1 .. Len(pos) : pos[k] \in Listed /\ Position(pos[k]) = k
<1>1. /\ Len(doc) = Len(pos) /\ Len(pos) \in Nat /\ DOMAIN pos = 1 .. Len(pos)
      /\ \A k \in 1 .. Len(pos) : pos[k] \in Listed /\ pos[k] \in Nat
      /\ \A k, l \in 1 .. Len(pos) : k < l => pos[k] < pos[l]
      /\ pos \in Seq(Nat)
  <2>1. \A k \in 1 .. Len(pos) : pos[k] \in Nat
    BY SeqElements DEF StreamInv
  <2> QED
    BY <2>1, StreamFacts DEF StreamInv
<1>2. \A i \in Listed : \E k \in DOMAIN pos : pos[k] = i
  BY <1>1 DEF StreamInv, Range, Entering
<1>3. \A k, l \in 1 .. Len(pos) : pos[k] = pos[l] => k = l
  <2> SUFFICES ASSUME NEW k \in 1 .. Len(pos), NEW l \in 1 .. Len(pos), pos[k] = pos[l]
               PROVE  k = l
    OBVIOUS
  <2>1. ~(k < l) /\ ~(l < k)
    BY <1>1
  <2> QED
    BY <2>1, <1>1
<1>4. \A i \in Listed : Position(i) \in 1 .. Len(pos) /\ pos[Position(i)] = i
  BY <1>1, <1>2 DEF Position
<1>5. \A k \in 1 .. Len(pos) : pos[k] \in Listed /\ Position(pos[k]) = k
  BY <1>1, <1>3, <1>4
<1>6. pos \in [1 .. Len(pos) -> Listed]
  BY <1>1
<1>7. pos \in Bijection(1 .. Len(pos), Listed)
  BY <1>1, <1>2, <1>3, <1>6 DEF Bijection, Injection, Surjection, IsInjective
<1>8. Cardinality(Listed) = Len(pos)
  BY <1>1, <1>7, FS_CountingElements DEF ExistsBijection
<1> QED
  BY <1>1, <1>4, <1>5, <1>8

(* Merged as its readers do, the closed document says what the store says. *)
LEMMA DoneCloses ==
  ASSUME TypeOK, StreamInv, DoneInv, Complete
  PROVE  DoneInv'
<1>1. /\ run = "running" /\ run' = "done" /\ step = None
      /\ UNCHANGED <<points, doc, pos>> /\ Listed' = Listed /\ completion = None
  BY DEF Complete, DoneInv, Listed, Indices
<1>2. CASE completion' = None
  BY <1>1, <1>2 DEF DoneInv, DocumentIsTheStore
<1>3. CASE completion' # None
  <2>1. /\ ~streamFailed
        /\ \/ /\ Listed = {}
              /\ completion' = [best |-> 0, improvements |-> << >>]
           \/ \E b \in Listed :
                /\ IsBest(b)
                /\ completion' = [best |-> BestPosition(b), improvements |-> Improvements]
    BY <1>1, <1>3 DEF Complete
  <2>2. /\ Len(doc) = Len(pos) /\ Len(pos) = Cardinality(Listed)
        /\ \A i \in Listed : Position(i) \in 1 .. Len(pos) /\ pos[Position(i)] = i
        /\ \A k \in 1 .. Len(pos) : pos[k] \in Listed /\ Position(pos[k]) = k
    BY <1>1, <2>1, PositionsCount
  <2>3. /\ Len(doc) \in Nat /\ DOMAIN doc = 1 .. Len(doc) /\ DOMAIN pos = 1 .. Len(pos)
        /\ \A k \in 1 .. Len(doc) : doc[k].index = pos[k] /\ doc[k].merit \in Merits
    BY StreamFacts
  <2>4. /\ {doc[k].index : k \in DOMAIN doc} = Listed
        /\ Len(doc) = Cardinality(Listed)
    BY <2>2, <2>3
  <2>5. \A k \in 1 .. Len(doc) :
          doc[k].merit = points[pos[k]].merit \/ pos[k] \in improved
    BY <1>1, <2>1 DEF StreamInv, Improving
  <2>6. CASE Listed = {} /\ completion' = [best |-> 0, improvements |-> << >>]
    <3>1. Len(doc) = 0
      BY <2>2, <2>3, <2>6
    <3>2. \A k \in DOMAIN doc' : FALSE
      BY <3>1, <2>3, <1>1
    <3>3. completion'.best \in 0 .. Len(doc')
      BY <3>1, <1>1, <2>6
    <3> QED
      BY <3>2, <3>3, <1>1, <2>4, <2>6 DEF DoneInv, DocumentIsTheStore
  <2>7. ASSUME NEW b \in Listed, IsBest(b),
               completion' = [best |-> BestPosition(b), improvements |-> Improvements]
        PROVE  DoneInv'
    <3>1. /\ BestPosition(b) = Position(b) /\ Position(b) \in 1 .. Len(doc)
          /\ pos[Position(b)] = b
      <4>1. b \in Range(pos)
        BY <2>2, <2>3 DEF Range
      <4> QED
        BY <4>1, <2>2 DEF BestPosition
    <3>2. ASSUME NEW k \in 1 .. Len(doc)
          PROVE  Effective(k)' = points[pos[k]].merit
      <4>1. completion'.improvements = Improvements
        BY <2>7
      <4>2. CASE k \in DOMAIN Improvements
        <5>1. Improvements[k] = points[pos[k]].merit
          BY <4>2 DEF Improvements
        <5> QED
          BY <5>1, <4>1, <4>2, <1>3 DEF Effective
      <4>3. CASE k \notin DOMAIN Improvements
        <5>1. pos[k] \in improved => FALSE
          <6> SUFFICES ASSUME pos[k] \in improved
                       PROVE  FALSE
            OBVIOUS
          <6>1. pos[k] \in improved \cap Listed /\ Position(pos[k]) = k
            BY <2>2
          <6> QED
            BY <6>1, <4>3 DEF Improvements
        <5>2. Effective(k)' = doc[k].merit
          BY <4>1, <4>3, <1>1 DEF Effective
        <5> QED
          BY <5>1, <5>2, <2>5
      <4> QED
        BY <4>2, <4>3
    <3>3. PICK p \in 1 .. Len(doc) : p = Position(b)
      BY <3>1
    <3>4. completion'.best = p /\ pos[p] = b
      BY <3>1, <3>3, <2>7
    <3>5. \A k \in 1 .. Len(doc) : Effective(p)' <= Effective(k)'
      <4>1. \A k \in 1 .. Len(doc) : points[pos[p]].merit <= points[pos[k]].merit
        BY <2>2, <2>7, <3>4 DEF IsBest
      <4>2. Effective(p)' = points[pos[p]].merit
        BY <3>2
      <4> QED
        BY <3>2, <4>1, <4>2
    <3>6. \A k \in DOMAIN doc' : Effective(k)' = points'[doc'[k].index].merit
      BY <3>2, <2>3, <1>1
    <3>7. Listed' # {} =>
            /\ completion'.best \in DOMAIN doc'
            /\ \A k \in DOMAIN doc' : Effective(completion.best)' <= Effective(k)'
      BY <3>4, <3>5, <2>3, <1>1 DEF Effective
    <3>8. completion'.best \in 0 .. Len(doc')
      BY <3>4, <1>1, <2>3
    <3> QED
      BY <3>6, <3>7, <3>8, <1>1, <2>4 DEF DoneInv, DocumentIsTheStore
  <2> QED
    BY <2>1, <2>6, <2>7
<1> QED
  BY <1>2, <1>3

-----------------------------------------------------------------------------
(* The induction *)

IInv ==
  /\ points \in Seq(Point) /\ saveFailed \in BOOLEAN
  /\ StepInv /\ SavedInv /\ StreamInv /\ DoneInv

LEMMA StepKept ==
  ASSUME TypeOK, StepInv, Next
  PROVE  StepInv'
<1>1. ASSUME NEW x \in Designs, NEW m \in Merits, NEW st \in Recordable,
             Discover(x, m, st)
      PROVE  StepInv'
  <2>1. /\ step' = [point |-> Len(points) + 1, new |-> TRUE, at |-> "save"]
        /\ Len(points') = Len(points) + 1 /\ Len(points) + 1 \in Indices'
    BY <1>1, DiscoverAppends
  <2>2. points'[Len(points) + 1].version = 0
    <3> DEFINE p == [x |-> x, merit |-> m, status |-> st, version |-> 0,
                     strengthened |-> 0]
    <3>1. points' = Append(points, p) /\ p.version = 0
      BY <1>1 DEF Discover, Add
    <3> HIDE DEF p
    <3> QED
      BY <3>1, StoreTypes
  <2> QED
    BY <2>1, <2>2 DEF StepInv
<1>2. ASSUME NEW i \in Indices, NEW x \in Designs, NEW m \in Merits, Improve(i, x, m)
      PROVE  StepInv'
  <2>1. /\ step' = [point |-> i, new |-> FALSE, at |-> "save"]
        /\ Indices' = Indices
    BY <1>2, ImproveLowers
  <2>2. step' \in [point : Indices', new : BOOLEAN, at : {"save", "write", "stream"}]
    BY <2>1
  <2>3. ~step'.new
    BY <2>1
  <2> QED
    BY <2>2, <2>3 DEF StepInv
<1>3. ASSUME points' = points, step # None, NEW at \in {"save", "write", "stream"}, Goto(at),
             at = "write" => ~step.new
      PROVE  StepInv'
  BY <1>3, GotoMoves DEF StepInv, Indices
<1>4. ASSUME points' = points, step' = step \/ step' = None
      PROVE  StepInv'
  BY <1>4 DEF StepInv, Indices
<1>5. CASE SkipSaving
  BY <1>3, <1>5 DEF SkipSaving, At
<1>6. CASE Archive
  BY <1>3, <1>6 DEF Archive, At
<1>7. CASE WriteFile
  BY <1>3, <1>7 DEF WriteFile, At
<1>8. CASE StreamEntry \/ NoteImprovement \/ SkipStreaming \/ Complete \/ Kill
  BY <1>4, <1>8 DEF StreamEntry, NoteImprovement, SkipStreaming, Complete, Kill
<1> QED
  BY <1>1, <1>2, <1>5, <1>6, <1>7, <1>8 DEF Next

(* The files change only where the saver writes.                           *)
LEMMA SavedKept ==
  ASSUME TypeOK, StepInv, SavedInv, Next
  PROVE  SavedInv' /\ NothingLost
<1>1. ASSUME dir' = dir
      PROVE  NothingLost
  BY <1>1 DEF NothingLost
<1>2. ASSUME NEW x \in Designs, NEW m \in Merits, NEW st \in Recordable,
             Discover(x, m, st)
      PROVE  SavedInv' /\ NothingLost
  BY <1>1, <1>2, SavedDiscover DEF Discover, files
<1>3. ASSUME NEW i \in Indices, NEW x \in Designs, NEW m \in Merits, Improve(i, x, m)
      PROVE  SavedInv' /\ NothingLost
  BY <1>1, <1>3, SavedImprove DEF Improve, files
<1>4. CASE SkipSaving
  BY <1>1, <1>4, SavedSkip DEF SkipSaving, files
<1>5. CASE Archive
  BY <1>5, SavedArchive
<1>6. CASE WriteFile
  BY <1>6, SavedWrite
<1>7. CASE StreamEntry \/ NoteImprovement \/ SkipStreaming
  BY <1>1, <1>7, SavedUnchanged
  DEF StreamEntry, NoteImprovement, SkipStreaming, At, files
<1>8. CASE Complete \/ Kill
  BY <1>1, <1>8, SavedUnchanged DEF Complete, Kill, files
<1> QED
  BY <1>2, <1>3, <1>4, <1>5, <1>6, <1>7, <1>8 DEF Next

LEMMA StreamStays ==
  ASSUME TypeOK, StepInv, StreamInv, Next
  PROVE  StreamInv'
<1>1. ASSUME NEW x \in Designs, NEW m \in Merits, NEW st \in Recordable,
             Discover(x, m, st)
      PROVE  StreamInv'
  BY <1>1, StreamDiscover
<1>2. ASSUME NEW i \in Indices, NEW x \in Designs, NEW m \in Merits, Improve(i, x, m)
      PROVE  StreamInv'
  BY <1>2, StreamImprove
<1>3. ASSUME UNCHANGED <<points, stream>>, step # None,
             NEW at \in {"save", "write", "stream"}, Goto(at)
      PROVE  StreamInv'
  <2>1. /\ step.point \in Nat /\ step.new \in BOOLEAN
        /\ step' = [point |-> step.point, new |-> step.new, at |-> at]
    BY <1>3, GotoMoves, StoreTypes DEF Indices
  <2>2. step' # None
    BY <2>1, RecordIsSet, Zenon
  <2>3. step'.point = step.point /\ step'.new = step.new
    BY <2>1
  <2> QED
    BY <1>3, <2>2, <2>3, StreamKept
<1>4. CASE SkipSaving
  BY <1>3, <1>4 DEF SkipSaving, At
<1>5. CASE Archive
  BY <1>3, <1>5 DEF Archive, At
<1>6. CASE WriteFile
  BY <1>3, <1>6 DEF WriteFile, At
<1>7. CASE StreamEntry
  BY <1>7, StreamEnters
<1>8. CASE NoteImprovement
  BY <1>8, StreamNotes
<1>9. CASE SkipStreaming
  BY <1>9, StreamSkips
<1>10. CASE Complete
  <2>1. /\ UNCHANGED <<points, step, doc, pos, improved>>
        /\ streamFailed' = streamFailed \/ streamFailed' = TRUE
    BY <1>10 DEF Complete
  <2>2. /\ \A i : (Entering(i)' <=> Entering(i)) /\ (Improving(i)' <=> Improving(i))
        /\ Listed' = Listed
    BY <2>1 DEF Entering, Improving, Listed, Indices
  <2> QED
    BY <2>1, <2>2 DEF StreamInv
<1>11. CASE Kill
  BY <1>11, StreamKept DEF Kill
<1> QED
  BY <1>1, <1>2, <1>4, <1>5, <1>6, <1>7, <1>8, <1>9, <1>10, <1>11 DEF Next

LEMMA DoneStays ==
  ASSUME TypeOK, StreamInv, DoneInv, Next
  PROVE  DoneInv'
<1>1. ASSUME run = "running", run' = run \/ run' = "killed", completion' = completion
      PROVE  DoneInv'
  BY <1>1, DoneKept
<1>2. CASE Complete
  BY <1>2, DoneCloses
<1>3. CASE \E x \in Designs, m \in Merits, st \in Recordable : Discover(x, m, st)
  BY <1>1, <1>3 DEF Discover
<1>4. CASE \E i \in Indices, x \in Designs, m \in Merits : Improve(i, x, m)
  BY <1>1, <1>4 DEF Improve
<1>5. CASE SkipSaving \/ Archive \/ WriteFile
  BY <1>1, <1>5 DEF SkipSaving, Archive, WriteFile, At
<1>6. CASE StreamEntry \/ NoteImprovement \/ SkipStreaming \/ Kill
  BY <1>1, <1>6 DEF StreamEntry, NoteImprovement, SkipStreaming, At, Kill
<1> QED
  BY <1>2, <1>3, <1>4, <1>5, <1>6 DEF Next

(* The type invariant is what the parts say, and the saver's flag.         *)
LEMMA TypesFollow ==
  ASSUME IInv
  PROVE  TypeOK
BY FilesTyped, StreamTypes
DEF IInv, TypeOK, TypeOKStore, StepInv, DoneInv, StreamInv

LEMMA StoreKept ==
  ASSUME TypeOK, Next
  PROVE  points' \in Seq(Point) /\ saveFailed' \in BOOLEAN
<1>1. points \in Seq(Point) /\ saveFailed \in BOOLEAN
  BY DEF TypeOK, TypeOKStore
<1>2. ASSUME NEW x \in Designs, NEW m \in Merits, NEW st \in Recordable,
             Discover(x, m, st)
      PROVE  points' \in Seq(Point) /\ saveFailed' \in BOOLEAN
  BY <1>1, <1>2, DiscoverAppends DEF Discover, files
<1>3. ASSUME NEW i \in Indices, NEW x \in Designs, NEW m \in Merits, Improve(i, x, m)
      PROVE  points' \in Seq(Point) /\ saveFailed' \in BOOLEAN
  BY <1>1, <1>3, ImproveLowers DEF Improve, files
<1>4. CASE SkipSaving \/ Archive \/ WriteFile
  BY <1>1, <1>4 DEF SkipSaving, Archive, WriteFile, files
<1>5. CASE StreamEntry \/ NoteImprovement \/ SkipStreaming \/ Complete \/ Kill
  BY <1>1, <1>5 DEF StreamEntry, NoteImprovement, SkipStreaming, Complete, Kill, files
<1> QED
  BY <1>2, <1>3, <1>4, <1>5 DEF Next

LEMMA OutputInvariant == Spec => []IInv
<1>1. Init => IInv
  <2> SUFFICES ASSUME Init
               PROVE  IInv
    OBVIOUS
  <2>1. SavedInv /\ StepInv /\ StreamInv
    BY SavedInit, StreamInit
  <2>2. DoneInv
    BY DEF Init, DoneInv, DocumentIsTheStore
  <2>3. points \in Seq(Point) /\ saveFailed \in BOOLEAN
    <3>1. points = << >> /\ saveFailed = FALSE
      BY DEF Init, StoreInit
    <3>2. points \in Seq(Point)
      BY <3>1
    <3>3. saveFailed \in BOOLEAN
      BY <3>1
    <3> QED
      BY <3>2, <3>3
  <2> QED
    BY <2>1, <2>2, <2>3 DEF IInv
<1>2. IInv /\ [Next]_vars => IInv'
  <2> SUFFICES ASSUME IInv, [Next]_vars
               PROVE  IInv'
    OBVIOUS
  <2>1. CASE Next
    <3>1. TypeOK
      BY TypesFollow
    <3>2. StepInv' /\ SavedInv' /\ StreamInv' /\ DoneInv'
      BY <2>1, <3>1, StepKept, SavedKept, StreamStays, DoneStays DEF IInv
    <3>3. points' \in Seq(Point) /\ saveFailed' \in BOOLEAN
      BY <2>1, <3>1, StoreKept
    <3> QED
      BY <3>2, <3>3 DEF IInv
  <2>2. CASE UNCHANGED vars
    <3>1. UNCHANGED <<points, run, step, dir, saveFailed, doc, pos, improved,
                      streamFailed, completion>>
      BY <2>2 DEF vars, files, stream
    <3>2. SavedInv' /\ StreamInv'
      BY <3>1, SavedUnchanged, StreamKept DEF IInv, stream
    <3>3. StepInv'
      BY <3>1 DEF IInv, StepInv, Indices
    <3>4. DoneInv'
      BY <3>1 DEF IInv, DoneInv, DocumentIsTheStore, Listed, Indices, Effective
    <3> QED
      BY <3>1, <3>2, <3>3, <3>4 DEF IInv
  <2> QED
    BY <2>1, <2>2
<1> QED
  BY <1>1, <1>2, PTL DEF Spec

-----------------------------------------------------------------------------
(* The theorems *)

(* What the files, the document and the record handler are made of, in     *)
(* every reachable state.                                                  *)
THEOREM OutputTyped == Spec => []TypeOK
<1>1. IInv => TypeOK
  BY TypesFollow
<1> QED
  BY <1>1, OutputInvariant, PTL

(* Cut off anywhere, the streamed document lists the solutions found so    *)
(* far in the order of discovery (docs/escape.md:382-386).                 *)
THEOREM CutDocumentReadable == Spec => []CutDocumentIsReadable
<1>1. IInv => CutDocumentIsReadable
  BY StreamInvImplies DEF IInv
<1> QED
  BY <1>1, OutputInvariant, PTL

(* The file without a version is the minimum, and the archived ones are    *)
(* worse, the more so the older (escape_save.go:78-86).                    *)
THEOREM NewestCurrent == Spec => []NewestIsCurrent
<1>1. IInv => NewestIsCurrent
  BY SavedInvImplies DEF IInv
<1> QED
  BY <1>1, OutputInvariant, PTL

(* The closed document, merged as its readers do, is the store.            *)
THEOREM DocumentTellsTheStore == Spec => []DocumentIsTheStore
<1>1. IInv => DocumentIsTheStore
  BY DEF IInv, DoneInv
<1> QED
  BY <1>1, OutputInvariant, PTL

(* Whatever write fails and whenever the process is killed, what was saved *)
(* of a minimum stays saved (escape_save.go:18-26).                        *)
THEOREM NothingSavedLost == Spec => NothingSavedIsLost
<1>1. IInv /\ [Next]_vars =>
        [\A n \in DOMAIN dir : \E o \in DOMAIN dir' :
           o[1] = n[1] /\ dir'[o] = dir[n]]_vars
  <2> SUFFICES ASSUME IInv, Next
               PROVE  NothingLost
    BY DEF NothingLost
  <2> QED
    BY TypesFollow, SavedKept DEF IInv
<1> QED
  BY <1>1, OutputInvariant, PTL DEF Spec, NothingSavedIsLost

-----------------------------------------------------------------------------
(* The document closes the register its readers are promised. *)

Entries == [i \in Indices |-> [class |-> points[i].status, merit |-> points[i].merit]]
Named == IF completion = None \/ completion.best = 0
           THEN 0 ELSE doc[completion.best].index

LEMMA EntriesTyped ==
  ASSUME points \in Seq(Point)
  PROVE  /\ Entries \in Seq(Register!Entry) /\ Len(Entries) = Len(points)
         /\ \A i \in 1 .. Len(points) :
              Entries[i] = [class |-> points[i].status, merit |-> points[i].merit]
<1> DEFINE e(i) == [class |-> points[i].status, merit |-> points[i].merit]
<1>1. Len(points) \in Nat /\ \A i \in 1 .. Len(points) : points[i] \in Point
  OBVIOUS
<1>2. \A i \in 1 .. Len(points) : e(i) \in Register!Entry
  BY <1>1 DEF Point, Register!Entry
<1>3. Entries = [i \in 1 .. Len(points) |-> e(i)]
  BY DEF Entries, Indices
<1> HIDE DEF e
<1>4. Entries \in [1 .. Len(points) -> Register!Entry]
  BY <1>2, <1>3
<1>5. Entries \in Seq(Register!Entry) /\ Len(Entries) = Len(points)
  BY <1>1, <1>4
<1>6. \A i \in 1 .. Len(points) : Entries[i] = e(i)
  BY <1>3
<1> QED
  BY <1>5, <1>6 DEF e

LEMMA AppendIs ==
  ASSUME NEW S, NEW s \in Seq(S), NEW e \in S
  PROVE  Append(s, e) = [i \in 1 .. Len(s) + 1 |-> IF i = Len(s) + 1 THEN e ELSE s[i]]
<1> DEFINE a == Append(s, e)
<1>1. /\ Len(s) \in Nat /\ a \in Seq(S) /\ Len(a) = Len(s) + 1
      /\ a[Len(s) + 1] = e /\ \A i \in 1 .. Len(s) : a[i] = s[i]
  OBVIOUS
<1> HIDE DEF a
<1>2. a = [i \in 1 .. Len(s) + 1 |-> a[i]]
  BY <1>1
<1>3. \A i \in 1 .. Len(s) + 1 : a[i] = IF i = Len(s) + 1 THEN e ELSE s[i]
  BY <1>1
<1>4. a = [i \in 1 .. Len(s) + 1 |-> IF i = Len(s) + 1 THEN e ELSE s[i]]
  BY <1>2, <1>3
<1> QED
  BY <1>4 DEF a

LEMMA DiscoverRegisters ==
  ASSUME IInv, NEW x \in Designs, NEW m \in Merits, NEW st \in Recordable,
         Discover(x, m, st)
  PROVE  \E e \in Register!Entry : Entries' = Append(Entries, e)
<1> DEFINE e == [class |-> st, merit |-> m]
           p == [x |-> x, merit |-> m, status |-> st, version |-> 0, strengthened |-> 0]
<1>1. e \in Register!Entry /\ p \in Point /\ points' = Append(points, p)
      /\ p.status = st /\ p.merit = m
  BY DEF Discover, Add, Register!Entry, Point
<1>2. points \in Seq(Point) /\ Len(points) \in Nat
  BY DEF IInv
<1>3. /\ Entries \in Seq(Register!Entry) /\ Len(Entries) = Len(points)
      /\ \A i \in 1 .. Len(points) :
           Entries[i] = [class |-> points[i].status, merit |-> points[i].merit]
  BY <1>2, EntriesTyped
<1> HIDE DEF p
<1>4. /\ Len(points') = Len(points) + 1 /\ points'[Len(points) + 1] = p
      /\ \A i \in 1 .. Len(points) : points'[i] = points[i]
  BY <1>1, <1>2
<1>5. Indices' = 1 .. Len(points) + 1
  BY <1>4 DEF Indices
<1>6. Entries' = [i \in 1 .. Len(points) + 1 |->
                    [class |-> points'[i].status, merit |-> points'[i].merit]]
  BY <1>5 DEF Entries
<1>7. ASSUME NEW i \in 1 .. Len(points) + 1
      PROVE  [class |-> points'[i].status, merit |-> points'[i].merit]
               = IF i = Len(points) + 1 THEN e ELSE Entries[i]
  <2>1. CASE i = Len(points) + 1
    BY <2>1, <1>1, <1>4
  <2>2. CASE i # Len(points) + 1
    <3>1. i \in 1 .. Len(points)
      BY <2>2, <1>2
    <3> QED
      BY <2>2, <3>1, <1>3, <1>4
  <2> QED
    BY <2>1, <2>2
<1> HIDE DEF e
<1>8. Append(Entries, e) = [i \in 1 .. Len(points) + 1 |->
                              IF i = Len(points) + 1 THEN e ELSE Entries[i]]
  BY <1>1, <1>3, AppendIs
<1> QED
  BY <1>1, <1>6, <1>7, <1>8

LEMMA ImproveRegisters ==
  ASSUME IInv, NEW i \in Indices, NEW x \in Designs, NEW m \in Merits,
         Improve(i, x, m)
  PROVE  /\ i \in 1 .. Len(Entries) /\ m < Entries[i].merit
         /\ Entries' = [Entries EXCEPT ![i].merit = m]
<1> DEFINE p == Improved(points[i], x, m)
<1>1. /\ points \in Seq(Point) /\ points[i] \in Point
      /\ m < points[i].merit /\ points' = [points EXCEPT ![i] = p]
  BY DEF IInv, Indices, Improve, Replace
<1>2. p.merit = m /\ p.status = points[i].status /\ p \in Point
  BY <1>1 DEF Improved, Point
<1> HIDE DEF p
<1>3. /\ Len(points') = Len(points)
      /\ \A j \in Indices : points'[j] = IF j = i THEN p ELSE points[j]
  BY <1>1, <1>2 DEF Indices
<1>4. Indices' = Indices
  BY <1>3 DEF Indices
<1>5. Entries' = [Entries EXCEPT ![i].merit = m]
  <2> DEFINE old(j) == [class |-> points[j].status, merit |-> points[j].merit]
             new(j) == [class |-> points'[j].status, merit |-> points'[j].merit]
  <2>1. Entries = [j \in Indices |-> old(j)] /\ Entries' = [j \in Indices |-> new(j)]
    BY <1>4 DEF Entries
  <2>2. \A j \in Indices : j # i => new(j) = old(j)
    BY <1>3
  <2>3. new(i) = [old(i) EXCEPT !.merit = m]
    BY <1>2, <1>3
  <2> HIDE DEF old, new
  <2>4. [Entries EXCEPT ![i].merit = m]
          = [j \in Indices |-> IF j = i THEN [old(i) EXCEPT !.merit = m] ELSE old(j)]
    BY <2>1
  <2>5. \A j \in Indices :
          new(j) = IF j = i THEN [old(i) EXCEPT !.merit = m] ELSE old(j)
    BY <2>2, <2>3
  <2> QED
    BY <2>1, <2>4, <2>5
<1>6. i \in 1 .. Len(Entries) /\ Entries[i].merit = points[i].merit
  <2>1. /\ Len(Entries) = Len(points) /\ i \in 1 .. Len(points)
        /\ Entries[i] = [class |-> points[i].status, merit |-> points[i].merit]
    BY <1>1, EntriesTyped DEF Indices
  <2> QED
    BY <2>1
<1> QED
  BY <1>1, <1>5, <1>6

(* The closing block names the best solution by its number. *)
LEMMA CompleteCloses ==
  ASSUME IInv, Complete, completion' # None
  PROVE  Register!Close
<1>1. /\ run = "running" /\ step = None /\ completion = None
      /\ UNCHANGED <<points, doc>> /\ DoneInv' /\ DocumentIsTheStore'
  BY TypesFollow, DoneCloses DEF Complete, IInv, DoneInv
<1>2. Listed' = Listed /\ Entries' = Entries
  BY <1>1 DEF Listed, Indices, Entries
<1>3. Register!Solutions = Listed
  <2>1. Len(Entries) = Len(points)
    BY EntriesTyped DEF IInv
  <2> QED
    BY <2>1 DEF Register!Solutions, Listed, Entries, Indices
<1>4. ~streamFailed
      /\ \/ /\ Listed = {}
            /\ completion' = [best |-> 0, improvements |-> << >>]
         \/ \E b \in Listed :
              /\ IsBest(b)
              /\ completion' = [best |-> BestPosition(b), improvements |-> Improvements]
  BY <1>1 DEF Complete
<1>5. CASE Listed = {} /\ completion' = [best |-> 0, improvements |-> << >>]
  <2>1. Named' = 0
    BY <1>5 DEF Named
  <2> QED
    BY <2>1, <1>1, <1>2, <1>3, <1>5 DEF Register!Close, Entries, Named
<1>6. ASSUME NEW b \in Listed, IsBest(b),
             completion' = [best |-> BestPosition(b), improvements |-> Improvements]
      PROVE  Register!Close
  <2>1. /\ Len(doc) = Len(pos) /\ Position(b) \in 1 .. Len(pos)
        /\ pos[Position(b)] = b
    BY <1>1, <1>4, PositionsCount DEF IInv
  <2>2. b \in Range(pos)
    BY <2>1, StreamFacts DEF IInv, Range
  <2>3. PICK k \in 1 .. Len(doc) : k = Position(b)
    BY <2>1
  <2>4. completion'.best = k /\ k # 0 /\ doc[k].index = b
    <3>1. completion'.best = k
      BY <2>2, <2>3, <1>6 DEF BestPosition
    <3>2. doc[k].index = pos[k]
      BY StreamFacts DEF IInv
    <3> QED
      BY <3>1, <3>2, <2>1, <2>3
  <2>5. Named' = b
    BY <2>4, <1>1 DEF Named
  <2>6. \A j \in Listed : Entries[j].merit = points[j].merit
    BY DEF Entries, Listed
  <2> QED
    BY <2>5, <2>6, <1>1, <1>2, <1>3, <1>6 DEF Register!Close, Entries, Named, IsBest
<1> QED
  BY <1>4, <1>5, <1>6

LEMMA OutputRegisterStep ==
  ASSUME IInv, [Next]_vars
  PROVE  Register!Next \/ UNCHANGED <<Entries, Named, completion # None>>
<1>1. ASSUME UNCHANGED <<points, completion>>, completion # None => doc' = doc
      PROVE  UNCHANGED <<Entries, Named, completion # None>>
  BY <1>1 DEF Entries, Named, Indices
<1>2. run = "running" => completion = None
  BY DEF IInv, DoneInv
<1>3. ASSUME NEW x \in Designs, NEW m \in Merits, NEW st \in Recordable,
             Discover(x, m, st)
      PROVE  Register!Next
  <2>1. PICK e \in Register!Entry : Entries' = Append(Entries, e)
    BY <1>3, DiscoverRegisters
  <2>2. completion = None /\ completion' = None /\ Named' = Named
    BY <1>2, <1>3 DEF Discover, Named
  <2> QED
    BY <2>1, <2>2 DEF Register!Next, Register!Discover, Entries, Named
<1>4. ASSUME NEW i \in Indices, NEW x \in Designs, NEW m \in Merits, Improve(i, x, m)
      PROVE  Register!Next
  <2>1. /\ i \in 1 .. Len(Entries) /\ m < Entries[i].merit
        /\ Entries' = [Entries EXCEPT ![i].merit = m]
    BY <1>4, ImproveRegisters
  <2>2. completion = None /\ completion' = None /\ Named' = Named
    BY <1>2, <1>4 DEF Improve, Named
  <2> QED
    BY <2>1, <2>2 DEF Register!Next, Register!Improve, Entries, Named
<1>5. CASE SkipSaving \/ Archive \/ WriteFile \/ Kill
  BY <1>1, <1>5 DEF SkipSaving, Archive, WriteFile, Kill, stream
<1>6. CASE StreamEntry \/ NoteImprovement \/ SkipStreaming
  BY <1>1, <1>2, <1>6 DEF StreamEntry, NoteImprovement, SkipStreaming, At, stream
<1>7. CASE Complete
  <2>1. CASE completion' # None
    BY <1>7, <2>1, CompleteCloses DEF Register!Next
  <2>2. CASE completion' = None
    BY <1>1, <1>2, <1>7, <2>2 DEF Complete
  <2> QED
    BY <2>1, <2>2
<1>8. CASE UNCHANGED vars
  BY <1>1, <1>8 DEF vars, stream
<1> QED
  BY <1>3, <1>4, <1>5, <1>6, <1>7, <1>8 DEF Next

(* What the document closes is the register its readers are promised: the  *)
(* numbers stay, the minima only improve, best_index leads to the best.    *)
THEOREM OutputImplementsRegister == Spec => ImplementsRegister
<1>1. Init => Register!Init
  BY DEF Init, StoreInit, Register!Init, Indices
<1>2. IInv /\ [Next]_vars => [Register!Next]_(Register!vars)
  BY OutputRegisterStep DEF Register!vars, Entries, Named
<1> QED
  BY <1>1, <1>2, OutputInvariant, PTL DEF Spec, ImplementsRegister, Register!Spec
=============================================================================
