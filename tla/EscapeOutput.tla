----------------------------- MODULE EscapeOutput -----------------------------
(***************************************************************************)
(* What a global search leaves behind while it runs: the append-only       *)
(* document on stdout (cmd/rayweave/escape_stream.go) and the files of     *)
(* --save (cmd/rayweave/escape_save.go).  Both hang on the record handler  *)
(* the store calls with its lock held, so the recording of one point is a  *)
(* sequence of steps no other recording interrupts, but a kill may.        *)
(*                                                                         *)
(* An entry or a file stands for its design by the merit: the merits of    *)
(* the versions of one minimum differ.  One Write call is one step.        *)
(***************************************************************************)
EXTENDS EscapeStore, FiniteSets, Functions

CONSTANTS
  KeepInfeasible,  \* --keep-infeasible
  MaxPoints,       \* bound: recorded points
  None

ASSUME OutputAssumption ==
  /\ KeepInfeasible \in BOOLEAN
  /\ MaxPoints \in Nat
  /\ None \notin [point : Nat, new : BOOLEAN, at : {"save", "write", "stream"}]

VARIABLES
  run,        \* "running", "done", or "killed"
  step,       \* what the record handler is at, None outside of it
  dir,        \* the saved files: merit by <<store index, version>>
  saveFailed, \* the saver's sticky error
  doc,        \* global_result.minima as written: store index and merit
  pos,        \* the store indices given a position, in that order
  improved,   \* streamed store indices whose point was replaced since
  streamFailed, \* the stream's sticky error
  completion  \* the closing block of the document, None until written

files == <<dir, saveFailed>>
stream == <<doc, pos, improved, streamFailed>>
vars == <<points, run, step, files, stream, completion>>

(* resultN.yaml, and resultN.V.yaml for the version V replaced.            *)
Current(i) == <<i, 0>>
Archived(i, v) == <<i, v>>

TypeOK ==
  /\ TypeOKStore
  /\ run \in {"running", "done", "killed"}
  /\ step \in {None} \cup
       [point : Indices, new : BOOLEAN, at : {"save", "write", "stream"}]
  /\ DOMAIN dir \subseteq Indices \X Nat /\ Range(dir) \subseteq Merits
  /\ pos \in Seq(Listed) /\ improved \subseteq Range(pos)
  /\ doc \in Seq([index : Listed, merit : Merits])
  /\ saveFailed \in BOOLEAN /\ streamFailed \in BOOLEAN
  /\ completion # None => completion.best \in 0 .. Len(doc)

Init ==
  /\ StoreInit
  /\ run = "running" /\ step = None
  /\ dir = << >> /\ saveFailed = FALSE
  /\ doc = << >> /\ pos = << >> /\ improved = {}
  /\ streamFailed \in BOOLEAN   \* whether the header could be written
  /\ completion = None

-----------------------------------------------------------------------------
(* The search records a point; its workers wait for the store's lock. *)

Discover(x, m, st) ==
  /\ run = "running" /\ step = None /\ Len(points) < MaxPoints
  /\ Add(x, m, st)
  /\ step' = [point |-> Len(points) + 1, new |-> TRUE, at |-> "save"]
  /\ UNCHANGED <<run, files, stream, completion>>

Improve(i, x, m) ==
  /\ run = "running" /\ step = None
  /\ Replace(i, x, m) /\ points' # points
  /\ step' = [point |-> i, new |-> FALSE, at |-> "save"]
  /\ UNCHANGED <<run, files, stream, completion>>

-----------------------------------------------------------------------------
(* The file saver *)

At(stage) == run = "running" /\ step # None /\ step.at = stage
Goto(stage) == step' = [step EXCEPT !.at = stage]

Saves(i) ==
  /\ ~ saveFailed
  /\ KeepInfeasible \/ i \in Listed

SkipSaving ==
  /\ At("save") /\ ~ Saves(step.point)
  /\ Goto("stream")
  /\ UNCHANGED <<points, run, files, stream, completion>>

(* The name of the replaced version, and one that forgets its number.      *)
ArchivedOnce(i) == Archived(i, 1)
ArchiveName(i) == Archived(i, points[i].version)

(* The rename; a file that is not there is not missed.                     *)
Renamed(from, to) ==
  IF from \notin DOMAIN dir
    THEN dir
    ELSE [n \in (DOMAIN dir \ {from}) \cup {to} |->
            IF n = to THEN dir[from] ELSE dir[n]]

(* The file under its name, the old content of that name gone.             *)
Written(name, m) ==
  [n \in DOMAIN dir \cup {name} |-> IF n = name THEN m ELSE dir[n]]

Archive ==
  /\ At("save") /\ Saves(step.point) /\ ~ step.new
  /\ \/ /\ dir' = Renamed(Current(step.point), ArchiveName(step.point))
        /\ Goto("write")
        /\ UNCHANGED saveFailed
     \/ /\ saveFailed' = TRUE /\ Goto("stream")
        /\ UNCHANGED dir
  /\ UNCHANGED <<points, run, stream, completion>>

(* Temporary file, sync, rename: the file is there whole or not at all.    *)
WriteFile ==
  /\ At("write") \/ (At("save") /\ step.new /\ Saves(step.point))
  /\ \/ /\ dir' = Written(Current(step.point), points[step.point].merit)
        /\ UNCHANGED saveFailed
     \/ saveFailed' = TRUE /\ UNCHANGED dir
  /\ Goto("stream")
  /\ UNCHANGED <<points, run, stream, completion>>

-----------------------------------------------------------------------------
(* The streamed document *)

(* The stream's own error ends it; and a stream that a failed save ends    *)
(* as well, the two handlers being chained.                                *)
StreamsWhileSaving == ~ streamFailed /\ ~ saveFailed
Streams == ~ streamFailed

(* A new solution gets the next position and one write.                    *)
StreamEntry ==
  /\ At("stream") /\ step.new /\ step.point \in Listed /\ Streams
  /\ pos' = Append(pos, step.point)
  /\ \/ /\ doc' = Append(doc, [index |-> step.point,
                               merit |-> points[step.point].merit])
        /\ UNCHANGED streamFailed
     \/ streamFailed' = TRUE /\ UNCHANGED doc
  /\ step' = None
  /\ UNCHANGED <<points, run, files, improved, completion>>

(* A replacement is remembered when the point has a position; and one that *)
(* would be remembered for the latest point only.                          *)
RememberLatest(i) == {i} \cap Range(pos)
Remember(i) == improved \cup ({i} \cap Range(pos))

NoteImprovement ==
  /\ At("stream") /\ ~ step.new /\ Streams
  /\ improved' = Remember(step.point)
  /\ step' = None
  /\ UNCHANGED <<points, run, files, doc, pos, streamFailed, completion>>

SkipStreaming ==
  /\ At("stream")
  /\ ~ Streams \/ (step.new /\ step.point \notin Listed)
  /\ step' = None
  /\ UNCHANGED <<points, run, files, stream, completion>>

(* The position of a point in the list, and its number in the store.       *)
StoreIndex(i) == i
Position(i) == CHOOSE k \in DOMAIN pos : pos[k] = i

(* bestStreamIndex for the best solution b, 0 when it has no position.     *)
BestPosition(b) == IF b \in Range(pos) THEN Position(b) ELSE 0

(* The last version of every replaced solution, by position.               *)
Improvements ==
  [k \in {Position(i) : i \in improved \cap Listed} |-> points[pos[k]].merit]

(* The run is over: one write closes the document, or its error is told.   *)
Complete ==
  /\ run = "running" /\ step = None
  /\ run' = "done"
  /\ IF streamFailed
       THEN UNCHANGED <<completion, streamFailed>>
       ELSE \/ /\ \/ /\ Listed = {}
                     /\ completion' = [best |-> 0, improvements |-> << >>]
                  \/ \E b \in Listed :
                       /\ IsBest(b)
                       /\ completion' = [best |-> BestPosition(b),
                                         improvements |-> Improvements]
               /\ UNCHANGED streamFailed
            \/ streamFailed' = TRUE /\ UNCHANGED completion
  /\ UNCHANGED <<points, step, files, doc, pos, improved>>

(* kill -9, the third signal, the OOM killer. *)
Kill ==
  /\ run = "running" /\ run' = "killed"
  /\ UNCHANGED <<points, step, files, stream, completion>>

Next ==
  \/ \E x \in Designs, m \in Merits, st \in Recordable : Discover(x, m, st)
  \/ \E i \in Indices, x \in Designs, m \in Merits : Improve(i, x, m)
  \/ SkipSaving \/ Archive \/ WriteFile
  \/ StreamEntry \/ NoteImprovement \/ SkipStreaming
  \/ Complete \/ Kill

Spec == Init /\ [][Next]_vars

-----------------------------------------------------------------------------
(* Properties *)

(* effectiveGlobalMinima: the list with the improvements in place.         *)
Effective(k) ==
  IF completion # None /\ k \in DOMAIN completion.improvements
    THEN completion.improvements[k]
    ELSE doc[k].merit

(* The document as its readers merge it is the store as the run left it:   *)
(* every solution once, with its last merit, and best_index on the best of *)
(* them (docs/escape.md:653-655, escape.go:1898-1901), although positions, *)
(* store numbers and the order by merit all differ.                        *)
DocumentIsTheStore ==
  completion # None =>
    /\ {doc[k].index : k \in DOMAIN doc} = Listed
    /\ Len(doc) = Cardinality(Listed)
    /\ \A k \in DOMAIN doc : Effective(k) = points[doc[k].index].merit
    /\ Listed # {} =>
         /\ completion.best \in DOMAIN doc
         /\ \A k \in DOMAIN doc : Effective(completion.best) <= Effective(k)

(* Cut off anywhere, the document holds every solution found so far, in    *)
(* the order of discovery, but the one being recorded (escape.md:382-386). *)
CutDocumentIsReadable ==
  /\ \A k, l \in DOMAIN doc : k < l => doc[k].index < doc[l].index
  /\ ~ streamFailed =>
       \A i \in Listed : \/ \E k \in DOMAIN doc : doc[k].index = i
                         \/ step # None /\ step.point = i /\ step.new

(* escape_save.go:18-26: what was saved of a minimum stays saved, under    *)
(* its name or as an older version, whatever fails and whenever the        *)
(* process is killed.                                                      *)
NothingSavedIsLost ==
  [][\A n \in DOMAIN dir : \E o \in DOMAIN dir' :
       o[1] = n[1] /\ dir'[o] = dir[n]]_vars

(* Between two recordings, and while no save failed, the file without a    *)
(* version is the minimum as the store has it, and the older ones are      *)
(* worse, the more so the older.                                           *)
NewestIsCurrent ==
  /\ step = None /\ ~ saveFailed =>
       \A i \in Indices : Saves(i) =>
         Current(i) \in DOMAIN dir /\ dir[Current(i)] = points[i].merit
  /\ \A n, o \in DOMAIN dir :
       n[1] = o[1] /\ n[2] # 0 /\ (o[2] > n[2] \/ o[2] = 0) => dir[o] < dir[n]

(* The register its readers are promised is what the document closes: the  *)
(* numbers are those of the files and the result, the minima under them    *)
(* only improve, and best_index leads to the best solution.                *)
Register == INSTANCE MinimaRegister WITH
  Classes <- Recordable,
  Solution <- "feasible",
  entries <- [i \in Indices |-> [class |-> points[i].status,
                                 merit |-> points[i].merit]],
  best <- IF completion = None \/ completion.best = 0
            THEN 0 ELSE doc[completion.best].index,
  closed <- completion # None

ImplementsRegister == Register!Spec
=============================================================================
