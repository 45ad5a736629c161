-------------------------- MODULE DetachedJobsProofs --------------------------
(***************************************************************************)
(* What holds of DetachedJobs for any number of runs and calls, any cap on *)
(* jobs and any content of the documents.                                  *)
(***************************************************************************)
EXTENDS DetachedJobs, FiniteSetTheorems, TLAPS

-----------------------------------------------------------------------------
(* The run's side.  Everything that can happen to a run: *)
StageStep == \E r \in Runs :
  \/ RunStep(r) \/ Signal(r)
  \/ \E stage \in 1 .. 2 : AskByFile(r, stage)
  \/ \E k \in Kinds : Launched(r, k)

(* Its inductive invariant: the watcher never saw more than was written, and *)
(* the first two conjuncts of OutputInv keep an unlaunched run without       *)
(* output and a run that ended by itself with its whole document.            *)
SeenIsWritten == \A r \in Runs : seen[r] <= stopFile[r]
OutputInv == \A r \in Runs : /\ life[r] = "none" => output[r] = "none"
                             /\ life[r] = "ended" => output[r] = "whole"
StageInv == StagesTypeOK /\ StageIsHighestAsked /\ NoRequestLost /\ SeenIsWritten /\ OutputInv

LEMMA StagesInitInv == StagesInit => StageInv
BY DEF StagesInit, StageInv, StagesTypeOK, StageIsHighestAsked, NoRequestLost,
       SeenIsWritten, OutputInv, Kinds, Lives

(* The end of a run leaves the other runs alone and nothing of its memory. *)
LEMMA OverKeepsInv ==
  ASSUME StageInv, NEW r \in Runs, NEW how \in {"ended", "quit", "died"},
         NEW text \in {"none", "cut", "whole"}, how = "ended" => text = "whole",
         Over(r, how, text)
  PROVE  StageInv'
<1> USE DEF StageInv, Over
<1>1. StagesTypeOK'
  BY DEF StagesTypeOK, Lives
<1>2. StageIsHighestAsked'
  BY DEF StagesTypeOK, StageIsHighestAsked
<1>3. NoRequestLost'
  BY DEF StagesTypeOK, NoRequestLost
<1>4. SeenIsWritten'
  BY DEF StagesTypeOK, SeenIsWritten
<1>5. OutputInv'
  BY DEF StagesTypeOK, OutputInv
<1> QED
  BY <1>1, <1>2, <1>3, <1>4, <1>5

(* A request never goes down, and stays below the last stage unless it exits. *)
LEMMA UpToFacts ==
  ASSUME StageInv, NEW r \in Runs, NEW n \in Nat
  PROVE  /\ UpTo(r, n) \in Nat
         /\ UpTo(r, n) < Stages(kind[r]) =>
              /\ UpTo(r, n) \in 0 .. 2
              /\ UpTo(r, n) = IF n > applied[r] THEN n ELSE applied[r]
BY DEF StageInv, StagesTypeOK, UpTo, Stages, Kinds

LEMMA SignalKeepsInv ==
  ASSUME StageInv, NEW r \in Runs, Signal(r)
  PROVE  StageInv'
<1>1. CASE life[r] = "starting" /\ Over(r, "died", output[r])
  BY <1>1, OverKeepsInv DEF StageInv, StagesTypeOK
<1>2. CASE /\ life[r] = "running"
           /\ \/ HasPlace(r) /\ queued' = [queued EXCEPT ![r] = @ + 1]
              \/ queued[r] > 0 /\ UNCHANGED queued
           /\ asked' = asked \cup {r}
           /\ UNCHANGED <<byFile, kind, life, output, counted, stopFile, seen, applied>>
  <2>1. queued'[r] \in 1 .. 3 /\ queued' \in [Runs -> 0 .. 3]
        /\ \A q \in Runs : q # r => queued'[q] = queued[q]
    BY <1>2 DEF StageInv, StagesTypeOK, HasPlace, Stages, Kinds
  <2>2. StagesTypeOK'
    BY <1>2, <2>1 DEF StageInv, StagesTypeOK
  <2>3. NoRequestLost'
    BY <1>2, <2>1 DEF StageInv, StagesTypeOK, NoRequestLost
  <2> QED
    BY <1>2, <2>2, <2>3 DEF StageInv, StageIsHighestAsked, SeenIsWritten, OutputInv
<1> QED
  BY <1>1, <1>2 DEF Signal

LEMMA AskByFileKeepsInv ==
  ASSUME StageInv, NEW r \in Runs, NEW stage \in 1 .. 2, AskByFile(r, stage)
  PROVE  StageInv'
<1>1. /\ stopFile' \in [Runs -> 0 .. 2]
      /\ \A q \in Runs : stopFile'[q] >= stopFile[q] /\ (q # r => stopFile'[q] = stopFile[q])
      /\ Alive(r) => stopFile'[r] >= 1
  BY DEF AskByFile, StageInv, StagesTypeOK
<1>2. UNCHANGED <<byFile, kind, life, output, queued, counted, seen, applied>>
      /\ asked' = IF Alive(r) THEN asked \cup {r} ELSE asked
  BY DEF AskByFile
<1>3. StagesTypeOK'
  BY <1>1, <1>2 DEF StageInv, StagesTypeOK
<1>4. NoRequestLost'
  <2> SUFFICES ASSUME NEW q \in Runs, q \in asked'
               PROVE  applied[q] > 0 \/ queued[q] > 0 \/ stopFile'[q] > seen[q]
    BY <1>2, <1>3 DEF NoRequestLost, StagesTypeOK
  <2>1. CASE q \in asked
    BY <2>1, <1>1 DEF NoRequestLost, StageInv, StagesTypeOK
  <2>2. CASE q \notin asked
    <3>1. q = r /\ stopFile'[r] >= 1
      BY <2>2, <1>1, <1>2
    <3>2. CASE seen[r] = 0
      BY <3>1, <3>2, <1>1 DEF StageInv, StagesTypeOK
    <3>3. CASE seen[r] # 0
      BY <3>1, <3>3 DEF StageInv, StagesTypeOK, StageIsHighestAsked
    <3> QED
      BY <3>2, <3>3
  <2> QED
    BY <2>1, <2>2
<1>5. SeenIsWritten'
  BY <1>1, <1>2 DEF StageInv, StagesTypeOK, SeenIsWritten
<1> QED
  BY <1>2, <1>3, <1>4, <1>5 DEF StageInv, StageIsHighestAsked, OutputInv

LEMMA HandleSignalKeepsInv ==
  ASSUME StageInv, NEW r \in Runs, HandleSignal(r)
  PROVE  StageInv'
<1> DEFINE n == counted[r] + 1
<1>1. n \in Nat /\ n >= 1
  BY DEF StageInv, StagesTypeOK
<1>2. CASE Exits(r, n)
  <2>1. PICK text \in {output[r], "cut"} : Over(r, "quit", text)
    BY <1>2 DEF Exits
  <2> QED
    BY <2>1, OverKeepsInv DEF StageInv, StagesTypeOK
<1>3. CASE /\ Applies(r, n)
           /\ queued' = [queued EXCEPT ![r] = @ - 1]
           /\ counted' = [counted EXCEPT ![r] = n]
           /\ UNCHANGED seen
  <2>1. UpTo(r, n) \in 0 .. 2 /\ UpTo(r, n) = IF n > applied[r] THEN n ELSE applied[r]
    BY <1>1, <1>3, UpToFacts DEF Applies
  <2>2. queued[r] > 0
    BY DEF HandleSignal
  <2>3. /\ applied' = [applied EXCEPT ![r] = UpTo(r, n)]
        /\ UNCHANGED <<byFile, kind, life, output, stopFile, asked>>
    BY <1>3 DEF Applies
  <2> HIDE DEF n
  <2>4. StagesTypeOK'
    BY <1>1, <1>3, <2>1, <2>2, <2>3 DEF StageInv, StagesTypeOK
  <2>5. StageIsHighestAsked'
    BY <1>1, <1>3, <2>1, <2>3 DEF StageInv, StagesTypeOK, StageIsHighestAsked, n
  <2>6. NoRequestLost'
    BY <1>1, <1>3, <2>1, <2>3 DEF StageInv, StagesTypeOK, NoRequestLost
  <2> QED
    BY <1>3, <2>3, <2>4, <2>5, <2>6 DEF StageInv, SeenIsWritten, OutputInv
<1> QED
  BY <1>2, <1>3 DEF HandleSignal

LEMMA WatchKeepsInv ==
  ASSUME StageInv, NEW r \in Runs, WatchStopFile(r)
  PROVE  StageInv'
<1> DEFINE n == stopFile[r]
<1>1. n \in 0 .. 2 /\ n >= 1
  BY DEF WatchStopFile, StageInv, StagesTypeOK
<1>2. CASE Exits(r, n)
  <2>1. PICK text \in {output[r], "cut"} : Over(r, "quit", text)
    BY <1>2 DEF Exits
  <2> QED
    BY <2>1, OverKeepsInv DEF StageInv, StagesTypeOK
<1>3. CASE Applies(r, n) /\ seen' = [seen EXCEPT ![r] = n] /\ UNCHANGED <<queued, counted>>
  <2>1. UpTo(r, n) \in 0 .. 2 /\ UpTo(r, n) = IF n > applied[r] THEN n ELSE applied[r]
    BY <1>1, <1>3, UpToFacts DEF Applies
  <2>2. n > seen[r]
    BY DEF WatchStopFile
  <2>3. /\ applied' = [applied EXCEPT ![r] = UpTo(r, n)]
        /\ UNCHANGED <<byFile, kind, life, output, stopFile, asked>>
    BY <1>3 DEF Applies
  <2>4. StagesTypeOK'
    BY <1>1, <1>3, <2>1, <2>3 DEF StageInv, StagesTypeOK
  <2>5. StageIsHighestAsked'
    BY <1>1, <1>3, <2>1, <2>2, <2>3 DEF StageInv, StagesTypeOK, StageIsHighestAsked
  <2>6. NoRequestLost'
    BY <1>1, <1>3, <2>1, <2>3 DEF StageInv, StagesTypeOK, NoRequestLost
  <2>7. SeenIsWritten'
    BY <1>1, <1>3, <2>3 DEF StageInv, StagesTypeOK, SeenIsWritten
  <2> QED
    BY <1>3, <2>3, <2>4, <2>5, <2>6, <2>7 DEF StageInv, OutputInv
<1> QED
  BY <1>2, <1>3 DEF WatchStopFile

LEMMA StageStepKeepsInv ==
  ASSUME StageInv, StageStep
  PROVE  StageInv'
<1>1. PICK r \in Runs : \/ RunStep(r) \/ Signal(r)
                        \/ \E stage \in 1 .. 2 : AskByFile(r, stage)
                        \/ \E k \in Kinds : Launched(r, k)
  BY DEF StageStep
<1>2. CASE Signal(r)
  BY <1>2, SignalKeepsInv
<1>3. CASE \E stage \in 1 .. 2 : AskByFile(r, stage)
  BY <1>3, AskByFileKeepsInv
<1>4. CASE \E k \in Kinds : Launched(r, k)
  BY <1>4 DEF Launched, StageInv, StagesTypeOK, Lives, StageIsHighestAsked, NoRequestLost,
              SeenIsWritten, OutputInv
<1>5. CASE Listens(r)
  <2>1. stopFile' = stopFile
    BY <1>5 DEF Listens, Kept, StageInv, StagesTypeOK
  <2> QED
    BY <1>5, <2>1 DEF Listens, StageInv, StagesTypeOK, Lives, StageIsHighestAsked,
                      NoRequestLost, SeenIsWritten, OutputInv
<1>6. CASE HandleSignal(r)
  BY <1>6, HandleSignalKeepsInv
<1>7. CASE WatchStopFile(r)
  BY <1>7, WatchKeepsInv
<1>8. CASE Stream(r)
  BY <1>8 DEF Stream, StageInv, StagesTypeOK, StageIsHighestAsked, NoRequestLost,
              SeenIsWritten, OutputInv
<1>9. CASE Finishes(r)
  BY <1>9, OverKeepsInv DEF Finishes
<1>10. CASE Dies(r)
  BY <1>10, OverKeepsInv DEF Dies, StageInv, StagesTypeOK
<1> QED
  BY <1>1, <1>2, <1>3, <1>4, <1>5, <1>6, <1>7, <1>8, <1>9, <1>10 DEF RunStep

LEMMA StutterKeepsInv ==
  ASSUME StageInv, UNCHANGED stageVars
  PROVE  StageInv'
BY DEF stageVars, StageInv, StagesTypeOK, StageIsHighestAsked, NoRequestLost, SeenIsWritten,
       OutputInv

(* What a step of the runs themselves, or a request to one, leaves as it was. *)
Quiet == \A q \in Runs : /\ (life[q] = "none") <=> (life'[q] = "none")
                         /\ Alive(q)' => Alive(q)
                         /\ Ended(q) => life'[q] = life[q] /\ output'[q] = output[q]

LEMMA RunsAreQuiet ==
  ASSUME StageInv, NEW r \in Runs,
         \/ RunStep(r) \/ Signal(r) \/ UNCHANGED stageVars
         \/ \E stage \in 1 .. 2 : AskByFile(r, stage)
  PROVE  Quiet
<1> USE DEF Quiet, Alive, Ended
<1>1. ASSUME NEW how \in {"ended", "quit", "died"}, NEW text, Over(r, how, text), Alive(r)
      PROVE  Quiet
  BY <1>1 DEF Over, StageInv, StagesTypeOK
<1>2. CASE Signal(r)
  BY <1>2, <1>1 DEF Signal
<1>3. CASE HandleSignal(r)
  BY <1>3, <1>1 DEF HandleSignal, Exits, Applies
<1>4. CASE WatchStopFile(r)
  BY <1>4, <1>1 DEF WatchStopFile, Exits, Applies
<1>5. CASE Finishes(r) \/ Dies(r)
  BY <1>5, <1>1 DEF Finishes, Dies
<1>6. CASE Listens(r) \/ Stream(r)
  BY <1>6 DEF Listens, Stream, StageInv, StagesTypeOK
<1>7. CASE UNCHANGED stageVars
  BY <1>7 DEF stageVars
<1>8. CASE \E stage \in 1 .. 2 : AskByFile(r, stage)
  BY <1>8 DEF AskByFile
<1> QED
  BY <1>2, <1>3, <1>4, <1>5, <1>6, <1>7, <1>8 DEF RunStep

LEMMA AskIsAStageStep ==
  ASSUME StageInv, NEW r \in Runs, NEW stage \in 1 .. 2, Ask(r, stage)
  PROVE  Quiet /\ (StageStep \/ UNCHANGED stageVars)
BY RunsAreQuiet DEF Ask, StageStep

-----------------------------------------------------------------------------
(* The calls.  Shape: a call has a run, an admitted one is not launched yet, *)
(* and a run being started is not on record.                                 *)
Shape == \A c \in Calls :
  /\ at[c] # "free" => job[c] \in Runs
  /\ at[c] = "admitted" => life[job[c]] = "none"
  /\ at[c] \in {"launched", "recorded"} => life[job[c]] # "none"
  /\ at[c] \in Starting => job[c] \notin meta
  /\ at[c] \in {"ingest"} \cup Putting => held[c] # "none"
RecordLaunched == \A r \in meta : life[r] # "none"
StartersApart == \A c, d \in Calls :
  at[c] \in Starting /\ at[d] \in Starting /\ job[c] = job[d] => c = d
(* The lock of the store, and what its holder knows of its document. *)
OnePuts == \A c, d \in Calls : at[c] \in Putting /\ at[d] \in Putting => c = d
PutKnows == \A c \in Calls :
  /\ at[c] = "put" => Document(c) \notin docs
  /\ at[c] = "renamed" => Document(c) \in docs /\ listed[Document(c)] = 0

CallsTypeOK == /\ pidfile \subseteq Runs /\ meta \subseteq Runs /\ recycled \subseteq Runs
               /\ at \in [Calls -> Places] /\ job \in [Calls -> Runs \cup {NoRun}]
               /\ held \in [Calls -> {"none", "cut", "whole"}]
               /\ docs \subseteq Documents /\ listed \in [Documents -> Nat]

CallInv == CallsTypeOK /\ Shape /\ RecordLaunched /\ StartersApart /\ HandedOutIsFinal
StoreInv == OnePuts /\ PutKnows /\ ListedOnceAndStored
JobsInv == StageInv /\ CallInv /\ StoreInv

LEMMA HeldIsADocument ==
  ASSUME JobsInv, NEW c \in Calls, at[c] \in {"ingest"} \cup Putting
  PROVE  Document(c) \in Documents
BY DEF JobsInv, CallInv, CallsTypeOK, Shape, Document, Documents, Putting

(* A call that starts nothing and holds nothing may be at any other place. *)
LEMMA ElsewhereKeepsCallInv ==
  ASSUME CallInv, NEW c \in Calls, Quiet, UNCHANGED meta,
         pidfile' \subseteq Runs, recycled' \subseteq Runs,
         docs' \subseteq Documents, listed' \in [Documents -> Nat],
         NEW place \in Places \ ({"ingest"} \cup Starting \cup Putting),
         NEW r \in Runs \cup {NoRun}, place # "free" => r \in Runs,
         at' = [at EXCEPT ![c] = place], job' = [job EXCEPT ![c] = r],
         held' = held \/ held' = [held EXCEPT ![c] = "none"]
  PROVE  CallInv'
<1> USE DEF CallInv, Starting, Putting
<1>1. CallsTypeOK'
  BY DEF CallsTypeOK
<1>2. Shape'
  BY DEF Shape, Quiet, CallsTypeOK
<1>3. RecordLaunched' /\ StartersApart'
  BY DEF RecordLaunched, StartersApart, Quiet, CallsTypeOK
<1>4. HandedOutIsFinal'
  BY DEF HandedOutIsFinal, Shape, Quiet, CallsTypeOK, Ended
<1> QED
  BY <1>1, <1>2, <1>3, <1>4

LEMMA FreeKeepsCallInv ==
  ASSUME CallInv, NEW c \in Calls, Quiet, UNCHANGED <<meta, pidfile, recycled>>,
         docs' \subseteq Documents, listed' \in [Documents -> Nat], Free(c)
  PROVE  CallInv'
BY ElsewhereKeepsCallInv DEF Free, CallInv, CallsTypeOK, Places, Starting, Putting

(* A call that holds a result keeps it on its way through the store. *)
LEMMA PuttingKeepsCallInv ==
  ASSUME CallInv, NEW c \in Calls, at[c] \in {"ingest"} \cup Putting, NEW place \in Putting,
         UNCHANGED <<stageVars, meta, pidfile, recycled, listed>>,
         docs' \subseteq Documents, Go(c, place)
  PROVE  CallInv'
<1> USE DEF CallInv, Starting, Putting, Go, stageVars
<1>1. CallsTypeOK'
  BY DEF CallsTypeOK, Places
<1>2. Shape'
  BY DEF Shape, CallsTypeOK
<1>3. RecordLaunched' /\ StartersApart'
  BY DEF RecordLaunched, StartersApart, CallsTypeOK
<1>4. HandedOutIsFinal'
  BY DEF HandedOutIsFinal, CallsTypeOK, Ended
<1> QED
  BY <1>1, <1>2, <1>3, <1>4

(* The steps of the runs and of the system. *)
LEMMA RunsKeepCallInv ==
  ASSUME CallInv, Quiet, UNCHANGED <<callVars, diskVars>>, recycled' \subseteq Runs
  PROVE  CallInv'
<1> USE DEF CallInv, callVars, diskVars
<1>1. CallsTypeOK'
  BY DEF CallsTypeOK
<1>2. Shape'
  BY DEF Shape, Quiet, Starting
<1>3. RecordLaunched' /\ StartersApart'
  BY DEF RecordLaunched, StartersApart, Quiet, CallsTypeOK
<1>4. HandedOutIsFinal'
  BY DEF HandedOutIsFinal, Quiet, Ended, Shape, Putting
<1> QED
  BY <1>1, <1>2, <1>3, <1>4

(* Jobs.Start. *)
LEMMA StartKeepsCallInv ==
  ASSUME JobsInv, NEW c \in Calls,
         \/ \E r \in Runs : Admit(c, r)
         \/ LaunchJob(c) \/ WritePid(c) \/ WriteMeta(c)
  PROVE  CallInv' /\ (StageStep \/ UNCHANGED stageVars)
<1> USE DEF JobsInv, CallInv, diskVars
<1>1. ASSUME NEW r \in Runs, Admit(c, r)
      PROVE  CallInv' /\ UNCHANGED stageVars
  <2> USE <1>1 DEF Admit, Take, stageVars
  <2>1. CallsTypeOK'
    BY DEF CallsTypeOK, Places, Starting
  <2>2. Shape'
    BY DEF Shape, CallsTypeOK, Starting, Putting, Unused, RecordLaunched
  <2>3. RecordLaunched' /\ StartersApart'
    BY DEF RecordLaunched, StartersApart, CallsTypeOK, Starting, Unused
  <2>4. HandedOutIsFinal'
    BY DEF HandedOutIsFinal, CallsTypeOK, Ended, Putting
  <2> QED
    BY <2>1, <2>2, <2>3, <2>4
<1>2. ASSUME LaunchJob(c)
      PROVE  CallInv' /\ StageStep
  <2> USE <1>2 DEF LaunchJob, Go
  <2>1. job[c] \in Runs /\ life[job[c]] = "none"
        /\ life' = [life EXCEPT ![job[c]] = "starting"] /\ UNCHANGED output
        /\ UNCHANGED <<pidfile, meta, docs, listed, recycled, job, held>>
        /\ at' = [at EXCEPT ![c] = "launched"] /\ at[c] = "admitted"
    BY DEF Shape, Launched
  <2>2. CallsTypeOK'
    BY <2>1 DEF CallsTypeOK, Places, Starting
  <2>3. life \in [Runs -> Lives]
    BY DEF StageInv, StagesTypeOK
  <2>4. Shape'
    BY <2>1, <2>3 DEF Shape, CallsTypeOK, Starting, Putting, StartersApart
  <2>5. RecordLaunched' /\ StartersApart'
    BY <2>1, <2>3 DEF RecordLaunched, StartersApart, CallsTypeOK, Starting
  <2>6. HandedOutIsFinal'
    BY <2>1, <2>3 DEF HandedOutIsFinal, CallsTypeOK, Ended, Putting, Shape
  <2>7. StageStep
    BY <2>1 DEF StageStep, Kinds
  <2> QED
    BY <2>2, <2>4, <2>5, <2>6, <2>7
<1>3. ASSUME WritePid(c)
      PROVE  CallInv' /\ UNCHANGED stageVars
  <2> USE <1>3 DEF WritePid, Go, stageVars
  <2>1. CallsTypeOK'
    BY DEF CallsTypeOK, Places, Starting, Shape
  <2>2. Shape'
    BY DEF Shape, CallsTypeOK, Starting, Putting
  <2>3. RecordLaunched' /\ StartersApart'
    BY DEF RecordLaunched, StartersApart, CallsTypeOK, Starting
  <2>4. HandedOutIsFinal'
    BY DEF HandedOutIsFinal, CallsTypeOK, Ended, Putting
  <2> QED
    BY <2>1, <2>2, <2>3, <2>4
<1>4. ASSUME WriteMeta(c)
      PROVE  CallInv' /\ UNCHANGED stageVars
  <2> USE <1>4 DEF WriteMeta, Free, stageVars
  <2>1. CallsTypeOK'
    BY DEF CallsTypeOK, Places, Shape
  <2>2. Shape'
    BY DEF Shape, CallsTypeOK, Starting, Putting, StartersApart
  <2>3. RecordLaunched' /\ StartersApart'
    BY DEF RecordLaunched, StartersApart, CallsTypeOK, Starting, Shape
  <2>4. HandedOutIsFinal'
    BY DEF HandedOutIsFinal, CallsTypeOK, Ended, Putting
  <2> QED
    BY <2>1, <2>2, <2>3, <2>4
<1> QED
  BY <1>1, <1>2, <1>3, <1>4

(* Results: a tool that is over and a job that does not run. *)
LEMMA ResultKeepsCallInv ==
  ASSUME JobsInv, NEW c \in Calls, ToolReturns(c) \/ \E r \in Runs : JobResult(c, r)
  PROVE  CallInv' /\ UNCHANGED stageVars
<1> USE DEF JobsInv, CallInv, diskVars
<1>1. ASSUME NEW r \in Runs, Ended(r), output[r] # "none", UNCHANGED <<stageVars, diskVars, recycled>>,
             at' = [at EXCEPT ![c] = "ingest"], job' = [job EXCEPT ![c] = r],
             held' = [held EXCEPT ![c] = output[r]]
      PROVE  CallInv'
  <2> USE <1>1 DEF stageVars
  <2>1. CallsTypeOK'
    BY DEF CallsTypeOK, Places, StageInv, StagesTypeOK
  <2>2. Shape'
    BY DEF Shape, CallsTypeOK, Starting, Putting
  <2>3. RecordLaunched' /\ StartersApart'
    BY DEF RecordLaunched, StartersApart, CallsTypeOK, Starting
  <2>4. HandedOutIsFinal'
    BY DEF HandedOutIsFinal, CallsTypeOK, Ended, Putting
  <2> QED
    BY <2>1, <2>2, <2>3, <2>4
<1>2. CASE ToolReturns(c)
  <2>1. job[c] \in Runs /\ Ended(job[c]) /\ UNCHANGED <<stageVars, diskVars, recycled>>
    BY <1>2 DEF ToolReturns, Shape
  <2>2. CASE life[job[c]] = "ended"
    <3>1. output[job[c]] = "whole"
      BY <2>1, <2>2 DEF StageInv, OutputInv
    <3>2. job' = [job EXCEPT ![c] = job[c]]
      BY <1>2, <2>2 DEF ToolReturns, CallsTypeOK
    <3> QED
      BY <1>1, <1>2, <2>1, <2>2, <3>1, <3>2 DEF ToolReturns
  <2>3. CASE life[job[c]] # "ended"
    <3>1. Free(c)
      BY <1>2, <2>3 DEF ToolReturns
    <3>2. Quiet
      BY <2>1, RunsAreQuiet
    <3> QED
      BY <2>1, <3>1, <3>2, FreeKeepsCallInv DEF CallsTypeOK
  <2> QED
    BY <2>2, <2>3
<1>3. ASSUME NEW r \in Runs, JobResult(c, r)
      PROVE  CallInv' /\ UNCHANGED stageVars
  <2>1. Ended(r)
    BY <1>3 DEF JobResult, MayRead, Running, Alive, Ended, RecordLaunched, StageInv, StagesTypeOK, Lives
  <2> QED
    BY <1>1, <1>3, <2>1 DEF JobResult
<1> QED
  BY <1>2, <1>3, <1>2 DEF ToolReturns

(* A tool's run is launched: no call had it. *)
LEMMA RunToolKeepsCallInv ==
  ASSUME JobsInv, NEW c \in Calls, NEW r \in Runs, RunTool(c, r)
  PROVE  CallInv' /\ StageStep
<1> USE DEF JobsInv, CallInv, diskVars, RunTool, Take
<1>1. /\ Unused(r) /\ life' = [life EXCEPT ![r] = "starting"] /\ UNCHANGED output
      /\ UNCHANGED <<pidfile, meta, docs, listed, recycled, held>>
      /\ at' = [at EXCEPT ![c] = "tool"] /\ job' = [job EXCEPT ![c] = r] /\ at[c] = "free"
  BY DEF Launched
<1>2. life \in [Runs -> Lives]
  BY DEF StageInv, StagesTypeOK
<1>3. CallsTypeOK'
  BY <1>1 DEF CallsTypeOK, Places
<1>4. Shape'
  BY <1>1, <1>2 DEF Shape, CallsTypeOK, Starting, Putting, Unused
<1>5. RecordLaunched' /\ StartersApart'
  BY <1>1, <1>2 DEF RecordLaunched, StartersApart, CallsTypeOK, Starting
<1>6. HandedOutIsFinal'
  <2> SUFFICES ASSUME NEW d \in Calls, at'[d] \in {"ingest"} \cup Putting
               PROVE  Ended(job[d])' /\ held'[d] = output'[job'[d]]
    BY DEF HandedOutIsFinal
  <2>1. d # c /\ at[d] \in {"ingest"} \cup Putting
    BY <1>1 DEF CallsTypeOK, Putting
  <2>2. Ended(job[d]) /\ held[d] = output[job[d]] /\ job'[d] = job[d]
    BY <1>1, <2>1 DEF HandedOutIsFinal, CallsTypeOK
  <2>3. job[d] # r /\ job[d] \in Runs
    BY <1>1, <2>1, <2>2 DEF Unused, Ended, Shape, Putting
  <2> QED
    BY <1>1, <1>2, <2>2, <2>3 DEF Ended
<1>7. StageStep
  BY DEF StageStep, Kinds
<1> QED
  BY <1>3, <1>4, <1>5, <1>6, <1>7

(* The calls that stop a run. *)
LEMMA StopKeepsCallInv ==
  ASSUME JobsInv, NEW c \in Calls,
         \/ \E r \in Runs : BeginStop(c, r)
         \/ AskFirst(c) \/ AskSecond(c) \/ CancelTool(c) \/ AskToolAgain(c)
  PROVE  CallInv' /\ (StageStep \/ UNCHANGED stageVars)
<1> USE DEF JobsInv, CallInv, diskVars
<1>1. {"checked", "grace", "waiting", "toolgrace", "toolwaiting"}
        \subseteq Places \ ({"ingest"} \cup Starting \cup Putting \cup {"free"})
  BY DEF Places, Starting, Putting
<1>2. ASSUME NEW r \in Runs, BeginStop(c, r)
      PROVE  CallInv' /\ UNCHANGED stageVars
  <2>1. Quiet
    BY <1>2, RunsAreQuiet DEF BeginStop
  <2> QED
    BY <1>1, <1>2, <2>1, ElsewhereKeepsCallInv DEF BeginStop, Take, CallsTypeOK
<1>3. ASSUME at[c] # "free", NEW stage \in 1 .. 2, Ask(job[c], stage) \/ UNCHANGED stageVars,
             NEW place \in {"grace", "waiting", "toolgrace", "toolwaiting"}, Go(c, place),
             UNCHANGED <<diskVars, recycled>>
      PROVE  CallInv' /\ (StageStep \/ UNCHANGED stageVars)
  <2>1. job[c] \in Runs /\ job' = [job EXCEPT ![c] = job[c]]
    BY <1>3 DEF Shape, Go, CallsTypeOK
  <2>2. Quiet /\ (StageStep \/ UNCHANGED stageVars)
    BY <1>3, <2>1, AskIsAStageStep, RunsAreQuiet
  <2> QED
    BY <1>1, <1>3, <2>1, <2>2, ElsewhereKeepsCallInv DEF Go, CallsTypeOK
<1>4. CASE AskFirst(c)
  BY <1>3, <1>4 DEF AskFirst
<1>5. CASE AskSecond(c)
  BY <1>3, <1>5 DEF AskSecond
<1>6. CASE CancelTool(c)
  BY <1>3, <1>6 DEF CancelTool
<1>7. CASE AskToolAgain(c)
  BY <1>3, <1>7 DEF AskToolAgain
<1> QED
  BY <1>2, <1>4, <1>5, <1>6, <1>7

(* The calls that end, and the store. *)
LEMMA LeaveKeepsCallInv ==
  ASSUME JobsInv, NEW c \in Calls,
         \/ StartFails(c) \/ StopReturns(c) \/ LeaveTool(c)
         \/ Put(c) \/ Rename(c) \/ AppendIndex(c) \/ PutFails(c)
  PROVE  CallInv' /\ UNCHANGED stageVars
<1> USE DEF JobsInv, CallInv, diskVars
<1>1. UNCHANGED stageVars /\ Quiet
  <2>1. UNCHANGED stageVars
    BY DEF StartFails, StopReturns, LeaveTool, Put, Rename, AppendIndex, PutFails
  <2> QED
    BY <2>1 DEF Quiet, stageVars, Alive, Ended
<1>2. CASE StartFails(c) \/ StopReturns(c) \/ LeaveTool(c) \/ PutFails(c)
  BY <1>1, <1>2, FreeKeepsCallInv DEF StartFails, StopReturns, LeaveTool, PutFails, CallsTypeOK
<1>3. CASE Put(c)
  <2>1. CASE Free(c)
    BY <1>1, <1>3, <2>1, FreeKeepsCallInv DEF Put, CallsTypeOK
  <2>2. CASE Go(c, "put")
    BY <1>1, <1>3, <2>2, PuttingKeepsCallInv DEF Put, Putting, CallsTypeOK
  <2> QED
    BY <1>3, <2>1, <2>2 DEF Put
<1>4. CASE Rename(c)
  <2>1. Document(c) \in Documents
    BY <1>4, HeldIsADocument DEF Rename, Putting
  <2>2. docs' \subseteq Documents
    BY <1>4, <2>1 DEF Rename, CallsTypeOK
  <2> QED
    BY <1>1, <1>4, <2>2, PuttingKeepsCallInv DEF Rename, Putting
<1>5. CASE AppendIndex(c)
  <2>1. listed' \in [Documents -> Nat]
    BY <1>5, HeldIsADocument DEF AppendIndex, CallsTypeOK, Putting
  <2> QED
    BY <1>1, <1>5, <2>1, FreeKeepsCallInv DEF AppendIndex, CallsTypeOK
<1> QED
  BY <1>1, <1>2, <1>3, <1>4, <1>5

(* What the server and the runs do besides. *)
LEMMA OthersKeepCallInv ==
  ASSUME JobsInv, \/ \E r \in Runs : RunActs(r) \/ Outsider(r) \/ Recycle(r)
                  \/ ServerDies
  PROVE  CallInv' /\ (StageStep \/ UNCHANGED stageVars)
<1> USE DEF JobsInv, CallInv
<1>1. ASSUME NEW r \in Runs, RunActs(r) \/ Outsider(r)
      PROVE  CallInv' /\ StageStep
  <2>1. RunStep(r) \/ Signal(r)
    BY <1>1 DEF RunActs, Outsider
  <2>2. UNCHANGED <<callVars, diskVars, recycled>>
    BY <1>1 DEF RunActs, Outsider
  <2>3. Quiet
    BY <2>1, RunsAreQuiet
  <2> QED
    BY <2>1, <2>2, <2>3, RunsKeepCallInv DEF StageStep, CallsTypeOK
<1>2. ASSUME NEW r \in Runs, Recycle(r)
      PROVE  CallInv' /\ UNCHANGED stageVars
  <2>1. Quiet
    BY <1>2, RunsAreQuiet DEF Recycle
  <2> QED
    BY <1>2, <2>1, RunsKeepCallInv DEF Recycle, CallsTypeOK
<1>3. ASSUME ServerDies
      PROVE  CallInv' /\ UNCHANGED stageVars
  <2> USE <1>3 DEF ServerDies, diskVars, stageVars
  <2>1. CallsTypeOK'
    BY DEF CallsTypeOK, Places
  <2>2. Shape' /\ RecordLaunched' /\ StartersApart' /\ HandedOutIsFinal'
    BY DEF Shape, RecordLaunched, StartersApart, HandedOutIsFinal, Starting, Putting
  <2> QED
    BY <2>1, <2>2
<1> QED
  BY <1>1, <1>2, <1>3

-----------------------------------------------------------------------------
(* The store.  A step that moves nobody into Put or Rename and writes neither *)
(* documents nor index keeps its invariant.                                  *)
LEMMA NoPutKeepsStoreInv ==
  ASSUME StoreInv, UNCHANGED <<docs, listed>>,
         \A c \in Calls : at'[c] \in Putting => at'[c] = at[c] /\ job'[c] = job[c] /\ held'[c] = held[c]
  PROVE  StoreInv'
<1> USE DEF StoreInv
<1>1. OnePuts' /\ ListedOnceAndStored'
  BY DEF OnePuts, ListedOnceAndStored
<1>2. PutKnows'
  BY DEF PutKnows, Putting, Document
<1> QED
  BY <1>1, <1>2

LEMMA PutKeepsStoreInv ==
  ASSUME JobsInv, NEW c \in Calls, Put(c) \/ Rename(c) \/ AppendIndex(c)
  PROVE  StoreInv'
<1> USE DEF JobsInv, CallInv, StoreInv, diskVars
<1>1. CASE Put(c) /\ Free(c)
  <2>1. \A d \in Calls : at'[d] \in Putting => d # c
    BY <1>1 DEF Free, CallsTypeOK, Putting
  <2> QED
    BY <1>1, <2>1, NoPutKeepsStoreInv DEF Put, Free, CallsTypeOK
<1>2. CASE Put(c) /\ Go(c, "put") /\ Document(c) \notin docs
  <2> USE <1>2 DEF Put, Go, CallsTypeOK
  <2>1. OnePuts'
    BY DEF OnePuts, Putting, LockFree
  <2>2. PutKnows'
    BY DEF PutKnows, Putting, Document, LockFree
  <2> QED
    BY <2>1, <2>2 DEF ListedOnceAndStored
<1>3. CASE Rename(c)
  <2> DEFINE D == Document(c)
  <2>1. D \in Documents /\ D \notin docs /\ listed[D] = 0
    BY <1>3, HeldIsADocument DEF Rename, PutKnows, ListedOnceAndStored, CallsTypeOK, Putting
  <2>2. /\ docs' = docs \cup {D} /\ listed' = listed /\ at[c] = "put"
        /\ at' = [at EXCEPT ![c] = "renamed"] /\ job' = job /\ held' = held
    BY <1>3 DEF Rename, Go
  <2>3. \A d \in Calls : at'[d] \in Putting <=> at[d] \in Putting
    BY <2>2 DEF Putting, CallsTypeOK
  <2>4. OnePuts'
    BY <2>3 DEF OnePuts
  <2>5. PutKnows'
    <3> SUFFICES ASSUME NEW d \in Calls, at'[d] \in Putting
                 PROVE  at'[d] = "renamed" /\ Document(d)' \in docs' /\ listed'[Document(d)'] = 0
      BY DEF PutKnows, Putting
    <3>1. d = c
      BY <2>2, <2>3 DEF OnePuts, Putting
    <3>2. Document(d)' = D
      BY <2>2, <3>1 DEF Document
    <3> QED
      BY <2>1, <2>2, <3>1, <3>2 DEF CallsTypeOK
  <2>6. ListedOnceAndStored'
    BY <2>1, <2>2 DEF ListedOnceAndStored, CallsTypeOK
  <2> QED
    BY <2>4, <2>5, <2>6
<1>4. CASE AppendIndex(c)
  <2> DEFINE D == Document(c)
  <2>1. D \in Documents /\ D \in docs /\ listed[D] = 0
    BY <1>4, HeldIsADocument DEF AppendIndex, PutKnows, Putting
  <2>2. /\ docs' = docs /\ listed' = [listed EXCEPT ![D] = @ + 1]
        /\ at[c] = "renamed" /\ at' = [at EXCEPT ![c] = "free"]
        /\ \A d \in Calls : d # c => job'[d] = job[d] /\ held'[d] = held[d]
    BY <1>4 DEF AppendIndex, Free, CallsTypeOK
  <2>3. \A d \in Calls : at'[d] \notin Putting
    BY <2>2 DEF Putting, CallsTypeOK, OnePuts
  <2>4. OnePuts' /\ PutKnows'
    BY <2>3 DEF OnePuts, PutKnows, Putting
  <2> HIDE DEF D
  <2>5. ListedOnceAndStored'
    BY <2>1, <2>2 DEF ListedOnceAndStored, CallsTypeOK
  <2> QED
    BY <2>4, <2>5
<1> QED
  BY <1>1, <1>2, <1>3, <1>4 DEF Put

LEMMA NextKeepsStoreInv ==
  ASSUME JobsInv, JobsNext
  PROVE  StoreInv'
<1> USE DEF JobsInv, CallInv, diskVars
<1>1. ASSUME NEW c \in Calls, Put(c) \/ Rename(c) \/ AppendIndex(c)
      PROVE  StoreInv'
  BY <1>1, PutKeepsStoreInv
<1>2. ASSUME NEW c \in Calls, UNCHANGED <<docs, listed>>, at'[c] \notin Putting,
             \A d \in Calls \ {c} : at'[d] = at[d] /\ job'[d] = job[d] /\ held'[d] = held[d]
      PROVE  StoreInv'
  BY <1>2, NoPutKeepsStoreInv
<1>3. ASSUME NEW c \in Calls, NEW r \in Runs,
             Admit(c, r) \/ BeginStop(c, r) \/ RunTool(c, r) \/ JobResult(c, r)
      PROVE  StoreInv'
  BY <1>2, <1>3 DEF Admit, BeginStop, RunTool, JobResult, Take, Putting, CallsTypeOK
<1>4. ASSUME NEW c \in Calls, LaunchJob(c) \/ WritePid(c) \/ AskFirst(c) \/ AskSecond(c)
                              \/ CancelTool(c) \/ AskToolAgain(c)
      PROVE  StoreInv'
  BY <1>2, <1>4 DEF LaunchJob, WritePid, AskFirst, AskSecond, CancelTool, AskToolAgain, Go,
                    Putting, CallsTypeOK
<1>5. ASSUME NEW c \in Calls, WriteMeta(c) \/ StartFails(c) \/ StopReturns(c) \/ LeaveTool(c)
                              \/ PutFails(c)
      PROVE  StoreInv'
  BY <1>2, <1>5 DEF WriteMeta, StartFails, StopReturns, LeaveTool, PutFails, Free,
                    Putting, CallsTypeOK
<1>6. ASSUME NEW c \in Calls, ToolReturns(c)
      PROVE  StoreInv'
  BY <1>2, <1>6 DEF ToolReturns, Free, Putting, CallsTypeOK
<1>7. ASSUME NEW r \in Runs, RunActs(r) \/ Outsider(r) \/ Recycle(r)
      PROVE  StoreInv'
  BY <1>7, NoPutKeepsStoreInv DEF RunActs, Outsider, Recycle, callVars
<1>8. CASE ServerDies
  BY <1>8, NoPutKeepsStoreInv DEF ServerDies, Putting
<1> QED
  BY <1>1, <1>3, <1>4, <1>5, <1>6, <1>7, <1>8 DEF JobsNext, CallStep

-----------------------------------------------------------------------------
LEMMA JobsInitInv == JobsInit => JobsInv
<1> SUFFICES ASSUME JobsInit
             PROVE  JobsInv
  OBVIOUS
<1>1. StageInv
  BY StagesInitInv DEF JobsInit
<1>2. CallInv /\ StoreInv
  BY DEF JobsInit, CallInv, CallsTypeOK, Shape, RecordLaunched, StartersApart,
         HandedOutIsFinal, StoreInv, OnePuts, PutKnows, ListedOnceAndStored, Places,
         Starting, Putting
<1> QED
  BY <1>1, <1>2 DEF JobsInv

(* Every step is a step of one run, or leaves all of them alone. *)
LEMMA NextKeepsCallInv ==
  ASSUME JobsInv, JobsNext
  PROVE  CallInv' /\ (StageStep \/ UNCHANGED stageVars)
<1>1. ASSUME NEW c \in Calls, CallStep(c)
      PROVE  CallInv' /\ (StageStep \/ UNCHANGED stageVars)
  BY <1>1, StartKeepsCallInv, ResultKeepsCallInv, RunToolKeepsCallInv, StopKeepsCallInv,
     LeaveKeepsCallInv DEF CallStep
<1> QED
  BY <1>1, OthersKeepCallInv DEF JobsNext

LEMMA JobsNextInv ==
  ASSUME JobsInv, [JobsNext]_jobVars
  PROVE  JobsInv'
<1>1. CASE JobsNext
  <2>2. CallInv' /\ (StageStep \/ UNCHANGED stageVars)
    BY <1>1, NextKeepsCallInv
  <2>3. StageInv'
    BY <2>2, StageStepKeepsInv, StutterKeepsInv DEF JobsInv
  <2> QED
    BY <1>1, <2>2, <2>3, NextKeepsStoreInv DEF JobsInv
<1>2. CASE UNCHANGED jobVars
  <2>1. StageInv'
    BY <1>2, StutterKeepsInv DEF JobsInv, jobVars
  <2>2. UNCHANGED <<life, output, at, job, held, pidfile, meta, recycled, docs, listed>>
    BY <1>2 DEF jobVars, stageVars, callVars, diskVars
  <2>3. CallInv'
    BY <2>2 DEF JobsInv, CallInv, CallsTypeOK, Shape, RecordLaunched, StartersApart,
                HandedOutIsFinal, Ended
  <2>4. StoreInv'
    BY <2>2 DEF JobsInv, StoreInv, OnePuts, PutKnows, ListedOnceAndStored, Document
  <2> QED
    BY <2>1, <2>3, <2>4 DEF JobsInv
<1> QED
  BY <1>1, <1>2

LEMMA JobsInvAlways == JobsSpec => []JobsInv
<1>1. JobsInv /\ [JobsNext]_jobVars => JobsInv'
  BY JobsNextInv
<1> QED
  BY JobsInitInv, <1>1, PTL DEF JobsSpec

-----------------------------------------------------------------------------
(* Types, for any instance. *)
THEOREM JobsTypes == JobsSpec => []JobsTypeOK
<1>1. JobsInv => JobsTypeOK
  BY DEF JobsInv, StageInv, CallInv, CallsTypeOK, JobsTypeOK
<1> QED
  BY <1>1, JobsInvAlways, PTL

(* A run's stage is the highest one asked of it, by signals or by the control *)
(* file, whoever asks and in any order (stopfile.go:21-25).                  *)
THEOREM StagesAreAsked == JobsSpec => []StageIsHighestAsked
<1>1. JobsInv => StageIsHighestAsked
  BY DEF JobsInv, StageInv
<1> QED
  BY <1>1, JobsInvAlways, PTL

(* A stop request waits or was applied, even if it came before the run       *)
(* listened (stopfile.go:52-56).                                             *)
THEOREM RequestsAreKept == JobsSpec => []NoRequestLost
<1>1. JobsInv => NoRequestLost
  BY DEF JobsInv, StageInv
<1> QED
  BY <1>1, JobsInvAlways, PTL

(* A result handed out is the last word of a run that is over                *)
(* (jobs.go:205-222).                                                        *)
THEOREM ResultsAreFinal == JobsSpec => []HandedOutIsFinal
<1>1. JobsInv => HandedOutIsFinal
  BY DEF JobsInv, CallInv
<1> QED
  BY <1>1, JobsInvAlways, PTL

(* The index names every document at most once, and only documents that are  *)
(* there (store.go:57-78).                                                   *)
THEOREM IndexIsTrue == JobsSpec => []ListedOnceAndStored
<1>1. JobsInv => ListedOnceAndStored
  BY DEF JobsInv, StoreInv
<1> QED
  BY <1>1, JobsInvAlways, PTL

-----------------------------------------------------------------------------
(* The cap.  A job that was admitted found room, but so may every other call *)
(* that looked before it was on record: the jobs that run and the starts     *)
(* under way are never more than the room there was and a start of each call.*)
Living == {r \in meta : Alive(r)}
Starters == {c \in Calls : at[c] \in Starting}
CapInv == Cardinality(Living) + Cardinality(Starters) <= MaxJobs - 1 + Cardinality(Calls)

LEMMA LivingIsFinite ==
  ASSUME JobsInv
  PROVE  IsFiniteSet(Living) /\ Cardinality(Living) \in Nat
<1>1. Living \subseteq Runs
  BY DEF Living, JobsInv, CallInv, CallsTypeOK
<1> QED
  BY <1>1, JobsAssumption, FS_Subset, FS_CardinalityType

LEMMA OneMoreLiving ==
  ASSUME JobsInv, NEW r
  PROVE  /\ IsFiniteSet(Living \cup {r})
         /\ Cardinality(Living \cup {r}) <= Cardinality(Living) + 1
         /\ Cardinality(Living \cup {r}) \in Nat
<1>1. IsFiniteSet(Living) /\ Cardinality(Living) \in Nat
  BY LivingIsFinite
<1>2. /\ IsFiniteSet(Living \cup {r})
      /\ \/ Cardinality(Living \cup {r}) = Cardinality(Living)
         \/ Cardinality(Living \cup {r}) = Cardinality(Living) + 1
  BY <1>1, FS_AddElement
<1> QED
  BY <1>1, <1>2

LEMMA NobodyRises ==
  ASSUME JobsInv, StageStep \/ UNCHANGED stageVars, NEW q \in Runs, Alive(q)'
  PROVE  Alive(q) \/ life[q] = "none"
<1>1. CASE UNCHANGED stageVars
  BY <1>1 DEF stageVars, Alive
<1>2. CASE StageStep
  <2>1. PICK r \in Runs : \/ RunStep(r) \/ Signal(r)
                          \/ \E stage \in 1 .. 2 : AskByFile(r, stage)
                          \/ \E k \in Kinds : Launched(r, k)
    BY <1>2 DEF StageStep
  <2>2. CASE \E k \in Kinds : Launched(r, k)
    BY <2>2 DEF Launched, Alive
  <2>3. CASE ~ \E k \in Kinds : Launched(r, k)
    BY <2>1, <2>3, RunsAreQuiet DEF Quiet, JobsInv
  <2> QED
    BY <2>2, <2>3
<1> QED
  BY <1>1, <1>2

LEMMA LivingShrinks ==
  ASSUME JobsInv, JobsNext, UNCHANGED meta
  PROVE  Cardinality(Living') <= Cardinality(Living) /\ Cardinality(Living') \in Nat
<1>1. Living' \subseteq Living
  BY NextKeepsCallInv, NobodyRises DEF Living, JobsInv, CallInv, CallsTypeOK, RecordLaunched
<1> QED
  BY <1>1, LivingIsFinite, FS_Subset, FS_CardinalityType

LEMMA StartersAreFinite ==
  /\ IsFiniteSet(Starters) /\ Cardinality(Starters) \in Nat
  /\ Cardinality(Starters) <= Cardinality(Calls) /\ Cardinality(Calls) \in Nat
<1>1. Starters \subseteq Calls
  BY DEF Starters
<1> QED
  BY <1>1, JobsAssumption, FS_Subset, FS_CardinalityType

LEMMA AdmitKeepsCap ==
  ASSUME JobsInv, NEW c \in Calls, NEW r \in Runs, Admit(c, r)
  PROVE  CapInv'
<1>1. UNCHANGED <<meta, life>>
  BY DEF Admit, diskVars, stageVars
<1>2. Living' = Living
  BY <1>1 DEF Living, Alive
<1>3. Cardinality(Living) < MaxJobs
  <2> DEFINE P == {q \in meta : PidAlive(q)}
  <2>1. P \subseteq Runs /\ Living \subseteq P
    BY DEF Living, PidAlive, JobsInv, CallInv, CallsTypeOK
  <2>2. IsFiniteSet(P) /\ Cardinality(P) \in Nat
    BY <2>1, JobsAssumption, FS_Subset, FS_CardinalityType
  <2>3. Cardinality(Living) <= Cardinality(P)
    BY <2>1, <2>2, FS_Subset
  <2>4. Cardinality(P) < MaxJobs
    BY DEF Admit, Room
  <2> QED
    BY <2>2, <2>3, <2>4, LivingIsFinite, JobsAssumption
<1>4. /\ Cardinality(Starters') <= Cardinality(Calls) /\ Cardinality(Starters') \in Nat
      /\ Cardinality(Calls) \in Nat
  <2>1. Starters' \subseteq Calls
    BY DEF Starters
  <2> QED
    BY <2>1, JobsAssumption, FS_Subset, FS_CardinalityType
<1>5. Cardinality(Living') + Cardinality(Starters') <= MaxJobs - 1 + Cardinality(Calls)
  BY <1>2, <1>3, <1>4, LivingIsFinite, JobsAssumption
<1> QED
  BY <1>5 DEF CapInv

(* A start that gets on record is one start less and one job more.           *)
LEMMA WriteMetaKeepsCap ==
  ASSUME JobsInv, CapInv, NEW c \in Calls, WriteMeta(c)
  PROVE  CapInv'
<1>1. Starters' = Starters \ {c} /\ c \in Starters
  BY DEF WriteMeta, Free, Starters, JobsInv, CallInv, CallsTypeOK, Starting
<1>2. Cardinality(Starters') = Cardinality(Starters) - 1
  BY <1>1, StartersAreFinite, FS_RemoveElement
<1>3. Living' \subseteq Living \cup {job[c]}
  BY DEF WriteMeta, stageVars, Living, Alive
<1>4. /\ IsFiniteSet(Living \cup {job[c]})
      /\ Cardinality(Living \cup {job[c]}) <= Cardinality(Living) + 1
      /\ Cardinality(Living \cup {job[c]}) \in Nat
  BY OneMoreLiving
<1>5. Cardinality(Living') <= Cardinality(Living \cup {job[c]}) /\ Cardinality(Living') \in Nat
  BY <1>3, <1>4, FS_Subset, FS_CardinalityType
<1>6. Cardinality(Living') + Cardinality(Starters') <= Cardinality(Living) + Cardinality(Starters)
  BY <1>2, <1>4, <1>5, LivingIsFinite, StartersAreFinite
<1>7. Cardinality(Starters') \in Nat
  BY <1>1, StartersAreFinite, FS_RemoveElement, FS_CardinalityType
<1> QED
  BY <1>5, <1>6, <1>7, LivingIsFinite, StartersAreFinite, JobsAssumption DEF CapInv

(* The other steps admit nobody and record nobody. *)
LEMMA OthersKeepCap ==
  ASSUME JobsInv, CapInv, JobsNext, UNCHANGED meta,
         \A d \in Calls : at'[d] \in Starting => at[d] \in Starting
  PROVE  CapInv'
<1>1. /\ Cardinality(Living') <= Cardinality(Living)
      /\ Cardinality(Living') \in Nat /\ Cardinality(Living) \in Nat
  BY LivingShrinks, LivingIsFinite
<1>2. Starters' \subseteq Starters
  BY DEF Starters
<1>3. Cardinality(Starters') <= Cardinality(Starters) /\ Cardinality(Starters') \in Nat
  BY <1>2, StartersAreFinite, FS_Subset, FS_CardinalityType
<1> QED
  BY <1>1, <1>3, StartersAreFinite, JobsAssumption DEF CapInv

LEMMA NextKeepsCap ==
  ASSUME JobsInv, CapInv, JobsNext
  PROVE  CapInv'
<1> USE DEF diskVars
<1> DEFINE Settled == UNCHANGED meta /\ \A d \in Calls : at'[d] \in Starting => at[d] \in Starting
<1>1. ASSUME Settled
      PROVE  CapInv'
  BY <1>1, OthersKeepCap
<1>2. ASSUME NEW c \in Calls, NEW r \in Runs, BeginStop(c, r) \/ RunTool(c, r) \/ JobResult(c, r)
      PROVE  Settled
  BY <1>2 DEF BeginStop, RunTool, JobResult, Take, Starting, JobsInv, CallInv, CallsTypeOK
<1>3. ASSUME NEW c \in Calls, LaunchJob(c) \/ WritePid(c) \/ AskFirst(c) \/ AskSecond(c)
                              \/ CancelTool(c) \/ AskToolAgain(c)
      PROVE  Settled
  BY <1>3 DEF LaunchJob, WritePid, AskFirst, AskSecond, CancelTool, AskToolAgain, Go,
              Starting, JobsInv, CallInv, CallsTypeOK
<1>4. ASSUME NEW c \in Calls, \/ StartFails(c) \/ StopReturns(c) \/ LeaveTool(c) \/ ToolReturns(c)
                              \/ Put(c) \/ Rename(c) \/ AppendIndex(c) \/ PutFails(c)
      PROVE  Settled
  BY <1>4 DEF StartFails, StopReturns, LeaveTool, ToolReturns, Put, Rename, AppendIndex,
              PutFails, Free, Go, Starting, JobsInv, CallInv, CallsTypeOK
<1>5. ASSUME NEW r \in Runs, RunActs(r) \/ Outsider(r) \/ Recycle(r)
      PROVE  Settled
  BY <1>5 DEF RunActs, Outsider, Recycle, callVars
<1>6. ASSUME ServerDies
      PROVE  Settled
  BY <1>6 DEF ServerDies, Starting
<1> HIDE DEF Settled
<1> QED
  BY <1>1, <1>2, <1>3, <1>4, <1>5, <1>6, AdmitKeepsCap, WriteMetaKeepsCap DEF JobsNext, CallStep

LEMMA InitHasRoom == JobsInit => CapInv
<1>1. JobsInit => Living = {} /\ Starters = {}
  BY DEF JobsInit, Living, Starters, Starting
<1>2. Cardinality({}) = 0
  BY FS_EmptySet
<1>3. 0 + 0 <= MaxJobs - 1 + Cardinality(Calls)
  BY StartersAreFinite, JobsAssumption
<1> QED
  BY <1>1, <1>2, <1>3 DEF CapInv

(* The jobs on record that run exceed -max-jobs by no more than the calls    *)
(* that can look at the same time, less one: a single caller keeps to the    *)
(* cap, and the gap between the check and the record costs one job for each  *)
(* further call (jobs.go:67, 117-134).                                       *)
OverbookedByCallsOnly ==
  Cardinality({r \in meta : Alive(r)}) <= MaxJobs + Cardinality(Calls) - 1

(* The cap is exceeded by overlapping starts only, whatever ends, fails, is  *)
(* stopped or recycled, and whenever the server dies.                        *)
THEOREM CapExceededByCallsOnly == JobsSpec => []OverbookedByCallsOnly
<1>1. JobsInit => CapInv
  BY InitHasRoom
<1>2. JobsInv /\ CapInv /\ [JobsNext]_jobVars => CapInv'
  <2>1. JobsInv /\ CapInv /\ JobsNext => CapInv'
    BY NextKeepsCap
  <2>2. CapInv /\ UNCHANGED jobVars => CapInv'
    BY DEF jobVars, stageVars, callVars, diskVars, CapInv, Starters, Living, Alive
  <2> QED
    BY <2>1, <2>2
<1>3. JobsInv /\ CapInv => OverbookedByCallsOnly
  BY LivingIsFinite, StartersAreFinite, JobsAssumption
     DEF CapInv, OverbookedByCallsOnly, Living
<1> QED
  BY <1>1, <1>2, <1>3, JobsInvAlways, PTL DEF JobsSpec
=============================================================================
