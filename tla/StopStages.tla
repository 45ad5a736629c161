------------------------------ MODULE StopStages ------------------------------
(***************************************************************************)
(* The run's side of a staged stop: rayweave escape, pso and optimize.     *)
(* Stages are asked for through signals, which are counted, and through a  *)
(* control file, which names them; stageRunner applies each stage once.    *)
(* The last stage leaves the process at once.  A search has three stages,  *)
(* optimize two.  A search streams its document while it runs.             *)
(***************************************************************************)
EXTENDS Integers

CONSTANT Runs   \* the processes that may be launched

Kinds == {"search", "optimize"}
Stages(k) == IF k = "search" THEN 3 ELSE 2

VARIABLES
  byFile,    \* the platform stops runs through the control file
  kind,      \* the command of a run
  life,      \* of its process
  output,    \* its stdout: "none", "cut" or the "whole" document
  queued,    \* sigCh: signals that wait for the handler
  counted,   \* n of the handler: the signals it has taken
  stopFile,  \* the highest stage written to the control file, or 0
  seen,      \* the highest of them the watcher has asked for
  applied,   \* stageRunner.applied
  asked      \* history: the living runs that were asked to stop

stageVars == <<byFile, kind, life, output, queued, counted, stopFile, seen, applied,
               asked>>

Lives == {"none", "starting", "running", "ended", "quit", "died"}
Alive(r) == life[r] \in {"starting", "running"}
Ended(r) == life[r] \in {"ended", "quit", "died"}

StagesTypeOK == /\ byFile \in BOOLEAN /\ kind \in [Runs -> Kinds]
                /\ life \in [Runs -> Lives] /\ output \in [Runs -> {"none", "cut", "whole"}]
                /\ queued \in [Runs -> 0 .. 3] /\ counted \in [Runs -> Nat]
                /\ stopFile \in [Runs -> 0 .. 2] /\ seen \in [Runs -> 0 .. 2]
                /\ applied \in [Runs -> 0 .. 3] /\ asked \subseteq Runs

StagesInit == /\ byFile \in BOOLEAN /\ kind \in [Runs -> {"search"}]
              /\ life = [r \in Runs |-> "none"] /\ output = [r \in Runs |-> "none"]
              /\ queued = [r \in Runs |-> 0] /\ counted = [r \in Runs |-> 0]
              /\ stopFile = [r \in Runs |-> 0] /\ seen = [r \in Runs |-> 0]
              /\ applied = [r \in Runs |-> 0] /\ asked = {}

\* runctl.Launch and Runner.Run: the control file is there, and empty, before
\* the process is.
Launched(r, k) ==
  /\ life[r] = "none"
  /\ life' = [life EXCEPT ![r] = "starting"]
  /\ kind' = [kind EXCEPT ![r] = k]
  /\ UNCHANGED <<byFile, output, queued, counted, stopFile, seen, applied, asked>>

\* The handler and the watcher are in place.
Emptied(file) == 0    \* a mutant: the run creates its control file itself
Kept(file) == file

Listens(r) == /\ life[r] = "starting"
              /\ life' = [life EXCEPT ![r] = "running"]
              /\ stopFile' = [stopFile EXCEPT ![r] = Kept(@)]
              /\ UNCHANGED <<byFile, kind, output, queued, counted, seen, applied, asked>>

\* The process is over, and what it held in memory with it.
Over(r, how, text) ==
  /\ life' = [life EXCEPT ![r] = how] /\ output' = [output EXCEPT ![r] = text]
  /\ queued' = [queued EXCEPT ![r] = 0] /\ counted' = [counted EXCEPT ![r] = 0]
  /\ stopFile' = [stopFile EXCEPT ![r] = 0] /\ seen' = [seen EXCEPT ![r] = 0]
  /\ applied' = [applied EXCEPT ![r] = 0] /\ asked' = asked \ {r}
  /\ UNCHANGED <<byFile, kind>>

\* sigCh is as long as the stages are many.
NoLimit(r) == TRUE    \* a mutant
HasPlace(r) == queued[r] < Stages(kind[r])

\* A signal: before anybody listens it is the end of the process; the system
\* may merge it with one that waits, and a full sigCh drops it.
Signal(r) ==
  \/ life[r] = "starting" /\ Over(r, "died", output[r])
  \/ /\ life[r] = "running"
     /\ \/ HasPlace(r) /\ queued' = [queued EXCEPT ![r] = @ + 1]
        \/ queued[r] > 0 /\ UNCHANGED queued
     /\ asked' = asked \cup {r}
     /\ UNCHANGED <<byFile, kind, life, output, counted, stopFile, seen, applied>>

\* A stage number is appended to the control file: only the highest matters to
\* its reader, and nobody reads that of a run which is over.
AskByFile(r, stage) ==
  /\ stopFile' = [stopFile EXCEPT ![r] = IF Alive(r) /\ stage > @ THEN stage ELSE @]
  /\ asked' = IF Alive(r) THEN asked \cup {r} ELSE asked
  /\ UNCHANGED <<byFile, kind, life, output, queued, counted, seen, applied>>

\* stageRunner.request(n): every stage up to n not applied yet.
NextStage(r, n) == applied[r] + 1   \* a mutant: one stage more for each request
UpTo(r, n) == LET m == IF n < Stages(kind[r]) THEN n ELSE Stages(kind[r])
              IN  IF m > applied[r] THEN m ELSE applied[r]

\* The last stage is os.Exit(1), whatever is being written.
Exits(r, n) == /\ UpTo(r, n) = Stages(kind[r])
               /\ \E text \in {output[r], "cut"} : Over(r, "quit", text)
Applies(r, n) == /\ UpTo(r, n) < Stages(kind[r])
                 /\ applied' = [applied EXCEPT ![r] = UpTo(r, n)]
                 /\ UNCHANGED <<byFile, kind, life, output, stopFile, asked>>

HandleSignal(r) ==
  LET n == counted[r] + 1 IN
  /\ life[r] = "running" /\ queued[r] > 0
  /\ \/ Exits(r, n)
     \/ /\ Applies(r, n)
        /\ queued' = [queued EXCEPT ![r] = @ - 1] /\ counted' = [counted EXCEPT ![r] = n]
        /\ UNCHANGED seen

\* A poll of the control file; numbers that were seen are skipped.
WatchStopFile(r) ==
  LET n == stopFile[r] IN
  /\ life[r] = "running" /\ n > seen[r]
  /\ \/ Exits(r, n)
     \/ Applies(r, n) /\ seen' = [seen EXCEPT ![r] = n] /\ UNCHANGED <<queued, counted>>

\* A search writes its document block by block from early on.
Stream(r) == /\ life[r] = "running" /\ kind[r] = "search" /\ output[r] = "none"
             /\ output' = [output EXCEPT ![r] = "cut"]
             /\ UNCHANGED <<byFile, kind, life, queued, counted, stopFile, seen, applied, asked>>

\* The search is over, by itself or because it was asked to stop.
Finishes(r) == life[r] = "running" /\ Over(r, "ended", "whole")

\* A fatal error, or the system kills it.
Dies(r) == Alive(r) /\ Over(r, "died", output[r])

RunStep(r) == \/ Listens(r) \/ HandleSignal(r) \/ WatchStopFile(r)
              \/ Stream(r) \/ Finishes(r) \/ Dies(r)

-----------------------------------------------------------------------------
\* The stage a run has reached is the highest one that was asked of it by
\* either way: a late first request rewinds nothing, and a signal and a control
\* file that both ask for the first stage do not add up to the second
\* (stopfile.go:21-25).
StageIsHighestAsked ==
  \A r \in Runs : applied[r] = IF counted[r] > seen[r] THEN counted[r] ELSE seen[r]

\* A stop request is never lost: it waits for the handler or in the control
\* file, or a stage was applied, even if it came before the run listened
\* (stopfile.go:52-56, runctl.go:83-85).
NoRequestLost ==
  \A r \in asked : applied[r] > 0 \/ queued[r] > 0 \/ stopFile[r] > seen[r]
=============================================================================
