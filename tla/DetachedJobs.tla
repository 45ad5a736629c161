----------------------------- MODULE DetachedJobs -----------------------------
(***************************************************************************)
(* Who launches and stops runs: the jobs of the MCP server (Jobs.Start,    *)
(* Stop, Result), its synchronous tools (Runner.Run), rwrun, and runctl's  *)
(* pid file under them; and the document store their results go to.  Each  *)
(* tool call is a goroutine, so calls interleave; the server may die       *)
(* between any two steps, and what it left on disk is then the truth.      *)
(***************************************************************************)
EXTENDS StopStages, FiniteSets

CONSTANTS Calls,       \* tool calls (and rwrun -stop) under way together
          MaxJobs,     \* -max-jobs
          NoRun,       \* the run of a call that has none
          Content,     \* what a run's document says
          ToolRuns,    \* bound: the runs that may be a tool's
          MaxSignals   \* bound: signals somebody else sends to a run

ASSUME JobsAssumption ==
  /\ IsFiniteSet(Runs) /\ IsFiniteSet(Calls) /\ NoRun \notin Runs
  /\ MaxJobs \in Nat \ {0} /\ MaxSignals \in Nat
  /\ ToolRuns \subseteq Runs

VARIABLES
  pidfile, meta,  \* the runs with a pid file, with a meta.json
  recycled,       \* ended runs whose pid is another process now
  at, job, held,  \* of a call: how far it is, its run, the output it has read
  docs,           \* Store: the documents/<id>.yaml that exist
  listed          \* the lines of index.jsonl about a document

callVars == <<at, job, held>>
diskVars == <<pidfile, meta, docs, listed>>
jobVars == <<stageVars, callVars, diskVars, recycled>>

Documents == {Content[r] : r \in Runs} \X {"cut", "whole"}
Starting == {"admitted", "launched", "recorded"}
Putting == {"put", "renamed"}
Places == {"free", "checked", "grace", "waiting", "ingest", "tool", "toolgrace", "toolwaiting"}
            \cup Starting \cup Putting

\* runctl.PidAlive knows the number only; Jobs.Status looks at the name too,
\* which tells a run from another process that has its number now.
PidAlive(r) == Alive(r) \/ r \in recycled
Running(r) == Alive(r)

Go(c, place) == at' = [at EXCEPT ![c] = place] /\ UNCHANGED <<job, held>>
Take(c, r, place) == /\ at[c] = "free"
                     /\ at' = [at EXCEPT ![c] = place] /\ job' = [job EXCEPT ![c] = r]
                     /\ UNCHANGED held
\* A call returns.
Free(c) == /\ at' = [at EXCEPT ![c] = "free"]
           /\ job' = [job EXCEPT ![c] = NoRun] /\ held' = [held EXCEPT ![c] = "none"]

JobsInit == /\ StagesInit
            /\ pidfile = {} /\ meta = {} /\ recycled = {} /\ docs = {}
            /\ listed = [d \in Documents |-> 0]
            /\ at = [c \in Calls |-> "free"]
            /\ job = [c \in Calls |-> NoRun]
            /\ held = [c \in Calls |-> "none"]

-----------------------------------------------------------------------------
\* Jobs.Start: the capacity is checked first, under a lock that covers only the
\* check; it counts the runs on record.
Room == Cardinality({r \in meta : PidAlive(r)}) < MaxJobs

Unused(r) == life[r] = "none" /\ \A c \in Calls : at[c] \in Starting => job[c] # r

Admit(c, r) ==
  /\ Unused(r) /\ Room
  /\ Take(c, r, "admitted")
  /\ UNCHANGED <<stageVars, diskVars, recycled>>

LaunchJob(c) == /\ at[c] = "admitted"
                /\ Launched(job[c], "search") /\ Go(c, "launched")
                /\ UNCHANGED <<diskVars, recycled>>

WritePid(c) == /\ at[c] = "launched"
               /\ pidfile' = pidfile \cup {job[c]} /\ Go(c, "recorded")
               /\ UNCHANGED <<stageVars, meta, docs, listed, recycled>>

WriteMeta(c) == /\ at[c] = "recorded"
                /\ meta' = meta \cup {job[c]} /\ Free(c)
                /\ UNCHANGED <<stageVars, pidfile, docs, listed, recycled>>

\* Any of them fails: the error is returned, and what was done stays done.
StartFails(c) == /\ at[c] \in Starting
                 /\ Free(c)
                 /\ UNCHANGED <<stageVars, diskVars, recycled>>

-----------------------------------------------------------------------------
\* runctl.Stop, for job_stop and rwrun -stop: the name is checked once.
BeginStop(c, r) == /\ r \in pidfile /\ PidAlive(r) /\ r \notin recycled
                   /\ Take(c, r, "checked")
                   /\ UNCHANGED <<stageVars, diskVars, recycled>>

\* requestStop: the number of the stage matters to the control file only.  A
\* signal to another process now of that number does not concern the runs.
Ask(r, stage) == IF byFile THEN AskByFile(r, stage)
                 ELSE IF Alive(r) THEN Signal(r) ELSE UNCHANGED stageVars

AskFirst(c) == /\ at[c] = "checked"
               /\ byFile \/ PidAlive(job[c])
               /\ Ask(job[c], 1) /\ Go(c, "grace")
               /\ UNCHANGED <<diskVars, recycled>>

AskSecond(c) == /\ at[c] = "grace"
                /\ IF PidAlive(job[c]) THEN Ask(job[c], 2) ELSE UNCHANGED stageVars
                /\ Go(c, "waiting")
                /\ UNCHANGED <<diskVars, recycled>>

\* The process is gone when it was to be asked (ESRCH) or while the call waits;
\* or the wait is over and the call reports that the run is still alive.
StopReturns(c) == /\ \/ at[c] = "checked" /\ ~byFile /\ ~PidAlive(job[c])
                     \/ at[c] = "waiting"
                  /\ Free(c)
                  /\ UNCHANGED <<stageVars, diskVars, recycled>>

-----------------------------------------------------------------------------
\* Runner.Run for optimize: launched, waited for, and on cancellation asked to
\* stop, asked again after the grace, and left behind after the wait.
RunTool(c, r) == /\ Unused(r) /\ r \in ToolRuns
                 /\ Launched(r, "optimize") /\ Take(c, r, "tool")
                 /\ UNCHANGED <<diskVars, recycled>>

CancelTool(c) == /\ at[c] = "tool" /\ Alive(job[c])
                 /\ Ask(job[c], 1) /\ Go(c, "toolgrace")
                 /\ UNCHANGED <<diskVars, recycled>>

AskToolAgain(c) == /\ at[c] = "toolgrace" /\ Alive(job[c])
                   /\ Ask(job[c], 2) /\ Go(c, "toolwaiting")
                   /\ UNCHANGED <<diskVars, recycled>>

LeaveTool(c) == /\ at[c] = "toolwaiting" /\ Alive(job[c])
                /\ Free(c)
                /\ UNCHANGED <<stageVars, diskVars, recycled>>

\* runDocTool takes the document of a run that exited with 0, cancelled or not.
ToolReturns(c) ==
  /\ at[c] \in {"tool", "toolgrace", "toolwaiting"} /\ Ended(job[c])
  /\ IF life[job[c]] = "ended"
     THEN /\ at' = [at EXCEPT ![c] = "ingest"] /\ UNCHANGED job
          /\ held' = [held EXCEPT ![c] = output[job[c]]]
     ELSE Free(c)
  /\ UNCHANGED <<stageVars, diskVars, recycled>>

-----------------------------------------------------------------------------
\* Jobs.Result: refused while the job runs and when there is no output.
AnyTime(r) == TRUE   \* a mutant
MayRead(r) == ~Running(r)

JobResult(c, r) ==
  /\ r \in meta /\ MayRead(r) /\ output[r] # "none"
  /\ at[c] = "free" /\ at' = [at EXCEPT ![c] = "ingest"]
  /\ job' = [job EXCEPT ![c] = r] /\ held' = [held EXCEPT ![c] = output[r]]
  /\ UNCHANGED <<stageVars, diskVars, recycled>>

\* Store.Put, under the store's lock: a document that is there is left alone;
\* else a temporary file is renamed, then the index gets a line.
Document(c) == <<Content[job[c]], held[c]>>
Unlocked == TRUE     \* a mutant
LockFree == \A d \in Calls : at[d] \notin Putting

Put(c) == /\ at[c] = "ingest" /\ LockFree
          /\ IF Document(c) \in docs THEN Free(c) ELSE Go(c, "put")
          /\ UNCHANGED <<stageVars, diskVars, recycled>>

Rename(c) == /\ at[c] = "put"
             /\ docs' = docs \cup {Document(c)} /\ Go(c, "renamed")
             /\ UNCHANGED <<stageVars, pidfile, meta, listed, recycled>>

AppendIndex(c) == /\ at[c] = "renamed"
                  /\ listed' = [listed EXCEPT ![Document(c)] = @ + 1] /\ Free(c)
                  /\ UNCHANGED <<stageVars, pidfile, meta, docs, recycled>>

PutFails(c) == /\ at[c] \in Putting
               /\ Free(c)
               /\ UNCHANGED <<stageVars, diskVars, recycled>>

-----------------------------------------------------------------------------
\* The server dies, its calls with it; the runs and the files stay.
ServerDies == /\ \E c \in Calls : at[c] # "free"
              /\ at' = [c \in Calls |-> "free"] /\ job' = [c \in Calls |-> NoRun]
              /\ held' = [c \in Calls |-> "none"]
              /\ UNCHANGED <<stageVars, diskVars, recycled>>

\* Somebody signals a run: an operator's kill.  Where rayweave stops runs by
\* signals itself, one more call of Stop does the same.
Outsider(r) == /\ byFile /\ counted[r] + queued[r] < MaxSignals
               /\ Signal(r)
               /\ UNCHANGED <<callVars, diskVars, recycled>>

\* The number of an ended run is given to another process.
Recycle(r) == /\ Ended(r) /\ r \in pidfile \ recycled
              /\ recycled' = recycled \cup {r}
              /\ UNCHANGED <<stageVars, callVars, diskVars>>

RunActs(r) == RunStep(r) /\ UNCHANGED <<callVars, diskVars, recycled>>

CallStep(c) == \/ \E r \in Runs : Admit(c, r) \/ BeginStop(c, r) \/ RunTool(c, r) \/ JobResult(c, r)
               \/ LaunchJob(c) \/ WritePid(c) \/ WriteMeta(c) \/ StartFails(c)
               \/ AskFirst(c) \/ AskSecond(c) \/ StopReturns(c)
               \/ CancelTool(c) \/ AskToolAgain(c) \/ LeaveTool(c) \/ ToolReturns(c)
               \/ Put(c) \/ Rename(c) \/ AppendIndex(c) \/ PutFails(c)

JobsNext == \/ \E c \in Calls : CallStep(c)
            \/ \E r \in Runs : RunActs(r) \/ Outsider(r) \/ Recycle(r)
            \/ ServerDies

JobsSpec == JobsInit /\ [][JobsNext]_jobVars

-----------------------------------------------------------------------------
JobsTypeOK == /\ StagesTypeOK
              /\ pidfile \subseteq Runs /\ meta \subseteq Runs /\ recycled \subseteq Runs
              /\ at \in [Calls -> Places] /\ job \in [Calls -> Runs \cup {NoRun}]
              /\ held \in [Calls -> {"none", "cut", "whole"}]
              /\ docs \subseteq Documents /\ listed \in [Documents -> Nat]

\* "Jobs are capped by -max-jobs across the workspace" (docs/mcp.md:459): the
\* jobs on record that run are never more.  Start lets go of the lock of its
\* check before the job is launched and on record (jobs.go:67, 117-134).
WithinCapacity == Cardinality({r \in meta : Alive(r)}) <= MaxJobs

\* What a call has taken for a result is the last word of a run that is over,
\* although a search streams its document from early on (jobs.go:205-222).
HandedOutIsFinal == \A c \in Calls : at[c] \in {"ingest"} \cup Putting =>
                                       Ended(job[c]) /\ held[c] = output[job[c]]

\* The index names each document at most once, and only documents that are
\* there, whatever failed or died between the file and its line (store.go:57-78).
ListedOnceAndStored == \A d \in Documents : listed[d] <= (IF d \in docs THEN 1 ELSE 0)

\* No stop that rayweave itself sends force-quits a run: "a third stage would
\* force-quit ... so neither is ever sent" (docs/mcp.md:453-454, runctl.go:171),
\* and the second request to a cancelled optimize "still leaves the document on
\* stdout" (runner.go:141-143, docs/mcp.md:491-494).
NeverForceQuit == \A r \in Runs : life[r] # "quit"
=============================================================================
