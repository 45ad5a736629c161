---------------------------- MODULE JacobianSweep ----------------------------
(***************************************************************************)
(* One Jacobian sweep of the damped-least-squares solver:                  *)
(* dls.computeJacobians and dls.parallelColumns.  A dispatcher hands the   *)
(* columns, in order, over an unbuffered channel to the workers; it and    *)
(* every idle worker also select on the stop channel, so each of them may  *)
(* leave first.  The sweep returns when the dispatcher has closed the      *)
(* channel and every worker has left; after a stop some columns are        *)
(* missing, and the solver has to notice.  With one worker or one column   *)
(* the columns are computed in a loop that looks at stop before each.      *)
(***************************************************************************)
EXTENDS Integers

CONSTANTS MaxWorkers,  \* the most goroutines a parallel sweep starts
          NumCols      \* the number of variables, one column each

ASSUME SweepAssumption == {MaxWorkers, NumCols} \subseteq Nat \ {0}

VARIABLES stop,     \* the stop channel is closed
          crew,     \* opts.Workers: how many workers a sweep has
          next,     \* the column the dispatcher offers next
          closed,   \* close(jobs) was called
          at,       \* what each worker does: a column, Waiting or Left
          computed  \* the columns that have been filled in

sweepVars == <<stop, crew, next, closed, at, computed>>

Workers == 1 .. MaxWorkers
Columns == 1 .. NumCols
Waiting == 0
Left == -1

Alone == crew = 1 \/ NumCols = 1
Crew == {w \in 1 .. crew : w <= NumCols}   \* no more than there are columns

SweepTypeOK == /\ stop \in BOOLEAN
               /\ crew \in Workers
               /\ next \in 1 .. NumCols + 1
               /\ closed \in BOOLEAN
               /\ at \in [Workers -> Columns \cup {Waiting, Left}]
               /\ computed \subseteq Columns

\* Before a sweep, and again at the start of each: no column, nobody working.
Rested == /\ next = 1
          /\ closed = FALSE
          /\ at = [w \in Workers |-> Waiting]
          /\ computed = {}

StartSweep == /\ next' = 1
              /\ closed' = FALSE
              /\ at' = [w \in Workers |-> Waiting]
              /\ computed' = {}
              /\ UNCHANGED <<stop, crew>>

\* jobs <- j meets the receive of a waiting worker; either may instead be in
\* its select's stop case, so a hand-over is possible even after the stop.
Receives(w) == ~closed /\ next <= NumCols /\ at[w] = Waiting

HandOver(w) == /\ ~Alone /\ w \in Crew
               /\ Receives(w)
               /\ at' = [at EXCEPT ![w] = next]
               /\ next' = next + 1
               /\ UNCHANGED <<stop, crew, closed, computed>>

\* A worker finishes its column; a fixed variable's column stays zero, which
\* is its value.
Works(w) == at[w] \in Columns

ColumnDone(w) == /\ ~Alone /\ w \in Crew
                 /\ Works(w)
                 /\ computed' = computed \cup {at[w]}
                 /\ at' = [at EXCEPT ![w] = Waiting]
                 /\ UNCHANGED <<stop, crew, next, closed>>

MayLeave(w) == at[w] = Waiting /\ (closed \/ stop)

Leave(w) == /\ ~Alone /\ w \in Crew
            /\ MayLeave(w)
            /\ at' = [at EXCEPT ![w] = Left]
            /\ UNCHANGED <<stop, crew, next, closed, computed>>

\* The dispatcher is through, or takes its stop case: close(jobs).
DispatchesAll == next > NumCols            \* a mutant: it only sends
DispatchOver == next > NumCols \/ stop

MayClose == ~closed /\ DispatchOver

CloseJobs == /\ ~Alone
             /\ MayClose
             /\ closed' = TRUE
             /\ UNCHANGED <<stop, crew, next, at, computed>>

\* The loop of a sweep without goroutines.
LoopGoesOn == ~stop /\ next <= NumCols

ColumnAlone == /\ Alone
               /\ LoopGoesOn
               /\ computed' = computed \cup {next}
               /\ next' = next + 1
               /\ UNCHANGED <<stop, crew, closed, at>>

SweepStep == \/ \E w \in Workers : HandOver(w) \/ ColumnDone(w) \/ Leave(w)
             \/ CloseJobs
             \/ ColumnAlone

\* wg.Wait() returned, or the loop ended.
ReturnedAtHandOver == IF Alone THEN stop \/ next > NumCols   \* a mutant: no Wait
                               ELSE closed
SweepReturned == IF Alone THEN stop \/ next > NumCols
                          ELSE closed /\ \A w \in Crew : at[w] = Left

-----------------------------------------------------------------------------
\* Some goroutine of the sweep can go on: the guards of its steps.
SweepMoves == IF Alone THEN LoopGoesOn
                       ELSE \/ MayClose
                            \/ \E w \in Crew : Receives(w) \/ Works(w) \/ MayLeave(w)

\* Nobody waits for somebody who is gone: as long as wg.Wait has not returned,
\* the dispatcher or a worker can go on, whoever has taken its stop case first
\* (solver.go:897-898).
SweepNeverStuck == SweepReturned \/ SweepMoves

=============================================================================
