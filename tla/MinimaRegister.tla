---------------------------- MODULE MinimaRegister ----------------------------
(***************************************************************************)
(* What a global search promises to whoever reads its result, whatever the *)
(* number of workers: minima are numbered in discovery order and keep      *)
(* their number and their classification for good, the merit registered    *)
(* under a number only ever gets better, and the run closes the register   *)
(* once, naming as best the solution of lowest merit.                      *)
(***************************************************************************)
EXTENDS Naturals, Sequences

CONSTANTS
  Classes,    \* how an entry may be classified
  Solution,   \* the class listed as a solution
  Merits      \* the values a merit can have

VARIABLES
  entries,    \* the registered minima: class and merit
  best,       \* the number of the best solution, 0 when there is none
  closed      \* whether the run has reported

vars == <<entries, best, closed>>

Entry == [class : Classes, merit : Merits]

Init ==
  /\ entries = << >>
  /\ best = 0
  /\ closed = FALSE

Discover(e) ==
  /\ ~ closed
  /\ entries' = Append(entries, e)
  /\ UNCHANGED <<best, closed>>

Improve(i, m) ==
  /\ ~ closed
  /\ m < entries[i].merit
  /\ entries' = [entries EXCEPT ![i].merit = m]
  /\ UNCHANGED <<best, closed>>

Solutions == {i \in 1 .. Len(entries) : entries[i].class = Solution}

Close ==
  /\ ~ closed
  /\ closed' = TRUE
  /\ \/ Solutions = {} /\ best' = 0
     \/ /\ best' \in Solutions
        /\ \A j \in Solutions : entries[best'].merit <= entries[j].merit
  /\ UNCHANGED entries

Next ==
  \/ \E e \in Entry : Discover(e)
  \/ \E i \in 1 .. Len(entries), m \in Merits : Improve(i, m)
  \/ Close

Spec == Init /\ [][Next]_vars
=============================================================================
