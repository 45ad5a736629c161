---------------------------- MODULE MCDetachedJobs ----------------------------
(* A small instance of runs, jobs and calls for TLC.                       *)
EXTENDS DetachedJobs, TLC

CONSTANTS r1, r2, c1, c2

TwoRuns == {r1, r2}
TwoCalls == {c1, c2}
\* The same input and seed: the runs write the same document.
SameContent == [r \in TwoRuns |-> "design"]
Interchangeable == Permutations(TwoCalls)
=============================================================================
