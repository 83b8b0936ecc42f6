--------------------------- MODULE MCScheduleRuns ---------------------------
(* Instances of ScheduleRuns for TLC.                                      *)
EXTENDS ScheduleRuns, TLC

Symmetry ==
    Permutations(Requests) \cup Permutations(Entries) \cup Permutations(Jobs)
        \cup Permutations(Runs)
=============================================================================
