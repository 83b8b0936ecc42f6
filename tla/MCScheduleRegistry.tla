------------------------- MODULE MCScheduleRegistry -------------------------
(* Instances of ScheduleRegistry, with its tokens, for TLC.                *)
EXTENDS ScheduleTokens, TLC

Symmetry ==
    Permutations(Requests) \cup Permutations(Entries) \cup Permutations(Tokens) \cup
    Permutations(Fires)
=============================================================================
