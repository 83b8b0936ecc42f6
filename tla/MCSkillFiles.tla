---------------------------- MODULE MCSkillFiles ----------------------------
(* An instance of SkillFiles for TLC.                                      *)
EXTENDS SkillFiles, TLC

Symmetry == Permutations(Requests) \cup Permutations(Companions)
=============================================================================
