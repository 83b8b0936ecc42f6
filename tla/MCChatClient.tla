---------------------------- MODULE MCChatClient ----------------------------
(* Instances of ChatClient for TLC.                                        *)
EXTENDS ChatClient, TLC

Symmetry == Permutations(Tasks) \cup Permutations(Calls)

\* Nothing is claimed of a page that was left in the middle: TLC stops there.
IsWatched == ~Harmed({"leave", "hasty"})
=============================================================================
