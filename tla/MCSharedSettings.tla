-------------------------- MODULE MCSharedSettings --------------------------
(* A small instance of SharedSettings for TLC: two projects that can lie in   *)
(* each other, and a conversation with its fork.                              *)
EXTENDS SharedSettings, TLC

Symmetry == Permutations(Projects) \cup Permutations(Conversations)

=============================================================================
