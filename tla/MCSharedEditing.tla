-------------------------- MODULE MCSharedEditing ---------------------------
(* A small instance of SharedEditing for TLC: two desktops, a project and a   *)
(* conversation in it, one request that arrives late.                         *)
EXTENDS SharedEditing, TLC

FewRevisions == [n \in Nodes |-> IF n \in Folders THEN 2 ELSE 3]

Symmetry == Permutations(Clients) \cup Permutations(Names)

=============================================================================
