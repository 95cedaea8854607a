--------------------------- MODULE MCProjectTree ---------------------------
(* Small instances of ProjectTree for TLC. *)
EXTENDS ProjectTree, TLC

CONSTANTS p1, p2, p3, c1, c2, ann, bob

\* ann administers, bob is an ordinary member.
TeamRole == ann :> "admin" @@ bob :> "member"
AdminRole == ann :> "admin"

\* ASCII names: lower() and NOCASE fold alike.
SameFold == [n \in Names |-> n]

Symmetry == Permutations(Projects) \cup Permutations(Conversations) \cup Permutations(Names)

=============================================================================
