---------------------------- MODULE MCTranscript ----------------------------
(* A small instance of Transcript for TLC: two conversations and two         *)
(* projects, three messages of which one has a role that is not indexed.     *)
EXTENDS Transcript, TLC

Symmetry ==
  Permutations(Conversations) \cup Permutations(Projects) \cup Permutations(Stamps)
    \cup Permutations(Indexed)

=============================================================================
