--------------------------- MODULE MCAttachments ---------------------------
(* A small instance of Attachments for TLC: files of one and two chunks, two *)
(* of them alike in size or in their beginning.                              *)
EXTENDS Attachments, TLC

CONSTANTS x, y

ContentsDef == {<<x>>, <<x, y>>, <<x, x>>}

Symmetry == Permutations(Messages) \cup Permutations(Ids) \cup Permutations(Uploads)

=============================================================================
