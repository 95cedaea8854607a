--------------------------- MODULE MCSiblingKeys ----------------------------
(* A small instance of SiblingKeys for TLC: two digits and keys of at most two *)
(* of them, so that levels of three rows run out of keys and are renumbered,   *)
(* and names that come the other way round than the rows.                      *)
EXTENDS SiblingKeys

Created == [n \in Rows |-> n]

Backwards == [n \in Rows |-> MaxRows - n]

=============================================================================
