--------------------------- MODULE MCWriterQueue ---------------------------
(* Small instances of WriterQueue for TLC. *)
EXTENDS WriterQueue

CONSTANTS j1, j2, j3

=============================================================================
