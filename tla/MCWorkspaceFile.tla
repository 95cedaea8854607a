-------------------------- MODULE MCWorkspaceFile --------------------------
(* Small instances of WorkspaceFile for TLC. *)
EXTENDS WorkspaceFile

CONSTANTS w1, w2, e1, e2, e3

=============================================================================
