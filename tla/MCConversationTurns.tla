------------------------ MODULE MCConversationTurns ------------------------
(* Small instances of ConversationTurns for TLC. *)
EXTENDS ConversationTurns

CONSTANTS left, right

=============================================================================
