--------------------------- MODULE MCIdempotency ---------------------------
(* Small instances of Idempotency for TLC: three deliveries under one key of *)
(* one user, one of which asks for something else, and one under another.    *)
EXTENDS Idempotency

CONSTANTS first, retry, other, elsewhere, key1, key2, printA, printB

KeyOfDef == [r \in Requests |-> IF r = elsewhere THEN key2 ELSE key1]
PrintOfDef == [r \in Requests |-> IF r = other THEN printB ELSE printA]

=============================================================================
