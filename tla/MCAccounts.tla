---------------------------- MODULE MCAccounts ----------------------------
(* A small instance of Accounts for TLC: two accounts that compete for one  *)
(* address, and two clients.                                                *)
EXTENDS Accounts, TLC

Symmetry ==
  Permutations(Users) \cup Permutations(Emails) \cup Permutations(Clients)
    \cup Permutations(Sessions) \cup Permutations(CodeIds)

=============================================================================
