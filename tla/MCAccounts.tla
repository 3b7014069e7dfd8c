----------------------------- MODULE MCAccounts -----------------------------
(* Small instances of the accounts. *)
EXTENDS Accounts, TLC

\* Requests, sessions and users are only compared.
Symmetry == Permutations(Worker) \cup Permutations(Session) \cup Permutations(User)
=============================================================================
