---------------------------- MODULE MCAppAccess ----------------------------
(* Small instances of the access rules. *)
EXTENDS AppAccess, TLC

\* Requests, families and groups are only compared.
Symmetry == Permutations(Dev) \cup Permutations(Worker) \cup Permutations(Family)
                \cup Permutations(Group)
=============================================================================
