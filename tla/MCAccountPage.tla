---------------------------- MODULE MCAccountPage ----------------------------
(* Small instances of the account page. *)
EXTENDS AccountPage, TLC

\* Operations and entries are interchangeable; accounts are not (Init chooses one).
Symmetry == Permutations(Slot) \cup Permutations(Item)
=============================================================================
