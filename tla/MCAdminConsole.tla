--------------------------- MODULE MCAdminConsole ---------------------------
(* Small instances of the administrator's pages. *)
EXTENDS AdminConsole, TLC

\* Administrators and users are interchangeable; slots are not (Init chooses one).
Symmetry == Permutations(Admin) \cup Permutations(User)
=============================================================================
