----------------------------- MODULE MCQRLogin -----------------------------
(* Small instances of the QR sign-in. *)
EXTENDS QRLogin, TLC

\* Users, tokens and requests are only compared.
Symmetry == Permutations(User) \cup Permutations(Login) \cup Permutations(Worker)
=============================================================================
