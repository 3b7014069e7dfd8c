------------------------ MODULE MCVerificationCodes ------------------------
(* Small instances of the verification codes. *)
EXTENDS VerificationCodes, TLC

\* Ids, requests and purposes are only compared.
Symmetry == Permutations(Code) \cup Permutations(Worker) \cup Permutations(Purpose)
=============================================================================
