-------------------------- MODULE MCTokenEndpoint --------------------------
(* Small instances of the token endpoint. *)
EXTENDS TokenEndpoint, TLC

MCScopes == {{"openid"}, {"openid", "email"}}
MCOneScope == {{"openid"}}

\* Ids are only compared: permuting them, the workers or the users changes nothing.
Symmetry == Permutations(Token) \cup Permutations(Grant) \cup Permutations(Worker)
                \cup Permutations(Code)
=============================================================================
