----------------------------- MODULE MCApiKeys -----------------------------
(* ApiKeys with two users, one group and three rows for TLC. *)
EXTENDS ApiKeys, TLC

\* Users, and scopes other than the default one, are interchangeable.
Symmetry == Permutations(Users) \cup Permutations(Keys) \cup Permutations(Scopes \ {DefaultScope})
=============================================================================
