------------------------------ MODULE MCApiKeys ------------------------------
(* ApiKeys, its rows, its links and its threads interchangeable.           *)
EXTENDS ApiKeys, TLC

Symmetry == Permutations(Keys \ Presented) \cup Permutations(Tokens) \cup Permutations(Requests)
=============================================================================
