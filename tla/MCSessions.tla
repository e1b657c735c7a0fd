----------------------------- MODULE MCSessions -----------------------------
(* Sessions for TLC: two users, each of the company or not, two requests.    *)
EXTENDS Sessions, TLC

Symmetry == Permutations(Users) \cup Permutations(Tokens) \cup Permutations(Clients)
=============================================================================
