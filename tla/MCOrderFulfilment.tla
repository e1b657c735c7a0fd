-------------------------- MODULE MCOrderFulfilment --------------------------
(* Instance of OrderFulfilment for TLC. *)
EXTENDS OrderFulfilment, TLC

(* Two lines that order up to two each compete for the two a batch yields. *)
MCYield == [b \in Batches |-> 2]

(* Clients are interchangeable, and so are dispatches and lines. *)
Symmetry == Permutations(Clients) \cup Permutations(Dispatches) \cup Permutations(Lines)
=============================================================================
