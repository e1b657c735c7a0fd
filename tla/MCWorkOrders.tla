----------------------------- MODULE MCWorkOrders -----------------------------
(* Instance of WorkOrders for TLC. *)
EXTENDS WorkOrders, TLC

(* Clients are interchangeable, and so are batches and work orders. *)
Symmetry == Permutations(Clients) \cup Permutations(Batches) \cup Permutations(WorkOrders)
=============================================================================
