---------------------------- MODULE MCBatchStock ----------------------------
(* Instance of BatchStock for TLC. *)
EXTENDS BatchStock, TLC

(* Requests, batches and number counters are interchangeable. *)
Symmetry == Permutations(Reqs) \cup Permutations(Batches) \cup Permutations(Numberings)
=============================================================================
