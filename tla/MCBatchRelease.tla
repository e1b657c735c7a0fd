--------------------------- MODULE MCBatchRelease ---------------------------
(* Instance of BatchRelease for TLC. *)
EXTENDS BatchRelease, TLC

(* Clients are interchangeable, and so are dispatches. *)
Symmetry == Permutations(Clients) \cup Permutations(Dispatches)
=============================================================================
