-------------------------- MODULE MCProductDocuments --------------------------
(* Instance of ProductDocuments for TLC. *)
EXTENDS ProductDocuments
=============================================================================
