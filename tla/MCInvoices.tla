----------------------------- MODULE MCInvoices -----------------------------
(* Invoices for TLC: two invoices of two customers on pages of one.          *)
EXTENDS Invoices, TLC

MCAmount == [i \in Invoices |-> [v \in 1..MaxVersion |-> [p \in Products |->
               IF p = CHOOSE q \in Products : TRUE THEN v ELSE 3 * (v - 1)]]]
MCCustomer == [i \in Invoices |-> i]
Symmetry == Permutations(Invoices) \cup Permutations(Refreshes)
=============================================================================
