--------------------------- MODULE MCProcurement ---------------------------
(* Procurement for TLC: two days in two months, today in the first. A         *)
(* purchase is of 0.3 units at a cent or two, so that cents are rounded up,   *)
(* down and to nothing, one purchase or two to the month.                     *)
EXTENDS Procurement, TLC

MCMonthOf == <<1, 2>>
MCRate == CHOOSE f \in [Prices -> 1..Cardinality(Prices)] :
            \A p, q \in Prices : p # q => f[p] # f[q]
MCQuantity == [e \in Entries |-> 300]
Symmetry == Permutations(Vendors) \cup Permutations(Clients) \cup Permutations(Entries)
=============================================================================
