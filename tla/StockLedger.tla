----------------------------- MODULE StockLedger -----------------------------
(***************************************************************************)
(* What the stock of materials and containers promises, locks and          *)
(* transactions left out: a batch takes everything it needs at once or     *)
(* nothing, once; what it took can come back, once; stock never goes below *)
(* zero.                                                                   *)
(***************************************************************************)
EXTENDS Integers

CONSTANTS Goods, Batches

VARIABLES
  stock,     \* quantity of each material or container
  opened,    \* batches that have been made
  taken      \* what a batch took and has not given back

vars == <<stock, opened, taken>>

Nothing == [g \in Goods |-> 0]

Init ==
  /\ stock \in [Goods -> Nat]
  /\ opened = {}
  /\ taken = [b \in Batches |-> Nothing]

Take(b) ==
  LET needs == taken'[b] IN
  /\ b \notin opened
  /\ needs \in [Goods -> Nat]
  /\ \A g \in Goods : needs[g] <= stock[g]
  /\ opened' = opened \cup {b}
  /\ taken' = [taken EXCEPT ![b] = needs]
  /\ stock' = [g \in Goods |-> stock[g] - needs[g]]

(* Some goods may be gone, or no longer counted; these stay out. *)
GiveBack(b, back) ==
  /\ b \in opened
  /\ taken' = [taken EXCEPT ![b] = [g \in Goods |-> IF g \in back THEN 0 ELSE taken[b][g]]]
  /\ stock' = [g \in Goods |-> IF g \in back THEN stock[g] + taken[b][g] ELSE stock[g]]
  /\ UNCHANGED opened

(* A purchase, a count, a correction. *)
Adjust(g) ==
  LET qty == stock'[g] IN
  /\ qty \in Nat
  /\ stock' = [stock EXCEPT ![g] = qty]
  /\ UNCHANGED <<opened, taken>>

Next ==
  \/ \E b \in Batches : Take(b)
  \/ \E b \in Batches, back \in SUBSET Goods : GiveBack(b, back)
  \/ \E g \in Goods : Adjust(g)

Spec == Init /\ [][Next]_vars
=============================================================================
