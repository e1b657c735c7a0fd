------------------------------ MODULE BatchStock ------------------------------
(***************************************************************************)
(* Making a batch takes materials and containers from stock; cancelling or *)
(* deleting it gives them back (batches.service.ts, inventory.service.ts,  *)
(* pack-containers.service.ts, purchase-entries.service.ts).               *)
(*                                                                         *)
(* BatchRelease has these transactions as single actions.  Here they take  *)
(* their row locks one at a time: createBatch the container row and then   *)
(* every inventory row, in whatever order the scan meets them; a return    *)
(* the batch row, the items one by one, then the container.  The two       *)
(* orders differ, so they can deadlock, and PostgreSQL aborts one of them. *)
(* A transaction's writes appear at its commit: nobody else can see the    *)
(* rows it locked before then.                                             *)
(***************************************************************************)
EXTENDS Integers, Sequences, FiniteSets, Sums

CONSTANTS
  Items,        \* rows of inventory_items
  Containers,   \* rows of pack_container_stock
  Numberings,   \* rows of batch_sequences, one per company code and date
  Batches,      \* batch ids
  Reqs,         \* requests being served at the same time
  MaxNeed,      \* the most a batch takes of one good
  Handled,      \* bound: the goods whose stock people touch by hand
  MaxStock,     \* the most a person puts on a shelf by hand
  None          \* no request, no batch

Goods == Items \cup Containers
Rows  == Goods \cup Numberings \cup Batches

ASSUME NeedAssumption == MaxNeed \in Nat /\ MaxStock \in Nat
ASSUME FiniteAssumption == IsFiniteSet(Goods) /\ IsFiniteSet(Batches)
ASSUME HandledAssumption == Handled \subseteq Goods
ASSUME NoneAssumption == None \notin Reqs
ASSUME RowsAssumption ==
  /\ Items \cap Containers = {} /\ Items \cap Numberings = {} /\ Items \cap Batches = {}
  /\ Containers \cap Numberings = {} /\ Containers \cap Batches = {}
  /\ Numberings \cap Batches = {}

VARIABLES
  stock,      \* stock_qty; 0 while an item is not counted
  shelf,      \* an item is "counted", has stock_qty NULL ("uncounted"), or is "gone"
  bought,     \* items some purchase_entries row refers to
  batch,      \* a batch's row
  taken,      \* what its movement rows say it took and did not give back
  lock,       \* who holds a row
  op,         \* what a request is doing
  target,     \* the batch a request returns the stock of
  plan,       \* the rows a request has yet to lock, in order
  needs,      \* what a request's batch needs
  read,       \* what a request read in the rows it locked
  base        \* what people put on the shelves, receipts, counts and edits;
              \* only properties read it

vars == <<stock, shelf, bought, batch, taken, lock, op, target, plan, needs, read, base>>

Ops == {"idle", "create", "cancel", "return", "delete"}

-----------------------------------------------------------------------------
Nothing == [g \in Goods |-> 0]

Init ==
  /\ stock \in [Goods -> 0..MaxStock]
  /\ shelf = [g \in Goods |-> "counted"]
  /\ bought = {}
  /\ batch = [b \in Batches |-> "none"]
  /\ taken = [b \in Batches |-> Nothing]
  /\ lock = [row \in Rows |-> None]
  /\ op = [r \in Reqs |-> "idle"]
  /\ target = [r \in Reqs |-> None]
  /\ plan = [r \in Reqs |-> <<>>]
  /\ needs = [r \in Reqs |-> Nothing]
  /\ read = [r \in Reqs |-> Nothing]
  /\ base = stock

(* The orders in which a scan may meet the rows of S. *)
Orders(S) ==
  LET n == Cardinality(S) IN
  {q \in [1..n -> S] : \A i, j \in 1..n : q[i] = q[j] => i = j}

Present == {i \in Items : shelf[i] # "gone"}

(* Commit, rollback and refusal all end the transaction and free its rows. *)
EndsKeepingLocks(r) ==
  /\ op' = [op EXCEPT ![r] = "idle"]
  /\ UNCHANGED <<lock, target>>
  /\ plan' = [plan EXCEPT ![r] = <<>>]
  /\ needs' = [needs EXCEPT ![r] = Nothing]
  /\ read' = [read EXCEPT ![r] = Nothing]
Ends(r) ==
  /\ lock' = [row \in Rows |-> IF lock[row] = r THEN None ELSE lock[row]]
  /\ op' = [op EXCEPT ![r] = "idle"]
  /\ target' = [target EXCEPT ![r] = None]
  /\ plan' = [plan EXCEPT ![r] = <<>>]
  /\ needs' = [needs EXCEPT ![r] = Nothing]
  /\ read' = [read EXCEPT ![r] = Nothing]

-----------------------------------------------------------------------------
(* createBatch.  The batch number comes first and locks its counter's row. *)
(* A batch with a stocked container needs one row of containers; a batch   *)
(* with materials scans the whole inventory, after the container.          *)

UsedContainers(want) == {k \in Containers : want[k] > 0}
UsedItems(want)      == {i \in Items : want[i] > 0}

ItemsFirst(first, scan) == scan \o first
LockOrder(first, scan)  == first \o scan

(* The model has so many batch ids; a create starts while one is left. *)
IdsLeft ==
  Cardinality({r \in Reqs : op[r] = "create"}) < Cardinality({b \in Batches : batch[b] = "none"})

BeginCreate(r, n, want, first, scan) ==
  /\ op[r] = "idle" /\ IdsLeft
  /\ lock[n] = None
  /\ first \in Orders(UsedContainers(want)) /\ Len(first) <= 1
  /\ scan \in Orders(IF UsedItems(want) = {} THEN {} ELSE Present)
  /\ op' = [op EXCEPT ![r] = "create"]
  /\ lock' = [lock EXCEPT ![n] = r]
  /\ plan' = [plan EXCEPT ![r] = LockOrder(first, scan)]
  /\ needs' = [needs EXCEPT ![r] = want]
  /\ UNCHANGED <<stock, shelf, bought, batch, taken, target, read, base>>

Mine(r) == {g \in Goods : lock[g] = r}

(* The container is short: the code answers before it scans the inventory. *)
ContainerShort(r) ==
  \E k \in Containers : lock[k] = r /\ read[r][k] < needs[r][k]

(* What it read covers what it needs.  A row that is gone, or not counted, *)
(* reads as 0: such a material is refused whatever the quantity.           *)
Covers(r)      == \A g \in Goods : read[r][g] >= needs[r][g]

CommitCreate(r, b) ==
  /\ op[r] = "create" /\ plan[r] = <<>>
  /\ Covers(r)
  /\ batch[b] = "none"
  /\ stock' = [g \in Goods |-> stock[g] - needs[r][g]]
  /\ batch' = [batch EXCEPT ![b] = "live"]
  /\ taken' = [taken EXCEPT ![b] = needs[r]]
  /\ Ends(r)
  /\ UNCHANGED <<shelf, bought, base>>

(* INSUFFICIENT_CONTAINERS, MATERIAL_NOT_FOUND, INSUFFICIENT_MATERIAL. *)
RefuseCreate(r) ==
  /\ op[r] = "create"
  /\ ContainerShort(r) \/ (plan[r] = <<>> /\ ~Covers(r))
  /\ Ends(r)
  /\ UNCHANGED <<stock, shelf, bought, batch, taken, base>>

-----------------------------------------------------------------------------
(* setBatchLifecycle(cancelled), with or without returnMaterials, and      *)
(* deleteBatch: the batch row is locked first, and a return is planned     *)
(* from the batch's movement rows.                                         *)

Outstanding(b) == {g \in Goods : taken[b][g] > 0 /\ shelf[g] # "gone"}

BeginReturn(r, b, kind, items, last) ==
  /\ op[r] = "idle"
  /\ lock[b] = None
  /\ batch[b] \in {"live", "cancelled"}
  /\ kind \in {"cancel", "return", "delete"}
  /\ items \in Orders(IF kind = "cancel" THEN {} ELSE Outstanding(b) \cap Items)
  /\ last \in Orders(IF kind = "cancel" THEN {} ELSE Outstanding(b) \cap Containers)
  /\ op' = [op EXCEPT ![r] = kind]
  /\ target' = [target EXCEPT ![r] = b]
  /\ lock' = [lock EXCEPT ![b] = r]
  /\ plan' = [plan EXCEPT ![r] = items \o last]
  /\ UNCHANGED <<stock, shelf, bought, batch, taken, needs, read, base>>

(* The updates commit: what could take its stock back has it, and the      *)
(* movements say so.                                                       *)
GivenBackUnrecorded(b, back) == taken
GivenBackTwice(b, back) ==
  [taken EXCEPT ![b] = [g \in Goods |-> IF g \in back THEN -taken[b][g] ELSE taken[b][g]]]
GivenBack(b, back) ==
  [taken EXCEPT ![b] = [g \in Goods |-> IF g \in back THEN 0 ELSE taken[b][g]]]

CommitReturn(r) ==
  LET b == target[r] IN
  /\ op[r] \in {"cancel", "return", "delete"} /\ plan[r] = <<>>
  /\ stock' = [g \in Goods |-> IF g \in Mine(r) THEN stock[g] + taken[b][g] ELSE stock[g]]
  /\ taken' = GivenBack(b, Mine(r))
  /\ batch' = [batch EXCEPT ![b] = IF op[r] = "delete" THEN "deleted" ELSE "cancelled"]
  /\ Ends(r)
  /\ UNCHANGED <<shelf, bought, base>>

-----------------------------------------------------------------------------
(* Locks.                                                                  *)

(* The next row is free: it is locked and read, or passed over when the    *)
(* item is gone or, for an UPDATE that asks for a stock, not counted.      *)
Free(row)       == lock[row] = None

Skipped(r, row) ==
  \/ shelf[row] = "gone"
  \/ op[r] # "create" /\ shelf[row] = "uncounted"

LockNext(r) ==
  LET row == Head(plan[r]) IN
  /\ plan[r] # <<>>
  /\ Skipped(r, row) \/ Free(row)
  /\ op[r] = "create" => ~ContainerShort(r)
  /\ plan' = [plan EXCEPT ![r] = Tail(@)]
  /\ IF Skipped(r, row)
       THEN UNCHANGED <<lock, read>>
       ELSE /\ lock' = [lock EXCEPT ![row] = r]
            /\ read' = [read EXCEPT ![r] = [@ EXCEPT ![row] = stock[row]]]
  /\ UNCHANGED <<stock, shelf, bought, batch, taken, op, target, needs, base>>

Blocked(r)  == /\ plan[r] # <<>>
               /\ ~Skipped(r, Head(plan[r])) /\ ~Free(Head(plan[r]))
WaitsFor(r) == lock[Head(plan[r])]

(* r waits in a circle: everyone in S waits for someone in S, and is       *)
(* waited for by someone in S.                                             *)
InCycle(r) ==
  \E S \in SUBSET Reqs :
    /\ r \in S
    /\ \A x \in S : Blocked(x) /\ WaitsFor(x) \in S
    /\ \A x \in S : \E y \in S : WaitsFor(y) = x

(* PostgreSQL's deadlock check rolls one of them back; the call fails. *)
DeadlockAbort(r) ==
  /\ InCycle(r)
  /\ Ends(r)
  /\ UNCHANGED <<stock, shelf, bought, batch, taken, base>>

-----------------------------------------------------------------------------
(* Single statements.  They hold one row, for as long as they run.         *)

Unlocked == <<batch, taken, lock, op, target, plan, needs, read>>

(* createPurchaseEntry: COALESCE(stock_qty, 0) + quantity. *)
Purchase(i, qty) ==
  /\ lock[i] = None /\ shelf[i] # "gone"
  /\ stock[i] + qty <= MaxStock
  /\ stock' = [stock EXCEPT ![i] = @ + qty]
  /\ shelf' = [shelf EXCEPT ![i] = "counted"]
  /\ bought' = bought \cup {i}
  /\ base' = [base EXCEPT ![i] = @ + qty]
  /\ UNCHANGED Unlocked

(* updateItem: the stock a person typed replaces what is there, or is      *)
(* cleared.                                                                *)
EditItem(i, qty, kind) ==
  /\ lock[i] = None /\ shelf[i] # "gone"
  /\ kind = "uncounted" => qty = 0
  /\ stock' = [stock EXCEPT ![i] = qty]
  /\ shelf' = [shelf EXCEPT ![i] = kind]
  /\ base' = [base EXCEPT ![i] = @ + qty - stock[i]]
  /\ UNCHANGED <<bought, Unlocked>>

(* deleteItem, resetToDefaults: purchases restrict it. *)
DeleteItem(i) ==
  /\ lock[i] = None /\ shelf[i] # "gone"
  /\ i \notin bought
  /\ stock' = [stock EXCEPT ![i] = 0]
  /\ shelf' = [shelf EXCEPT ![i] = "gone"]
  /\ base' = [base EXCEPT ![i] = @ - stock[i]]
  /\ UNCHANGED <<bought, Unlocked>>

(* adjustStock: a receipt adds, a count replaces; the ledger gets the      *)
(* difference.                                                             *)
AdjustContainer(k, qty, kind) ==
  LET after == IF kind = "receipt" THEN stock[k] + qty ELSE qty IN
  /\ lock[k] = None
  /\ after <= MaxStock
  /\ stock' = [stock EXCEPT ![k] = after]
  /\ base' = [base EXCEPT ![k] = @ + after - stock[k]]
  /\ UNCHANGED <<shelf, bought, Unlocked>>

-----------------------------------------------------------------------------
(* One container per batch. *)
Wants == {w \in [Goods -> 0..MaxNeed] : \A k, l \in UsedContainers(w) : k = l}

Next ==
  \/ \E r \in Reqs, n \in Numberings, want \in Wants :
       \E first \in Orders(UsedContainers(want)),
          scan \in Orders(IF UsedItems(want) = {} THEN {} ELSE Present) :
         BeginCreate(r, n, want, first, scan)
  \/ \E r \in Reqs, b \in Batches : CommitCreate(r, b)
  \/ \E r \in Reqs : RefuseCreate(r)
  \/ \E r \in Reqs, b \in Batches, kind \in {"cancel", "return", "delete"} :
       \E items \in Orders(IF kind = "cancel" THEN {} ELSE Outstanding(b) \cap Items),
          last \in Orders(IF kind = "cancel" THEN {} ELSE Outstanding(b) \cap Containers) :
         BeginReturn(r, b, kind, items, last)
  \/ \E r \in Reqs : CommitReturn(r)
  \/ \E r \in Reqs : LockNext(r)
  \/ \E r \in Reqs : DeadlockAbort(r)
  \/ \E i \in Items \cap Handled, qty \in 1..MaxStock : Purchase(i, qty)
  \/ \E i \in Items \cap Handled, qty \in 0..MaxStock, kind \in {"counted", "uncounted"} :
       EditItem(i, qty, kind)
  \/ \E i \in Items \cap Handled : DeleteItem(i)
  \/ \E k \in Containers \cap Handled, qty \in 0..MaxStock, kind \in {"receipt", "count"} :
       AdjustContainer(k, qty, kind)

(* A free row is granted in turn: a request that finds its row free again  *)
(* and again gets it.  Nothing else a request does depends on others.      *)
Fairness ==
  \A r \in Reqs :
    /\ SF_vars(LockNext(r))
    /\ WF_vars(\E b \in Batches : CommitCreate(r, b))
    /\ WF_vars(RefuseCreate(r))
    /\ WF_vars(CommitReturn(r))
    /\ WF_vars(DeadlockAbort(r))

Spec     == Init /\ [][Next]_vars
FairSpec == Spec /\ Fairness

-----------------------------------------------------------------------------
(* Properties.                                                             *)

(* Rows and requests have the shape the code gives them. *)
TypeOK ==
  /\ stock \in [Goods -> Int]
  /\ shelf \in [Goods -> {"counted", "uncounted", "gone"}]
  /\ bought \subseteq Items
  /\ batch \in [Batches -> {"none", "live", "cancelled", "deleted"}]
  /\ taken \in [Batches -> [Goods -> 0..MaxNeed]]
  /\ lock \in [Rows -> Reqs \cup {None}]
  /\ op \in [Reqs -> {"idle", "create", "cancel", "return", "delete"}]
  /\ target \in [Reqs -> Batches \cup {None}]
  /\ plan \in [Reqs -> Seq(Goods)]
  /\ needs \in [Reqs -> [Goods -> 0..MaxNeed]]
  /\ read \in [Reqs -> [Goods -> Int]]
  /\ base \in [Goods -> Int]

(* Concurrent batches never oversell a material or a container.            *)
NeverNegative == \A g \in Goods : stock[g] >= 0

(* What createBatch checked in each locked row still is true when it       *)
(* writes, however long it waited for the rows in between.                 *)
ChecksHold ==
  \A r \in Reqs : op[r] = "create" /\ plan[r] = <<>> /\ Covers(r) =>
    \A g \in Goods : needs[r][g] <= stock[g]

TakenOf(g) == SumOver([b \in Batches |-> taken[b][g]], Batches)

(* Stock and movement records agree: what is on the shelf is what people   *)
(* put there less what the movements say batches still hold.               *)
Conserved ==
  \A g \in Goods : shelf[g] # "gone" => stock[g] = base[g] - TakenOf(g)

(* Batches that fill the same container wait for it before they hold any   *)
(* material: they never deadlock, whatever order the scan meets the rows.  *)
SameContainerNeverDeadlocks ==
  \A r, q \in Reqs :
    /\ op[r] = "create" /\ op[q] = "create"
    /\ UsedContainers(needs[r]) \cap UsedContainers(needs[q]) # {}
    => ~(Blocked(r) /\ Blocked(q) /\ WaitsFor(r) = q /\ WaitsFor(q) = r)

(* Every request ends: done, refused or rolled back by the deadlock check. *)
EveryRequestEnds == \A r \in Reqs : op[r] # "idle" ~> op[r] = "idle"

(* The transactions are as good as the ledger's single steps.              *)
Ledger == INSTANCE StockLedger WITH opened <- {b \in Batches : batch[b] # "none"}
ImplementsLedger == Ledger!Spec
=============================================================================
