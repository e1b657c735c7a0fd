-------------------------- MODULE BatchStockProofs --------------------------
(* Proofs about BatchStock: for any goods, batches and number of requests, *)
(* the row locks make its transactions atomic, the stock is conserved, and *)
(* locking the container first keeps those that fill it from deadlocking.  *)
EXTENDS BatchStock, SumTheorems, FiniteSetTheorems, SequenceTheorems, TLAPS

(* What a request read in a row it holds is what the row contains. *)
LockedRead ==
  \A r \in Reqs : \A g \in Goods : lock[g] = r => read[r][g] = stock[g]

(* It read nothing in the rows it does not hold. *)
ReadLocked ==
  \A r \in Reqs : \A g \in Goods : read[r][g] # 0 => lock[g] = r

(* A return is of a batch that was made. *)
ReturnsMade ==
  \A r \in Reqs : op[r] \in {"cancel", "return", "delete"} =>
     target[r] \in Batches /\ batch[target[r]] # "none"

IInv == TypeOK /\ NeverNegative /\ LockedRead /\ ReadLocked /\ ReturnsMade

-----------------------------------------------------------------------------
LEMMA GoodsAreRows == Goods \subseteq Rows
BY DEF Rows

LEMMA GoodsNoCounters ==
  /\ \A n \in Numberings : n \in Rows /\ n \notin Goods
  /\ \A b \in Batches : b \in Rows /\ b \notin Goods
BY RowsAssumption DEF Rows, Goods

(* A create whose reads cover its needs can have them: each row it needs   *)
(* something of is its own, and unchanged since it read it.                *)
LEMMA CoveredHolds ==
  ASSUME IInv, NEW r \in Reqs, Covers(r), NEW g \in Goods
  PROVE  /\ needs[r][g] <= stock[g]
         /\ needs[r][g] # 0 => lock[g] = r
<1>1. /\ needs[r][g] \in Int /\ needs[r][g] >= 0
      /\ read[r][g] \in Int /\ stock[g] \in Int /\ stock[g] >= 0
      /\ read[r][g] >= needs[r][g]
  BY NeedAssumption DEF IInv, TypeOK, NeverNegative, Covers
<1>2. CASE needs[r][g] = 0
  BY <1>1, <1>2
<1>3. CASE needs[r][g] # 0
  <2>1. read[r][g] # 0
    BY <1>1, <1>3
  <2>2. QED
    BY <1>1, <2>1 DEF IInv, ReadLocked, LockedRead
<1>4. QED
  BY <1>2, <1>3

LEMMA ChecksHoldFollows == IInv => ChecksHold
BY CoveredHolds DEF ChecksHold

(* The end of a transaction keeps the rows and reads of all the others. *)
LEMMA EndsFrame ==
  ASSUME IInv, NEW r \in Reqs, Ends(r)
  PROVE  /\ lock' \in [Rows -> Reqs \cup {None}]
         /\ op' \in [Reqs -> {"idle", "create", "cancel", "return", "delete"}]
         /\ target' \in [Reqs -> Batches \cup {None}]
         /\ plan' \in [Reqs -> Seq(Goods)]
         /\ needs' \in [Reqs -> [Goods -> 0..MaxNeed]]
         /\ read' \in [Reqs -> [Goods -> Int]]
         /\ ReadLocked'
         /\ \A q \in Reqs : \A g \in Goods : lock'[g] = q =>
              q # r /\ lock[g] = q /\ read'[q] = read[q]
         /\ \A q \in Reqs : op'[q] # "idle" =>
              q # r /\ op'[q] = op[q] /\ target'[q] = target[q]
<1>1. Nothing \in [Goods -> 0..MaxNeed] /\ Nothing \in [Goods -> Int]
  BY NeedAssumption DEF Nothing
<1>2. <<>> \in Seq(Goods)
  OBVIOUS
<1>3. /\ lock' \in [Rows -> Reqs \cup {None}]
      /\ op' \in [Reqs -> {"idle", "create", "cancel", "return", "delete"}]
      /\ target' \in [Reqs -> Batches \cup {None}]
  BY DEF Ends, IInv, TypeOK
<1>4. /\ plan' \in [Reqs -> Seq(Goods)]
      /\ needs' \in [Reqs -> [Goods -> 0..MaxNeed]]
      /\ read' \in [Reqs -> [Goods -> Int]]
  BY <1>1, <1>2 DEF Ends, IInv, TypeOK
<1>5. \A q \in Reqs : \A g \in Goods : lock'[g] = q =>
        q # r /\ lock[g] = q /\ read'[q] = read[q]
  BY GoodsAreRows, NoneAssumption DEF Ends, IInv, TypeOK
<1>6. ReadLocked'
  <2> SUFFICES ASSUME NEW q \in Reqs, NEW g \in Goods, read'[q][g] # 0
               PROVE  lock'[g] = q
    BY DEF ReadLocked
  <2>1. q # r
    BY DEF Ends, IInv, TypeOK, Nothing
  <2>2. read'[q] = read[q]
    BY <2>1 DEF Ends, IInv, TypeOK
  <2>3. lock[g] = q
    BY <2>2 DEF IInv, ReadLocked
  <2>4. QED
    BY <2>1, <2>3, GoodsAreRows DEF Ends
<1>7. \A q \in Reqs : op'[q] # "idle" =>
        q # r /\ op'[q] = op[q] /\ target'[q] = target[q]
  BY DEF Ends, IInv, TypeOK
<1>8. QED
  BY <1>3, <1>4, <1>5, <1>6, <1>7

(* A transaction that ends without writing preserves the invariant. *)
LEMMA GivesUp ==
  ASSUME IInv, NEW r \in Reqs, Ends(r),
         UNCHANGED <<stock, shelf, bought, batch, taken, base>>
  PROVE  IInv'
<1>1. TypeOK' /\ ReadLocked'
  BY EndsFrame DEF IInv, TypeOK
<1>2. LockedRead'
  <2> SUFFICES ASSUME NEW q \in Reqs, NEW g \in Goods, lock'[g] = q
               PROVE  read'[q][g] = stock'[g]
    BY DEF LockedRead
  <2>1. lock[g] = q /\ read'[q] = read[q]
    BY EndsFrame
  <2>2. QED
    BY <2>1 DEF IInv, LockedRead
<1>3. NeverNegative'
  BY DEF IInv, NeverNegative
<1>4. ReturnsMade'
  BY EndsFrame DEF IInv, ReturnsMade
<1>5. QED
  BY <1>1, <1>2, <1>3, <1>4 DEF IInv

-----------------------------------------------------------------------------
(* Each action preserves the invariant.                                    *)

LEMMA InvInit == Init => IInv
<1> SUFFICES ASSUME Init PROVE IInv
  OBVIOUS
<1>1. Nothing \in [Goods -> 0..MaxNeed] /\ Nothing \in [Goods -> Int]
  BY NeedAssumption DEF Nothing
<1>2. \A g \in Goods : stock[g] \in Int /\ stock[g] >= 0
  BY NeedAssumption DEF Init
<1>3. TypeOK
  BY <1>1, NeedAssumption DEF Init, TypeOK
<1>4. NeverNegative /\ LockedRead /\ ReadLocked /\ ReturnsMade
  BY <1>2, NoneAssumption, GoodsAreRows
  DEF Init, NeverNegative, LockedRead, ReadLocked, ReturnsMade, Nothing
<1>5. QED
  BY <1>3, <1>4 DEF IInv

LEMMA OrderIsSeq ==
  ASSUME NEW S \in SUBSET Goods, NEW q \in Orders(S)
  PROVE  q \in Seq(Goods)
<1>1. Cardinality(S) \in Nat
  BY FiniteAssumption, FS_Subset, FS_CardinalityType
<1>2. q \in [1..Cardinality(S) -> Goods]
  BY DEF Orders
<1>3. QED
  BY <1>1, <1>2

LEMMA LockOrderIsSeq ==
  ASSUME NEW p \in Seq(Goods), NEW q \in Seq(Goods)
  PROVE  p \o q \in Seq(Goods) /\ LockOrder(p, q) \in Seq(Goods)
BY DEF LockOrder

LEMMA BeginCreateStep ==
  ASSUME IInv, NEW r \in Reqs, NEW n \in Numberings, NEW want \in Wants,
         NEW first, NEW scan, BeginCreate(r, n, want, first, scan)
  PROVE  IInv'
<1>1. first \in Seq(Goods) /\ scan \in Seq(Goods)
  <2>1. UsedContainers(want) \subseteq Goods /\ Present \subseteq Goods
    BY DEF UsedContainers, Present, Goods
  <2>2. QED
    BY <2>1, OrderIsSeq DEF BeginCreate
<1>2. LockOrder(first, scan) \in Seq(Goods) /\ want \in [Goods -> 0..MaxNeed]
  BY <1>1, LockOrderIsSeq DEF Wants
<1>3. TypeOK'
  BY <1>2, GoodsNoCounters DEF BeginCreate, IInv, TypeOK
<1>4. NeverNegative'
  BY DEF BeginCreate, IInv, NeverNegative
<1>5. LockedRead' /\ ReadLocked'
  BY GoodsNoCounters DEF BeginCreate, IInv, TypeOK, LockedRead, ReadLocked
<1>6. ReturnsMade'
  BY DEF BeginCreate, IInv, TypeOK, ReturnsMade
<1>7. QED
  BY <1>3, <1>4, <1>5, <1>6 DEF IInv

LEMMA BeginReturnStep ==
  ASSUME IInv, NEW r \in Reqs, NEW b \in Batches, NEW kind, NEW items, NEW last,
         BeginReturn(r, b, kind, items, last)
  PROVE  IInv'
<1>1. items \in Seq(Goods) /\ last \in Seq(Goods)
  <2>1. Outstanding(b) \cap Items \subseteq Goods /\ Outstanding(b) \cap Containers \subseteq Goods
    BY DEF Outstanding
  <2>2. QED
    BY <2>1, OrderIsSeq DEF BeginReturn
<1>2. items \o last \in Seq(Goods)
  BY <1>1, LockOrderIsSeq
<1>3. TypeOK'
  BY <1>2, GoodsNoCounters DEF BeginReturn, IInv, TypeOK
<1>4. NeverNegative'
  BY DEF BeginReturn, IInv, NeverNegative
<1>5. LockedRead' /\ ReadLocked'
  BY GoodsNoCounters DEF BeginReturn, IInv, TypeOK, LockedRead, ReadLocked
<1>6. ReturnsMade'
  BY DEF BeginReturn, IInv, TypeOK, ReturnsMade
<1>7. QED
  BY <1>3, <1>4, <1>5, <1>6 DEF IInv

LEMMA LockNextStep ==
  ASSUME IInv, NEW r \in Reqs, LockNext(r)
  PROVE  IInv'
<1> DEFINE row == Head(plan[r])
<1>1. /\ plan[r] \in Seq(Goods) /\ plan[r] # <<>>
      /\ row \in Goods /\ Tail(plan[r]) \in Seq(Goods)
      /\ stock[row] \in Int
  BY DEF LockNext, IInv, TypeOK
<1>2. /\ plan' = [plan EXCEPT ![r] = Tail(plan[r])]
      /\ UNCHANGED <<stock, shelf, bought, batch, taken, op, target, needs, base>>
      /\ \/ UNCHANGED <<lock, read>>
         \/ /\ lock[row] = None
            /\ lock' = [lock EXCEPT ![row] = r]
            /\ read' = [read EXCEPT ![r] = [read[r] EXCEPT ![row] = stock[row]]]
  BY DEF LockNext, Free
<1>3. row \in Rows
  BY <1>1, GoodsAreRows
<1> HIDE DEF row
<1>4. TypeOK'
  <2>1. plan' \in [Reqs -> Seq(Goods)]
    BY <1>1, <1>2 DEF IInv, TypeOK
  <2>2. lock' \in [Rows -> Reqs \cup {None}]
    BY <1>2, <1>3 DEF IInv, TypeOK
  <2>3. [read[r] EXCEPT ![row] = stock[row]] \in [Goods -> Int]
    BY <1>1 DEF IInv, TypeOK
  <2>4. read' \in [Reqs -> [Goods -> Int]]
    BY <1>2, <2>3 DEF IInv, TypeOK
  <2>5. QED
    BY <1>2, <2>1, <2>2, <2>4 DEF IInv, TypeOK
<1>5. NeverNegative' /\ ReturnsMade'
  BY <1>2 DEF IInv, NeverNegative, ReturnsMade
<1>6. LockedRead' /\ ReadLocked'
  <2>1. CASE UNCHANGED <<lock, read>>
    BY <1>2, <2>1 DEF IInv, LockedRead, ReadLocked
  <2>2. CASE /\ lock[row] = None
             /\ lock' = [lock EXCEPT ![row] = r]
             /\ read' = [read EXCEPT ![r] = [read[r] EXCEPT ![row] = stock[row]]]
    <3>1. \A q \in Reqs : q # r => read'[q] = read[q]
      BY <2>2 DEF IInv, TypeOK
    <3>2. /\ read'[r] \in [Goods -> Int]
          /\ read'[r][row] = stock[row]
          /\ \A g \in Goods : g # row => read'[r][g] = read[r][g]
      BY <1>1, <2>2 DEF IInv, TypeOK
    <3>3. lock'[row] = r /\ \A g \in Goods : g # row => lock'[g] = lock[g]
      BY <1>3, <2>2, GoodsAreRows DEF IInv, TypeOK
    <3>4. \A q \in Reqs : lock[row] # q
      BY <2>2, NoneAssumption
    <3>5. LockedRead'
      BY <1>2, <3>1, <3>2, <3>3 DEF IInv, LockedRead
    <3>6. ReadLocked'
      BY <1>1, <3>1, <3>2, <3>3, <3>4 DEF IInv, ReadLocked
    <3>7. QED
      BY <3>5, <3>6
  <2>3. QED
    BY <1>2, <2>1, <2>2
<1>7. QED
  BY <1>4, <1>5, <1>6 DEF IInv

LEMMA CommitCreateStep ==
  ASSUME IInv, NEW r \in Reqs, NEW b \in Batches, CommitCreate(r, b)
  PROVE  IInv'
<1>1. Ends(r) /\ Covers(r) /\ needs[r] \in [Goods -> 0..MaxNeed]
  BY DEF CommitCreate, IInv, TypeOK
<1>2. /\ stock' = [g \in Goods |-> stock[g] - needs[r][g]]
      /\ batch' = [batch EXCEPT ![b] = "live"]
      /\ taken' = [taken EXCEPT ![b] = needs[r]]
      /\ UNCHANGED <<shelf, bought, base>>
  BY DEF CommitCreate
<1>3. \A g \in Goods : /\ stock[g] \in Int /\ needs[r][g] \in Int
                       /\ needs[r][g] <= stock[g]
                       /\ needs[r][g] # 0 => lock[g] = r
  BY <1>1, NeedAssumption, CoveredHolds DEF IInv, TypeOK
<1>4. TypeOK' /\ ReadLocked'
  <2>1. stock' \in [Goods -> Int]
    BY <1>2, <1>3
  <2>2. /\ batch' \in [Batches -> {"none", "live", "cancelled", "deleted"}]
        /\ taken' \in [Batches -> [Goods -> 0..MaxNeed]]
    BY <1>1, <1>2 DEF IInv, TypeOK
  <2>3. QED
    BY <1>1, <1>2, <2>1, <2>2, EndsFrame DEF IInv, TypeOK
<1>5. NeverNegative'
  BY <1>2, <1>3 DEF NeverNegative
<1>6. LockedRead'
  <2> SUFFICES ASSUME NEW q \in Reqs, NEW g \in Goods, lock'[g] = q
               PROVE  read'[q][g] = stock'[g]
    BY DEF LockedRead
  <2>1. q # r /\ lock[g] = q /\ read'[q] = read[q]
    BY <1>1, EndsFrame
  <2>2. needs[r][g] = 0
    BY <1>3, <2>1
  <2>3. stock'[g] = stock[g]
    BY <1>2, <1>3, <2>2
  <2>4. QED
    BY <2>1, <2>3 DEF IInv, LockedRead
<1>7. ReturnsMade'
  BY <1>1, <1>2, EndsFrame DEF IInv, TypeOK, ReturnsMade
<1>8. QED
  BY <1>4, <1>5, <1>6, <1>7 DEF IInv

LEMMA CommitReturnStep ==
  ASSUME IInv, NEW r \in Reqs, CommitReturn(r)
  PROVE  IInv'
<1> DEFINE b == target[r]
<1>1. Ends(r) /\ b \in Batches /\ batch[b] # "none"
  BY DEF CommitReturn, IInv, ReturnsMade
<1>2. /\ stock' = [g \in Goods |-> IF g \in Mine(r) THEN stock[g] + taken[b][g] ELSE stock[g]]
      /\ taken' = GivenBack(b, Mine(r))
      /\ batch' = [batch EXCEPT ![b] = IF op[r] = "delete" THEN "deleted" ELSE "cancelled"]
      /\ UNCHANGED <<shelf, bought, base>>
  BY DEF CommitReturn
<1> HIDE DEF b
<1>3. \A g \in Goods : /\ stock[g] \in Int /\ stock[g] >= 0
                       /\ taken[b][g] \in 0..MaxNeed
                       /\ taken[b][g] \in Int /\ taken[b][g] >= 0
  BY <1>1, NeedAssumption DEF IInv, TypeOK, NeverNegative
<1>4. taken' \in [Batches -> [Goods -> 0..MaxNeed]]
  BY <1>1, <1>2, <1>3, NeedAssumption DEF GivenBack, IInv, TypeOK
<1>5. stock' \in [Goods -> Int] /\ NeverNegative'
  BY <1>2, <1>3 DEF NeverNegative
<1>6. batch' \in [Batches -> {"none", "live", "cancelled", "deleted"}]
  BY <1>1, <1>2 DEF IInv, TypeOK
<1>7. TypeOK' /\ ReadLocked'
  BY <1>1, <1>2, <1>4, <1>5, <1>6, EndsFrame DEF IInv, TypeOK
<1>8. LockedRead'
  <2> SUFFICES ASSUME NEW q \in Reqs, NEW g \in Goods, lock'[g] = q
               PROVE  read'[q][g] = stock'[g]
    BY DEF LockedRead
  <2>1. q # r /\ lock[g] = q /\ read'[q] = read[q]
    BY <1>1, EndsFrame
  <2>2. stock'[g] = stock[g]
    BY <1>2, <2>1 DEF Mine
  <2>3. QED
    BY <2>1, <2>2 DEF IInv, LockedRead
<1>9. ReturnsMade'
  BY <1>1, <1>2, EndsFrame DEF IInv, TypeOK, ReturnsMade
<1>10. QED
  BY <1>5, <1>7, <1>8, <1>9 DEF IInv

(* Single statements find the row free: nobody has read it under a lock. *)
LEMMA OneRowStep ==
  ASSUME IInv, NEW g \in Goods, NEW qty \in Int, qty >= 0, lock[g] = None,
         stock' = [stock EXCEPT ![g] = qty],
         shelf' \in [Goods -> {"counted", "uncounted", "gone"}],
         bought' \subseteq Items, base' \in [Goods -> Int],
         UNCHANGED Unlocked
  PROVE  IInv'
<1>1. TypeOK'
  BY DEF IInv, TypeOK, Unlocked
<1>2. NeverNegative'
  BY DEF IInv, TypeOK, NeverNegative
<1>3. LockedRead'
  <2> SUFFICES ASSUME NEW q \in Reqs, NEW h \in Goods, lock[h] = q
               PROVE  read[q][h] = stock'[h]
    BY DEF LockedRead, Unlocked
  <2>1. h # g
    BY NoneAssumption
  <2>2. QED
    BY <2>1 DEF IInv, TypeOK, LockedRead
<1>4. ReadLocked' /\ ReturnsMade'
  BY DEF IInv, ReadLocked, ReturnsMade, Unlocked
<1>5. QED
  BY <1>1, <1>2, <1>3, <1>4 DEF IInv

(* Each of them writes one row, and never a negative quantity; what people *)
(* put on the shelf changes by as much as the shelf does, containers stay  *)
(* counted, and nothing that is gone comes back.                           *)
ShelvesKeep ==
  /\ \A h \in Goods : shelf'[h] # "gone" => shelf[h] # "gone"
  /\ \A k \in Containers : shelf'[k] = shelf[k]

OneRowWrite(g) ==
  \E qty \in Int :
    /\ qty >= 0 /\ lock[g] = None
    /\ stock' = [stock EXCEPT ![g] = qty]
    /\ shelf' \in [Goods -> {"counted", "uncounted", "gone"}] /\ ShelvesKeep
    /\ bought' \subseteq Items
    /\ base' = [base EXCEPT ![g] = base[g] + (qty - stock[g])]
    /\ UNCHANGED Unlocked

LEMMA PurchaseWrites ==
  ASSUME IInv, NEW i \in Items, NEW qty \in 1..MaxStock, Purchase(i, qty)
  PROVE  OneRowWrite(i)
<1>1. i \in Goods /\ stock[i] \in Int /\ stock[i] >= 0 /\ qty \in Int /\ qty >= 0
  BY NeedAssumption DEF IInv, TypeOK, NeverNegative, Goods
<1>2. stock[i] + qty \in Int /\ stock[i] + qty >= 0
  BY <1>1
<1>3. base' = [base EXCEPT ![i] = base[i] + ((stock[i] + qty) - stock[i])]
  <2>1. base[i] + ((stock[i] + qty) - stock[i]) = base[i] + qty
    BY <1>1 DEF IInv, TypeOK
  <2>2. QED
    BY <2>1 DEF Purchase
<1>4. /\ shelf' \in [Goods -> {"counted", "uncounted", "gone"}] /\ bought' \subseteq Items
      /\ ShelvesKeep
  BY <1>1, RowsAssumption DEF Purchase, IInv, TypeOK, ShelvesKeep, Goods
<1>5. QED
  BY <1>2, <1>3, <1>4 DEF Purchase, OneRowWrite

LEMMA EditItemWrites ==
  ASSUME IInv, NEW i \in Items, NEW qty \in 0..MaxStock,
         NEW kind \in {"counted", "uncounted"}, EditItem(i, qty, kind)
  PROVE  OneRowWrite(i)
<1>1. i \in Goods /\ stock[i] \in Int /\ qty \in Int /\ qty >= 0
  BY NeedAssumption DEF IInv, TypeOK, Goods
<1>2. base' = [base EXCEPT ![i] = base[i] + (qty - stock[i])]
  <2>1. base[i] + (qty - stock[i]) = base[i] + qty - stock[i]
    BY <1>1 DEF IInv, TypeOK
  <2>2. QED
    BY <2>1 DEF EditItem
<1>3. /\ shelf' \in [Goods -> {"counted", "uncounted", "gone"}] /\ bought' \subseteq Items
      /\ ShelvesKeep
  BY <1>1, RowsAssumption DEF EditItem, IInv, TypeOK, ShelvesKeep, Goods
<1>4. QED
  BY <1>1, <1>2, <1>3 DEF EditItem, OneRowWrite

LEMMA DeleteItemWrites ==
  ASSUME IInv, NEW i \in Items, DeleteItem(i)
  PROVE  OneRowWrite(i)
<1>1. i \in Goods /\ stock[i] \in Int
  BY DEF IInv, TypeOK, Goods
<1>2. base' = [base EXCEPT ![i] = base[i] + (0 - stock[i])]
  <2>1. base[i] + (0 - stock[i]) = base[i] - stock[i]
    BY <1>1 DEF IInv, TypeOK
  <2>2. QED
    BY <2>1 DEF DeleteItem
<1>3. /\ shelf' \in [Goods -> {"counted", "uncounted", "gone"}] /\ bought' \subseteq Items
      /\ ShelvesKeep
  BY <1>1, RowsAssumption DEF DeleteItem, IInv, TypeOK, ShelvesKeep, Goods
<1>4. lock[i] = None /\ UNCHANGED Unlocked
  BY DEF DeleteItem
<1>5. stock' = [stock EXCEPT ![i] = 0] /\ 0 \in Int /\ 0 >= 0
  BY DEF DeleteItem
<1>6. QED
  BY <1>2, <1>3, <1>4, <1>5 DEF OneRowWrite

LEMMA AdjustContainerWrites ==
  ASSUME IInv, NEW k \in Containers, NEW qty \in 0..MaxStock,
         NEW kind \in {"receipt", "count"}, AdjustContainer(k, qty, kind)
  PROVE  OneRowWrite(k)
<1> DEFINE after == IF kind = "receipt" THEN stock[k] + qty ELSE qty
<1>1. /\ k \in Goods /\ stock[k] \in Int /\ stock[k] >= 0
      /\ qty \in Int /\ qty >= 0
  BY NeedAssumption DEF IInv, TypeOK, NeverNegative, Goods
<1>2. after \in Int /\ after >= 0
  BY <1>1
<1>3. /\ lock[k] = None
      /\ stock' = [stock EXCEPT ![k] = after]
      /\ base' = [base EXCEPT ![k] = base[k] + after - stock[k]]
      /\ UNCHANGED <<shelf, bought, Unlocked>>
  BY DEF AdjustContainer
<1> HIDE DEF after
<1>4. base' = [base EXCEPT ![k] = base[k] + (after - stock[k])]
  <2>1. base[k] + (after - stock[k]) = base[k] + after - stock[k]
    BY <1>1, <1>2 DEF IInv, TypeOK
  <2>2. QED
    BY <1>3, <2>1
<1>5. /\ shelf' \in [Goods -> {"counted", "uncounted", "gone"}] /\ bought' \subseteq Items
      /\ ShelvesKeep
  BY <1>3 DEF IInv, TypeOK, ShelvesKeep
<1>6. QED
  BY <1>2, <1>3, <1>4, <1>5 DEF OneRowWrite

(* Every step is one of three kinds: a transaction's own, one that gives   *)
(* up, or a single statement.                                              *)
LEMMA StepKinds ==
  ASSUME IInv, Next
  PROVE  \/ \E r \in Reqs, n \in Numberings, want \in Wants :
              \E first, scan : BeginCreate(r, n, want, first, scan)
         \/ \E r \in Reqs, b \in Batches :
              \E kind, items, last : BeginReturn(r, b, kind, items, last)
         \/ \E r \in Reqs : LockNext(r)
         \/ \E r \in Reqs, b \in Batches : CommitCreate(r, b)
         \/ \E r \in Reqs : CommitReturn(r)
         \/ \E r \in Reqs : /\ Ends(r)
                            /\ UNCHANGED <<stock, shelf, bought, batch, taken, base>>
         \/ \E g \in Goods : OneRowWrite(g)
<1>1. CASE \E r \in Reqs : RefuseCreate(r) \/ DeadlockAbort(r)
  BY <1>1 DEF RefuseCreate, DeadlockAbort
<1>2. CASE \E i \in Items, qty \in 1..MaxStock : Purchase(i, qty)
  BY <1>2, PurchaseWrites DEF Goods
<1>3. CASE \E i \in Items, qty \in 0..MaxStock, kind \in {"counted", "uncounted"} :
             EditItem(i, qty, kind)
  BY <1>3, EditItemWrites DEF Goods
<1>4. CASE \E i \in Items : DeleteItem(i)
  BY <1>4, DeleteItemWrites DEF Goods
<1>5. CASE \E k \in Containers, qty \in 0..MaxStock, kind \in {"receipt", "count"} :
             AdjustContainer(k, qty, kind)
  BY <1>5, AdjustContainerWrites DEF Goods
<1>6. QED
  BY <1>1, <1>2, <1>3, <1>4, <1>5 DEF Next

LEMMA InvNext == IInv /\ [Next]_vars => IInv'
<1> SUFFICES ASSUME IInv, [Next]_vars PROVE IInv'
  OBVIOUS
<1>1. CASE UNCHANGED vars
  BY <1>1
  DEF vars, IInv, TypeOK, NeverNegative, LockedRead, ReadLocked, ReturnsMade
<1>2. ASSUME NEW g \in Goods, OneRowWrite(g) PROVE IInv'
  <2>1. PICK qty \in Int : /\ qty >= 0 /\ lock[g] = None
                           /\ stock' = [stock EXCEPT ![g] = qty]
                           /\ shelf' \in [Goods -> {"counted", "uncounted", "gone"}]
                           /\ bought' \subseteq Items
                           /\ base' = [base EXCEPT ![g] = base[g] + (qty - stock[g])]
                           /\ UNCHANGED Unlocked
    BY <1>2 DEF OneRowWrite
  <2>2. base' \in [Goods -> Int]
    BY <2>1 DEF IInv, TypeOK
  <2>3. QED
    BY <2>1, <2>2, OneRowStep
<1>3. CASE Next
  BY <1>2, <1>3, StepKinds, BeginCreateStep, BeginReturnStep, LockNextStep,
     CommitCreateStep, CommitReturnStep, GivesUp
<1>4. QED
  BY <1>1, <1>3

(* Every state the program reaches satisfies the inductive invariant.      *)
THEOREM Invariance == Spec => []IInv
BY InvInit, InvNext, PTL DEF Spec

-----------------------------------------------------------------------------
(* What follows from it.                                                   *)

(* Rows and requests keep their shape. *)
THEOREM TypeCorrect == Spec => []TypeOK
BY Invariance, PTL DEF IInv

(* However many batches are made at once, no stock goes below zero.        *)
THEOREM NeverOversold == Spec => []NeverNegative
BY Invariance, PTL DEF IInv

(* What createBatch checked is true when it writes.                        *)
THEOREM ChecksStillHold == Spec => []ChecksHold
BY Invariance, ChecksHoldFollows, PTL

-----------------------------------------------------------------------------
(* Stock and movement records agree.                                       *)

(* A batch that was not made has taken nothing. *)
UnmadeTookNothing == \A b \in Batches : batch[b] = "none" => taken[b] = Nothing

Books == UnmadeTookNothing /\ Conserved

LEMMA TakenTyped ==
  ASSUME TypeOK, NEW g \in Goods
  PROVE  /\ \A b \in Batches : taken[b][g] \in Int
         /\ TakenOf(g) \in Int
<1>1. \A b \in Batches : taken[b][g] \in Int
  BY NeedAssumption DEF TypeOK
<1> DEFINE f == [b \in Batches |-> taken[b][g]]
<1>2. \A b \in Batches : f[b] \in Int
  BY <1>1
<1>3. TakenOf(g) = SumOver(f, Batches)
  BY DEF TakenOf
<1> HIDE DEF f
<1>4. QED
  BY <1>1, <1>2, <1>3, FiniteAssumption, SumInt

(* One batch's records change: the total changes by as much. *)
LEMMA TakenChanges ==
  ASSUME TypeOK, TypeOK', NEW g \in Goods, NEW b \in Batches,
         \A c \in Batches \ {b} : taken'[c][g] = taken[c][g]
  PROVE  TakenOf(g)' = TakenOf(g) - taken[b][g] + taken'[b][g]
<1>1. PICK f : f = [c \in Batches |-> taken[c][g]]
  OBVIOUS
<1>2. PICK h : h = [c \in Batches |-> taken'[c][g]]
  OBVIOUS
<1>3. \A c \in Batches : f[c] \in Int /\ h[c] \in Int
  BY <1>1, <1>2, NeedAssumption DEF TypeOK
<1>4. /\ \A c \in Batches \ {b} : h[c] = f[c]
      /\ f[b] = taken[b][g] /\ h[b] = taken'[b][g]
  BY <1>1, <1>2
<1>5. TakenOf(g) = SumOver(f, Batches) /\ TakenOf(g)' = SumOver(h, Batches)
  BY <1>1, <1>2 DEF TakenOf
<1>6. SumOver(h, Batches) = SumOver(f, Batches) - f[b] + h[b]
  <2>1. IsFiniteSet(Batches)
    BY FiniteAssumption
  <2>2. \A c \in Batches \ {b} : h[c] = f[c]
    BY <1>4
  <2>3. QED
    BY <1>3, <2>1, <2>2, SumChange
<1>7. QED
  BY <1>4, <1>5, <1>6

LEMMA TakenStays ==
  ASSUME taken' = taken, NEW g \in Goods
  PROVE  TakenOf(g)' = TakenOf(g)
BY DEF TakenOf

LEMMA BooksInit == Init => Books
<1> SUFFICES ASSUME Init PROVE Books
  OBVIOUS
<1>1. UnmadeTookNothing
  BY DEF Init, UnmadeTookNothing
<1>2. ASSUME NEW g \in Goods PROVE TakenOf(g) = 0
  <2> DEFINE f == [b \in Batches |-> taken[b][g]]
  <2>1. \A b \in Batches : f[b] = 0
    BY DEF Init, Nothing
  <2>2. TakenOf(g) = SumOver(f, Batches)
    BY DEF TakenOf
  <2> HIDE DEF f
  <2>3. QED
    BY <2>1, <2>2, FiniteAssumption, SumZeros
<1>3. \A g \in Goods : stock[g] \in Int /\ base[g] = stock[g]
  BY NeedAssumption DEF Init
<1>4. QED
  BY <1>1, <1>2, <1>3 DEF Books, Conserved

LEMMA BooksCreate ==
  ASSUME IInv, IInv', Books, NEW r \in Reqs, NEW b \in Batches, CommitCreate(r, b)
  PROVE  Books'
<1>1. /\ batch[b] = "none" /\ batch' = [batch EXCEPT ![b] = "live"]
      /\ taken' = [taken EXCEPT ![b] = needs[r]]
      /\ stock' = [g \in Goods |-> stock[g] - needs[r][g]]
      /\ shelf' = shelf /\ base' = base
  BY DEF CommitCreate
<1>2. UnmadeTookNothing'
  BY <1>1 DEF Books, UnmadeTookNothing, IInv, TypeOK
<1>3. ASSUME NEW g \in Goods, shelf'[g] # "gone"
      PROVE  stock'[g] = base'[g] - TakenOf(g)'
  <2>1. taken[b][g] = 0
    BY <1>1 DEF Books, UnmadeTookNothing, Nothing
  <2>2. taken'[b][g] = needs[r][g] /\ \A c \in Batches \ {b} : taken'[c][g] = taken[c][g]
    BY <1>1 DEF IInv, TypeOK
  <2>3. TakenOf(g)' = TakenOf(g) - 0 + needs[r][g]
    BY <2>1, <2>2, TakenChanges DEF IInv
  <2>4. stock[g] = base[g] - TakenOf(g)
    BY <1>1, <1>3 DEF Books, Conserved
  <2>5. /\ TakenOf(g) \in Int /\ needs[r][g] \in Int /\ stock[g] \in Int /\ base[g] \in Int
    BY TakenTyped, NeedAssumption DEF IInv, TypeOK
  <2>6. stock'[g] = stock[g] - needs[r][g] /\ base'[g] = base[g]
    BY <1>1
  <2>7. QED
    BY <2>3, <2>4, <2>5, <2>6
<1>4. QED
  BY <1>2, <1>3 DEF Books, Conserved

LEMMA BooksReturn ==
  ASSUME IInv, IInv', Books, NEW r \in Reqs, CommitReturn(r)
  PROVE  Books'
<1> DEFINE b == target[r]
<1>1. /\ b \in Batches /\ batch[b] # "none"
  BY DEF CommitReturn, IInv, ReturnsMade
<1>2. /\ stock' = [g \in Goods |-> IF g \in Mine(r) THEN stock[g] + taken[b][g] ELSE stock[g]]
      /\ taken' = GivenBack(b, Mine(r))
      /\ batch' = [batch EXCEPT ![b] = IF op[r] = "delete" THEN "deleted" ELSE "cancelled"]
      /\ shelf' = shelf /\ base' = base
  BY DEF CommitReturn
<1> HIDE DEF b
<1>3. UnmadeTookNothing'
  BY <1>1, <1>2 DEF Books, UnmadeTookNothing, GivenBack, IInv, TypeOK
<1>4. ASSUME NEW g \in Goods, shelf'[g] # "gone"
      PROVE  stock'[g] = base'[g] - TakenOf(g)'
  <2>1. /\ taken'[b][g] = IF g \in Mine(r) THEN 0 ELSE taken[b][g]
        /\ \A c \in Batches \ {b} : taken'[c][g] = taken[c][g]
    BY <1>1, <1>2 DEF GivenBack, IInv, TypeOK
  <2>2. TakenOf(g)' = TakenOf(g) - taken[b][g] + taken'[b][g]
    BY <1>1, <2>1, TakenChanges DEF IInv
  <2>3. stock[g] = base[g] - TakenOf(g)
    BY <1>2, <1>4 DEF Books, Conserved
  <2>4. /\ TakenOf(g) \in Int /\ taken[b][g] \in Int /\ stock[g] \in Int /\ base[g] \in Int
    BY <1>1, TakenTyped DEF IInv, TypeOK
  <2>5. stock'[g] = IF g \in Mine(r) THEN stock[g] + taken[b][g] ELSE stock[g]
    BY <1>2
  <2>6. base'[g] = base[g]
    BY <1>2
  <2>7. QED
    BY <2>1, <2>2, <2>3, <2>4, <2>5, <2>6
<1>5. QED
  BY <1>3, <1>4 DEF Books, Conserved

LEMMA BooksOneRow ==
  ASSUME IInv, Books, NEW g \in Goods, OneRowWrite(g)
  PROVE  Books'
<1>1. PICK qty \in Int : /\ stock' = [stock EXCEPT ![g] = qty]
                         /\ base' = [base EXCEPT ![g] = base[g] + (qty - stock[g])]
                         /\ ShelvesKeep /\ UNCHANGED Unlocked
  BY DEF OneRowWrite
<1>2. taken' = taken /\ batch' = batch
  BY <1>1 DEF Unlocked
<1>3. UnmadeTookNothing'
  BY <1>2 DEF Books, UnmadeTookNothing
<1>4. ASSUME NEW h \in Goods, shelf'[h] # "gone"
      PROVE  stock'[h] = base'[h] - TakenOf(h)'
  <2>1. stock[h] = base[h] - TakenOf(h)
    BY <1>1, <1>4 DEF Books, Conserved, ShelvesKeep
  <2>2. TakenOf(h)' = TakenOf(h)
    BY <1>2, TakenStays
  <2>3. TakenOf(h) \in Int /\ stock[h] \in Int /\ base[h] \in Int
    BY TakenTyped DEF IInv, TypeOK
  <2>4. CASE h = g
    <3>1. stock'[h] = qty /\ base'[h] = base[h] + (qty - stock[h])
      BY <1>1, <2>4 DEF IInv, TypeOK
    <3>2. QED
      BY <2>1, <2>2, <2>3, <3>1
  <2>5. CASE h # g
    BY <1>1, <2>1, <2>2, <2>5 DEF IInv, TypeOK
  <2>6. QED
    BY <2>4, <2>5
<1>5. QED
  BY <1>3, <1>4 DEF Books, Conserved

LEMMA BooksKept ==
  ASSUME Books, UNCHANGED <<stock, shelf, batch, taken, base>>
  PROVE  Books'
<1>1. \A g \in Goods : TakenOf(g)' = TakenOf(g)
  BY TakenStays
<1>2. QED
  BY <1>1 DEF Books, UnmadeTookNothing, Conserved

LEMMA BooksNext == IInv /\ IInv' /\ Books /\ [Next]_vars => Books'
<1> SUFFICES ASSUME IInv, IInv', Books, [Next]_vars PROVE Books'
  OBVIOUS
<1>1. CASE UNCHANGED vars
  BY <1>1, BooksKept DEF vars
<1>2. ASSUME NEW r \in Reqs, NEW n, NEW want, NEW first, NEW scan,
             BeginCreate(r, n, want, first, scan)
      PROVE  Books'
  BY <1>2, BooksKept DEF BeginCreate
<1>3. ASSUME NEW r \in Reqs, NEW b, NEW kind, NEW items, NEW last,
             BeginReturn(r, b, kind, items, last)
      PROVE  Books'
  BY <1>3, BooksKept DEF BeginReturn
<1>4. ASSUME NEW r \in Reqs, LockNext(r) PROVE Books'
  BY <1>4, BooksKept DEF LockNext
<1>5. CASE UNCHANGED <<stock, shelf, bought, batch, taken, base>>
  BY <1>5, BooksKept
<1>6. CASE Next
  BY <1>2, <1>3, <1>4, <1>5, <1>6, StepKinds, BooksCreate, BooksReturn, BooksOneRow
<1>7. QED
  BY <1>1, <1>6

(* What is on a shelf is what people put there less what the movements say *)
(* the batches still hold, however creates, returns and edits overlap.     *)
THEOREM StockConserved == Spec => []Conserved
<1>1. Init => Books
  BY BooksInit
<1>2. IInv /\ IInv' /\ Books /\ [Next]_vars => Books'
  BY BooksNext
<1>3. Books => Conserved
  BY DEF Books
<1>4. QED
  BY <1>1, <1>2, <1>3, Invariance, PTL DEF Spec

-----------------------------------------------------------------------------
(* The container comes first.                                              *)

(* A container is never deleted or uncounted, so no scan passes it over. *)
ContainersStay == \A k \in Containers : shelf[k] = "counted"

(* Between two requests a server process holds no good. *)
IdleHoldsNothing ==
  \A r \in Reqs : op[r] = "idle" =>
    plan[r] = <<>> /\ \A g \in Goods : lock[g] # r

(* A create that fills a container has its row, or has it to lock next and *)
(* holds no other.                                                         *)
ContainerFirst ==
  \A r \in Reqs : \A k \in Containers : op[r] = "create" /\ needs[r][k] > 0 =>
    \/ lock[k] = r
    \/ plan[r] # <<>> /\ Head(plan[r]) = k /\ \A g \in Goods : lock[g] # r

(* A create has still to lock each row of its plan, once. *)
PlanAhead ==
  \A r \in Reqs : op[r] = "create" =>
    \A i \in 1..Len(plan[r]) :
      /\ lock[plan[r][i]] # r
      /\ \A j \in 1..Len(plan[r]) : plan[r][i] = plan[r][j] => i = j

Orderly == ContainersStay /\ IdleHoldsNothing /\ ContainerFirst /\ PlanAhead

LEMMA ContainersAreGoods == \A k \in Containers : k \in Goods /\ k \in Rows
BY DEF Goods, Rows

LEMMA OrderlyInit == Init => Orderly
BY NoneAssumption, NeedAssumption, GoodsAreRows, ContainersAreGoods
DEF Init, Orderly, ContainersStay, IdleHoldsNothing, ContainerFirst, PlanAhead, Goods

LEMMA ListIsSeq ==
  ASSUME NEW S, NEW n \in Nat, NEW q \in [1..n -> S]
  PROVE  q \in Seq(S) /\ Len(q) = n
OBVIOUS

(* One container per batch: the list that comes first is that container.   *)
LEMMA FirstIsContainer ==
  ASSUME NEW want \in Wants, NEW k \in Containers, want[k] > 0,
         NEW first \in Orders(UsedContainers(want)), NEW scan \in Seq(Goods)
  PROVE  /\ LockOrder(first, scan) # <<>>
         /\ Head(LockOrder(first, scan)) = k
<1>1. UsedContainers(want) = {k}
  BY DEF Wants, UsedContainers
<1>2. Cardinality(UsedContainers(want)) = 1
  BY <1>1, FS_Singleton
<1>3. first \in [1..1 -> {k}]
  BY <1>1, <1>2 DEF Orders
<1>4. k \in Goods
  BY ContainersAreGoods
<1>5. first \in [1..1 -> Goods] /\ first[1] = k
  BY <1>3, <1>4
<1>6. first \in Seq(Goods) /\ Len(first) = 1
  BY <1>5, ListIsSeq
<1>7. /\ first \o scan \in Seq(Goods)
      /\ Len(first \o scan) >= 1 /\ (first \o scan)[1] = first[1]
  <2>1. 1 \in 1..Len(first) + Len(scan) /\ 1 <= Len(first) /\ Len(scan) \in Nat
    BY <1>6, LenProperties
  <2>2. QED
    BY <1>6, <2>1, ConcatProperties
<1>8. QED
  BY <1>5, <1>7 DEF LockOrder

(* Containers and materials are different rows: no row comes twice.        *)
LEMMA OrderOnce ==
  ASSUME NEW S \in SUBSET Containers, NEW T \in SUBSET Items,
         NEW first \in Orders(S), NEW scan \in Orders(T)
  PROVE  /\ LockOrder(first, scan) \in Seq(Goods)
         /\ \A i, j \in 1..Len(LockOrder(first, scan)) :
              LockOrder(first, scan)[i] = LockOrder(first, scan)[j] => i = j
<1>1. PICK n : n = Cardinality(S)
  OBVIOUS
<1>2. PICK m : m = Cardinality(T)
  OBVIOUS
<1>3. S \subseteq Goods /\ T \subseteq Goods
  BY DEF Goods
<1>4. n \in Nat /\ m \in Nat
  BY <1>1, <1>2, <1>3, FiniteAssumption, FS_Subset, FS_CardinalityType
<1>5. /\ first \in [1..n -> S] /\ \A i, j \in 1..n : first[i] = first[j] => i = j
      /\ scan \in [1..m -> T] /\ \A i, j \in 1..m : scan[i] = scan[j] => i = j
  BY <1>1, <1>2 DEF Orders
<1>6. /\ first \in Seq(Goods) /\ Len(first) = n
      /\ scan \in Seq(Goods) /\ Len(scan) = m
  BY <1>3, <1>4, <1>5
<1>7. PICK both : both = LockOrder(first, scan)
  OBVIOUS
<1>8. /\ both \in Seq(Goods) /\ Len(both) = n + m
      /\ \A i \in 1..n : both[i] = first[i]
      /\ \A i \in n+1..n+m : both[i] = scan[i - n]
  <2>1. both = first \o scan
    BY <1>7 DEF LockOrder
  <2>2. both \in Seq(Goods) /\ Len(both) = Len(first) + Len(scan)
    BY <1>6, <2>1, ConcatProperties
  <2>3. \A i \in 1..Len(first) + Len(scan) :
          both[i] = IF i <= Len(first) THEN first[i] ELSE scan[i - Len(first)]
    BY <1>6, <2>1, ConcatProperties
  <2>4. QED
    BY <1>4, <1>6, <2>2, <2>3
<1>9. ASSUME NEW i \in 1..n+m, NEW j \in 1..n+m, both[i] = both[j] PROVE i = j
  <2>1. \A x \in 1..n : both[x] \in Containers
    BY <1>5, <1>8
  <2>2. \A x \in n+1..n+m : x - n \in 1..m /\ both[x] \in Items
    BY <1>4, <1>5, <1>8
  <2>3. \A x \in 1..n+m : x \in 1..n \/ x \in n+1..n+m
    BY <1>4
  <2>4. CASE i \in 1..n /\ j \in 1..n
    BY <1>5, <1>8, <1>9, <2>4
  <2>5. CASE i \in n+1..n+m /\ j \in n+1..n+m
    <3>1. i - n = j - n
      BY <1>5, <1>8, <1>9, <2>2, <2>5
    <3>2. QED
      BY <1>4, <3>1
  <2>6. CASE i \in 1..n /\ j \in n+1..n+m
    BY <1>9, <2>1, <2>2, <2>6, RowsAssumption
  <2>7. CASE i \in n+1..n+m /\ j \in 1..n
    BY <1>9, <2>1, <2>2, <2>7, RowsAssumption
  <2>8. QED
    BY <2>3, <2>4, <2>5, <2>6, <2>7
<1>10. QED
  BY <1>7, <1>8, <1>9

LEMMA OrderlyBeginCreate ==
  ASSUME IInv, Orderly, NEW r \in Reqs, NEW n \in Numberings, NEW want \in Wants,
         NEW first, NEW scan, BeginCreate(r, n, want, first, scan)
  PROVE  Orderly'
<1>1. /\ op[r] = "idle" /\ op' = [op EXCEPT ![r] = "create"]
      /\ lock' = [lock EXCEPT ![n] = r]
      /\ plan' = [plan EXCEPT ![r] = LockOrder(first, scan)]
      /\ needs' = [needs EXCEPT ![r] = want]
      /\ shelf' = shelf
      /\ first \in Orders(UsedContainers(want))
      /\ scan \in Orders(IF UsedItems(want) = {} THEN {} ELSE Present)
  BY DEF BeginCreate
<1>2. scan \in Seq(Goods)
  <2>1. Present \subseteq Goods
    BY DEF Present, Goods
  <2>2. QED
    BY <1>1, <2>1, OrderIsSeq
<1>3. \A g \in Goods : lock'[g] = lock[g]
  BY <1>1, GoodsNoCounters DEF IInv, TypeOK
<1>4. ContainersStay'
  BY <1>1 DEF Orderly, ContainersStay
<1>5. IdleHoldsNothing'
  BY <1>1, <1>3 DEF IInv, TypeOK, Orderly, IdleHoldsNothing
<1>6. ASSUME NEW q \in Reqs, NEW k \in Containers, op'[q] = "create", needs'[q][k] > 0
      PROVE  \/ lock'[k] = q
             \/ plan'[q] # <<>> /\ Head(plan'[q]) = k /\ \A g \in Goods : lock'[g] # q
  <2>1. CASE q = r
    <3>1. needs'[r] = want /\ plan'[r] = LockOrder(first, scan)
      BY <1>1 DEF IInv, TypeOK
    <3>2. plan'[r] # <<>> /\ Head(plan'[r]) = k
      BY <1>1, <1>2, <1>6, <2>1, <3>1, FirstIsContainer
    <3>3. \A g \in Goods : lock'[g] # r
      BY <1>1, <1>3 DEF Orderly, IdleHoldsNothing
    <3>4. QED
      BY <2>1, <3>2, <3>3
  <2>2. CASE q # r
    <3>1. op[q] = "create" /\ needs[q] = needs'[q] /\ plan'[q] = plan[q]
      BY <1>1, <1>6, <2>2 DEF IInv, TypeOK
    <3>2. QED
      BY <1>3, <1>6, <3>1, ContainersAreGoods DEF Orderly, ContainerFirst
  <2>3. QED
    BY <2>1, <2>2
<1>7. PlanAhead'
  <2>1. PICK both : both = LockOrder(first, scan)
    OBVIOUS
  <2>2. /\ both \in Seq(Goods)
        /\ \A i, j \in 1..Len(both) : both[i] = both[j] => i = j
    <3>1. /\ UsedContainers(want) \in SUBSET Containers
          /\ (IF UsedItems(want) = {} THEN {} ELSE Present) \in SUBSET Items
      BY DEF UsedContainers, Present
    <3>2. QED
      BY <1>1, <2>1, <3>1, OrderOnce
  <2>3. ASSUME NEW q \in Reqs, op'[q] = "create", NEW i \in 1..Len(plan'[q])
        PROVE  /\ lock'[plan'[q][i]] # q
               /\ \A j \in 1..Len(plan'[q]) : plan'[q][i] = plan'[q][j] => i = j
    <3>1. CASE q = r
      <4>1. plan'[r] = both
        BY <1>1, <2>1 DEF IInv, TypeOK
      <4>2. both[i] \in Goods
        BY <2>2, <2>3, <3>1, <4>1
      <4>3. lock'[both[i]] # r
        BY <1>1, <1>3, <4>2 DEF Orderly, IdleHoldsNothing
      <4>4. QED
        BY <2>2, <2>3, <3>1, <4>1, <4>3
    <3>2. CASE q # r
      <4>1. op[q] = "create" /\ plan'[q] = plan[q] /\ plan[q] \in Seq(Goods)
        BY <1>1, <2>3, <3>2 DEF IInv, TypeOK
      <4>2. plan[q][i] \in Goods
        BY <2>3, <4>1
      <4>3. QED
        BY <1>3, <2>3, <4>1, <4>2 DEF Orderly, PlanAhead
    <3>3. QED
      BY <3>1, <3>2
  <2>4. QED
    BY <2>3 DEF PlanAhead
<1>8. QED
  BY <1>4, <1>5, <1>6, <1>7 DEF Orderly, ContainerFirst

LEMMA OrderlyBeginReturn ==
  ASSUME IInv, Orderly, NEW r \in Reqs, NEW b \in Batches, NEW kind, NEW items, NEW last,
         BeginReturn(r, b, kind, items, last)
  PROVE  Orderly'
<1>1. /\ op[r] = "idle" /\ op' = [op EXCEPT ![r] = kind]
      /\ kind \in {"cancel", "return", "delete"}
      /\ lock' = [lock EXCEPT ![b] = r]
      /\ plan' = [plan EXCEPT ![r] = items \o last]
      /\ needs' = needs /\ shelf' = shelf
  BY DEF BeginReturn
<1>2. \A g \in Goods : lock'[g] = lock[g]
  BY <1>1, GoodsNoCounters DEF IInv, TypeOK
<1>3. op'[r] = kind /\ \A q \in Reqs \ {r} : op'[q] = op[q] /\ plan'[q] = plan[q]
  BY <1>1 DEF IInv, TypeOK
<1>4. ContainersStay'
  BY <1>1 DEF Orderly, ContainersStay
<1>5. IdleHoldsNothing'
  BY <1>1, <1>2, <1>3 DEF Orderly, IdleHoldsNothing
<1>6. ContainerFirst'
  BY <1>1, <1>2, <1>3, ContainersAreGoods DEF Orderly, ContainerFirst
<1>7. PlanAhead'
  <2>1. ASSUME NEW q \in Reqs, op'[q] = "create"
        PROVE  /\ op[q] = "create" /\ plan'[q] = plan[q]
               /\ \A i \in 1..Len(plan[q]) : plan[q][i] \in Goods
    BY <1>1, <1>3, <2>1 DEF IInv, TypeOK
  <2>2. QED
    BY <1>2, <2>1 DEF Orderly, PlanAhead
<1>8. QED
  BY <1>4, <1>5, <1>6, <1>7 DEF Orderly

LEMMA OrderlyLockNext ==
  ASSUME IInv, Orderly, NEW r \in Reqs, LockNext(r)
  PROVE  Orderly'
<1> DEFINE row == Head(plan[r])
<1>1. /\ plan[r] \in Seq(Goods) /\ plan[r] # <<>> /\ row \in Goods /\ row \in Rows
  BY GoodsAreRows DEF LockNext, IInv, TypeOK
<1>2. /\ plan' = [plan EXCEPT ![r] = Tail(plan[r])]
      /\ UNCHANGED <<shelf, op, needs>>
      /\ \/ Skipped(r, row) /\ lock' = lock
         \/ lock[row] = None /\ lock' = [lock EXCEPT ![row] = r]
  BY DEF LockNext, Free
<1> HIDE DEF row
<1>3. /\ \A q \in Reqs \ {r} : plan'[q] = plan[q]
      /\ \A g \in Goods : lock'[g] = lock[g] \/ (g = row /\ lock[g] = None /\ lock'[g] = r)
  BY <1>1, <1>2, GoodsAreRows DEF IInv, TypeOK
<1>4. op[r] # "idle"
  BY <1>1 DEF Orderly, IdleHoldsNothing
<1>5. ContainersStay'
  BY <1>2 DEF Orderly, ContainersStay
<1>6. IdleHoldsNothing'
  BY <1>2, <1>3, <1>4 DEF Orderly, IdleHoldsNothing
<1>7. ASSUME NEW q \in Reqs, NEW k \in Containers, op'[q] = "create", needs'[q][k] > 0
      PROVE  \/ lock'[k] = q
             \/ plan'[q] # <<>> /\ Head(plan'[q]) = k /\ \A g \in Goods : lock'[g] # q
  <2>1. op[q] = "create" /\ needs[q][k] > 0
    BY <1>2, <1>7
  <2>2. CASE lock[k] = q
    <3>1. lock'[k] = q
      BY <1>3, <2>2, ContainersAreGoods, NoneAssumption
    <3>2. QED
      BY <3>1
  <2>3. CASE q = r /\ Head(plan[q]) = k
    <3>1. row = k
      BY <2>3 DEF row
    <3>2. ~Skipped(r, row)
      BY <2>1, <2>3, <3>1 DEF Skipped, Orderly, ContainersStay
    <3>3. lock'[k] = r
      BY <1>1, <1>2, <3>1, <3>2 DEF IInv, TypeOK
    <3>4. QED
      BY <2>3, <3>3
  <2>4. CASE q # r /\ plan[q] # <<>> /\ Head(plan[q]) = k /\ \A g \in Goods : lock[g] # q
    BY <1>3, <2>4
  <2>5. QED
    BY <2>1, <2>2, <2>3, <2>4 DEF Orderly, ContainerFirst
<1>8. PlanAhead'
  <2> SUFFICES ASSUME NEW q \in Reqs, op'[q] = "create", NEW i \in 1..Len(plan'[q])
               PROVE  /\ lock'[plan'[q][i]] # q
                      /\ \A j \in 1..Len(plan'[q]) : plan'[q][i] = plan'[q][j] => i = j
    BY DEF PlanAhead
  <2>1. op[q] = "create" /\ plan[q] \in Seq(Goods)
    BY <1>2 DEF IInv, TypeOK
  <2>2. CASE q = r
    <3>1. plan'[r] = Tail(plan[r])
      BY <1>2 DEF IInv, TypeOK
    <3>2. /\ Len(plan'[r]) = Len(plan[r]) - 1
          /\ \A j \in 1..Len(plan'[r]) : j + 1 \in 1..Len(plan[r]) /\ plan'[r][j] = plan[r][j + 1]
      BY <1>1, <3>1
    <3>3. 1 \in 1..Len(plan[r]) /\ row = plan[r][1]
      BY <1>1 DEF row
    <3>4. i + 1 \in 1..Len(plan[r]) /\ plan'[r][i] = plan[r][i + 1] /\ i + 1 # 1
      BY <2>2, <3>2
    <3>5. plan[r][i + 1] # row /\ plan[r][i + 1] \in Goods /\ lock[plan[r][i + 1]] # r
      BY <1>1, <2>1, <2>2, <3>3, <3>4 DEF Orderly, PlanAhead
    <3>6. lock'[plan'[r][i]] # r
      BY <1>3, <3>4, <3>5
    <3>7. \A j \in 1..Len(plan'[r]) : plan'[r][i] = plan'[r][j] => i + 1 = j + 1
      BY <2>1, <2>2, <3>2, <3>4 DEF Orderly, PlanAhead
    <3>8. QED
      BY <2>2, <3>6, <3>7
  <2>3. CASE q # r
    <3>1. plan'[q] = plan[q] /\ plan[q][i] \in Goods
      BY <1>3, <2>1, <2>3
    <3>2. lock'[plan[q][i]] # q
      BY <1>3, <2>1, <2>3, <3>1 DEF Orderly, PlanAhead
    <3>3. QED
      BY <2>1, <3>1, <3>2 DEF Orderly, PlanAhead
  <2>4. QED
    BY <2>2, <2>3
<1>9. QED
  BY <1>5, <1>6, <1>7, <1>8 DEF Orderly, ContainerFirst

LEMMA OrderlyEnds ==
  ASSUME IInv, Orderly, NEW r \in Reqs, Ends(r), shelf' = shelf
  PROVE  Orderly'
<1>1. \A g \in Goods : lock'[g] = IF lock[g] = r THEN None ELSE lock[g]
  BY GoodsAreRows DEF Ends
<1>2. /\ op'[r] = "idle" /\ plan'[r] = <<>>
      /\ \A q \in Reqs \ {r} : op'[q] = op[q] /\ plan'[q] = plan[q] /\ needs'[q] = needs[q]
  BY DEF Ends, IInv, TypeOK
<1>3. ContainersStay'
  BY DEF Orderly, ContainersStay
<1>4. IdleHoldsNothing'
  BY <1>1, <1>2, NoneAssumption DEF Orderly, IdleHoldsNothing
<1>5. ASSUME NEW q \in Reqs, NEW k \in Containers, op'[q] = "create", needs'[q][k] > 0
      PROVE  \/ lock'[k] = q
             \/ plan'[q] # <<>> /\ Head(plan'[q]) = k /\ \A g \in Goods : lock'[g] # q
  <2>1. q # r
    BY <1>2, <1>5
  <2>2. op[q] = "create" /\ needs[q][k] > 0 /\ plan'[q] = plan[q]
    BY <1>2, <1>5, <2>1
  <2>3. \A g \in Goods : lock'[g] = q <=> lock[g] = q
    BY <1>1, <2>1, NoneAssumption
  <2>4. QED
    BY <2>2, <2>3, ContainersAreGoods DEF Orderly, ContainerFirst
<1>6. PlanAhead'
  <2> SUFFICES ASSUME NEW q \in Reqs, op'[q] = "create", NEW i \in 1..Len(plan'[q])
               PROVE  /\ lock'[plan'[q][i]] # q
                      /\ \A j \in 1..Len(plan'[q]) : plan'[q][i] = plan'[q][j] => i = j
    BY DEF PlanAhead
  <2>1. q # r /\ op[q] = "create" /\ plan'[q] = plan[q] /\ plan[q] \in Seq(Goods)
    BY <1>2 DEF IInv, TypeOK
  <2>2. plan[q][i] \in Goods
    BY <2>1
  <2>3. lock'[plan[q][i]] = q <=> lock[plan[q][i]] = q
    BY <1>1, <2>1, <2>2, NoneAssumption
  <2>4. QED
    BY <2>1, <2>3 DEF Orderly, PlanAhead
<1>7. QED
  BY <1>3, <1>4, <1>5, <1>6 DEF Orderly, ContainerFirst

LEMMA OrderlyKept ==
  ASSUME Orderly, UNCHANGED <<lock, op, plan, needs>>,
         \A k \in Containers : shelf'[k] = shelf[k]
  PROVE  Orderly'
BY DEF Orderly, ContainersStay, IdleHoldsNothing, ContainerFirst, PlanAhead

LEMMA OrderlyNext == IInv /\ Orderly /\ [Next]_vars => Orderly'
<1> SUFFICES ASSUME IInv, Orderly, [Next]_vars PROVE Orderly'
  OBVIOUS
<1>1. CASE UNCHANGED vars
  BY <1>1, OrderlyKept DEF vars
<1>2. ASSUME NEW r \in Reqs, NEW b \in Batches, CommitCreate(r, b) PROVE Orderly'
  BY <1>2, OrderlyEnds DEF CommitCreate
<1>3. ASSUME NEW r \in Reqs, CommitReturn(r) PROVE Orderly'
  BY <1>3, OrderlyEnds DEF CommitReturn
<1>4. ASSUME NEW g \in Goods, OneRowWrite(g) PROVE Orderly'
  BY <1>4, OrderlyKept DEF OneRowWrite, ShelvesKeep, Unlocked
<1>5. ASSUME NEW r \in Reqs, Ends(r), UNCHANGED <<stock, shelf, bought, batch, taken, base>>
      PROVE  Orderly'
  BY <1>5, OrderlyEnds
<1>6. CASE Next
  BY <1>2, <1>3, <1>4, <1>5, <1>6, StepKinds, OrderlyBeginCreate, OrderlyBeginReturn,
     OrderlyLockNext
<1>7. QED
  BY <1>1, <1>6

LEMMA OrderlyAvoidsDeadlock == IInv /\ Orderly => SameContainerNeverDeadlocks
<1> SUFFICES ASSUME IInv, Orderly, NEW r \in Reqs, NEW q \in Reqs,
                    op[r] = "create", op[q] = "create",
                    NEW k \in UsedContainers(needs[r]) \cap UsedContainers(needs[q]),
                    Blocked(r), Blocked(q), WaitsFor(r) = q, WaitsFor(q) = r
             PROVE  FALSE
  BY DEF SameContainerNeverDeadlocks
<1>1. k \in Containers /\ needs[r][k] > 0 /\ needs[q][k] > 0
  BY DEF UsedContainers
<1>2. /\ plan[r] \in Seq(Goods) /\ plan[r] # <<>>
      /\ plan[q] \in Seq(Goods) /\ plan[q] # <<>>
  BY DEF Blocked, IInv, TypeOK
<1>3. Head(plan[r]) \in Goods /\ Head(plan[q]) \in Goods
  BY <1>2
<1>4. lock[Head(plan[r])] = q /\ lock[Head(plan[q])] = r
  BY DEF WaitsFor
<1>5. lock[k] = r /\ lock[k] = q
  BY <1>1, <1>3, <1>4 DEF Orderly, ContainerFirst
<1>6. 1 \in 1..Len(plan[r]) /\ Head(plan[r]) = plan[r][1]
  BY <1>2
<1>7. lock[plan[r][1]] # r
  BY <1>6 DEF Orderly, PlanAhead
<1>8. QED
  BY <1>4, <1>5, <1>6, <1>7

(* Two batches that fill the same container never deadlock with each other *)
(* over it, in whatever order their scans meet the materials.              *)
THEOREM ContainerOrder == Spec => []SameContainerNeverDeadlocks
<1>1. Init => Orderly
  BY OrderlyInit
<1>2. IInv /\ Orderly /\ [Next]_vars => Orderly'
  BY OrderlyNext
<1>3. IInv /\ Orderly => SameContainerNeverDeadlocks
  BY OrderlyAvoidsDeadlock
<1>4. QED
  BY <1>1, <1>2, <1>3, Invariance, PTL DEF Spec

-----------------------------------------------------------------------------
(* Refinement: each transaction is one step of the ledger, and all the     *)
(* locking before it is none.                                              *)

LEMMA LedgerInit == Init => Ledger!Init
BY NeedAssumption DEF Init, Ledger!Init, Nothing, Ledger!Nothing

LEMMA LedgerTake ==
  ASSUME IInv, NEW r \in Reqs, NEW b \in Batches, CommitCreate(r, b)
  PROVE  Ledger!Take(b)
<1>1. /\ batch[b] = "none" /\ batch' = [batch EXCEPT ![b] = "live"]
      /\ taken' = [taken EXCEPT ![b] = needs[r]]
      /\ stock' = [g \in Goods |-> stock[g] - needs[r][g]]
      /\ Covers(r)
  BY DEF CommitCreate
<1>2. taken'[b] = needs[r]
  BY <1>1 DEF IInv, TypeOK
<1>3. needs[r] \in [Goods -> Nat]
  BY NeedAssumption DEF IInv, TypeOK
<1>4. \A g \in Goods : needs[r][g] <= stock[g]
  BY <1>1, CoveredHolds
<1>5. {x \in Batches : batch'[x] # "none"} = {x \in Batches : batch[x] # "none"} \cup {b}
  BY <1>1 DEF IInv, TypeOK
<1>6. QED
  BY <1>1, <1>2, <1>3, <1>4, <1>5 DEF Ledger!Take

LEMMA LedgerGiveBack ==
  ASSUME IInv, NEW r \in Reqs, CommitReturn(r)
  PROVE  \E b \in Batches, back \in SUBSET Goods : Ledger!GiveBack(b, back)
<1> DEFINE b == target[r]
<1>1. b \in Batches /\ batch[b] # "none"
  BY DEF CommitReturn, IInv, ReturnsMade
<1>2. Mine(r) \in SUBSET Goods
  BY DEF Mine
<1>3. /\ stock' = [g \in Goods |-> IF g \in Mine(r) THEN stock[g] + taken[b][g] ELSE stock[g]]
      /\ taken' = GivenBack(b, Mine(r))
      /\ batch' = [batch EXCEPT ![b] = IF op[r] = "delete" THEN "deleted" ELSE "cancelled"]
  BY DEF CommitReturn
<1> HIDE DEF b
<1>4. {x \in Batches : batch'[x] # "none"} = {x \in Batches : batch[x] # "none"}
  BY <1>1, <1>3 DEF IInv, TypeOK
<1>5. Ledger!GiveBack(b, Mine(r))
  BY <1>1, <1>3, <1>4 DEF Ledger!GiveBack, GivenBack
<1>6. QED
  BY <1>1, <1>2, <1>5

LEMMA LedgerAdjust ==
  ASSUME IInv, NEW g \in Goods, OneRowWrite(g)
  PROVE  Ledger!Adjust(g)
<1>1. PICK qty \in Int : qty >= 0 /\ stock' = [stock EXCEPT ![g] = qty] /\ UNCHANGED Unlocked
  BY DEF OneRowWrite
<1>2. stock'[g] = qty
  BY <1>1 DEF IInv, TypeOK
<1>3. batch' = batch /\ taken' = taken
  BY <1>1 DEF Unlocked
<1>4. qty \in Nat
  BY <1>1
<1>5. {b \in Batches : batch'[b] # "none"} = {b \in Batches : batch[b] # "none"}
  BY <1>3
<1>6. QED
  BY <1>1, <1>2, <1>3, <1>4, <1>5 DEF Ledger!Adjust

LEMMA LedgerStep == IInv /\ [Next]_vars => [Ledger!Next]_(Ledger!vars)
<1> SUFFICES ASSUME IInv, [Next]_vars
             PROVE  Ledger!Next \/ UNCHANGED Ledger!vars
  OBVIOUS
<1>1. CASE UNCHANGED <<stock, batch, taken>>
  <2>1. {b \in Batches : batch'[b] # "none"} = {b \in Batches : batch[b] # "none"}
    BY <1>1
  <2>2. stock' = stock /\ taken' = taken
    BY <1>1
  <2>3. QED
    BY <2>1, <2>2 DEF Ledger!vars
<1>2. CASE \E r \in Reqs, b \in Batches : CommitCreate(r, b)
  BY <1>2, LedgerTake DEF Ledger!Next
<1>3. CASE \E r \in Reqs : CommitReturn(r)
  BY <1>3, LedgerGiveBack DEF Ledger!Next
<1>4. CASE \E g \in Goods : OneRowWrite(g)
  BY <1>4, LedgerAdjust DEF Ledger!Next
<1>5. ASSUME NEW r \in Reqs, NEW n, NEW want, NEW first, NEW scan,
             BeginCreate(r, n, want, first, scan)
      PROVE  UNCHANGED <<stock, batch, taken>>
  BY <1>5 DEF BeginCreate
<1>6. ASSUME NEW r \in Reqs, NEW b, NEW kind, NEW items, NEW last,
             BeginReturn(r, b, kind, items, last)
      PROVE  UNCHANGED <<stock, batch, taken>>
  BY <1>6 DEF BeginReturn
<1>7. ASSUME NEW r \in Reqs, LockNext(r)
      PROVE  UNCHANGED <<stock, batch, taken>>
  BY <1>7 DEF LockNext
<1>8. CASE UNCHANGED vars
  <2>1. UNCHANGED <<stock, batch, taken>>
    BY <1>8 DEF vars
  <2>2. QED BY <2>1, <1>1
<1>9. CASE Next
  BY <1>9, <1>1, <1>2, <1>3, <1>4, <1>5, <1>6, <1>7, StepKinds
<1>10. QED
  BY <1>8, <1>9

(* Locks, scans and rollbacks are invisible: making, cancelling and        *)
(* deleting batches is atomic, and each batch takes and returns once.      *)
THEOREM Atomicity == Spec => ImplementsLedger
<1>1. Init => Ledger!Init
  BY LedgerInit
<1>2. IInv /\ [Next]_vars => [Ledger!Next]_(Ledger!vars)
  BY LedgerStep
<1>3. QED
  BY <1>1, <1>2, Invariance, PTL DEF Spec, ImplementsLedger, Ledger!Spec
=============================================================================
