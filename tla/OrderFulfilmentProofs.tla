------------------------ MODULE OrderFulfilmentProofs ------------------------
(***************************************************************************)
(* Proofs about OrderFulfilment: no line goes that something refers to,    *)
(* nothing is shipped against an order that is not open, and what batches  *)
(* yield, promise and ship agrees.                                         *)
(*                                                                         *)
(* What a handler found under the lock of the order holds until it ends:   *)
(* the order is open and its line is there. What the others found need not *)
(* hold; but whatever they are about, the order is no draft, and none of   *)
(* them makes it one (OrderInv).                                           *)
(*                                                                         *)
(* Totals need more (Books): what a transaction under way is going to add  *)
(* fits the rows as they are now, because whoever else could fill them     *)
(* waits for the same lock. One link or dispatch is written at a time, and *)
(* the sums move with it.                                                  *)
(***************************************************************************)
EXTENDS OrderFulfilment, SumTheorems, TLAPS

\* A request whose quantity is q.
TxWith(q) == [op       : {"none", "status", "edit", "link", "release", "create", "void",
                          "amend", "unlink"},
              step     : {"none", "checked", "held", "summed"},
              line     : Lines \cup {None},
              batch    : Batches \cup {None},
              dispatch : Dispatches \cup {None},
              qty      : {q},
              read     : Statuses,
              next     : Statuses \cup {"unchanged"}]

LockOps == {"link", "release", "create"}

\* What a request is about.
Names(t) ==
    /\ t.op \in LockOps \cup {"unlink"} => t.line \in Lines /\ t.batch \in Batches
    /\ t.op \in {"create", "void", "amend"} => t.dispatch \in Dispatches
    /\ t.op \in {"create", "amend"} => t.qty \in 0..MaxQty

\* The status that it read or will write.
Decides(t) ==
    /\ t.step \in {"held", "summed"} => t.op \notin {"none", "status", "edit"}
    /\ t.step = "held" \/ (t.op = "create" /\ t.step = "checked") => t.read # "draft"
    /\ t.step = "summed" => t.next # "draft"
    /\ t.op = "status" => t.next \in Statuses \ {"draft"}

\* What it found and still holds.
Finds(t) ==
    /\ t.op \in LockOps => order.status \notin Closed /\ line[t.line] > 0
    /\ t.op \notin {"none", "status", "edit"} => order.status # "draft"

Fits(t) == t \in TxWith(t.qty) /\ Names(t) /\ Decides(t) /\ Finds(t)

\* Quantities of links, whatever they are.
IsLink(f) == \E Q : f \in [Lines -> [Batches -> Q]]

Shape ==
    /\ order \in [status : Statuses, deleted : BOOLEAN]
    /\ line \in [Lines -> 0..MaxOrdered]
    /\ IsLink(link)
    /\ dispatch \in [Dispatches -> DispatchRow]
    /\ tx = [c \in Clients |-> tx[c]]

AllFit    == \A c \in Clients : Fits(tx[c])
OneHolder == \A c, d \in Clients : HoldsOrder(c) /\ HoldsOrder(d) => c = d

OrderInv ==
    /\ Shape
    /\ AllFit
    /\ OneHolder
    /\ ReferencesSurvive
    /\ DraftUntouched

-----------------------------------------------------------------------------
(* The rows of requests                                                     *)

LEMMA IdleFits == Fits(Idle) /\ Idle.op = "none"
  BY DEF Fits, TxWith, Names, Decides, Finds, Idle, LockOps, Statuses

LEMMA StatusRow ==
    ASSUME NEW s \in Statuses
    PROVE  [Idle EXCEPT !.op = "status", !.step = "checked", !.next = s] \in TxWith(0)
  BY DEF Idle, TxWith, Statuses

LEMMA EditRow == [Idle EXCEPT !.op = "edit", !.step = "checked"] \in TxWith(0)
  BY DEF Idle, TxWith, Statuses

LEMMA LinkRow ==
    ASSUME NEW l \in Lines, NEW b \in Batches, NEW q, NEW s \in Statuses, NEW o \in {"link", "release"}
    PROVE  [Idle EXCEPT !.op = o, !.step = "held", !.line = l, !.batch = b,
                        !.qty = q, !.read = s] \in TxWith(q)
  BY DEF Idle, TxWith

LEMMA UnlinkRow ==
    ASSUME NEW l \in Lines, NEW b \in Batches, NEW q
    PROVE  [Idle EXCEPT !.op = "unlink", !.step = "checked", !.line = l, !.batch = b,
                        !.qty = q] \in TxWith(q)
  BY DEF Idle, TxWith, Statuses

LEMMA CreateRow ==
    ASSUME NEW d \in Dispatches, NEW l \in Lines, NEW b \in Batches, NEW q, NEW s \in Statuses
    PROVE  [Idle EXCEPT !.op = "create", !.step = "checked", !.dispatch = d,
                        !.line = l, !.batch = b, !.qty = q, !.read = s] \in TxWith(q)
  BY DEF Idle, TxWith

LEMMA VoidRow ==
    ASSUME NEW d \in Dispatches, NEW b \in Batches \cup {None}, NEW s \in Statuses
    PROVE  [Idle EXCEPT !.op = "void", !.step = "held", !.dispatch = d,
                        !.batch = b, !.read = s] \in TxWith(0)
  BY DEF Idle, TxWith

LEMMA AmendRow ==
    ASSUME NEW d \in Dispatches, NEW b \in Batches \cup {None}, NEW q, NEW s \in Statuses
    PROVE  [Idle EXCEPT !.op = "amend", !.step = "held", !.dispatch = d, !.qty = q,
                        !.batch = b, !.read = s] \in TxWith(q)
  BY DEF Idle, TxWith

\* The rows that a request becomes.
LEMMA NextRows ==
    ASSUME NEW q, NEW r \in TxWith(q), NEW s \in Statuses, NEW n \in Statuses \cup {"unchanged"}
    PROVE  /\ [r EXCEPT !.step = "held"] \in TxWith(q)
           /\ [r EXCEPT !.step = "held", !.read = s] \in TxWith(q)
           /\ [r EXCEPT !.step = "summed", !.read = s, !.next = n] \in TxWith(q)
           /\ [r EXCEPT !.qty = 0] \in TxWith(0)
  BY DEF TxWith

\* A status that is recomputed is a status, and no draft comes of another one.
LEMMA RecomputedStatus ==
    ASSUME NEW s \in Statuses, NEW lnk, NEW dsp
    PROVE  /\ Recomputed(s, lnk, dsp) \in Statuses
           /\ s # "draft" => Recomputed(s, lnk, dsp) # "draft"
  BY DEF Recomputed, Statuses

-----------------------------------------------------------------------------
(* What changes with a step                                                 *)

\* A request goes on; the rows are as they were.
LEMMA RequestStep ==
    ASSUME OrderInv, NEW c \in Clients, NEW t, Fits(t), t.op \in LockOps => OrderFree(c),
           t.op \notin {"none", "status", "edit"} => order.status # "draft",
           UNCHANGED Rows, tx' = [tx EXCEPT ![c] = t]
    PROVE  OrderInv'
  <1>1. /\ order' = order /\ line' = line /\ link' = link /\ dispatch' = dispatch
    BY DEF Rows
  <1>2. tx'[c] = t /\ \A d \in Clients \ {c} : tx'[d] = tx[d]
    BY DEF OrderInv, Shape
  <1>3. Shape'
    <2>1. tx' = [d \in Clients |-> IF d = c THEN t ELSE tx[d]]
      BY DEF OrderInv, Shape
    <2> QED BY <1>1, <2>1 DEF OrderInv, Shape
  <1>4. AllFit'
    BY <1>1, <1>2 DEF OrderInv, AllFit, Fits, Finds
  <1>5. OneHolder'
    BY <1>2 DEF OrderInv, OneHolder, HoldsOrder, OrderFree, LockOps
  <1>6. ReferencesSurvive'
    BY <1>1 DEF OrderInv, ReferencesSurvive
  <1>7. DraftUntouched'
    BY <1>1, <1>2 DEF OrderInv, DraftUntouched
  <1> QED BY <1>3, <1>4, <1>5, <1>6, <1>7 DEF OrderInv

LEMMA StartsStep ==
    ASSUME OrderInv, NEW c \in Clients, NEW t, Fits(t), t.op \in LockOps => OrderFree(c),
           UNCHANGED Rows, Starts(c, t)
    PROVE  OrderInv'
  BY RequestStep DEF Starts, Fits, Finds

LEMMA EndsStep ==
    ASSUME OrderInv, NEW c \in Clients, UNCHANGED Rows, Ends(c)
    PROVE  OrderInv'
  BY RequestStep, IdleFits DEF Ends, LockOps

\* The order or its lines change under its lock: those that hold it find theirs.
LEMMA StillFits ==
    ASSUME NEW t, Fits(t), t.op \in LockOps => order'.status \notin Closed /\ line'[t.line] > 0,
           order.status # "draft" => order'.status # "draft"
    PROVE  Fits(t)'
  BY DEF Fits, Finds

-----------------------------------------------------------------------------
(* The order                                                                *)

LEMMA OrderReads ==
    ASSUME OrderInv, NEW c \in Clients,
           \/ \E status \in Statuses : SetOrderStatusRead(c, status)
           \/ UpdateOrderRead(c)
    PROVE  OrderInv'
  <1>1. ASSUME NEW status \in Statuses, SetOrderStatusRead(c, status)
        PROVE  OrderInv'
    <2>1. PICK t : t = [Idle EXCEPT !.op = "status", !.step = "checked", !.next = status]
      OBVIOUS
    <2>2. t \in TxWith(0) /\ t.op = "status" /\ t.step = "checked" /\ t.qty = 0 /\ t.next = status
      BY <2>1, StatusRow DEF Idle
    <2>3. status # "draft"
      BY <1>1 DEF SetOrderStatusRead, Transitions
    <2>4. Fits(t)
      BY <2>2, <2>3 DEF Fits, Names, Decides, Finds, LockOps
    <2> QED BY <1>1, <2>1, <2>2, <2>4, StartsStep DEF SetOrderStatusRead, LockOps
  <1>2. ASSUME UpdateOrderRead(c)
        PROVE  OrderInv'
    <2>1. PICK t : t = [Idle EXCEPT !.op = "edit", !.step = "checked"]
      OBVIOUS
    <2>2. t \in TxWith(0) /\ t.op = "edit" /\ t.step = "checked" /\ t.qty = 0
      BY <2>1, EditRow DEF Idle
    <2>3. Fits(t)
      BY <2>2 DEF Fits, Names, Decides, Finds, LockOps
    <2> QED BY <1>2, <2>1, <2>2, <2>3, StartsStep DEF UpdateOrderRead, LockOps
  <1> QED BY <1>1, <1>2

\* The status is written while nobody holds the order.
LEMMA SetOrderStatusWriteInv ==
    ASSUME OrderInv, NEW c \in Clients, SetOrderStatusWrite(c)
    PROVE  OrderInv'
  <1>1. /\ tx[c].op = "status" /\ OrderFree(c) /\ Ends(c)
        /\ order' = [order EXCEPT !.status = tx[c].next]
        /\ line' = line /\ link' = link /\ dispatch' = dispatch
    BY DEF SetOrderStatusWrite
  <1>2. tx[c].next \in Statuses \ {"draft"}
    BY <1>1 DEF OrderInv, AllFit, Fits, Decides
  <1>3. /\ order' \in [status : Statuses, deleted : BOOLEAN]
        /\ order'.status # "draft"
    BY <1>1, <1>2 DEF OrderInv, Shape
  <1>4. /\ tx' = [d \in Clients |-> IF d = c THEN Idle ELSE tx[d]]
        /\ tx'[c] = Idle /\ \A d \in Clients \ {c} : tx'[d] = tx[d]
    BY <1>1 DEF OrderInv, Shape, Ends
  <1>5. Shape'
    BY <1>1, <1>3, <1>4 DEF OrderInv, Shape
  <1>6. \A d \in Clients : tx'[d].op \notin LockOps
    BY <1>1, <1>4, IdleFits DEF OrderFree, HoldsOrder, LockOps
  <1>7. \A d \in Clients : Fits(tx'[d])
    BY <1>4, IdleFits DEF OrderInv, AllFit
  <1>8. AllFit'
    BY <1>3, <1>6, <1>7, StillFits DEF AllFit
  <1>9. OneHolder'
    BY <1>6 DEF OneHolder, HoldsOrder, LockOps
  <1> QED BY <1>1, <1>3, <1>5, <1>8, <1>9 DEF OrderInv, ReferencesSurvive, DraftUntouched

LEMMA SoftDeleteOrderInv ==
    ASSUME OrderInv, SoftDeleteOrder
    PROVE  OrderInv'
  <1>1. /\ order' = [order EXCEPT !.deleted = TRUE]
        /\ line' = line /\ link' = link /\ dispatch' = dispatch /\ tx' = tx
    BY DEF SoftDeleteOrder
  <1>2. order' \in [status : Statuses, deleted : BOOLEAN] /\ order'.status = order.status
    BY <1>1 DEF OrderInv, Shape
  <1>3. Shape'
    BY <1>1, <1>2 DEF OrderInv, Shape
  <1>4. AllFit' /\ OneHolder'
    BY <1>1, <1>2 DEF OrderInv, AllFit, Fits, Finds, OneHolder, HoldsOrder
  <1> QED BY <1>1, <1>2, <1>3, <1>4 DEF OrderInv, ReferencesSurvive, DraftUntouched

\* Lines change while nobody holds the order, and none goes that something refers to.
LEMMA LinesChange ==
    ASSUME OrderInv, NEW c \in Clients, tx[c].op = "edit", OrderFree(c), Ends(c),
           NEW quantities \in [Lines -> 0..MaxOrdered], line' = quantities,
           \A l \in Lines : quantities[l] = 0 /\ line[l] > 0
             => /\ \A b \in Batches : link[l][b] = 0
                /\ \A d \in Dispatches : dispatch[d].line # l,
           UNCHANGED <<order, link, released, left, dispatch>>
    PROVE  OrderInv'
  <1>1. order' = order /\ link' = link /\ dispatch' = dispatch
    OBVIOUS
  <1>2. /\ tx' = [d \in Clients |-> IF d = c THEN Idle ELSE tx[d]]
        /\ tx'[c] = Idle /\ \A d \in Clients \ {c} : tx'[d] = tx[d]
    BY DEF OrderInv, Shape, Ends
  <1>3. Shape'
    BY <1>1, <1>2 DEF OrderInv, Shape
  <1>4. \A d \in Clients : tx'[d].op \notin LockOps
    BY <1>2, IdleFits DEF OrderFree, HoldsOrder, LockOps
  <1>5. \A d \in Clients : Fits(tx'[d])
    BY <1>2, IdleFits DEF OrderInv, AllFit
  <1>6. AllFit'
    BY <1>1, <1>4, <1>5, StillFits DEF AllFit
  <1>7. OneHolder'
    BY <1>4 DEF OneHolder, HoldsOrder, LockOps
  <1>8. line \in [Lines -> 0..MaxOrdered]
    BY DEF OrderInv, Shape
  <1>9. \A l \in Lines : line'[l] = 0 => line[l] = 0 \/ line[l] > 0
    BY <1>8
  <1>10. ReferencesSurvive'
    BY <1>1, <1>9 DEF OrderInv, ReferencesSurvive
  <1>11. DraftUntouched'
    BY <1>1, <1>2, IdleFits DEF OrderInv, DraftUntouched
  <1> QED BY <1>3, <1>6, <1>7, <1>10, <1>11 DEF OrderInv

LEMMA UpdateOrderInv ==
    ASSUME OrderInv, NEW c \in Clients, NEW quantities \in [Lines -> 0..MaxOrdered],
           UpdateOrderInPlace(c, quantities) \/ UpdateOrderReplaceLines(c, quantities)
    PROVE  OrderInv'
  <1>1. CASE UpdateOrderInPlace(c, quantities)
    <2>1. \A l \in Lines : line[l] > 0 => quantities[l] > 0
      BY <1>1 DEF UpdateOrderInPlace, Current
    <2>2. \A l \in Lines : ~(quantities[l] = 0 /\ line[l] > 0)
      BY <2>1
    <2> QED BY <1>1, <2>2, LinesChange DEF UpdateOrderInPlace
  <1>2. CASE UpdateOrderReplaceLines(c, quantities)
    BY <1>2, LinesChange DEF UpdateOrderReplaceLines, Unreferenced, Current
  <1> QED BY <1>1, <1>2

-----------------------------------------------------------------------------
(* Allocation                                                               *)

LEMMA LinkBatchInv ==
    ASSUME OrderInv, NEW c \in Clients, NEW l \in Lines, NEW b \in Batches, NEW q,
           NEW o \in {"link", "release"},
           OrderFree(c), order.status \notin Closed, line[l] > 0,
           Starts(c, [Idle EXCEPT !.op = o, !.step = "held", !.line = l, !.batch = b,
                                  !.qty = q, !.read = order.status]),
           UNCHANGED Rows
    PROVE  OrderInv'
  <1>1. order.status \in Statuses
    BY DEF OrderInv, Shape
  <1>2. PICK t : t = [Idle EXCEPT !.op = o, !.step = "held", !.line = l, !.batch = b,
                                  !.qty = q, !.read = order.status]
    OBVIOUS
  <1>3. /\ t \in TxWith(q)
        /\ t.op = o /\ t.step = "held" /\ t.line = l /\ t.batch = b
        /\ t.qty = q /\ t.read = order.status
    BY <1>1, <1>2, LinkRow DEF Idle
  <1>4. Fits(t)
    BY <1>3 DEF Fits, Names, Decides, Finds, LockOps, Closed
  <1> QED BY <1>2, <1>4, StartsStep

\* A release that leaves the order alone.
LEMMA ReleasePlainInv ==
    ASSUME OrderInv, NEW c \in Clients, NEW b \in Batches, NEW l, ReleasePlain(c, b, l)
    PROVE  OrderInv'
  <1>1. order' = order /\ line' = line /\ link' = link /\ dispatch' = dispatch /\ tx' = tx
    BY DEF ReleasePlain
  <1> QED BY <1>1 DEF OrderInv, Shape, AllFit, Fits, Finds, OneHolder, HoldsOrder,
                      ReferencesSurvive, DraftUntouched

LEMMA UnlinkBatchInv ==
    ASSUME OrderInv, NEW c \in Clients,
           \/ \E l \in Lines, b \in Batches : UnlinkBatchCheck(c, l, b)
           \/ UnlinkBatchDelete(c)
    PROVE  OrderInv'
  <1>1. ASSUME NEW l \in Lines, NEW b \in Batches, UnlinkBatchCheck(c, l, b)
        PROVE  OrderInv'
    <2>1. PICK q : q = link[l][b]
      OBVIOUS
    <2>2. PICK t : t = [Idle EXCEPT !.op = "unlink", !.step = "checked", !.line = l, !.batch = b, !.qty = q]
      OBVIOUS
    <2>3. /\ t \in TxWith(q) /\ t.op = "unlink" /\ t.step = "checked"
          /\ t.line = l /\ t.batch = b /\ t.qty = q
      BY <2>2, UnlinkRow DEF Idle
    <2>4. order.status # "draft"
      <3>1. link[l][b] # 0
        <4>1. link[l][b] > 0
          BY <1>1 DEF UnlinkBatchCheck
        <4> SUFFICES ASSUME link[l][b] = 0 PROVE FALSE
          OBVIOUS
        <4> QED BY <4>1
      <3> QED BY <3>1 DEF OrderInv, DraftUntouched
    <2>5. Fits(t)
      BY <2>3, <2>4 DEF Fits, Names, Decides, Finds, LockOps
    <2> QED BY <1>1, <2>1, <2>2, <2>3, <2>5, StartsStep DEF UnlinkBatchCheck, LockOps
  <1>2. ASSUME UnlinkBatchDelete(c)
        PROVE  OrderInv'
    <2>1. /\ tx[c].op = "unlink"
          /\ tx' = [tx EXCEPT ![c] = [@ EXCEPT !.step = "held", !.read = order.status]]
          /\ UNCHANGED Rows
      BY <1>2 DEF UnlinkBatchDelete
    <2>2. PICK r : r = tx[c]
      OBVIOUS
    <2>3. Fits(r) /\ r.op = "unlink"
      BY <2>1, <2>2 DEF OrderInv, AllFit
    <2>4. PICK s \in Statuses : s = order.status
      BY DEF OrderInv, Shape
    <2>5. PICK t : t = [r EXCEPT !.step = "held", !.read = s]
      OBVIOUS
    <2>6. t \in TxWith(r.qty)
      BY <2>3, <2>5, NextRows DEF Fits
    <2>7. /\ t.op = "unlink" /\ t.step = "held" /\ t.line = r.line /\ t.batch = r.batch
          /\ t.qty = r.qty /\ t.read = s
      BY <2>3, <2>5 DEF Fits, TxWith
    <2>8. s # "draft"
      BY <2>3, <2>4 DEF Fits, Finds
    <2>9. Fits(t)
      BY <2>3, <2>4, <2>6, <2>7, <2>8 DEF Fits, Names, Decides, Finds, LockOps
    <2>10. tx' = [tx EXCEPT ![c] = t]
      BY <2>1, <2>2, <2>4, <2>5
    <2> QED BY <2>1, <2>4, <2>7, <2>8, <2>9, <2>10, RequestStep DEF LockOps
  <1> QED BY <1>1, <1>2

-----------------------------------------------------------------------------
(* Dispatches                                                               *)

LEMMA CreateDispatchInv ==
    ASSUME OrderInv, NEW c \in Clients, NEW d \in Dispatches, NEW l \in Lines, NEW b \in Batches,
           NEW qty \in 1..MaxOrdered, CreateDispatchCheck(c, d, l, b, qty)
    PROVE  OrderInv'
  <1>1. /\ OrderFree(c) /\ line[l] > 0 /\ order.status \notin Closed /\ UNCHANGED Rows
        /\ Starts(c, [Idle EXCEPT !.op = "create", !.step = "checked", !.dispatch = d,
                                  !.line = l, !.batch = b, !.qty = qty, !.read = order.status])
    BY DEF CreateDispatchCheck, Dispatchable
  <1>2. order.status \in Statuses
    BY DEF OrderInv, Shape
  <1>3. PICK t : t = [Idle EXCEPT !.op = "create", !.step = "checked", !.dispatch = d,
                                  !.line = l, !.batch = b, !.qty = qty, !.read = order.status]
    OBVIOUS
  <1>4. /\ t \in TxWith(qty)
        /\ t.op = "create" /\ t.step = "checked" /\ t.dispatch = d /\ t.line = l /\ t.batch = b
        /\ t.qty = qty /\ t.read = order.status
    BY <1>2, <1>3, CreateRow DEF Idle
  <1>5. qty \in 0..MaxQty
    BY QtyAssumption
  <1>6. Fits(t)
    BY <1>1, <1>4, <1>5 DEF Fits, Names, Decides, Finds, LockOps, Closed
  <1> QED BY <1>1, <1>3, <1>6, StartsStep

LEMMA CreateDispatchAllocationInv ==
    ASSUME OrderInv, NEW c \in Clients, CreateDispatchAllocation(c)
    PROVE  OrderInv'
  <1>1. CASE Ends(c)
    BY <1>1, EndsStep DEF CreateDispatchAllocation
  <1>2. CASE tx' = [tx EXCEPT ![c] = [@ EXCEPT !.step = "held"]]
    <2>1. PICK r : r = tx[c]
      OBVIOUS
    <2>2. Fits(r) /\ r.op = "create" /\ r.step = "checked"
      BY <2>1 DEF CreateDispatchAllocation, OrderInv, AllFit
    <2>3. PICK t : t = [r EXCEPT !.step = "held"]
      OBVIOUS
    <2>4. t \in TxWith(r.qty)
      BY <2>2, <2>3, NextRows, IdleFits DEF Fits, Statuses
    <2>5. /\ t.op = "create" /\ t.step = "held" /\ t.line = r.line /\ t.batch = r.batch
          /\ t.dispatch = r.dispatch /\ t.qty = r.qty /\ t.read = r.read
      BY <2>2, <2>3 DEF Fits, TxWith
    <2>6. Fits(t)
      BY <2>2, <2>4, <2>5 DEF Fits, Names, Decides, Finds, LockOps
    <2>7. OrderFree(c)
      BY <2>1, <2>2 DEF OrderInv, OneHolder, HoldsOrder, OrderFree
    <2>8. order.status # "draft"
      BY <2>2 DEF Fits, Finds
    <2> QED BY <1>2, <2>1, <2>3, <2>6, <2>7, <2>8, RequestStep DEF CreateDispatchAllocation
  <1> QED BY <1>1, <1>2 DEF CreateDispatchAllocation

LEMMA LiveIsNoDraft ==
    ASSUME OrderInv, NEW d \in Dispatches, dispatch[d].state = "live"
    PROVE  order.status # "draft" /\ dispatch[d].batch \in Batches \cup {None}
  BY DEF OrderInv, DraftUntouched, Shape, DispatchRow

LEMMA VoidDispatchInv ==
    ASSUME OrderInv, NEW c \in Clients, NEW d \in Dispatches, VoidDispatch(c, d)
    PROVE  OrderInv'
  <1>1. dispatch[d].state = "live"
    BY DEF VoidDispatch, Voidable
  <1>2. PICK b \in Batches \cup {None} : b = dispatch[d].batch
    BY <1>1, LiveIsNoDraft
  <1>3. order.status \in Statuses \ {"draft"}
    BY <1>1, LiveIsNoDraft DEF OrderInv, Shape
  <1>4. PICK t : t = [Idle EXCEPT !.op = "void", !.step = "held", !.dispatch = d,
                                  !.batch = b, !.read = order.status]
    OBVIOUS
  <1>5. /\ t \in TxWith(0) /\ t.qty = 0
        /\ t.op = "void" /\ t.step = "held" /\ t.dispatch = d /\ t.read = order.status
    BY <1>3, <1>4, VoidRow DEF Idle
  <1>6. Fits(t)
    BY <1>3, <1>5 DEF Fits, Names, Decides, Finds, LockOps
  <1> QED BY <1>2, <1>4, <1>5, <1>6, StartsStep DEF VoidDispatch, LockOps

LEMMA UpdateDispatchInv ==
    ASSUME OrderInv, NEW c \in Clients, NEW d \in Dispatches, NEW qty \in 1..MaxQty,
           UpdateDispatch(c, d, qty)
    PROVE  OrderInv'
  <1>1. dispatch[d].state = "live"
    BY DEF UpdateDispatch
  <1>2. PICK b \in Batches \cup {None} : b = dispatch[d].batch
    BY <1>1, LiveIsNoDraft
  <1>3. order.status \in Statuses \ {"draft"}
    BY <1>1, LiveIsNoDraft DEF OrderInv, Shape
  <1>4. PICK t : t = [Idle EXCEPT !.op = "amend", !.step = "held", !.dispatch = d, !.qty = qty,
                                  !.batch = b, !.read = order.status]
    OBVIOUS
  <1>5. /\ t \in TxWith(qty) /\ t.qty = qty
        /\ t.op = "amend" /\ t.step = "held" /\ t.dispatch = d /\ t.read = order.status
    BY <1>3, <1>4, AmendRow DEF Idle
  <1>6. qty \in 0..MaxQty
    BY QtyAssumption
  <1>7. Fits(t)
    BY <1>3, <1>5, <1>6 DEF Fits, Names, Decides, Finds, LockOps
  <1> QED BY <1>2, <1>4, <1>5, <1>7, StartsStep DEF UpdateDispatch, LockOps

-----------------------------------------------------------------------------
(* The end of a transaction                                                 *)

LEMMA SumLinesInv ==
    ASSUME OrderInv, NEW c \in Clients, SumLines(c)
    PROVE  OrderInv'
  <1>1. PICK r : r = tx[c]
    OBVIOUS
  <1>2. Fits(r) /\ r.step = "held"
    BY <1>1 DEF SumLines, OrderInv, AllFit
  <1>3. r.op \notin {"none", "status", "edit"} /\ r.read \in Statuses /\ r.read # "draft"
    BY <1>2 DEF Fits, Decides, TxWith
  <1>4. PICK status : status = Recomputed(r.read, LinkOf(c), DispatchOf(c))
    OBVIOUS
  <1>5. status \in Statuses /\ status # "draft"
    BY <1>3, <1>4, RecomputedStatus
  <1>6. PICK n : n = IF status = r.read THEN "unchanged" ELSE status
    OBVIOUS
  <1>7. n \in Statuses \cup {"unchanged"} /\ n # "draft"
    BY <1>5, <1>6
  <1>8. PICK t : t = [r EXCEPT !.step = "summed", !.read = Idle.read, !.next = n]
    OBVIOUS
  <1>9. Idle.read \in Statuses
    BY DEF Idle, Statuses
  <1>10. t \in TxWith(r.qty)
    BY <1>2, <1>7, <1>8, <1>9, NextRows DEF Fits
  <1>11. /\ t.op = r.op /\ t.step = "summed" /\ t.line = r.line /\ t.batch = r.batch
         /\ t.dispatch = r.dispatch /\ t.qty = r.qty /\ t.next = n
    BY <1>2, <1>8 DEF Fits, TxWith
  <1>12. Fits(t)
    BY <1>2, <1>3, <1>7, <1>10, <1>11 DEF Fits, Names, Decides, Finds, LockOps
  <1>13. tx' = [tx EXCEPT ![c] = t] /\ UNCHANGED Rows
    BY <1>1, <1>4, <1>6, <1>8 DEF SumLines
  <1>14. t.op \in LockOps => OrderFree(c)
    BY <1>1, <1>11 DEF OrderInv, OneHolder, HoldsOrder, OrderFree, LockOps
  <1>15. order.status # "draft"
    BY <1>2, <1>3 DEF Fits, Finds
  <1> QED BY <1>12, <1>13, <1>14, <1>15, RequestStep

LinkPut(f, l0, b0, q) == [f EXCEPT ![l0] = [@ EXCEPT ![b0] = q]]

LEMMA LinkSet ==
    ASSUME NEW f, IsLink(f), NEW l0, NEW b0, NEW q
    PROVE  /\ IsLink(LinkPut(f, l0, b0, q))
           /\ \A l \in Lines, b \in Batches :
                LinkPut(f, l0, b0, q)[l][b] = IF l = l0 /\ b = b0 THEN q ELSE f[l][b]
  <1>1. PICK Q : f \in [Lines -> [Batches -> Q]]
    BY DEF IsLink
  <1>2. LinkPut(f, l0, b0, q) \in [Lines -> [Batches -> Q \cup {q}]]
    BY <1>1 DEF LinkPut
  <1> QED BY <1>1, <1>2 DEF LinkPut, IsLink

\* What a commit leaves of the links and the dispatches: new ones refer to a line that is there.
LEMMA CommittedRows ==
    ASSUME OrderInv, NEW c \in Clients, tx[c].op \notin {"none", "status", "edit"}
    PROVE  /\ IsLink(LinkOf(c))
           /\ \A l \in Lines : line[l] = 0 => \A b \in Batches : LinkOf(c)[l][b] = 0
           /\ DispatchOf(c) \in [Dispatches -> DispatchRow]
           /\ \A l \in Lines : line[l] = 0 => \A d \in Dispatches : DispatchOf(c)[d].line # l
  <1>1. PICK t : t = tx[c]
    OBVIOUS
  <1>2. Fits(t)
    BY <1>1 DEF OrderInv, AllFit
  <1>3. /\ t.op \in LockOps \cup {"unlink"} => t.line \in Lines /\ t.batch \in Batches
        /\ t.op \in LockOps => line[t.line] > 0
        /\ t.op \in {"create", "void", "amend"} => t.dispatch \in Dispatches
        /\ t.op \in {"create", "amend"} => t.qty \in 0..MaxQty
    BY <1>2 DEF Fits, Names, Finds
  <1>4. /\ IsLink(link)
        /\ dispatch \in [Dispatches -> DispatchRow]
        /\ \A l \in Lines : line[l] = 0 =>
             /\ \A b \in Batches : link[l][b] = 0
             /\ \A d \in Dispatches : dispatch[d].line # l
        /\ line \in [Lines -> 0..MaxOrdered]
    BY DEF OrderInv, Shape, ReferencesSurvive
  <1>5. /\ IsLink(LinkOf(c))
        /\ \A l \in Lines : line[l] = 0 => \A b \in Batches : LinkOf(c)[l][b] = 0
    <2>1. CASE t.op \in {"link", "release"}
      <3>1. LinkOf(c) = LinkPut(link, t.line, t.batch, t.qty)
        BY <1>1, <2>1 DEF LinkOf, LinkPut
      <3>2. /\ IsLink(LinkOf(c))
            /\ \A l \in Lines, b \in Batches :
                 LinkOf(c)[l][b] = IF l = t.line /\ b = t.batch THEN t.qty ELSE link[l][b]
        BY <1>4, <3>1, LinkSet
      <3> QED BY <1>3, <1>4, <2>1, <3>2 DEF LockOps
    <2>2. CASE t.op = "unlink" /\ t.qty > 0
      <3>1. LinkOf(c) = LinkPut(link, t.line, t.batch, 0)
        BY <1>1, <2>2 DEF LinkOf, LinkPut
      <3>2. /\ IsLink(LinkOf(c))
            /\ \A l \in Lines, b \in Batches :
                 LinkOf(c)[l][b] = IF l = t.line /\ b = t.batch THEN 0 ELSE link[l][b]
        BY <1>4, <3>1, LinkSet
      <3> QED BY <1>4, <3>2
    <2>3. CASE ~(t.op \in {"link", "release"}) /\ ~(t.op = "unlink" /\ t.qty > 0)
      <3>1. LinkOf(c) = link
        BY <1>1, <2>3 DEF LinkOf
      <3> QED BY <1>4, <3>1
    <2> QED BY <2>1, <2>2, <2>3
  <1>6. /\ DispatchOf(c) \in [Dispatches -> DispatchRow]
        /\ \A l \in Lines : line[l] = 0 => \A d \in Dispatches : DispatchOf(c)[d].line # l
    <2>1. ASSUME NEW d \in Dispatches, NEW row \in DispatchRow,
                 DispatchOf(c) = [dispatch EXCEPT ![d] = row],
                 row.line = dispatch[d].line \/ (row.line \in Lines /\ line[row.line] > 0)
          PROVE  /\ DispatchOf(c) \in [Dispatches -> DispatchRow]
                 /\ \A l \in Lines : line[l] = 0 => \A e \in Dispatches : DispatchOf(c)[e].line # l
      <3>1. DispatchOf(c) = [e \in Dispatches |-> IF e = d THEN row ELSE dispatch[e]]
        BY <1>4, <2>1
      <3> QED BY <1>4, <2>1, <3>1
    <2>2. CASE t.op = "create"
      <3>1. PICK row : row = [state |-> "live", line |-> t.line, batch |-> t.batch, qty |-> t.qty]
        OBVIOUS
      <3>2. row \in DispatchRow /\ row.line = t.line
        BY <1>3, <2>2, <3>1 DEF DispatchRow, LockOps
      <3>3. DispatchOf(c) = [dispatch EXCEPT ![t.dispatch] = row]
        BY <1>1, <2>2, <3>1 DEF DispatchOf
      <3> QED BY <1>3, <2>1, <2>2, <3>2, <3>3 DEF LockOps
    <2>3. CASE t.op = "void"
      <3>1. PICK old \in DispatchRow : old = dispatch[t.dispatch]
        BY <1>3, <1>4, <2>3
      <3>2. PICK row : row = [old EXCEPT !.state = "voided"]
        OBVIOUS
      <3>3. row \in DispatchRow /\ row.line = old.line
        BY <3>2 DEF DispatchRow
      <3>4. DispatchOf(c) = [dispatch EXCEPT ![t.dispatch] = row]
        BY <1>1, <2>3, <3>1, <3>2 DEF DispatchOf
      <3> QED BY <1>3, <2>1, <2>3, <3>1, <3>3, <3>4
    <2>4. CASE t.op = "amend"
      <3>1. PICK old \in DispatchRow : old = dispatch[t.dispatch]
        BY <1>3, <1>4, <2>4
      <3>2. PICK row : row = [old EXCEPT !.qty = t.qty]
        OBVIOUS
      <3>3. row \in DispatchRow /\ row.line = old.line
        BY <1>3, <2>4, <3>2 DEF DispatchRow
      <3>4. DispatchOf(c) = [dispatch EXCEPT ![t.dispatch] = row]
        BY <1>1, <2>4, <3>1, <3>2 DEF DispatchOf
      <3> QED BY <1>3, <2>1, <2>4, <3>1, <3>3, <3>4
    <2>5. CASE t.op \notin {"create", "void", "amend"}
      <3>1. DispatchOf(c) = dispatch
        BY <1>1, <2>5 DEF DispatchOf
      <3> QED BY <1>4, <3>1
    <2> QED BY <2>2, <2>3, <2>4, <2>5
  <1> QED BY <1>5, <1>6

\* A request whose link row another deletes under it finds none: it is about the same.
LEMMA OvertakenFits ==
    ASSUME NEW r, Fits(r), r.op = "unlink"
    PROVE  Fits([r EXCEPT !.qty = 0]) /\ [r EXCEPT !.qty = 0].op = "unlink"
  <1>1. PICK t : t = [r EXCEPT !.qty = 0]
    OBVIOUS
  <1>2. "draft" \in Statuses
    BY DEF Statuses
  <1>3. t \in TxWith(0)
    BY <1>1, <1>2, NextRows DEF Fits
  <1>4. /\ t.op = r.op /\ t.step = r.step /\ t.line = r.line /\ t.batch = r.batch
        /\ t.dispatch = r.dispatch /\ t.qty = 0 /\ t.read = r.read /\ t.next = r.next
    BY <1>1 DEF Fits, TxWith
  <1>5. Fits(t)
    BY <1>3, <1>4 DEF Fits, Names, Decides, Finds, LockOps
  <1> QED BY <1>1, <1>4, <1>5

LEMMA CommitInv ==
    ASSUME OrderInv, NEW c \in Clients, Commit(c)
    PROVE  OrderInv'
  <1>1. PICK t : t = tx[c]
    OBVIOUS
  <1>2. Fits(t) /\ t.step = "summed"
    BY <1>1 DEF Commit, OrderInv, AllFit
  <1>3. t.op \notin {"none", "status", "edit"} /\ order.status # "draft"
    BY <1>2 DEF Fits, Decides, Finds
  <1>4. t.next \in Statuses \cup {"unchanged"} /\ t.next # "draft"
    BY <1>2 DEF Fits, Decides, TxWith
  <1>5. /\ \/ order' = order
           \/ /\ OrderFree(c) /\ t.next # "unchanged"
              /\ order' = [order EXCEPT !.status = t.next]
        /\ link' = LinkOf(c) /\ dispatch' = DispatchOf(c) /\ line' = line
        /\ tx' = [x \in Clients |-> CASE x = c -> Idle
                                    [] x # c /\ Overtaken(x, c) -> [tx[x] EXCEPT !.qty = 0]
                                    [] OTHER -> tx[x]]
    BY <1>1 DEF Commit
  <1>6. order' \in [status : Statuses, deleted : BOOLEAN] /\ order'.status # "draft"
    BY <1>3, <1>4, <1>5 DEF OrderInv, Shape
  <1>7. /\ IsLink(LinkOf(c))
        /\ \A l \in Lines : line[l] = 0 => \A b \in Batches : LinkOf(c)[l][b] = 0
        /\ DispatchOf(c) \in [Dispatches -> DispatchRow]
        /\ \A l \in Lines : line[l] = 0 => \A d \in Dispatches : DispatchOf(c)[d].line # l
    BY <1>1, <1>3, CommittedRows
  <1>8. tx' = [x \in Clients |-> tx'[x]] /\ tx'[c] = Idle
    BY <1>5
  <1>9. ASSUME NEW x \in Clients \ {c}
        PROVE  Fits(tx'[x]) /\ tx'[x].op = tx[x].op
    <2>1. Fits(tx[x])
      BY DEF OrderInv, AllFit
    <2>2. CASE Overtaken(x, c)
      <3>1. tx'[x] = [tx[x] EXCEPT !.qty = 0]
        BY <1>5, <2>2
      <3>2. tx[x].op = "unlink"
        BY <2>2 DEF Overtaken
      <3> QED BY <2>1, <3>1, <3>2, OvertakenFits
    <2>3. CASE ~Overtaken(x, c)
      BY <1>5, <2>1, <2>3
    <2> QED BY <2>2, <2>3
  <1>10. Shape'
    BY <1>5, <1>6, <1>7, <1>8 DEF OrderInv, Shape
  <1>11. ASSUME NEW x \in Clients
         PROVE  Fits(tx[x])'
    <2>1. Fits(tx'[x])
      BY <1>8, <1>9, IdleFits
    <2>2. tx'[x].op \in LockOps => order'.status \notin Closed /\ line'[tx'[x].line] > 0
      <3>1. CASE order' = order
        BY <1>5, <2>1, <3>1 DEF Fits, Finds
      <3>2. CASE OrderFree(c)
        BY <1>8, <1>9, <3>2, IdleFits DEF OrderFree, HoldsOrder, LockOps
      <3> QED BY <1>5, <3>1, <3>2
    <2> QED BY <1>6, <2>1, <2>2, StillFits
  <1>12. OneHolder'
    <2>1. \A x \in Clients : HoldsOrder(x)' => HoldsOrder(x)
      BY <1>8, <1>9, IdleFits DEF HoldsOrder
    <2> QED BY <2>1 DEF OrderInv, OneHolder
  <1>13. ReferencesSurvive'
    BY <1>5, <1>7 DEF ReferencesSurvive
  <1>14. DraftUntouched'
    BY <1>6 DEF DraftUntouched
  <1> QED BY <1>10, <1>11, <1>12, <1>13, <1>14 DEF OrderInv, AllFit

-----------------------------------------------------------------------------
(* The theorems                                                             *)

LEMMA InitInv == Init => OrderInv
  <1> SUFFICES ASSUME Init PROVE OrderInv
    OBVIOUS
  <1>1. /\ order = [status |-> "draft", deleted |-> FALSE]
        /\ line \in [Lines -> 0..MaxOrdered]
        /\ link = [l \in Lines |-> [b \in Batches |-> 0]]
        /\ dispatch = [d \in Dispatches |-> [state |-> "unused", line |-> None, batch |-> None, qty |-> 0]]
        /\ tx = [c \in Clients |-> Idle]
    BY DEF Init
  <1>2. IsLink(link)
    <2>1. link \in [Lines -> [Batches -> {0}]]
      BY <1>1
    <2> QED BY <2>1 DEF IsLink
  <1>3. dispatch \in [Dispatches -> DispatchRow]
    BY <1>1, QtyAssumption DEF DispatchRow
  <1>4. order \in [status : Statuses, deleted : BOOLEAN]
    BY <1>1 DEF Statuses
  <1>5. Shape
    BY <1>1, <1>2, <1>3, <1>4 DEF Shape
  <1>6. AllFit /\ OneHolder
    BY <1>1, IdleFits DEF AllFit, OneHolder, HoldsOrder
  <1>7. ReferencesSurvive
    BY <1>1, NoneAssumption DEF ReferencesSurvive
  <1>8. DraftUntouched
    BY <1>1, IdleFits DEF DraftUntouched
  <1> QED BY <1>5, <1>6, <1>7, <1>8 DEF OrderInv

LEMMA StepKeepsInv == OrderInv /\ [Next]_vars => OrderInv'
  <1> SUFFICES ASSUME OrderInv, [Next]_vars PROVE OrderInv'
    OBVIOUS
  <1>1. CASE UNCHANGED vars
    <2>1. order' = order /\ line' = line /\ link' = link /\ dispatch' = dispatch /\ tx' = tx
      BY <1>1 DEF vars
    <2> QED BY <2>1 DEF OrderInv, Shape, AllFit, Fits, Finds, OneHolder, HoldsOrder,
                        ReferencesSurvive, DraftUntouched
  <1> SUFFICES ASSUME Next PROVE OrderInv'
    BY <1>1
  <1>2. ASSUME NEW c \in Clients,
               UpdateOrderLocked(c) \/ CreateDispatchShort(c) \/ Rollback(c)
        PROVE  OrderInv'
    BY <1>2, EndsStep DEF UpdateOrderLocked, CreateDispatchShort, Rollback
  <1>3. ASSUME NEW c \in Clients, NEW l \in Lines, NEW b \in Batches, NEW qty \in 1..MaxOrdered,
               LinkBatch(c, l, b, qty)
        PROVE  OrderInv'
    BY <1>3, LinkBatchInv DEF LinkBatch
  <1>4. ASSUME NEW c \in Clients, NEW b \in Batches, NEW l \in Lines, ReleaseAllocating(c, b, l)
        PROVE  OrderInv'
    BY <1>4, LinkBatchInv DEF ReleaseAllocating, Allocatable
  <1>5. ASSUME NEW c \in Clients, NEW b \in Batches, NEW l \in Lines \cup {None}, ReleasePlain(c, b, l)
        PROVE  OrderInv'
    BY <1>5, ReleasePlainInv
  <1> QED BY <1>2, <1>3, <1>4, <1>5, OrderReads, SetOrderStatusWriteInv, SoftDeleteOrderInv,
             UpdateOrderInv, UnlinkBatchInv, CreateDispatchInv, CreateDispatchAllocationInv,
             VoidDispatchInv, UpdateDispatchInv, SumLinesInv, CommitInv
          DEF Next

\* Replacing the lines of an order takes none away that a batch link or a dispatch refers to.
THEOREM NoReferenceDangles == Spec => []ReferencesSurvive
  <1>1. OrderInv => ReferencesSurvive
    BY DEF OrderInv
  <1> QED BY <1>1, InitInv, StepKeepsInv, PTL DEF Spec

\* A draft has nothing allocated, nothing shipped and nothing under way.
THEOREM DraftsAreUntouched == Spec => []DraftUntouched
  <1>1. OrderInv => DraftUntouched
    BY DEF OrderInv
  <1> QED BY <1>1, InitInv, StepKeepsInv, PTL DEF Spec

\* A dispatch commits against an order that is open at that moment.
THEOREM OnlyOpenOrdersShip == Spec => ShipsOnlyOpenOrder
  <1>1. ASSUME OrderInv, Next, NEW d \in Dispatches,
               dispatch[d].state = "unused", dispatch'[d].state = "live"
        PROVE  order.status \notin Closed
    <2>1. dispatch' # dispatch
      BY <1>1
    <2>2. PICK c \in Clients : Commit(c)
      BY <1>1, <2>1
      DEF Next, Rows, SetOrderStatusRead, SetOrderStatusWrite, SoftDeleteOrder, UpdateOrderRead,
          UpdateOrderInPlace, UpdateOrderReplaceLines, UpdateOrderLocked, LinkBatch,
          ReleaseAllocating, ReleasePlain, UnlinkBatchCheck, UnlinkBatchDelete,
          CreateDispatchCheck, CreateDispatchAllocation, CreateDispatchShort, VoidDispatch,
          UpdateDispatch, SumLines, Rollback
    <2>3. dispatch' = DispatchOf(c)
      BY <2>2 DEF Commit
    <2>4. PICK t : t = tx[c]
      OBVIOUS
    <2>5. Fits(t) /\ dispatch \in [Dispatches -> DispatchRow]
      BY <1>1, <2>4 DEF OrderInv, AllFit, Shape
    <2>6. t.op = "create"
      <3>1. CASE t.op = "void"
        <4>1. t.dispatch \in Dispatches
          BY <2>5, <3>1 DEF Fits, Names
        <4>2. dispatch' = [dispatch EXCEPT ![t.dispatch] = [@ EXCEPT !.state = "voided"]]
          BY <2>3, <2>4, <3>1 DEF DispatchOf
        <4>3. PICK old \in DispatchRow : old = dispatch[t.dispatch]
          BY <2>5, <4>1
        <4>4. [old EXCEPT !.state = "voided"].state # "live"
          BY DEF DispatchRow
        <4> QED BY <1>1, <2>5, <4>1, <4>2, <4>3, <4>4
      <3>2. CASE t.op = "amend"
        <4>1. t.dispatch \in Dispatches
          BY <2>5, <3>2 DEF Fits, Names
        <4>2. dispatch' = [dispatch EXCEPT ![t.dispatch] = [@ EXCEPT !.qty = t.qty]]
          BY <2>3, <2>4, <3>2 DEF DispatchOf
        <4>3. PICK old \in DispatchRow : old = dispatch[t.dispatch]
          BY <2>5, <4>1
        <4>4. [old EXCEPT !.qty = t.qty].state = old.state
          BY DEF DispatchRow
        <4> QED BY <1>1, <2>5, <4>1, <4>2, <4>3, <4>4
      <3>3. CASE t.op \notin {"create", "void", "amend"}
        BY <2>1, <2>3, <2>4, <3>3 DEF DispatchOf
      <3> QED BY <3>1, <3>2, <3>3
    <2> QED BY <2>5, <2>6 DEF Fits, Finds, LockOps
  <1>2. OrderInv /\ [Next]_vars =>
          [\A d \in Dispatches : dispatch[d].state = "unused" /\ dispatch'[d].state = "live"
              => order.status \notin Closed]_vars
    BY <1>1
  <1> QED BY <1>2, InitInv, StepKeepsInv, PTL DEF Spec, ShipsOnlyOpenOrder

-----------------------------------------------------------------------------
(* What links and stock add up to.                                          *)

(* What a transaction under way may rely on when it commits: the link fits *)
(* its line and its batch, the dispatch row is the one it started from,    *)
(* and the stock has what it will take.                                    *)
Backed(t) ==
    /\ t.op \in {"link", "release"} =>
         /\ t.qty \in 0..MaxOrdered
         /\ LinkedTo(link, t.line) + t.qty <= line[t.line]
         /\ LinkedFrom(link, t.batch) + t.qty <= Yield[t.batch]
    /\ t.op \in {"create", "void", "amend"} => t.dispatch \in Dispatches /\ t.batch \in Batches
    /\ t.op \notin {"create", "void", "amend"} => t.dispatch = None
    /\ t.op = "create" => dispatch[t.dispatch].state = "unused"
    /\ t.op \in {"void", "amend"} =>
         dispatch[t.dispatch].state = "live" /\ dispatch[t.dispatch].batch = t.batch
    /\ t.op = "create" /\ t.step = "summed" => t.qty <= left[t.batch]
    /\ t.op = "amend" => t.qty - dispatch[t.dispatch].qty <= left[t.batch]
    /\ t.qty \in 0..MaxQty

AllBacked == \A c \in Clients : Backed(tx[c])

OneDispatchUser ==
    \A c, d \in Clients : tx[c].dispatch # None /\ tx[c].dispatch = tx[d].dispatch => c = d

OneStockHolder ==
    \A c, d \in Clients, b \in Batches : HoldsStock(c, b) /\ HoldsStock(d, b) => c = d

LinkType  == [Lines -> [Batches -> 0..MaxOrdered]]
LiveNamed == \A d \in Dispatches : dispatch[d].state = "live" => dispatch[d].batch \in Batches

Books ==
    /\ link \in LinkType
    /\ released \subseteq Batches
    /\ left \in [Batches -> Nat]
    /\ LiveNamed
    /\ BatchNotOverallocated
    /\ StockAccounted
    /\ AllBacked
    /\ OneDispatchUser
    /\ OneStockHolder

(* The sums of one link or one dispatch that is written.                    *)

LEMMA LinkSums ==
    ASSUME NEW lnk \in LinkType
    PROVE  /\ \A l \in Lines : LinkedTo(lnk, l) \in Nat
           /\ \A b \in Batches : LinkedFrom(lnk, b) \in Nat
  <1>1. IsFiniteSet(Lines) /\ IsFiniteSet(Batches)
    BY FiniteAssumption
  <1>2. \A l \in Lines, b \in Batches : lnk[l][b] \in Nat
    BY QtyAssumption DEF LinkType
  <1>3. ASSUME NEW l \in Lines PROVE LinkedTo(lnk, l) \in Nat
    <2>1. PICK f : f = lnk[l]
      OBVIOUS
    <2>2. \A b \in Batches : f[b] \in Nat
      BY <1>2, <2>1
    <2>3. SumOver(f, Batches) \in Nat
      BY <1>1, <2>2, SumNat
    <2> QED BY <2>1, <2>3 DEF LinkedTo
  <1>4. ASSUME NEW b \in Batches PROVE LinkedFrom(lnk, b) \in Nat
    <2>1. PICK f : f = [l \in Lines |-> lnk[l][b]]
      OBVIOUS
    <2>2. \A l \in Lines : f[l] \in Nat
      BY <1>2, <2>1
    <2>3. SumOver(f, Lines) \in Nat
      BY <1>1, <2>2, SumNat
    <2> QED BY <2>1, <2>3 DEF LinkedFrom
  <1> QED BY <1>3, <1>4

LEMMA LineTermChanges ==
    ASSUME NEW f, NEW g, NEW x \in Lines,
           \A y \in Lines : f[y] \in Int /\ g[y] \in Int,
           \A y \in Lines \ {x} : g[y] = f[y]
    PROVE  SumOver(g, Lines) = SumOver(f, Lines) - f[x] + g[x]
  BY FiniteAssumption, SumChange

LEMMA BatchTermChanges ==
    ASSUME NEW f, NEW g, NEW x \in Batches,
           \A y \in Batches : f[y] \in Int /\ g[y] \in Int,
           \A y \in Batches \ {x} : g[y] = f[y]
    PROVE  SumOver(g, Batches) = SumOver(f, Batches) - f[x] + g[x]
  BY FiniteAssumption, SumChange

LEMMA DispatchTermChanges ==
    ASSUME NEW f, NEW g, NEW x \in Dispatches,
           \A y \in Dispatches : f[y] \in Int /\ g[y] \in Int,
           \A y \in Dispatches \ {x} : g[y] = f[y]
    PROVE  SumOver(g, Dispatches) = SumOver(f, Dispatches) - f[x] + g[x]
  <1>1. IsFiniteSet(Dispatches)
    BY FiniteAssumption
  <1> QED BY <1>1, SumChange

LEMMA LinkPutSums ==
    ASSUME NEW lnk \in LinkType, NEW l0 \in Lines, NEW b0 \in Batches, NEW q \in 0..MaxOrdered,
           NEW new, new = LinkPut(lnk, l0, b0, q)
    PROVE  /\ new \in LinkType
           /\ LinkedTo(new, l0) = LinkedTo(lnk, l0) - lnk[l0][b0] + q
           /\ \A l \in Lines \ {l0} : LinkedTo(new, l) = LinkedTo(lnk, l)
           /\ LinkedFrom(new, b0) = LinkedFrom(lnk, b0) - lnk[l0][b0] + q
           /\ \A b \in Batches \ {b0} : LinkedFrom(new, b) = LinkedFrom(lnk, b)
  <1>1. new \in LinkType
    BY DEF LinkPut, LinkType
  <1>2. \A l \in Lines, b \in Batches : new[l][b] = IF l = l0 /\ b = b0 THEN q ELSE lnk[l][b]
    BY DEF LinkPut, LinkType
  <1>3. \A l \in Lines, b \in Batches : lnk[l][b] \in Int /\ new[l][b] \in Int
    BY <1>1, QtyAssumption DEF LinkType
  <1>4. LinkedTo(new, l0) = LinkedTo(lnk, l0) - lnk[l0][b0] + q
    <2>1. PICK f : f = lnk[l0]
      OBVIOUS
    <2>2. PICK g : g = new[l0]
      OBVIOUS
    <2>3. \A b \in Batches : f[b] \in Int /\ g[b] \in Int
      BY <1>3, <2>1, <2>2
    <2>4. \A b \in Batches \ {b0} : g[b] = f[b]
      BY <1>2, <2>1, <2>2
    <2>5. SumOver(g, Batches) = SumOver(f, Batches) - f[b0] + g[b0]
      BY <2>3, <2>4, BatchTermChanges
    <2>6. g[b0] = q
      BY <1>2, <2>2
    <2> QED BY <2>1, <2>2, <2>5, <2>6 DEF LinkedTo
  <1>5. \A l \in Lines \ {l0} : LinkedTo(new, l) = LinkedTo(lnk, l)
    <2>1. \A l \in Lines \ {l0} : new[l] = lnk[l]
      BY DEF LinkPut, LinkType
    <2> QED BY <2>1 DEF LinkedTo
  <1>6. LinkedFrom(new, b0) = LinkedFrom(lnk, b0) - lnk[l0][b0] + q
    <2>1. PICK f : f = [l \in Lines |-> lnk[l][b0]]
      OBVIOUS
    <2>2. PICK g : g = [l \in Lines |-> new[l][b0]]
      OBVIOUS
    <2>3. \A l \in Lines : f[l] \in Int /\ g[l] \in Int
      BY <1>3, <2>1, <2>2
    <2>4. \A l \in Lines \ {l0} : g[l] = f[l]
      BY <1>2, <2>1, <2>2
    <2>5. SumOver(g, Lines) = SumOver(f, Lines) - f[l0] + g[l0]
      BY <2>3, <2>4, LineTermChanges
    <2>6. g[l0] = q /\ f[l0] = lnk[l0][b0]
      BY <1>2, <2>1, <2>2
    <2>7. LinkedFrom(new, b0) = SumOver(g, Lines) /\ LinkedFrom(lnk, b0) = SumOver(f, Lines)
      BY <2>1, <2>2 DEF LinkedFrom
    <2> QED BY <2>5, <2>6, <2>7
  <1>7. ASSUME NEW b \in Batches \ {b0} PROVE LinkedFrom(new, b) = LinkedFrom(lnk, b)
    <2>1. [l \in Lines |-> new[l][b]] = [l \in Lines |-> lnk[l][b]]
      BY <1>2
    <2> QED BY <2>1 DEF LinkedFrom
  <1> QED BY <1>1, <1>4, <1>5, <1>6, <1>7

\* What one dispatch row ships of a batch.
Sent(row, b) == IF row.state = "live" /\ row.batch = b THEN row.qty ELSE 0

LEMMA SentNat ==
    ASSUME NEW row \in DispatchRow, NEW b
    PROVE  Sent(row, b) \in Nat
  BY QtyAssumption DEF Sent, DispatchRow

\* One row or one number is written.
RowPut(f, x, v) == [f EXCEPT ![x] = v]

LEMMA ShippedWritten ==
    ASSUME NEW dsp \in [Dispatches -> DispatchRow], NEW d \in Dispatches, NEW row \in DispatchRow,
           NEW new, new = RowPut(dsp, d, row), NEW b
    PROVE  /\ Shipped(new, b) = Shipped(dsp, b) - Sent(dsp[d], b) + Sent(row, b)
           /\ Shipped(dsp, b) \in Nat
  <1>1. PICK f : f = [x \in Dispatches |-> Sent(dsp[x], b)]
    OBVIOUS
  <1>2. PICK g : g = [x \in Dispatches |-> Sent(new[x], b)]
    OBVIOUS
  <1>3. Shipped(dsp, b) = SumOver(f, Dispatches) /\ Shipped(new, b) = SumOver(g, Dispatches)
    BY <1>1, <1>2 DEF Shipped, Sent
  <1>4. new \in [Dispatches -> DispatchRow]
    BY DEF RowPut
  <1>5. \A x \in Dispatches : f[x] \in Nat /\ g[x] \in Nat
    BY <1>1, <1>2, <1>4, SentNat
  <1>6. \A x \in Dispatches \ {d} : g[x] = f[x]
    BY <1>1, <1>2 DEF RowPut
  <1>7. f[d] = Sent(dsp[d], b) /\ g[d] = Sent(row, b)
    BY <1>1, <1>2 DEF RowPut
  <1>8. SumOver(g, Dispatches) = SumOver(f, Dispatches) - f[d] + g[d]
    BY <1>5, <1>6, DispatchTermChanges
  <1>9. SumOver(f, Dispatches) \in Nat
    BY <1>5, FiniteAssumption, SumNat
  <1> QED BY <1>3, <1>7, <1>8, <1>9

-----------------------------------------------------------------------------
(* A request goes on, and the books stay as they are.                       *)

\* Whether a request holds the stock of a batch.
Holding(t, b) ==
    /\ t.batch = b
    /\ t.op \in {"void", "amend"} \/ (t.op = "create" /\ t.step = "summed")

LEMMA RequestBooks ==
    ASSUME OrderInv, Books, NEW c \in Clients, NEW t, Backed(t), UNCHANGED Rows,
           tx' = [tx EXCEPT ![c] = t],
           t.dispatch # None => \A d \in Clients \ {c} : tx[d].dispatch # t.dispatch,
           \A b \in Batches : Holding(t, b) => StockFree(c, b)
    PROVE  Books'
  <1>1. /\ order' = order /\ line' = line /\ link' = link /\ dispatch' = dispatch
        /\ left' = left /\ released' = released
    BY DEF Rows
  <1>2. tx'[c] = t /\ \A d \in Clients \ {c} : tx'[d] = tx[d]
    BY DEF OrderInv, Shape
  <1>3. AllBacked'
    BY <1>1, <1>2 DEF Books, AllBacked, Backed
  <1>4. OneDispatchUser'
    BY <1>2 DEF Books, OneDispatchUser
  <1>5. OneStockHolder'
    <2> SUFFICES ASSUME NEW d \in Clients, NEW e \in Clients, NEW b \in Batches,
                        Holding(tx'[d], b), Holding(tx'[e], b)
                 PROVE  d = e
      BY DEF OneStockHolder, HoldsStock, Holding
    <2>1. \A x \in Clients \ {c} : Holding(t, b) => ~Holding(tx[x], b)
      BY DEF StockFree, HoldsStock, Holding
    <2>2. \A x, y \in Clients : Holding(tx[x], b) /\ Holding(tx[y], b) => x = y
      BY DEF Books, OneStockHolder, HoldsStock, Holding
    <2> QED BY <1>2, <2>1, <2>2
  <1> QED BY <1>1, <1>3, <1>4, <1>5
          DEF Books, LiveNamed, BatchNotOverallocated, StockAccounted

LEMMA IdleBacked == Backed(Idle) /\ Idle.dispatch = None /\ \A b : ~Holding(Idle, b)
  BY QtyAssumption DEF Backed, Idle, Holding

LEMMA EndsBooks ==
    ASSUME OrderInv, Books, NEW c \in Clients, UNCHANGED Rows, Ends(c)
    PROVE  Books'
  BY RequestBooks, IdleBacked DEF Ends

\* Another row under the same name is backed as the first was.
LEMMA SameBacked ==
    ASSUME Books, NEW c \in Clients, NEW t,
           t.op = tx[c].op, t.line = tx[c].line, t.batch = tx[c].batch,
           t.dispatch = tx[c].dispatch, t.qty = tx[c].qty,
           t.op = "create" /\ t.step = "summed" => t.qty <= left[t.batch]
    PROVE  /\ Backed(t)
           /\ t.dispatch # None => \A d \in Clients \ {c} : tx[d].dispatch # t.dispatch
           /\ t.op \in {"void", "amend"} => \A b \in Batches : Holding(t, b) => StockFree(c, b)
  <1>1. Backed(tx[c])
    BY DEF Books, AllBacked
  <1>2. Backed(t)
    BY <1>1 DEF Backed
  <1>3. t.dispatch # None => \A d \in Clients \ {c} : tx[d].dispatch # t.dispatch
    BY DEF Books, OneDispatchUser
  <1>4. t.op \in {"void", "amend"} => \A b \in Batches : Holding(t, b) => StockFree(c, b)
    BY DEF Books, OneStockHolder, HoldsStock, Holding, StockFree
  <1> QED BY <1>2, <1>3, <1>4

\* The order or its lines change while nobody holds the order.
LEMMA OrderBooks ==
    ASSUME OrderInv, Books, NEW c \in Clients, OrderFree(c), ~HoldsOrder(c), Ends(c),
           UNCHANGED <<link, released, left, dispatch>>
    PROVE  Books'
  <1>1. link' = link /\ released' = released /\ left' = left /\ dispatch' = dispatch
    OBVIOUS
  <1>2. tx'[c] = Idle /\ \A d \in Clients \ {c} : tx'[d] = tx[d]
    BY DEF OrderInv, Shape, Ends
  <1>3. \A d \in Clients : tx'[d].op \notin {"link", "release"}
    BY <1>2 DEF OrderFree, HoldsOrder, Idle
  <1>4. AllBacked'
    <2>1. ASSUME NEW d \in Clients PROVE Backed(tx[d])'
      <3>1. PICK u : u = tx'[d]
        OBVIOUS
      <3>2. Backed(u)
        BY <1>2, <3>1, IdleBacked DEF Books, AllBacked
      <3>3. u.op \notin {"link", "release"}
        BY <1>3, <3>1
      <3>4. Backed(u)'
        BY <1>1, <3>2, <3>3 DEF Backed
      <3> QED BY <3>1, <3>4 DEF Backed
    <2> QED BY <2>1 DEF AllBacked
  <1>5. OneDispatchUser'
    BY <1>2, IdleBacked DEF Books, OneDispatchUser
  <1>6. OneStockHolder'
    BY <1>2, IdleBacked DEF Books, OneStockHolder, HoldsStock, Holding
  <1> QED BY <1>1, <1>4, <1>5, <1>6
          DEF Books, LiveNamed, BatchNotOverallocated, StockAccounted

\* Nothing that the books are about changes.
LEMMA SameBooks ==
    ASSUME OrderInv, Books, released' \subseteq Batches,
           UNCHANGED <<line, link, left, dispatch, tx>>
    PROVE  Books'
  <1>1. line' = line /\ link' = link /\ left' = left /\ dispatch' = dispatch /\ tx' = tx
    OBVIOUS
  <1> QED BY <1>1 DEF Books, LiveNamed, BatchNotOverallocated, StockAccounted, AllBacked,
                      Backed, OneDispatchUser, OneStockHolder, HoldsStock

-----------------------------------------------------------------------------
(* The requests that start.                                                 *)

\* A request that takes no dispatch and no stock.
LEMMA PlainStarts ==
    ASSUME OrderInv, Books, NEW c \in Clients, NEW t, Starts(c, t), UNCHANGED Rows,
           t.op \in {"status", "edit", "unlink"}, t.dispatch = None, t.qty \in 0..MaxQty
    PROVE  Books'
  BY RequestBooks DEF Starts, Backed, Holding

LEMMA OrderReadsBooks ==
    ASSUME OrderInv, Books, NEW c \in Clients,
           \/ \E status \in Statuses : SetOrderStatusRead(c, status)
           \/ UpdateOrderRead(c)
    PROVE  Books'
  <1>1. ASSUME NEW status \in Statuses, SetOrderStatusRead(c, status) PROVE Books'
    <2>1. PICK t : t = [Idle EXCEPT !.op = "status", !.step = "checked", !.next = status]
      OBVIOUS
    <2>2. t.op = "status" /\ t.dispatch = None /\ t.qty = 0
      BY <2>1 DEF Idle
    <2>3. t.qty \in 0..MaxQty /\ t.op \in {"status", "edit", "unlink"}
      BY <2>2, QtyAssumption
    <2>4. Starts(c, t) /\ UNCHANGED Rows
      BY <1>1, <2>1 DEF SetOrderStatusRead
    <2> QED BY <2>2, <2>3, <2>4, PlainStarts
  <1>2. ASSUME UpdateOrderRead(c) PROVE Books'
    <2>1. PICK t : t = [Idle EXCEPT !.op = "edit", !.step = "checked"]
      OBVIOUS
    <2>2. t.op = "edit" /\ t.dispatch = None /\ t.qty = 0
      BY <2>1 DEF Idle
    <2>3. t.qty \in 0..MaxQty /\ t.op \in {"status", "edit", "unlink"}
      BY <2>2, QtyAssumption
    <2>4. Starts(c, t) /\ UNCHANGED Rows
      BY <1>2, <2>1 DEF UpdateOrderRead
    <2> QED BY <2>2, <2>3, <2>4, PlainStarts
  <1> QED BY <1>1, <1>2

LEMMA UnlinkBatchBooks ==
    ASSUME OrderInv, Books, NEW c \in Clients,
           \/ \E l \in Lines, b \in Batches : UnlinkBatchCheck(c, l, b)
           \/ UnlinkBatchDelete(c)
    PROVE  Books'
  <1>1. ASSUME NEW l \in Lines, NEW b \in Batches, UnlinkBatchCheck(c, l, b) PROVE Books'
    <2>1. PICK q : q = link[l][b]
      OBVIOUS
    <2>2. q \in 0..MaxQty
      BY <2>1, QtyAssumption DEF Books, LinkType
    <2>3. PICK t : t = [Idle EXCEPT !.op = "unlink", !.step = "checked", !.line = l, !.batch = b,
                                    !.qty = q]
      OBVIOUS
    <2>4. t.op = "unlink" /\ t.dispatch = None /\ t.qty = q
      BY <2>3 DEF Idle
    <2> QED BY <1>1, <2>1, <2>2, <2>3, <2>4, PlainStarts DEF UnlinkBatchCheck
  <1>2. ASSUME UnlinkBatchDelete(c) PROVE Books'
    <2>1. PICK r : r = tx[c]
      OBVIOUS
    <2>2. Fits(r) /\ r.op = "unlink"
      BY <1>2, <2>1 DEF UnlinkBatchDelete, OrderInv, AllFit
    <2>3. PICK t : t = [r EXCEPT !.step = "held", !.read = order.status]
      OBVIOUS
    <2>4. /\ t.op = "unlink" /\ t.line = r.line /\ t.batch = r.batch /\ t.dispatch = r.dispatch
          /\ t.qty = r.qty
      BY <2>2, <2>3 DEF Fits, TxWith
    <2>5. Backed(t) /\ (t.dispatch # None => \A d \in Clients \ {c} : tx[d].dispatch # t.dispatch)
      BY <2>1, <2>2, <2>4, SameBacked
    <2>6. \A b \in Batches : ~Holding(t, b)
      BY <2>4 DEF Holding
    <2> QED BY <1>2, <2>1, <2>3, <2>5, <2>6, RequestBooks DEF UnlinkBatchDelete
  <1> QED BY <1>1, <1>2

\* A link that fits its line and its batch.
LEMMA LinkBooks ==
    ASSUME OrderInv, Books, NEW c \in Clients, NEW l \in Lines, NEW b \in Batches, NEW q \in Int,
           NEW o \in {"link", "release"}, q >= 1, q <= Available(l, b),
           Starts(c, [Idle EXCEPT !.op = o, !.step = "held", !.line = l, !.batch = b,
                                  !.qty = q, !.read = order.status]),
           UNCHANGED Rows
    PROVE  Books'
  <1>1. LinkedTo(link, l) \in Nat /\ LinkedFrom(link, b) \in Nat
    BY LinkSums DEF Books
  <1>2. line[l] \in 0..MaxOrdered /\ Yield[b] \in Nat
    BY YieldAssumption DEF OrderInv, Shape
  <1>3. q <= line[l] - LinkedTo(link, l) /\ q <= Yield[b] - LinkedFrom(link, b)
    BY <1>1, <1>2, QtyAssumption DEF Available, Lesser
  <1>4. /\ q \in 0..MaxOrdered /\ q \in 0..MaxQty
        /\ LinkedTo(link, l) + q <= line[l] /\ LinkedFrom(link, b) + q <= Yield[b]
    BY <1>1, <1>2, <1>3, QtyAssumption
  <1>5. PICK t : t = [Idle EXCEPT !.op = o, !.step = "held", !.line = l, !.batch = b,
                                  !.qty = q, !.read = order.status]
    OBVIOUS
  <1>6. /\ t.op = o /\ t.line = l /\ t.batch = b /\ t.qty = q /\ t.dispatch = None
    BY <1>5 DEF Idle
  <1>7. Backed(t)
    BY <1>4, <1>6 DEF Backed
  <1>8. \A x \in Batches : ~Holding(t, x)
    BY <1>6 DEF Holding
  <1> QED BY <1>5, <1>6, <1>7, <1>8, RequestBooks DEF Starts

LEMMA CreateDispatchBooks ==
    ASSUME OrderInv, Books, NEW c \in Clients, NEW d \in Dispatches, NEW l \in Lines,
           NEW b \in Batches, NEW qty \in 1..MaxOrdered, CreateDispatchCheck(c, d, l, b, qty)
    PROVE  Books'
  <1>1. PICK t : t = [Idle EXCEPT !.op = "create", !.step = "checked", !.dispatch = d,
                                  !.line = l, !.batch = b, !.qty = qty, !.read = order.status]
    OBVIOUS
  <1>2. /\ t.op = "create" /\ t.step = "checked" /\ t.dispatch = d /\ t.batch = b /\ t.qty = qty
    BY <1>1 DEF Idle
  <1>3. dispatch[d].state = "unused" /\ \A x \in Clients : tx[x].dispatch # d
    BY DEF CreateDispatchCheck
  <1>4. d # None
    BY NoneAssumption
  <1>5. Backed(t)
    BY <1>2, <1>3, QtyAssumption DEF Backed
  <1>6. \A x \in Batches : ~Holding(t, x)
    BY <1>2 DEF Holding
  <1> QED BY <1>1, <1>2, <1>3, <1>5, <1>6, RequestBooks DEF CreateDispatchCheck, Starts

LEMMA CreateDispatchAllocationBooks ==
    ASSUME OrderInv, Books, NEW c \in Clients, CreateDispatchAllocation(c)
    PROVE  Books'
  <1>1. CASE Ends(c)
    BY <1>1, EndsBooks DEF CreateDispatchAllocation
  <1>2. CASE tx' = [tx EXCEPT ![c] = [@ EXCEPT !.step = "held"]]
    <2>1. PICK r : r = tx[c]
      OBVIOUS
    <2>2. Fits(r) /\ r.op = "create"
      BY <2>1 DEF CreateDispatchAllocation, OrderInv, AllFit
    <2>3. PICK t : t = [r EXCEPT !.step = "held"]
      OBVIOUS
    <2>4. /\ t.op = "create" /\ t.step = "held" /\ t.line = r.line /\ t.batch = r.batch
          /\ t.dispatch = r.dispatch /\ t.qty = r.qty
      BY <2>2, <2>3 DEF Fits, TxWith
    <2>5. Backed(t) /\ (t.dispatch # None => \A d \in Clients \ {c} : tx[d].dispatch # t.dispatch)
      BY <2>1, <2>2, <2>4, SameBacked
    <2>6. \A b \in Batches : ~Holding(t, b)
      BY <2>4 DEF Holding
    <2> QED BY <1>2, <2>1, <2>3, <2>5, <2>6, RequestBooks DEF CreateDispatchAllocation
  <1> QED BY <1>1, <1>2 DEF CreateDispatchAllocation

\* A live dispatch whose row nobody else has is nobody's.
LEMMA LiveIsFree ==
    ASSUME OrderInv, Books, NEW c \in Clients, NEW d \in Dispatches, DispatchFree(c, d),
           dispatch[d].state = "live", NEW x \in Clients \ {c}
    PROVE  tx[x].dispatch # d
  <1>1. Backed(tx[x])
    BY DEF Books, AllBacked
  <1>2. ~HoldsDispatch(x, d)
    BY DEF DispatchFree
  <1>3. d # None
    BY NoneAssumption
  <1> QED BY <1>1, <1>2, <1>3 DEF Backed, HoldsDispatch

LEMMA VoidDispatchBooks ==
    ASSUME OrderInv, Books, NEW c \in Clients, NEW d \in Dispatches, VoidDispatch(c, d)
    PROVE  Books'
  <1>1. /\ dispatch[d].state = "live" /\ DispatchFree(c, d) /\ StockFree(c, dispatch[d].batch)
        /\ UNCHANGED Rows
    BY DEF VoidDispatch, Voidable
  <1>2. PICK b \in Batches : b = dispatch[d].batch
    BY <1>1 DEF Books, LiveNamed
  <1>3. PICK t : t = [Idle EXCEPT !.op = "void", !.step = "held", !.dispatch = d,
                                  !.batch = b, !.read = order.status]
    OBVIOUS
  <1>4. t.op = "void" /\ t.dispatch = d /\ t.batch = b /\ t.qty = 0
    BY <1>3 DEF Idle
  <1>5. Backed(t)
    BY <1>1, <1>2, <1>4, QtyAssumption DEF Backed
  <1>6. \A x \in Clients \ {c} : tx[x].dispatch # t.dispatch
    BY <1>1, <1>4, LiveIsFree
  <1>7. \A x \in Batches : Holding(t, x) => StockFree(c, x)
    BY <1>1, <1>2, <1>4 DEF Holding
  <1> QED BY <1>1, <1>2, <1>3, <1>5, <1>6, <1>7, RequestBooks DEF VoidDispatch, Starts

LEMMA UpdateDispatchBooks ==
    ASSUME OrderInv, Books, NEW c \in Clients, NEW d \in Dispatches, NEW qty \in 1..MaxQty,
           UpdateDispatch(c, d, qty)
    PROVE  Books'
  <1>1. /\ dispatch[d].state = "live" /\ DispatchFree(c, d) /\ StockFree(c, dispatch[d].batch)
        /\ qty - dispatch[d].qty <= left[dispatch[d].batch]
        /\ UNCHANGED Rows
    BY DEF UpdateDispatch
  <1>2. PICK b \in Batches : b = dispatch[d].batch
    BY <1>1 DEF Books, LiveNamed
  <1>3. PICK t : t = [Idle EXCEPT !.op = "amend", !.step = "held", !.dispatch = d, !.qty = qty,
                                  !.batch = b, !.read = order.status]
    OBVIOUS
  <1>4. t.op = "amend" /\ t.dispatch = d /\ t.batch = b /\ t.qty = qty
    BY <1>3 DEF Idle
  <1>5. Backed(t)
    <2>1. qty \in 0..MaxQty
      BY QtyAssumption
    <2> QED BY <1>1, <1>2, <1>4, <2>1 DEF Backed
  <1>6. \A x \in Clients \ {c} : tx[x].dispatch # t.dispatch
    BY <1>1, <1>4, LiveIsFree
  <1>7. \A x \in Batches : Holding(t, x) => StockFree(c, x)
    BY <1>1, <1>2, <1>4 DEF Holding
  <1> QED BY <1>1, <1>2, <1>3, <1>5, <1>6, <1>7, RequestBooks DEF UpdateDispatch, Starts

LEMMA SumLinesBooks ==
    ASSUME OrderInv, Books, NEW c \in Clients, SumLines(c)
    PROVE  Books'
  <1>1. PICK r : r = tx[c]
    OBVIOUS
  <1>2. Fits(r)
    BY <1>1 DEF OrderInv, AllFit
  <1>3. PICK status : status = Recomputed(r.read, LinkOf(c), DispatchOf(c))
    OBVIOUS
  <1>4. PICK n : n = IF status = r.read THEN "unchanged" ELSE status
    OBVIOUS
  <1>5. PICK t : t = [r EXCEPT !.step = "summed", !.read = Idle.read, !.next = n]
    OBVIOUS
  <1>6. /\ t.op = r.op /\ t.step = "summed" /\ t.line = r.line /\ t.batch = r.batch
        /\ t.dispatch = r.dispatch /\ t.qty = r.qty
    BY <1>2, <1>5 DEF Fits, TxWith
  <1>7. tx' = [tx EXCEPT ![c] = t] /\ UNCHANGED Rows
    BY <1>1, <1>3, <1>4, <1>5 DEF SumLines
  <1>8. r.op = "create" => StockFree(c, r.batch) /\ left[r.batch] >= r.qty
    BY <1>1 DEF SumLines
  <1>9. t.op = "create" => t.qty <= left[t.batch]
    <2>1. t.op = "create" => r.batch \in Batches
      BY <1>1, <1>6 DEF Books, AllBacked, Backed
    <2>2. r.qty \in Int
      BY <1>1, QtyAssumption DEF Books, AllBacked, Backed
    <2>3. t.op = "create" => left[r.batch] \in Nat
      BY <2>1 DEF Books
    <2> QED BY <1>6, <1>8, <2>2, <2>3
  <1>10. /\ Backed(t)
         /\ t.dispatch # None => \A d \in Clients \ {c} : tx[d].dispatch # t.dispatch
         /\ t.op \in {"void", "amend"} => \A b \in Batches : Holding(t, b) => StockFree(c, b)
    BY <1>1, <1>6, <1>9, SameBacked
  <1>11. \A b \in Batches : Holding(t, b) => StockFree(c, b)
    BY <1>6, <1>8, <1>10 DEF Holding
  <1> QED BY <1>7, <1>10, <1>11, RequestBooks

-----------------------------------------------------------------------------
(* The commit.                                                              *)

LEMMA CommittedLinks ==
    ASSUME OrderInv, Books, NEW c \in Clients, NEW new, new = LinkOf(c)
    PROVE  /\ new \in LinkType
           /\ \A b \in Batches : LinkedFrom(new, b) <= Yield[b]
           /\ \A l \in Lines : LinkedTo(new, l) > LinkedTo(link, l) => LinkedTo(new, l) <= line[l]
           /\ ~(tx[c].op \in {"link", "release"}) =>
                /\ \A l \in Lines : LinkedTo(new, l) <= LinkedTo(link, l)
                /\ \A b \in Batches : LinkedFrom(new, b) <= LinkedFrom(link, b)
  <1>1. PICK t : t = tx[c]
    OBVIOUS
  <1>2. Fits(t) /\ Backed(t)
    BY <1>1 DEF OrderInv, AllFit, Books, AllBacked
  <1>3. /\ link \in LinkType
        /\ \A l \in Lines, b \in Batches : link[l][b] \in Nat
        /\ \A l \in Lines : LinkedTo(link, l) \in Nat /\ line[l] \in Nat
        /\ \A b \in Batches : /\ LinkedFrom(link, b) \in Nat /\ Yield[b] \in Nat
                              /\ LinkedFrom(link, b) <= Yield[b]
    BY LinkSums, QtyAssumption, YieldAssumption
    DEF Books, LinkType, OrderInv, Shape, BatchNotOverallocated
  <1>4. t.op \in LockOps \cup {"unlink"} => t.line \in Lines /\ t.batch \in Batches
    BY <1>2 DEF Fits, Names
  <1>5. CASE t.op \in {"link", "release"}
    <2>1. t.line \in Lines /\ t.batch \in Batches
      BY <1>4, <1>5 DEF LockOps
    <2>2. /\ t.qty \in 0..MaxOrdered
          /\ LinkedTo(link, t.line) + t.qty <= line[t.line]
          /\ LinkedFrom(link, t.batch) + t.qty <= Yield[t.batch]
      BY <1>2, <1>5 DEF Backed
    <2>3. new = LinkPut(link, t.line, t.batch, t.qty)
      BY <1>1, <1>5 DEF LinkOf, LinkPut
    <2>4. /\ new \in LinkType
          /\ LinkedTo(new, t.line) = LinkedTo(link, t.line) - link[t.line][t.batch] + t.qty
          /\ \A l \in Lines \ {t.line} : LinkedTo(new, l) = LinkedTo(link, l)
          /\ LinkedFrom(new, t.batch) = LinkedFrom(link, t.batch) - link[t.line][t.batch] + t.qty
          /\ \A b \in Batches \ {t.batch} : LinkedFrom(new, b) = LinkedFrom(link, b)
      BY <1>3, <2>1, <2>2, <2>3, LinkPutSums
    <2>5. link[t.line][t.batch] \in Nat /\ t.qty \in Nat
      BY <1>3, <2>1, <2>2, QtyAssumption
    <2>6. /\ LinkedTo(new, t.line) <= line[t.line]
          /\ LinkedFrom(new, t.batch) <= Yield[t.batch]
      BY <1>3, <2>1, <2>2, <2>4, <2>5
    <2>7. \A b \in Batches : LinkedFrom(new, b) <= Yield[b]
      BY <1>3, <2>4, <2>6
    <2>8. \A l \in Lines : LinkedTo(new, l) > LinkedTo(link, l) => LinkedTo(new, l) <= line[l]
      BY <1>3, <2>4, <2>6
    <2> QED BY <1>1, <1>5, <2>4, <2>7, <2>8
  <1>6. CASE t.op = "unlink" /\ t.qty > 0
    <2>1. t.line \in Lines /\ t.batch \in Batches /\ 0 \in 0..MaxOrdered
      BY <1>4, <1>6, QtyAssumption
    <2>2. new = LinkPut(link, t.line, t.batch, 0)
      BY <1>1, <1>6 DEF LinkOf, LinkPut
    <2>3. /\ new \in LinkType
          /\ LinkedTo(new, t.line) = LinkedTo(link, t.line) - link[t.line][t.batch] + 0
          /\ \A l \in Lines \ {t.line} : LinkedTo(new, l) = LinkedTo(link, l)
          /\ LinkedFrom(new, t.batch) = LinkedFrom(link, t.batch) - link[t.line][t.batch] + 0
          /\ \A b \in Batches \ {t.batch} : LinkedFrom(new, b) = LinkedFrom(link, b)
      BY <1>3, <2>1, <2>2, LinkPutSums
    <2>4. link[t.line][t.batch] \in Nat
      BY <1>3, <2>1
    <2>5. /\ LinkedTo(new, t.line) <= LinkedTo(link, t.line)
          /\ LinkedFrom(new, t.batch) <= LinkedFrom(link, t.batch)
      BY <1>3, <2>1, <2>3, <2>4
    <2>6. /\ \A l \in Lines : LinkedTo(new, l) <= LinkedTo(link, l)
          /\ \A b \in Batches : LinkedFrom(new, b) <= LinkedFrom(link, b)
      BY <1>3, <2>3, <2>5
    <2>7. \A b \in Batches : LinkedFrom(new, b) \in Nat /\ LinkedFrom(new, b) <= Yield[b]
      BY <1>3, <2>3, <2>6, LinkSums
    <2>8. \A l \in Lines : ~(LinkedTo(new, l) > LinkedTo(link, l))
      BY <1>3, <2>3, <2>6, LinkSums
    <2> QED BY <2>3, <2>6, <2>7, <2>8
  <1>7. CASE ~(t.op \in {"link", "release"}) /\ ~(t.op = "unlink" /\ t.qty > 0)
    <2>1. new = link
      BY <1>1, <1>7 DEF LinkOf
    <2> QED BY <1>3, <2>1
  <1> QED BY <1>5, <1>6, <1>7

(* One dispatch row and the stock of its batch move together. *)
StockMoved(dsp, lft, d, b) ==
    /\ dsp \in [Dispatches -> DispatchRow]
    /\ lft \in [Batches -> Nat]
    /\ \A e \in Dispatches : dsp[e].state = "live" => dsp[e].batch \in Batches
    /\ \A x \in Batches : lft[x] = Yield[x] - Shipped(dsp, x)
    /\ \A e \in Dispatches \ {d} : dsp[e] = dispatch[e]
    /\ \A x \in Batches \ {b} : lft[x] = left[x]

LEMMA StockMoves ==
    ASSUME Books, dispatch \in [Dispatches -> DispatchRow],
           NEW d \in Dispatches, NEW b \in Batches, NEW row \in DispatchRow, NEW n \in Nat,
           NEW dsp, dsp = RowPut(dispatch, d, row), NEW lft, lft = RowPut(left, b, n),
           row.batch = b,
           dispatch[d].state = "live" => dispatch[d].batch = b,
           n = left[b] + Sent(dispatch[d], b) - Sent(row, b)
    PROVE  StockMoved(dsp, lft, d, b)
  <1>1. /\ left \in [Batches -> Nat]
        /\ \A x \in Dispatches : dispatch[x].state = "live" => dispatch[x].batch \in Batches
        /\ \A x \in Batches : left[x] = Yield[x] - Shipped(dispatch, x) /\ Yield[x] \in Nat
    BY YieldAssumption DEF Books, LiveNamed, StockAccounted
  <1>2. dsp \in [Dispatches -> DispatchRow] /\ lft \in [Batches -> Nat]
    BY <1>1 DEF RowPut
  <1>3. /\ dsp[d] = row /\ \A e \in Dispatches \ {d} : dsp[e] = dispatch[e]
        /\ lft[b] = n /\ \A x \in Batches \ {b} : lft[x] = left[x]
    BY <1>1 DEF RowPut
  <1>4. ASSUME NEW x \in Batches PROVE lft[x] = Yield[x] - Shipped(dsp, x)
    <2>1. /\ Shipped(dsp, x) = Shipped(dispatch, x) - Sent(dispatch[d], x) + Sent(row, x)
          /\ Shipped(dispatch, x) \in Nat
      BY ShippedWritten
    <2>2. Sent(dispatch[d], x) \in Nat /\ Sent(row, x) \in Nat
      BY SentNat
    <2>3. CASE x = b
      BY <1>1, <1>3, <2>1, <2>2, <2>3
    <2>4. CASE x # b
      <3>1. Sent(dispatch[d], x) = 0 /\ Sent(row, x) = 0
        BY <2>4 DEF Sent
      <3>2. lft[x] = left[x]
        BY <1>3, <2>4
      <3> QED BY <1>1, <2>1, <3>1, <3>2
    <2> QED BY <2>3, <2>4
  <1>5. \A e \in Dispatches : dsp[e].state = "live" => dsp[e].batch \in Batches
    BY <1>1, <1>3
  <1> QED BY <1>2, <1>3, <1>4, <1>5 DEF StockMoved

LEMMA CommittedStock ==
    ASSUME OrderInv, Books, NEW c \in Clients, tx[c].step = "summed",
           NEW dsp, dsp = DispatchOf(c), NEW lft, lft = LeftOf(c)
    PROVE  /\ dsp \in [Dispatches -> DispatchRow]
           /\ lft \in [Batches -> Nat]
           /\ \A d \in Dispatches : dsp[d].state = "live" => dsp[d].batch \in Batches
           /\ \A b \in Batches : lft[b] = Yield[b] - Shipped(dsp, b)
           /\ \A d \in Dispatches : d # tx[c].dispatch => dsp[d] = dispatch[d]
           /\ \A b \in Batches : ~Holding(tx[c], b) => lft[b] = left[b]
  <1>1. PICK t : t = tx[c]
    OBVIOUS
  <1>2. Fits(t) /\ Backed(t) /\ t.step = "summed"
    BY <1>1 DEF OrderInv, AllFit, Books, AllBacked
  <1>3. /\ dispatch \in [Dispatches -> DispatchRow] /\ left \in [Batches -> Nat]
        /\ \A d \in Dispatches : dispatch[d].state = "live" => dispatch[d].batch \in Batches
        /\ \A b \in Batches : left[b] = Yield[b] - Shipped(dispatch, b) /\ Yield[b] \in Nat
    BY YieldAssumption DEF OrderInv, Shape, Books, LiveNamed, StockAccounted
  <1>4. t.op \in {"create", "void", "amend"} =>
          t.dispatch \in Dispatches /\ t.batch \in Batches /\ Holding(t, t.batch)
    BY <1>2 DEF Backed, Holding
  <1>5. t.qty \in 0..MaxQty
    BY <1>2 DEF Backed
  <1>6. CASE t.op = "create"
    <2>1. PICK row : row = [state |-> "live", line |-> t.line, batch |-> t.batch, qty |-> t.qty]
      OBVIOUS
    <2>2. t.line \in Lines
      BY <1>2, <1>6 DEF Fits, Names, LockOps
    <2>3. row \in DispatchRow /\ row.batch = t.batch /\ Sent(row, t.batch) = t.qty
      BY <1>4, <1>5, <1>6, <2>1, <2>2 DEF DispatchRow, Sent
    <2>4. dispatch[t.dispatch].state = "unused" /\ t.qty <= left[t.batch]
      BY <1>2, <1>6 DEF Backed
    <2>5. Sent(dispatch[t.dispatch], t.batch) = 0
      BY <2>4 DEF Sent
    <2>6. PICK n : n = left[t.batch] - t.qty
      OBVIOUS
    <2>7. n \in Nat /\ n = left[t.batch] + Sent(dispatch[t.dispatch], t.batch) - Sent(row, t.batch)
      <3>1. left[t.batch] \in Nat
        BY <1>3, <1>4, <1>6
      <3> QED BY <1>5, <2>3, <2>4, <2>5, <2>6, <3>1, QtyAssumption
    <2>8. dsp = RowPut(dispatch, t.dispatch, row) /\ lft = RowPut(left, t.batch, n)
      BY <1>1, <1>6, <2>1, <2>6 DEF DispatchOf, LeftOf, RowPut
    <2>9. /\ t.dispatch \in Dispatches /\ t.batch \in Batches /\ Holding(t, t.batch)
          /\ dispatch[t.dispatch].state = "live" => dispatch[t.dispatch].batch = t.batch
      BY <1>4, <1>6, <2>4
    <2>10. StockMoved(dsp, lft, t.dispatch, t.batch)
      BY <1>3, <2>3, <2>7, <2>8, <2>9, StockMoves
    <2> QED BY <1>1, <2>9, <2>10 DEF StockMoved
  <1>7. CASE t.op \in {"void", "amend"}
    <2>1. PICK old \in DispatchRow : old = dispatch[t.dispatch]
      BY <1>3, <1>4, <1>7
    <2>2. old.state = "live" /\ old.batch = t.batch
      BY <1>2, <1>7, <2>1 DEF Backed
    <2>3. Sent(old, t.batch) = old.qty /\ old.qty \in Nat
      BY <2>2, QtyAssumption DEF Sent, DispatchRow
    <2>4. left[t.batch] \in Nat
      BY <1>3, <1>4, <1>7
    <2>5. /\ t.dispatch \in Dispatches /\ t.batch \in Batches /\ Holding(t, t.batch)
          /\ dispatch[t.dispatch].state = "live" => dispatch[t.dispatch].batch = t.batch
      BY <1>4, <1>7, <2>1, <2>2
    <2>6. CASE t.op = "void"
      <3>1. PICK row : row = [old EXCEPT !.state = "voided"]
        OBVIOUS
      <3>2. row \in DispatchRow /\ row.state = "voided" /\ row.batch = t.batch
        BY <2>2, <3>1 DEF DispatchRow
      <3>3. Sent(row, t.batch) = 0
        BY <3>2 DEF Sent
      <3>4. PICK n : n = left[t.batch] + old.qty
        OBVIOUS
      <3>5. n \in Nat /\ n = left[t.batch] + Sent(old, t.batch) - Sent(row, t.batch)
        BY <2>3, <2>4, <3>3, <3>4
      <3>6. dsp = RowPut(dispatch, t.dispatch, row) /\ lft = RowPut(left, t.batch, n)
        BY <1>1, <2>1, <2>6, <3>1, <3>4 DEF DispatchOf, LeftOf, RowPut
      <3>7. n = left[t.batch] + Sent(dispatch[t.dispatch], t.batch) - Sent(row, t.batch)
        BY <2>1, <3>5
      <3>8. StockMoved(dsp, lft, t.dispatch, t.batch)
        BY <1>3, <2>5, <3>2, <3>5, <3>6, <3>7, StockMoves
      <3> QED BY <1>1, <2>5, <3>8 DEF StockMoved
    <2>7. CASE t.op = "amend"
      <3>1. PICK row : row = [old EXCEPT !.qty = t.qty]
        OBVIOUS
      <3>2. row \in DispatchRow /\ row.state = "live" /\ row.batch = t.batch /\ row.qty = t.qty
        BY <1>5, <2>2, <3>1 DEF DispatchRow
      <3>3. Sent(row, t.batch) = t.qty
        BY <3>2 DEF Sent
      <3>4. PICK n : n = left[t.batch] + old.qty - t.qty
        OBVIOUS
      <3>5. t.qty - old.qty <= left[t.batch]
        BY <1>2, <2>1, <2>7 DEF Backed
      <3>6. n \in Nat /\ n = left[t.batch] + Sent(old, t.batch) - Sent(row, t.batch)
        BY <1>5, <2>3, <2>4, <3>3, <3>4, <3>5, QtyAssumption
      <3>7. dsp = RowPut(dispatch, t.dispatch, row) /\ lft = RowPut(left, t.batch, n)
        BY <1>1, <2>1, <2>7, <3>1, <3>4 DEF DispatchOf, LeftOf, RowPut
      <3>8. n = left[t.batch] + Sent(dispatch[t.dispatch], t.batch) - Sent(row, t.batch)
        BY <2>1, <3>6
      <3>9. StockMoved(dsp, lft, t.dispatch, t.batch)
        BY <1>3, <2>5, <3>2, <3>6, <3>7, <3>8, StockMoves
      <3> QED BY <1>1, <2>5, <3>9 DEF StockMoved
    <2> QED BY <1>7, <2>6, <2>7
  <1>8. CASE t.op \notin {"create", "void", "amend"}
    <2>1. dsp = dispatch /\ lft = left
      BY <1>1, <1>8 DEF DispatchOf, LeftOf, RowPut
    <2> QED BY <1>3, <2>1
  <1> QED BY <1>6, <1>7, <1>8

LEMMA CommitBooks ==
    ASSUME OrderInv, Books, NEW c \in Clients, Commit(c)
    PROVE  Books'
  <1>1. PICK t : t = tx[c]
    OBVIOUS
  <1>2. Fits(t) /\ Backed(t) /\ t.step = "summed"
    BY <1>1 DEF Commit, OrderInv, AllFit, Books, AllBacked
  <1>3. /\ link' = LinkOf(c) /\ dispatch' = DispatchOf(c) /\ left' = LeftOf(c) /\ line' = line
        /\ released' = IF t.op = "release" THEN released \cup {t.batch} ELSE released
        /\ tx' = [x \in Clients |-> CASE x = c -> Idle
                                    [] x # c /\ Overtaken(x, c) -> [tx[x] EXCEPT !.qty = 0]
                                    [] OTHER -> tx[x]]
    BY <1>1 DEF Commit
  <1>4. PICK new : new = link'
    OBVIOUS
  <1>5. PICK dsp : dsp = dispatch'
    OBVIOUS
  <1>6. PICK lft : lft = left'
    OBVIOUS
  <1>7. /\ new \in LinkType
        /\ \A b \in Batches : LinkedFrom(new, b) <= Yield[b]
        /\ ~(t.op \in {"link", "release"}) =>
             /\ \A l \in Lines : LinkedTo(new, l) <= LinkedTo(link, l)
             /\ \A b \in Batches : LinkedFrom(new, b) <= LinkedFrom(link, b)
    BY <1>1, <1>3, <1>4, CommittedLinks
  <1>8. /\ dsp \in [Dispatches -> DispatchRow]
        /\ lft \in [Batches -> Nat]
        /\ \A d \in Dispatches : dsp[d].state = "live" => dsp[d].batch \in Batches
        /\ \A b \in Batches : lft[b] = Yield[b] - Shipped(dsp, b)
        /\ \A d \in Dispatches : d # t.dispatch => dsp[d] = dispatch[d]
        /\ \A b \in Batches : ~Holding(t, b) => lft[b] = left[b]
    BY <1>1, <1>2, <1>3, <1>5, <1>6, CommittedStock
  <1>9. tx'[c] = Idle
    BY <1>3
  <1>10. ASSUME NEW x \in Clients \ {c}
         PROVE  /\ Fits(tx[x]) /\ Backed(tx[x])
                /\ tx'[x].op = tx[x].op /\ tx'[x].step = tx[x].step
                /\ tx'[x].line = tx[x].line /\ tx'[x].batch = tx[x].batch
                /\ tx'[x].dispatch = tx[x].dispatch
                /\ tx[x].op # "unlink" => tx'[x].qty = tx[x].qty
                /\ tx'[x].qty \in 0..MaxQty
    <2>1. PICK r : r = tx[x]
      OBVIOUS
    <2>2. Fits(r) /\ Backed(r)
      BY <2>1 DEF OrderInv, AllFit, Books, AllBacked
    <2>3. CASE Overtaken(x, c)
      <3>1. tx'[x] = [r EXCEPT !.qty = 0]
        BY <1>3, <2>1, <2>3
      <3>2. r.op = "unlink"
        BY <2>1, <2>3 DEF Overtaken
      <3>3. PICK u : u = [r EXCEPT !.qty = 0]
        OBVIOUS
      <3>4. /\ u.op = r.op /\ u.step = r.step /\ u.line = r.line /\ u.batch = r.batch
            /\ u.dispatch = r.dispatch /\ u.qty = 0
        BY <2>2, <3>3 DEF Fits, TxWith
      <3>5. 0 \in 0..MaxQty
        BY QtyAssumption
      <3> QED BY <2>1, <2>2, <3>1, <3>2, <3>3, <3>4, <3>5
    <2>4. CASE ~Overtaken(x, c)
      <3>1. tx'[x] = tx[x]
        BY <1>3, <2>4
      <3>2. tx[x].qty \in 0..MaxQty
        BY <2>1, <2>2 DEF Backed
      <3> QED BY <2>1, <2>2, <3>1, <3>2
    <2> QED BY <2>3, <2>4
  <1>11. ASSUME NEW x \in Clients
         PROVE  Backed(tx[x])'
    <2>1. CASE x = c
      <3>1. tx'[x] = Idle
        BY <1>9, <2>1
      <3>2. PICK r : r = tx'[x]
        OBVIOUS
      <3>3. r.op = "none" /\ r.dispatch = None /\ r.qty = 0
        BY <3>1, <3>2 DEF Idle
      <3> QED BY <3>2, <3>3, QtyAssumption DEF Backed
    <2>2. CASE x # c
      <3>1. PICK r : r = tx[x]
        OBVIOUS
      <3>2. PICK u : u = tx'[x]
        OBVIOUS
      <3>3. /\ Fits(r) /\ Backed(r)
            /\ u.op = r.op /\ u.step = r.step /\ u.line = r.line /\ u.batch = r.batch
            /\ u.dispatch = r.dispatch /\ (r.op # "unlink" => u.qty = r.qty)
            /\ u.qty \in 0..MaxQty
        BY <1>10, <2>2, <3>1, <3>2
      <3>4. u.op \in {"link", "release"} =>
               /\ u.qty \in 0..MaxOrdered
               /\ LinkedTo(new, u.line) + u.qty <= line[u.line]
               /\ LinkedFrom(new, u.batch) + u.qty <= Yield[u.batch]
        <4> SUFFICES ASSUME u.op \in {"link", "release"}
                     PROVE  /\ u.qty \in 0..MaxOrdered
                            /\ LinkedTo(new, u.line) + u.qty <= line[u.line]
                            /\ LinkedFrom(new, u.batch) + u.qty <= Yield[u.batch]
          OBVIOUS
        <4>1. ~(t.op \in {"link", "release"})
          BY <1>1, <2>2, <3>1, <3>3 DEF OrderInv, OneHolder, HoldsOrder
        <4>2. u.line \in Lines /\ u.batch \in Batches
          BY <3>3 DEF Fits, Names, LockOps
        <4>3. /\ u.qty \in 0..MaxOrdered
              /\ LinkedTo(link, u.line) + u.qty <= line[u.line]
              /\ LinkedFrom(link, u.batch) + u.qty <= Yield[u.batch]
          BY <3>3 DEF Backed
        <4>4. /\ LinkedTo(new, u.line) <= LinkedTo(link, u.line)
              /\ LinkedFrom(new, u.batch) <= LinkedFrom(link, u.batch)
          BY <1>7, <4>1, <4>2
        <4>5. /\ LinkedTo(new, u.line) \in Nat /\ LinkedTo(link, u.line) \in Nat
              /\ LinkedFrom(new, u.batch) \in Nat /\ LinkedFrom(link, u.batch) \in Nat
              /\ line[u.line] \in Nat /\ Yield[u.batch] \in Nat
          BY <1>7, <4>2, LinkSums, YieldAssumption, QtyAssumption DEF Books, OrderInv, Shape
        <4> QED BY <4>3, <4>4, <4>5, QtyAssumption
      <3>5. u.op \in {"create", "void", "amend"} =>
              /\ u.dispatch \in Dispatches /\ u.batch \in Batches
              /\ dsp[u.dispatch] = dispatch[u.dispatch]
              /\ u.qty = r.qty
        <4> SUFFICES ASSUME u.op \in {"create", "void", "amend"}
                     PROVE  /\ u.dispatch \in Dispatches /\ u.batch \in Batches
                            /\ dsp[u.dispatch] = dispatch[u.dispatch]
                            /\ u.qty = r.qty
          OBVIOUS
        <4>1. u.dispatch \in Dispatches /\ u.batch \in Batches
          BY <3>3 DEF Backed
        <4>2. u.dispatch # t.dispatch
          BY <1>1, <2>2, <3>1, <3>3, <4>1, NoneAssumption DEF Books, OneDispatchUser
        <4> QED BY <1>8, <3>3, <4>1, <4>2
      <3>6. Holding(u, u.batch) => lft[u.batch] = left[u.batch]
        <4> SUFFICES ASSUME Holding(u, u.batch) PROVE lft[u.batch] = left[u.batch]
          OBVIOUS
        <4>1. u.batch \in Batches /\ Holding(r, u.batch)
          BY <3>3, <3>5 DEF Holding
        <4>2. ~Holding(t, u.batch)
          BY <1>1, <2>2, <3>1, <4>1 DEF Books, OneStockHolder, HoldsStock, Holding
        <4> QED BY <1>8, <4>1, <4>2
      <3>7. Backed(u)'
        BY <1>3, <1>4, <1>5, <1>6, <3>3, <3>4, <3>5, <3>6 DEF Backed, Holding
      <3> QED BY <3>2, <3>7 DEF Backed
    <2> QED BY <2>1, <2>2
  <1>12. OneDispatchUser'
    <2>1. Idle.dispatch = None
      BY DEF Idle
    <2> QED BY <1>9, <1>10, <2>1 DEF Books, OneDispatchUser
  <1>13. OneStockHolder'
    <2>1. \A x \in Clients, b \in Batches : HoldsStock(x, b)' => HoldsStock(x, b)
      <3>1. Idle.op = "none"
        BY DEF Idle
      <3> QED BY <1>9, <1>10, <3>1 DEF HoldsStock
    <2> QED BY <2>1 DEF Books, OneStockHolder
  <1>14. released' \subseteq Batches
    <2>1. t.op = "release" => t.batch \in Batches
      BY <1>2 DEF Fits, Names, LockOps
    <2> QED BY <1>3, <2>1 DEF Books
  <1>15. LiveNamed' /\ BatchNotOverallocated' /\ StockAccounted'
    BY <1>4, <1>5, <1>6, <1>7, <1>8 DEF LiveNamed, BatchNotOverallocated, StockAccounted
  <1>16. AllBacked'
    BY <1>11 DEF AllBacked
  <1> QED BY <1>4, <1>6, <1>7, <1>8, <1>12, <1>13, <1>14, <1>15, <1>16 DEF Books

-----------------------------------------------------------------------------
(* The books are always in order.                                           *)

LEMMA InitBooks == Init => Books
  <1> SUFFICES ASSUME Init PROVE Books
    OBVIOUS
  <1>1. /\ link = [l \in Lines |-> [b \in Batches |-> 0]]
        /\ released = {} /\ left = Yield
        /\ dispatch = [d \in Dispatches |-> [state |-> "unused", line |-> None, batch |-> None, qty |-> 0]]
        /\ tx = [c \in Clients |-> Idle]
    BY DEF Init
  <1>2. link \in LinkType
    BY <1>1, QtyAssumption DEF LinkType
  <1>3. left \in [Batches -> Nat]
    BY <1>1, YieldAssumption
  <1>4. IsFiniteSet(Lines) /\ IsFiniteSet(Dispatches)
    BY FiniteAssumption
  <1>5. ASSUME NEW b \in Batches PROVE LinkedFrom(link, b) = 0 /\ Shipped(dispatch, b) = 0
    <2>1. PICK f : f = [l \in Lines |-> link[l][b]]
      OBVIOUS
    <2>2. \A l \in Lines : f[l] = 0
      BY <1>1, <2>1
    <2>3. SumOver(f, Lines) = 0
      BY <1>4, <2>2, SumZeros
    <2>4. PICK g : g = [d \in Dispatches |-> IF dispatch[d].state = "live" /\ dispatch[d].batch = b
                                             THEN dispatch[d].qty ELSE 0]
      OBVIOUS
    <2>5. \A d \in Dispatches : g[d] = 0
      BY <1>1, <2>4
    <2>6. SumOver(g, Dispatches) = 0
      BY <1>4, <2>5, SumZeros
    <2> QED BY <2>1, <2>3, <2>4, <2>6 DEF LinkedFrom, Shipped
  <1>6. BatchNotOverallocated /\ StockAccounted
    BY <1>1, <1>5, YieldAssumption DEF BatchNotOverallocated, StockAccounted
  <1>7. LiveNamed
    BY <1>1 DEF LiveNamed
  <1>8. AllBacked /\ OneDispatchUser /\ OneStockHolder
    BY <1>1, IdleBacked DEF AllBacked, OneDispatchUser, OneStockHolder, HoldsStock, Holding
  <1> QED BY <1>1, <1>2, <1>3, <1>6, <1>7, <1>8 DEF Books

LEMMA StepKeepsBooks == OrderInv /\ Books /\ [Next]_vars => Books'
  <1> SUFFICES ASSUME OrderInv, Books, [Next]_vars PROVE Books'
    OBVIOUS
  <1>1. CASE UNCHANGED vars
    BY <1>1, SameBooks DEF vars, Books
  <1> SUFFICES ASSUME Next PROVE Books'
    BY <1>1
  <1>2. ASSUME NEW c \in Clients,
               UpdateOrderLocked(c) \/ CreateDispatchShort(c) \/ Rollback(c)
        PROVE  Books'
    BY <1>2, EndsBooks DEF UpdateOrderLocked, CreateDispatchShort, Rollback
  <1>3. ASSUME NEW c \in Clients, NEW quantities \in [Lines -> 0..MaxOrdered],
               \/ SetOrderStatusWrite(c)
               \/ UpdateOrderInPlace(c, quantities)
               \/ UpdateOrderReplaceLines(c, quantities)
        PROVE  Books'
    BY <1>3, OrderBooks
    DEF SetOrderStatusWrite, UpdateOrderInPlace, UpdateOrderReplaceLines, HoldsOrder
  <1>4. ASSUME NEW c \in Clients, SetOrderStatusWrite(c) PROVE Books'
    BY <1>4, OrderBooks DEF SetOrderStatusWrite, HoldsOrder
  <1>5. ASSUME SoftDeleteOrder PROVE Books'
    BY <1>5, SameBooks DEF SoftDeleteOrder, Books
  <1>6. ASSUME NEW c \in Clients, NEW b \in Batches, NEW l, ReleasePlain(c, b, l) PROVE Books'
    BY <1>6, SameBooks DEF ReleasePlain, Books
  <1>7. ASSUME NEW c \in Clients, NEW l \in Lines, NEW b \in Batches, NEW qty \in 1..MaxOrdered,
               LinkBatch(c, l, b, qty)
        PROVE  Books'
    <2>1. qty \in Int /\ qty >= 1
      BY QtyAssumption
    <2> QED BY <1>7, <2>1, LinkBooks DEF LinkBatch
  <1>8. ASSUME NEW c \in Clients, NEW b \in Batches, NEW l \in Lines, ReleaseAllocating(c, b, l)
        PROVE  Books'
    <2>1. PICK q : q = Available(l, b)
      OBVIOUS
    <2>2. LinkedTo(link, l) \in Nat /\ LinkedFrom(link, b) \in Nat
      BY LinkSums DEF Books
    <2>3. line[l] \in Nat /\ Yield[b] \in Nat
      BY YieldAssumption, QtyAssumption DEF OrderInv, Shape
    <2>4. q \in Int
      BY <2>1, <2>2, <2>3 DEF Available, Lesser
    <2>5. q > 0
      BY <1>8, <2>1 DEF ReleaseAllocating, Allocatable
    <2>6. q >= 1 /\ q <= Available(l, b)
      BY <2>1, <2>4, <2>5
    <2> QED BY <1>8, <2>1, <2>4, <2>6, LinkBooks DEF ReleaseAllocating
  <1> QED BY <1>2, <1>3, <1>4, <1>5, <1>6, <1>7, <1>8, OrderReadsBooks, UnlinkBatchBooks,
             CreateDispatchBooks, CreateDispatchAllocationBooks, VoidDispatchBooks,
             UpdateDispatchBooks, SumLinesBooks, CommitBooks
          DEF Next

\* The rows and the transactions have their types.
LEMMA BooksTyped == OrderInv /\ Books => TypeOK
  <1> SUFFICES ASSUME OrderInv, Books PROVE TypeOK
    OBVIOUS
  <1>1. ASSUME NEW c \in Clients PROVE tx[c] \in Tx
    <2>1. Fits(tx[c]) /\ Backed(tx[c])
      BY DEF OrderInv, AllFit, Books, AllBacked
    <2> QED BY <2>1 DEF Fits, TxWith, Backed, Tx
  <1>2. tx \in [Clients -> Tx]
    BY <1>1 DEF OrderInv, Shape
  <1> QED BY <1>2 DEF OrderInv, Shape, Books, LinkType, TypeOK

\* What is promised of every batch and what is left of it agree with what it
\* yields, every row and transaction keeps its shape, and drafts are untouched.
THEOREM QuantitiesAlwaysAgree == Spec => []QuantitiesAgree
  <1>1. Init => OrderInv /\ Books
    BY InitInv, InitBooks
  <1>2. (OrderInv /\ Books) /\ [Next]_vars => (OrderInv /\ Books)'
    BY StepKeepsInv, StepKeepsBooks
  <1>3. OrderInv /\ Books => QuantitiesAgree
    BY BooksTyped DEF OrderInv, Books, QuantitiesAgree
  <1> QED BY <1>1, <1>2, <1>3, PTL DEF Spec

\* A link that commits never takes its line above what is ordered at that moment.
THEOREM LinksStayWithinDemand == Spec => LinksGrowWithinDemand
  <1>1. ASSUME OrderInv, Books, Next, NEW l \in Lines, LinkedTo(link', l) > LinkedTo(link, l)
        PROVE  LinkedTo(link', l) <= line'[l]
    <2>1. link' # link
      <3>1. LinkedTo(link, l) \in Nat
        BY <1>1, LinkSums DEF Books
      <3>2. LinkedTo(link', l) # LinkedTo(link, l)
        BY <1>1, <3>1
      <3> QED BY <3>2
    <2>2. PICK c \in Clients : Commit(c)
      BY <1>1, <2>1
      DEF Next, Rows, SetOrderStatusRead, SetOrderStatusWrite, SoftDeleteOrder, UpdateOrderRead,
          UpdateOrderInPlace, UpdateOrderReplaceLines, UpdateOrderLocked, LinkBatch,
          ReleaseAllocating, ReleasePlain, UnlinkBatchCheck, UnlinkBatchDelete,
          CreateDispatchCheck, CreateDispatchAllocation, CreateDispatchShort, VoidDispatch,
          UpdateDispatch, SumLines, Rollback
    <2>3. link' = LinkOf(c) /\ line' = line
      BY <2>2 DEF Commit
    <2>4. PICK new : new = link'
      OBVIOUS
    <2>5. LinkedTo(new, l) > LinkedTo(link, l) => LinkedTo(new, l) <= line[l]
      BY <1>1, <2>3, <2>4, CommittedLinks
    <2> QED BY <1>1, <2>3, <2>4, <2>5
  <1>2. (OrderInv /\ Books) /\ [Next]_vars =>
          [\A l \in Lines : LinkedTo(link', l) > LinkedTo(link, l)
              => LinkedTo(link', l) <= line'[l]]_vars
    BY <1>1
  <1>3. Init => OrderInv /\ Books
    BY InitInv, InitBooks
  <1>4. (OrderInv /\ Books) /\ [Next]_vars => (OrderInv /\ Books)'
    BY StepKeepsInv, StepKeepsBooks
  <1> QED BY <1>2, <1>3, <1>4, PTL DEF Spec, LinksGrowWithinDemand
=============================================================================
