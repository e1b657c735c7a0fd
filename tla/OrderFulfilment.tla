---------------------------- MODULE OrderFulfilment ----------------------------
(***************************************************************************)
(* One customer order: its lines, the batches allocated to them and what   *)
(* is shipped against them (customer-purchase-orders.service.ts, and the   *)
(* order's side of dispatch.service.ts and of releaseBatch).               *)
(*                                                                         *)
(* These handlers run at READ COMMITTED and lock little: a status change   *)
(* and an edit read the order without a lock, and so does the status       *)
(* recomputation that ends a void, an edit of a dispatch and an unlink.    *)
(* A handler is therefore several actions, one for each read that nothing  *)
(* protects; what it has written shows at its last action, its commit.     *)
(* Locks are taken in one action with the read that follows them.  A call  *)
(* that waits, or that a deadlock rolls back, changes nothing meanwhile.   *)
(***************************************************************************)
EXTENDS Integers, FiniteSets, Sums

CONSTANTS
  Lines,        \* ids of order lines
  Batches,      \* batches made for the order's customer and product
  Dispatches,   \* dispatch ids; bounds the dispatches ever created
  Clients,      \* requests being served at the same time
  MaxOrdered,   \* the most a line orders
  MaxQty,       \* the most a dispatch ships
  Yield,        \* what each batch yields
  None          \* no line, no batch, no dispatch

ASSUME QtyAssumption   == MaxOrdered \in Nat \ {0} /\ MaxQty \in Nat /\ MaxOrdered <= MaxQty
ASSUME YieldAssumption == Yield \in [Batches -> Nat \ {0}]
ASSUME NoneAssumption  == None \notin Lines \cup Batches \cup Dispatches
ASSUME FiniteAssumption ==
  IsFiniteSet(Lines) /\ IsFiniteSet(Batches) /\ IsFiniteSet(Dispatches)

VARIABLES
  order,        \* status and deleted_at of the order
  line,         \* quantity_ordered; 0 when the order has no such line
  link,         \* linked_quantity of a batch to a line; 0 when there is no row
  released,     \* released batches
  left,         \* produced less dispatched quantity of a batch's finished goods
  dispatch,     \* dispatch rows
  tx            \* what each request's transaction has read and will write

vars == <<order, line, link, released, left, dispatch, tx>>

Statuses == {"draft", "confirmed", "production_planned", "in_production",
             "partially_produced", "ready_for_dispatch", "partially_dispatched",
             "completed", "cancelled"}
Closed   == {"draft", "cancelled", "completed"}

DispatchRow == [state : {"unused", "live", "voided"}, line : Lines \cup {None},
                batch : Batches \cup {None}, qty : 0..MaxQty]

(***************************************************************************)
(* step: "checked" has read and passed, "held" has its rows, "summed" has  *)
(* computed the status to write.  `read` is the order status it read,      *)
(* `next` the status it is going to write.                                 *)
(***************************************************************************)
Tx == [op       : {"none", "status", "edit", "link", "release", "create", "void",
                   "amend", "unlink"},
       step     : {"none", "checked", "held", "summed"},
       line     : Lines \cup {None},
       batch    : Batches \cup {None},
       dispatch : Dispatches \cup {None},
       qty      : 0..MaxQty,
       read     : Statuses,
       next     : Statuses \cup {"unchanged"}]

Idle == [op |-> "none", step |-> "none", line |-> None, batch |-> None,
         dispatch |-> None, qty |-> 0, read |-> "draft", next |-> "unchanged"]

(* createOrder: a draft with lines of a positive quantity. *)
Init ==
  /\ order = [status |-> "draft", deleted |-> FALSE]
  /\ line \in [Lines -> 0..MaxOrdered] /\ \E l \in Lines : line[l] > 0
  /\ link = [l \in Lines |-> [b \in Batches |-> 0]]
  /\ released = {}
  /\ left = Yield
  /\ dispatch = [d \in Dispatches |-> [state |-> "unused", line |-> None,
                                       batch |-> None, qty |-> 0]]
  /\ tx = [c \in Clients |-> Idle]

-----------------------------------------------------------------------------
(* Row locks are what the open transactions imply.                         *)

HoldsOrder(c) == tx[c].op \in {"link", "release", "create"}
HoldsBatch(c, b) == tx[c].op \in {"link", "release"} /\ tx[c].batch = b
HoldsDispatch(c, d) == tx[c].op \in {"void", "amend"} /\ tx[c].dispatch = d
HoldsStock(c, b) ==
  /\ tx[c].batch = b
  /\ tx[c].op \in {"void", "amend"} \/ (tx[c].op = "create" /\ tx[c].step = "summed")
HoldsLink(c, l, b) ==
  /\ tx[c].op = "unlink" /\ tx[c].step # "checked" /\ tx[c].qty > 0
  /\ tx[c].line = l /\ tx[c].batch = b

OrderFreeAlways(c)    == TRUE
OrderFree(c)          == \A x \in Clients \ {c} : ~HoldsOrder(x)
BatchFree(c, b)       == \A x \in Clients \ {c} : ~HoldsBatch(x, b)
DispatchFree(c, d)    == \A x \in Clients \ {c} : ~HoldsDispatch(x, d)
StockFree(c, b)       == \A x \in Clients \ {c} : ~HoldsStock(x, b)
LinkFree(c, l, b)     == \A x \in Clients \ {c} : ~HoldsLink(x, l, b)

-----------------------------------------------------------------------------
(* Aggregates, and the status they imply.                                  *)

LinkedTo(lnk, l)   == SumOver(lnk[l], Batches)
LinkedFrom(lnk, b) == SumOver([l \in Lines |-> lnk[l][b]], Lines)
ShippedOn(dsp, l)  ==
  SumOver([d \in Dispatches |-> IF dsp[d].state = "live" /\ dsp[d].line = l
                                THEN dsp[d].qty ELSE 0], Dispatches)
ShippedAs(dsp, l, b) ==
  SumOver([d \in Dispatches |-> IF dsp[d].state = "live" /\ dsp[d].line = l /\ dsp[d].batch = b
                                THEN dsp[d].qty ELSE 0], Dispatches)

Current == {l \in Lines : line[l] > 0}

(* recomputeStatus *)
Recomputed(status, lnk, dsp) ==
  LET produced(l) == LinkedTo(lnk, l)
      shipped(l)  == ShippedOn(dsp, l) IN
  IF status \in {"draft", "cancelled"} THEN status
  ELSE IF Current # {} /\ \A l \in Current : shipped(l) >= line[l] THEN "completed"
  ELSE IF \E l \in Current : shipped(l) > 0 THEN "partially_dispatched"
  ELSE IF Current # {} /\ \A l \in Current : produced(l) >= line[l] THEN "ready_for_dispatch"
  ELSE IF \E l \in Current : produced(l) > 0 THEN "partially_produced"
  ELSE IF status \in {"confirmed", "production_planned"} THEN "in_production"
  ELSE status

(* The rows as c's own transaction sees them, and as its commit leaves them. *)
LinkOf(c) ==
  CASE tx[c].op \in {"link", "release"} ->
         [link EXCEPT ![tx[c].line] = [@ EXCEPT ![tx[c].batch] = tx[c].qty]]
    [] tx[c].op = "unlink" /\ tx[c].qty > 0 ->
         [link EXCEPT ![tx[c].line] = [@ EXCEPT ![tx[c].batch] = 0]]
    [] OTHER -> link

DispatchOf(c) ==
  CASE tx[c].op = "create" ->
         [dispatch EXCEPT ![tx[c].dispatch] =
            [state |-> "live", line |-> tx[c].line, batch |-> tx[c].batch, qty |-> tx[c].qty]]
    [] tx[c].op = "void" ->
         [dispatch EXCEPT ![tx[c].dispatch] = [@ EXCEPT !.state = "voided"]]
    [] tx[c].op = "amend" ->
         [dispatch EXCEPT ![tx[c].dispatch] = [@ EXCEPT !.qty = tx[c].qty]]
    [] OTHER -> dispatch

Shipped(dsp, b) ==
  SumOver([d \in Dispatches |-> IF dsp[d].state = "live" /\ dsp[d].batch = b
                                THEN dsp[d].qty ELSE 0], Dispatches)

(* The increment or the reversal of the transaction, by the quantity its   *)
(* request or its locked dispatch row named.                               *)
LeftOf(c) ==
  CASE tx[c].op = "create" -> [left EXCEPT ![tx[c].batch] = @ - tx[c].qty]
    [] tx[c].op = "void"   -> [left EXCEPT ![tx[c].batch] = @ + dispatch[tx[c].dispatch].qty]
    [] tx[c].op = "amend"  ->
         [left EXCEPT ![tx[c].batch] = @ + dispatch[tx[c].dispatch].qty - tx[c].qty]
    [] OTHER -> left

(* c deletes the link row that x's unlink means too: x's DELETE will find  *)
(* none, even if the pair is linked again.                                 *)
Overtaken(x, c) ==
  /\ tx[c].op = "unlink" /\ tx[c].qty > 0
  /\ tx[x].op = "unlink" /\ tx[x].line = tx[c].line /\ tx[x].batch = tx[c].batch

Starts(c, t) == tx[c] = Idle /\ tx' = [tx EXCEPT ![c] = t]
Ends(c)      == tx' = [tx EXCEPT ![c] = Idle]
Rows         == <<order, line, link, released, left, dispatch>>

-----------------------------------------------------------------------------
(* The status a person sets, and deleting the order.                       *)

Transitions(status) ==
  CASE status = "draft"              -> {"confirmed", "cancelled"}
    [] status = "confirmed"          -> {"production_planned", "cancelled"}
    [] status = "production_planned" -> {"in_production", "cancelled"}
    [] status \in {"completed", "cancelled"} -> {}
    [] OTHER -> {"cancelled"}

SetOrderStatusRead(c, status) ==
  /\ ~order.deleted
  /\ status \in Transitions(order.status)
  /\ Starts(c, [Idle EXCEPT !.op = "status", !.step = "checked", !.next = status])
  /\ UNCHANGED Rows

(* The UPDATE matches the id alone, and waits for the row. *)
SetOrderStatusWrite(c) ==
  /\ tx[c].op = "status"
  /\ OrderFree(c)
  /\ order' = [order EXCEPT !.status = tx[c].next]
  /\ Ends(c)
  /\ UNCHANGED <<line, link, released, left, dispatch>>

SoftDeleteOrder ==
  /\ ~order.deleted
  /\ \A c \in Clients : ~HoldsOrder(c)
  /\ order' = [order EXCEPT !.deleted = TRUE]
  /\ UNCHANGED <<line, link, released, left, dispatch, tx>>

-----------------------------------------------------------------------------
(* updateOrder.                                                            *)

UpdateOrderRead(c) ==
  /\ ~order.deleted
  /\ order.status \in {"draft", "confirmed"}
  /\ Starts(c, [Idle EXCEPT !.op = "edit", !.step = "checked"])
  /\ UNCHANGED Rows

(* The lineup stays: quantities are replaced in place. *)
UpdateOrderInPlace(c, quantities) ==
  /\ tx[c].op = "edit"
  /\ OrderFree(c)
  /\ {l \in Lines : quantities[l] > 0} = Current
  /\ line' = quantities
  /\ Ends(c)
  /\ UNCHANGED <<order, link, released, left, dispatch>>

(* The lineup changes: no batch link and no dispatch, voided or not, may   *)
(* refer to the lines that go.                                             *)
UnreferencedByLive ==
  \A l \in Current : LinkedTo(link, l) = 0 /\ ShippedOn(dispatch, l) = 0
Unreferenced ==
  \A l \in Current : /\ \A b \in Batches : link[l][b] = 0
                     /\ \A d \in Dispatches : dispatch[d].line # l

UpdateOrderReplaceLines(c, quantities) ==
  /\ tx[c].op = "edit"
  /\ OrderFree(c)
  /\ Unreferenced
  /\ \E l \in Lines : quantities[l] > 0
  /\ line' = quantities
  /\ Ends(c)
  /\ UNCHANGED <<order, link, released, left, dispatch>>

(* LOCKED: the rollback takes the header update back too. *)
UpdateOrderLocked(c) ==
  /\ tx[c].op = "edit"
  /\ OrderFree(c)
  /\ ~Unreferenced
  /\ Ends(c)
  /\ UNCHANGED Rows

-----------------------------------------------------------------------------
(* linkBatch, and releaseBatch with the line its work order was planned    *)
(* for (a work order has at most one).                                     *)

Lesser(x, y) == IF x <= y THEN x ELSE y

AvailableAnyBatch(l, b) == line[l] - LinkedTo(link, l)
Available(l, b) ==
  Lesser(line[l] - LinkedTo(link, l), Yield[b] - LinkedFrom(link, b))

LinkBatch(c, l, b, qty) ==
  /\ OrderFree(c) /\ BatchFree(c, b)
  /\ ~order.deleted /\ order.status \notin Closed
  /\ line[l] > 0 /\ b \in released
  /\ qty <= Available(l, b)
  /\ link[l][b] = 0 \/ \E x \in Clients : HoldsLink(x, l, b)
  /\ Starts(c, [Idle EXCEPT !.op = "link", !.step = "held", !.line = l, !.batch = b,
                            !.qty = qty, !.read = order.status])
  /\ UNCHANGED Rows

(* The batch has a line to go to, and room there: the link is the whole of *)
(* what both have left.                                                    *)
Allocatable(l, b) ==
  /\ l # None
  /\ ~order.deleted /\ order.status \notin Closed
  /\ line[l] > 0 /\ link[l][b] = 0
  /\ Available(l, b) > 0

ReleaseAllocating(c, b, l) ==
  /\ b \notin released /\ BatchFree(c, b)
  /\ OrderFree(c)
  /\ Allocatable(l, b)
  /\ Starts(c, [Idle EXCEPT !.op = "release", !.step = "held", !.line = l, !.batch = b,
                            !.qty = Available(l, b), !.read = order.status])
  /\ UNCHANGED Rows

ReleasePlain(c, b, l) ==
  /\ b \notin released /\ BatchFree(c, b)
  /\ l # None => OrderFree(c)
  /\ ~Allocatable(l, b)
  /\ released' = released \cup {b}
  /\ UNCHANGED <<order, line, link, left, dispatch, tx>>

(* unlinkBatch: the link and its dispatches are read without a lock; the   *)
(* row goes, if it still is there (qty # 0), and the recomputation reads   *)
(* the status.                                                             *)
UnlinkBatchCheck(c, l, b) ==
  /\ link[l][b] > 0
  /\ ShippedAs(dispatch, l, b) = 0
  /\ Starts(c, [Idle EXCEPT !.op = "unlink", !.step = "checked", !.line = l, !.batch = b,
                            !.qty = link[l][b]])
  /\ UNCHANGED Rows

UnlinkBatchDelete(c) ==
  /\ tx[c].op = "unlink" /\ tx[c].step = "checked"
  /\ LinkFree(c, tx[c].line, tx[c].batch)
  /\ tx' = [tx EXCEPT ![c] = [@ EXCEPT !.step = "held", !.read = order.status]]
  /\ UNCHANGED Rows

-----------------------------------------------------------------------------
(* Dispatches against the order.                                           *)

(* validateDispatchContext.  It does not ask whether the order is deleted. *)
Dispatchable(l, b, qty) ==
  /\ b \in released
  /\ line[l] > 0 /\ order.status \notin Closed
  /\ qty <= line[l] - ShippedOn(dispatch, l)

CreateDispatchCheck(c, d, l, b, qty) ==
  /\ dispatch[d].state = "unused" /\ \A x \in Clients : tx[x].dispatch # d
  /\ OrderFree(c)
  /\ Dispatchable(l, b, qty)
  /\ Starts(c, [Idle EXCEPT !.op = "create", !.step = "checked", !.dispatch = d,
                            !.line = l, !.batch = b, !.qty = qty, !.read = order.status])
  /\ UNCHANGED Rows

Allocated(c) ==
  tx[c].qty <= link[tx[c].line][tx[c].batch] - ShippedAs(dispatch, tx[c].line, tx[c].batch)

CreateDispatchAllocation(c) ==
  /\ tx[c].op = "create" /\ tx[c].step = "checked"
  /\ IF Allocated(c)
       THEN tx' = [tx EXCEPT ![c] = [@ EXCEPT !.step = "held"]]
       ELSE Ends(c)
  /\ UNCHANGED Rows

(* INSUFFICIENT_STOCK *)
CreateDispatchShort(c) ==
  /\ tx[c].op = "create" /\ tx[c].step = "held"
  /\ StockFree(c, tx[c].batch)
  /\ left[tx[c].batch] < tx[c].qty
  /\ Ends(c)
  /\ UNCHANGED Rows

(* A voided dispatch is not voided again. *)
Voidable(d)      == dispatch[d].state = "live"

(* The dispatch row and the stock are locked; the recomputation reads the  *)
(* status without a lock.                                                  *)
VoidDispatch(c, d) ==
  /\ DispatchFree(c, d) /\ Voidable(d)
  /\ StockFree(c, dispatch[d].batch)
  /\ Starts(c, [Idle EXCEPT !.op = "void", !.step = "held", !.dispatch = d,
                            !.batch = dispatch[d].batch, !.read = order.status])
  /\ UNCHANGED Rows

(* A new quantity moves the difference, if the stock has it.  Neither the  *)
(* line's remainder nor the allocation is looked at again.                 *)
UpdateDispatch(c, d, qty) ==
  /\ DispatchFree(c, d) /\ dispatch[d].state = "live" /\ qty # dispatch[d].qty
  /\ StockFree(c, dispatch[d].batch)
  /\ qty - dispatch[d].qty <= left[dispatch[d].batch]
  /\ Starts(c, [Idle EXCEPT !.op = "amend", !.step = "held", !.dispatch = d, !.qty = qty,
                            !.batch = dispatch[d].batch, !.read = order.status])
  /\ UNCHANGED Rows

-----------------------------------------------------------------------------
(* The end of every transaction that changes what the status follows from. *)

(* A link is inserted once no row of the pair is left, a dispatch takes    *)
(* its stock; then recomputeStatus sums the lines, its own rows included.  *)
SumLines(c) ==
  /\ tx[c].step = "held"
  /\ tx[c].op = "link" => link[tx[c].line][tx[c].batch] = 0
  /\ tx[c].op = "create" =>
       StockFree(c, tx[c].batch) /\ left[tx[c].batch] >= tx[c].qty
  /\ LET status == Recomputed(tx[c].read, LinkOf(c), DispatchOf(c)) IN
     tx' = [tx EXCEPT ![c] =
       [@ EXCEPT !.step = "summed", !.read = Idle.read,
                 !.next = IF status = tx[c].read THEN "unchanged" ELSE status]]
  /\ UNCHANGED Rows

(* A status that differs from the one read is written by id, and the       *)
(* transaction commits.                                                    *)
Commit(c) ==
  LET t == tx[c] IN
  /\ t.step = "summed"
  /\ \/ t.next = "unchanged" /\ UNCHANGED order
     \/ t.next # "unchanged" /\ OrderFree(c) /\ order' = [order EXCEPT !.status = t.next]
  /\ link' = LinkOf(c)
  /\ dispatch' = DispatchOf(c)
  /\ left' = LeftOf(c)
  /\ released' = IF t.op = "release" THEN released \cup {t.batch} ELSE released
  /\ tx' = [x \in Clients |-> CASE x = c -> Idle
                              [] x # c /\ Overtaken(x, c) -> [tx[x] EXCEPT !.qty = 0]
                              [] OTHER -> tx[x]]
  /\ UNCHANGED line

(* A deadlock, a refused constraint or a lost connection rolls it back. *)
Rollback(c) ==
  /\ tx[c] # Idle
  /\ Ends(c)
  /\ UNCHANGED Rows

-----------------------------------------------------------------------------
Next ==
  \/ \E c \in Clients, status \in Statuses : SetOrderStatusRead(c, status)
  \/ \E c \in Clients : SetOrderStatusWrite(c)
  \/ SoftDeleteOrder
  \/ \E c \in Clients : UpdateOrderRead(c)
  \/ \E c \in Clients, quantities \in [Lines -> 0..MaxOrdered] : UpdateOrderInPlace(c, quantities)
  \/ \E c \in Clients, quantities \in [Lines -> 0..MaxOrdered] : UpdateOrderReplaceLines(c, quantities)
  \/ \E c \in Clients : UpdateOrderLocked(c)
  \/ \E c \in Clients, l \in Lines, b \in Batches, qty \in 1..MaxOrdered : LinkBatch(c, l, b, qty)
  \/ \E c \in Clients, b \in Batches, l \in Lines : ReleaseAllocating(c, b, l)
  \/ \E c \in Clients, b \in Batches, l \in Lines \cup {None} : ReleasePlain(c, b, l)
  \/ \E c \in Clients, l \in Lines, b \in Batches : UnlinkBatchCheck(c, l, b)
  \/ \E c \in Clients : UnlinkBatchDelete(c)
  \/ \E c \in Clients, d \in Dispatches, l \in Lines, b \in Batches, qty \in 1..MaxOrdered :
       CreateDispatchCheck(c, d, l, b, qty)
  \/ \E c \in Clients : CreateDispatchAllocation(c)
  \/ \E c \in Clients : CreateDispatchShort(c)
  \/ \E c \in Clients, d \in Dispatches : VoidDispatch(c, d)
  \/ \E c \in Clients, d \in Dispatches, qty \in 1..MaxQty : UpdateDispatch(c, d, qty)
  \/ \E c \in Clients : SumLines(c)
  \/ \E c \in Clients : Commit(c)
  \/ \E c \in Clients : Rollback(c)

Spec == Init /\ [][Next]_vars

-----------------------------------------------------------------------------
(* Properties.                                                             *)

(* Rows and transactions keep their shape, and no stock is negative. *)
TypeOK ==
  /\ order \in [status : Statuses, deleted : BOOLEAN]
  /\ line \in [Lines -> 0..MaxOrdered]
  /\ link \in [Lines -> [Batches -> 0..MaxOrdered]]
  /\ released \subseteq Batches
  /\ left \in [Batches -> Nat]
  /\ dispatch \in [Dispatches -> DispatchRow]
  /\ tx \in [Clients -> Tx]

(* However links by hand and links by release race, no batch is promised   *)
(* to lines for more than it yields.                                       *)
BatchNotOverallocated ==
  \A b \in Batches : LinkedFrom(link, b) <= Yield[b]

(* A link never takes a line above what is ordered when the link commits,  *)
(* whatever edits and unlinks ran since the handler read the line.         *)
LinksGrowWithinDemand ==
  [][\A l \in Lines : LinkedTo(link', l) > LinkedTo(link, l)
        => LinkedTo(link', l) <= line'[l]]_vars

(* Nothing ships against an order that is a draft, cancelled or completed  *)
(* at the moment the dispatch commits.                                     *)
ShipsOnlyOpenOrder ==
  [][\A d \in Dispatches : dispatch[d].state = "unused" /\ dispatch'[d].state = "live"
        => order.status \notin Closed]_vars

(* Creations, edits and voids that overlap leave the stock of every batch  *)
(* at what it yielded less its live dispatches.                            *)
StockAccounted ==
  \A b \in Batches : left[b] = Yield[b] - Shipped(dispatch, b)

(* Replacing the lines of an order never takes away one that a batch link  *)
(* or a dispatch, voided ones included, refers to.                         *)
ReferencesSurvive ==
  \A l \in Lines : line[l] = 0 =>
    /\ \A b \in Batches : link[l][b] = 0
    /\ \A d \in Dispatches : dispatch[d].line # l

(* A draft has nothing allocated and nothing shipped, and nothing under way. *)
DraftUntouched ==
  order.status = "draft" =>
    /\ \A l \in Lines, b \in Batches : link[l][b] = 0
    /\ \A d \in Dispatches : dispatch[d].state = "unused"
    /\ \A c \in Clients : tx[c].op \in {"none", "status", "edit"}

(* Rows and transactions keep their shape; what is promised of a batch and *)
(* what is left of it agree with what it yields; and nothing is promised   *)
(* or shipped for a draft, whatever overlaps.                              *)
QuantitiesAgree == TypeOK /\ BatchNotOverallocated /\ StockAccounted /\ DraftUntouched
=============================================================================
