---------------------------- MODULE BatchRelease ----------------------------
(***************************************************************************)
(* A batch from production to shipment: its row in `batches`, the          *)
(* finished-goods row it owns, and the dispatches drawn from it            *)
(* (batches.service.ts, finished-goods.service.ts, dispatch.service.ts).   *)
(*                                                                         *)
(* A transaction that locks the batch row first (SELECT ... FOR UPDATE)    *)
(* is one action: nothing it reads can change before it commits.  So is    *)
(* one guarded UPDATE.  clearCoaSnapshot does neither: it reads without a  *)
(* lock and writes later, so it is two actions with anything in between.   *)
(* A call the code refuses changes nothing and is not an action.           *)
(*                                                                         *)
(* Dispatches here are the ones without an order line; the order's side    *)
(* is in module OrderFulfilment.                                           *)
(***************************************************************************)
EXTENDS Integers, FiniteSets, Sums

CONSTANTS
  Batches,      \* batch ids
  Dispatches,   \* dispatch ids; bounds the dispatches ever created
  Clients,      \* callers of the API
  MaxQty,       \* largest batch size
  MaxVersion,   \* bound on the optimistic-lock counter
  None          \* no batch, no view

ASSUME QtyAssumption     == MaxQty \in Nat \ {0}
ASSUME VersionAssumption == MaxVersion \in Nat \ {0}
ASSUME NoneAssumption    == None \notin Batches
ASSUME FiniteAssumption  == IsFiniteSet(Dispatches)

VARIABLES
  batch,        \* the batch row, and what its stock movements say of its materials
  fg,           \* the finished-goods row of the batch
  dispatch,     \* the dispatch rows
  clearing,     \* the batch a client's clearCoaSnapshot has checked and not yet written
  seen          \* what a client last read of a batch: its version and evidence

vars == <<batch, fg, dispatch, clearing, seen>>

(***************************************************************************)
(* "needs_review" is the column default: the rows that were there before   *)
(* the lifecycle column.  No code path writes "planned", "in_progress" or  *)
(* "closed".                                                               *)
(***************************************************************************)
Lives == {"absent", "needs_review", "awaiting_qc", "on_hold", "rejected",
          "cancelled", "released", "deleted"}

BatchRow == [life      : Lives,
             origin    : {"system", "legacy"},
             kind      : {"Production", "Trial"},
             coa       : {"none", "pass", "fail"},
             expiry    : {"missing", "ahead", "past"},
             size      : 1..MaxQty,
             version   : 1..MaxVersion,
             materials : {"none", "issued", "returned"}]

FgStatuses == {"Quarantined", "Available", "PartiallyDispatched",
               "FullyDispatched", "Cancelled"}
Sellable   == {"Available", "PartiallyDispatched", "FullyDispatched"}

(***************************************************************************)
(* `opening` is what a backfill recorded as shipped before the system knew *)
(* the batch; only properties read it.  reserved_quantity is never written *)
(* and stays 0.                                                            *)
(***************************************************************************)
FgRow == [status     : FgStatuses \cup {"none"},
          produced   : 0..MaxQty,
          dispatched : Int,
          opening    : 0..MaxQty]

DispatchRow == [state : {"unused", "live", "voided"},
                batch : Batches \cup {None},
                qty   : 0..MaxQty]

View == [batch : Batches, version : 1..MaxVersion, life : Lives,
         coa : {"none", "pass", "fail"}]

-----------------------------------------------------------------------------
(* Initial states: no batch, or one from before these columns existed.     *)

WithStatus(g, status) == [g EXCEPT !.status = status]

AbsentRow == [life |-> "absent", origin |-> "system", kind |-> "Production",
              coa |-> "none", expiry |-> "missing", size |-> 1, version |-> 1,
              materials |-> "none"]

LegacyRows == {[life |-> "needs_review", origin |-> "legacy", kind |-> "Production",
                coa |-> c, expiry |-> e, size |-> q, version |-> 1,
                materials |-> "none"] :
               c \in {"none", "pass"}, e \in {"missing", "ahead"}, q \in 1..MaxQty}

NoFg == [status |-> "none", produced |-> 0, dispatched |-> 0, opening |-> 0]

Init ==
  /\ batch \in [Batches -> LegacyRows \cup {AbsentRow}]
  /\ fg = [b \in Batches |-> NoFg]
  /\ dispatch = [d \in Dispatches |-> [state |-> "unused", batch |-> None, qty |-> 0]]
  /\ clearing = [c \in Clients |-> None]
  /\ seen = [c \in Clients |-> None]

-----------------------------------------------------------------------------
(* The batch row.                                                          *)

Exists(b)   == batch[b].life \notin {"absent", "deleted"}
Editable(b) == Exists(b) /\ batch[b].life # "released"

(* The version column moves with the row; MaxVersion bounds it. *)
BumpNoVersion(row) == row
Bump(row) == [row EXCEPT !.version = @ + 1]
CanBump(b) == batch[b].version < MaxVersion

WithLife(row, life)   == [row EXCEPT !.life = life]
WithCoa(row, result)  == [row EXCEPT !.coa = result]
Expired(row)          == [row EXCEPT !.expiry = "past"]

CreateBatch(b, kind, expiry, size, materials) ==
  /\ batch[b].life = "absent"
  /\ kind = "Trial" => materials = "none"
  /\ batch' = [batch EXCEPT ![b] =
                 [life |-> "awaiting_qc", origin |-> "system", kind |-> kind,
                  coa |-> "none", expiry |-> expiry, size |-> size, version |-> 1,
                  materials |-> materials]]
  /\ fg' = [fg EXCEPT ![b] = [status |-> "Quarantined", produced |-> size,
                              dispatched |-> 0, opening |-> 0]]
  /\ UNCHANGED <<dispatch, clearing, seen>>

(* A GET: the client now holds this version of the batch. *)
ReadBatch(c, b) ==
  /\ Exists(b)
  /\ seen' = [seen EXCEPT ![c] = [batch |-> b, version |-> batch[b].version,
                                  life |-> batch[b].life, coa |-> batch[b].coa]]
  /\ UNCHANGED <<batch, fg, dispatch, clearing>>

(* The call carries the version its caller read, and it still is the row's. *)
CarriesVersion(c) ==
  /\ seen[c] # None
  /\ Exists(seen[c].batch)
  /\ batch[seen[c].batch].version = seen[c].version

UpdateBatchMetadata(c) ==
  LET b == seen[c].batch IN
  /\ CarriesVersion(c)
  /\ Editable(b) /\ CanBump(b)
  /\ batch' = [batch EXCEPT ![b] = Bump(@)]
  /\ UNCHANGED <<fg, dispatch, clearing, seen>>

(* saveCoaSnapshot locks the row; only a released row refuses the result.  *)
SaveCoaReleasedToo(b, result) ==
  /\ Exists(b) /\ CanBump(b)
  /\ batch' = [batch EXCEPT ![b] = Bump(WithCoa(@, result))]
  /\ UNCHANGED <<fg, dispatch, clearing, seen>>
SaveCoaSnapshot(b, result) ==
  /\ Editable(b) /\ CanBump(b)
  /\ batch' = [batch EXCEPT ![b] = Bump(WithCoa(@, result))]
  /\ UNCHANGED <<fg, dispatch, clearing, seen>>

(* clearCoaSnapshot, first statement: an unlocked read that checks the status. *)
ClearCoaCheck(c, b) ==
  /\ clearing[c] = None
  /\ Editable(b)
  /\ clearing' = [clearing EXCEPT ![c] = b]
  /\ UNCHANGED <<batch, fg, dispatch, seen>>

(* clearCoaSnapshot, second statement: an UPDATE by batch number alone.  It *)
(* does not look at the status again and leaves the version.                *)
ClearCoaWrite(c) ==
  LET b == clearing[c] IN
  /\ b # None
  /\ clearing' = [clearing EXCEPT ![c] = None]
  /\ batch' = IF Exists(b) THEN [batch EXCEPT ![b] = WithCoa(@, "none")] ELSE batch
  /\ UNCHANGED <<fg, dispatch, seen>>

(* getReleaseBlockingReasons(row).length = 0: the label is NOT NULL.  The  *)
(* lifecycle status is not among the reasons.                              *)
Releasable(row) ==
  /\ row.kind = "Production"
  /\ row.coa = "pass"
  /\ row.expiry = "ahead"

ReleaseRow(b) ==
  /\ Editable(b) /\ CanBump(b)
  /\ Releasable(batch[b])
  /\ batch' = [batch EXCEPT ![b] = Bump(WithLife(@, "released"))]
  /\ fg' = IF fg[b].status = "Quarantined"
             THEN [fg EXCEPT ![b] = WithStatus(@, "Available")] ELSE fg
  /\ UNCHANGED <<dispatch, clearing, seen>>

(* releaseBatch without a version: the bulk route never sends one. *)
ReleaseBatch(b) == ReleaseRow(b)

(* releaseBatch with the version the approver's screen was loaded from. *)
ReleaseBatchAtVersion(c) == CarriesVersion(c) /\ ReleaseRow(seen[c].batch)

(* setBatchLifecycle.  Cancelling with returnMaterials reverses whatever   *)
(* the batch has issued; a batch whose stock went back stays cancelled as  *)
(* far as this handler goes.  A reversal that finds no item to take the    *)
(* stock back writes nothing: that is the step without returnMaterials.    *)
(* Finished goods go to quarantine whatever their status.                  *)
Returned(row) ==
  [row EXCEPT !.materials = IF @ = "issued" THEN "returned" ELSE @]

SetLifecycleRow(b, status, returnMaterials) ==
  /\ Editable(b) /\ CanBump(b)
  /\ batch[b].life = "cancelled" /\ batch[b].materials = "returned" => status = "cancelled"
  /\ batch' = [batch EXCEPT ![b] = Bump(WithLife(
                 IF status = "cancelled" /\ returnMaterials THEN Returned(@) ELSE @,
                 status))]
  /\ fg' = IF fg[b].status = "none" THEN fg
           ELSE [fg EXCEPT ![b] = WithStatus(@, "Quarantined")]
  /\ UNCHANGED <<dispatch, clearing, seen>>

SetLifecycleReleasedToo(b, status, returnMaterials) ==
  /\ Exists(b) /\ CanBump(b)
  /\ batch' = [batch EXCEPT ![b] = Bump(WithLife(@, status))]
  /\ fg' = IF fg[b].status = "none" THEN fg
           ELSE [fg EXCEPT ![b] = WithStatus(@, "Quarantined")]
  /\ UNCHANGED <<dispatch, clearing, seen>>

SetBatchLifecycle(b, status, returnMaterials) ==
  SetLifecycleRow(b, status, returnMaterials)

(* deleteBatch: the finished-goods row goes with it (ON DELETE CASCADE); a *)
(* dispatch row, voided or not, stops it (ON DELETE RESTRICT).             *)
DeleteLeavesDispatches(b) ==
  /\ Exists(b)
  /\ batch' = [batch EXCEPT ![b] = WithLife(@, "deleted")]
  /\ fg' = [fg EXCEPT ![b] = NoFg]
  /\ UNCHANGED <<dispatch, clearing, seen>>
DeleteBatch(b) ==
  /\ Exists(b)
  /\ \A d \in Dispatches : dispatch[d].batch # b
  /\ batch' = [batch EXCEPT ![b] = WithLife(@, "deleted")]
  /\ fg' = [fg EXCEPT ![b] = NoFg]
  /\ UNCHANGED <<dispatch, clearing, seen>>

(* The calendar passes the label's expiry date. *)
PassExpiry(b) ==
  /\ Exists(b) /\ batch[b].expiry = "ahead"
  /\ batch' = [batch EXCEPT ![b] = Expired(@)]
  /\ UNCHANGED <<fg, dispatch, clearing, seen>>

-----------------------------------------------------------------------------
(* The finished-goods row.                                                 *)

Remaining(g) == g.produced - g.dispatched
WithDispatched(g, n)  == [g EXCEPT !.dispatched = n]

(* The status the quantities imply: computeBackfillStatus, and the CASE of *)
(* setFinishedGoodsStatus.                                                 *)
ImpliedStatus(g) ==
  CASE g.dispatched <= 0 -> "Available"
    [] g.dispatched > 0 /\ Remaining(g) <= 0 -> "FullyDispatched"
    [] OTHER -> "PartiallyDispatched"

Backfilled(size, remaining) ==
  LET gone == size - remaining
      row  == [status |-> "none", produced |-> size, dispatched |-> gone,
               opening |-> gone]
  IN  WithStatus(row, ImpliedStatus(row))

BackfillFinishedGoods(b, remaining) ==
  /\ Exists(b) /\ fg[b].status = "none"
  /\ remaining <= batch[b].size
  /\ fg' = [fg EXCEPT ![b] = Backfilled(batch[b].size, remaining)]
  /\ UNCHANGED <<batch, dispatch, clearing, seen>>

(* setFinishedGoodsStatus(Cancelled) and (Available): what they check      *)
(* before the UPDATE cannot change in between (released is final).         *)
CancelFinishedGoods(b) ==
  /\ fg[b].status # "none"
  /\ fg' = [fg EXCEPT ![b] = WithStatus(@, "Cancelled")]
  /\ UNCHANGED <<batch, dispatch, clearing, seen>>

RestoreFinishedGoods(b) ==
  /\ fg[b].status # "none"
  /\ batch[b].life = "released"
  /\ fg' = [fg EXCEPT ![b] = WithStatus(@, ImpliedStatus(@))]
  /\ UNCHANGED <<batch, dispatch, clearing, seen>>

(* incrementDispatchedQuantity: one UPDATE guarded by the row it reads.    *)
IncrementableAnyQty(b, qty) ==
  /\ fg[b].status \notin {"none", "Cancelled"}
  /\ batch[b].life = "released" /\ batch[b].expiry # "past"
Incrementable(b, qty) ==
  /\ fg[b].status \notin {"none", "Cancelled"}
  /\ batch[b].life = "released" /\ batch[b].expiry # "past"
  /\ Remaining(fg[b]) >= qty

Incremented(g, qty) ==
  WithStatus(WithDispatched(g, g.dispatched + qty),
             IF Remaining(g) <= qty THEN "FullyDispatched" ELSE "PartiallyDispatched")

(* reverseDispatchedQuantity: a cancelled row does not match its WHERE.    *)
Reversible(g, qty) == g.status # "Cancelled" /\ g.dispatched >= qty

Reversed(g, qty) ==
  WithStatus(WithDispatched(g, g.dispatched - qty),
             IF g.dispatched <= qty THEN "Available" ELSE "PartiallyDispatched")

-----------------------------------------------------------------------------
(* Dispatches without an order line.  The customer the caller names is     *)
(* taken to be the batch's own, and the date of the dispatch to lie within *)
(* the batch's expiry: any other is refused before anything is written.    *)

WithQty(row, qty) == [row EXCEPT !.qty = qty]
Voided(row)       == [row EXCEPT !.state = "voided"]

CreateDispatch(d, b, qty) ==
  /\ dispatch[d].state = "unused"
  /\ Incrementable(b, qty)
  /\ fg' = [fg EXCEPT ![b] = Incremented(@, qty)]
  /\ dispatch' = [dispatch EXCEPT ![d] = [state |-> "live", batch |-> b, qty |-> qty]]
  /\ UNCHANGED <<batch, clearing, seen>>

(* A changed quantity moves the difference; a difference the row refuses   *)
(* rolls the edit back.                                                    *)
UpdateDispatch(d, qty) ==
  LET b     == dispatch[d].batch
      delta == qty - dispatch[d].qty IN
  /\ dispatch[d].state = "live" /\ delta # 0
  /\ fg[b].status # "Cancelled"
  /\ \/ /\ delta > 0
        /\ Incrementable(b, delta)
        /\ fg' = [fg EXCEPT ![b] = Incremented(@, delta)]
     \/ /\ delta < 0
        /\ Reversible(fg[b], -delta)
        /\ fg' = [fg EXCEPT ![b] = Reversed(@, -delta)]
  /\ dispatch' = [dispatch EXCEPT ![d] = WithQty(@, qty)]
  /\ UNCHANGED <<batch, clearing, seen>>

(* voidDispatch ignores whether the reversal matched a row.                *)
VoidDispatchAgain(d) ==
  LET b == dispatch[d].batch IN
  /\ dispatch[d].state \in {"live", "voided"}
  /\ fg' = IF Reversible(fg[b], dispatch[d].qty)
             THEN [fg EXCEPT ![b] = Reversed(@, dispatch[d].qty)] ELSE fg
  /\ dispatch' = [dispatch EXCEPT ![d] = Voided(@)]
  /\ UNCHANGED <<batch, clearing, seen>>
VoidDispatch(d) ==
  LET b == dispatch[d].batch IN
  /\ dispatch[d].state = "live"
  /\ fg' = IF Reversible(fg[b], dispatch[d].qty)
             THEN [fg EXCEPT ![b] = Reversed(@, dispatch[d].qty)] ELSE fg
  /\ dispatch' = [dispatch EXCEPT ![d] = Voided(@)]
  /\ UNCHANGED <<batch, clearing, seen>>

-----------------------------------------------------------------------------
Next ==
  \/ \E b \in Batches, kind \in {"Production", "Trial"},
        expiry \in {"missing", "ahead"}, size \in 1..MaxQty,
        materials \in {"none", "issued"} : CreateBatch(b, kind, expiry, size, materials)
  \/ \E c \in Clients, b \in Batches : ReadBatch(c, b)
  \/ \E c \in Clients : UpdateBatchMetadata(c)
  \/ \E b \in Batches, result \in {"pass", "fail"} : SaveCoaSnapshot(b, result)
  \/ \E c \in Clients, b \in Batches : ClearCoaCheck(c, b)
  \/ \E c \in Clients : ClearCoaWrite(c)
  \/ \E b \in Batches : ReleaseBatch(b)
  \/ \E c \in Clients : ReleaseBatchAtVersion(c)
  \/ \E b \in Batches, status \in {"on_hold", "rejected", "cancelled"},
        returnMaterials \in BOOLEAN : SetBatchLifecycle(b, status, returnMaterials)
  \/ \E b \in Batches : DeleteBatch(b)
  \/ \E b \in Batches : PassExpiry(b)
  \/ \E b \in Batches, remaining \in 0..MaxQty : BackfillFinishedGoods(b, remaining)
  \/ \E b \in Batches : CancelFinishedGoods(b)
  \/ \E b \in Batches : RestoreFinishedGoods(b)
  \/ \E d \in Dispatches, b \in Batches, qty \in 1..MaxQty : CreateDispatch(d, b, qty)
  \/ \E d \in Dispatches, qty \in 1..MaxQty : UpdateDispatch(d, qty)
  \/ \E d \in Dispatches : VoidDispatch(d)

Spec == Init /\ [][Next]_vars

-----------------------------------------------------------------------------
(* Properties.                                                             *)

(* Every row has the shape its table gives it. *)
TypeOK ==
  /\ batch \in [Batches -> BatchRow]
  /\ fg \in [Batches -> FgRow]
  /\ dispatch \in [Dispatches -> DispatchRow]
  /\ clearing \in [Clients -> Batches \cup {None}]
  /\ seen \in [Clients -> View \cup {None}]

(* However creations, edits and voids of dispatches interleave with        *)
(* cancelling, restoring and backfilling the stock, a batch never has a    *)
(* negative quantity dispatched nor more than it produced.                 *)
NoOversell ==
  \A b \in Batches : 0 <= fg[b].dispatched /\ fg[b].dispatched <= fg[b].produced

(* What left the building is a released production batch: no sequence of   *)
(* lifecycle changes, restores, edits or deletions leaves a live dispatch  *)
(* of a batch that is not.                                                 *)
ShippedOnlyReleased ==
  \A d \in Dispatches : dispatch[d].state = "live" =>
     /\ batch[dispatch[d].batch].life = "released"
     /\ batch[dispatch[d].batch].kind = "Production"

LiveQty(b) ==
  SumOver([d \in Dispatches |-> IF dispatch[d].state = "live" /\ dispatch[d].batch = b
                                THEN dispatch[d].qty ELSE 0], Dispatches)

(* The finished-goods row always accounts for every live dispatch of its   *)
(* batch, on top of what a backfill said was already gone.                 *)
ShipmentsAccounted ==
  \A b \in Batches : LiveQty(b) + fg[b].opening <= fg[b].dispatched

(* Stock on offer is stock of a released batch, unless the row was typed   *)
(* in by a backfill.                                                       *)
OnOfferOnlyReleased ==
  \A b \in Batches : fg[b].status \in Sellable /\ batch[b].origin = "system"
                       => batch[b].life = "released"

(* The status a row shows is the one its quantities imply, for stock the   *)
(* system has counted from production on.                                  *)
StatusFollowsQuantities ==
  \A b \in Batches : fg[b].status \in Sellable /\ batch[b].origin = "system"
                       => fg[b].status = ImpliedStatus(fg[b])

(* Release is final: until the row is deleted, nothing changes its         *)
(* lifecycle, version or size, nor swaps its CoA for another result.       *)
ReleasedIsFinal ==
  [][\A b \in Batches : batch[b].life = "released" =>
        \/ batch'[b].life = "deleted"
        \/ /\ batch'[b].life = "released"
           /\ batch'[b].version = batch[b].version
           /\ batch'[b].size = batch[b].size
           /\ batch'[b].coa \in {batch[b].coa, "none"}]_vars

(* A release that carries a version releases what its approver was looking *)
(* at: the same status and the same CoA, whatever ran since that read.     *)
ApprovedAsSeen ==
  [][\A c \in Clients : ReleaseBatchAtVersion(c) =>
        /\ batch[seen[c].batch].coa = seen[c].coa
        /\ batch[seen[c].batch].life = seen[c].life]_vars

(* "Released batch QC evidence is immutable": a released batch keeps the   *)
(* CoA it was released on.                                                 *)
ReleasedEvidenceKept ==
  [][\A b \in Batches : batch[b].life = "released" /\ batch'[b].life = "released"
        => batch'[b].coa = batch[b].coa]_vars
=============================================================================
