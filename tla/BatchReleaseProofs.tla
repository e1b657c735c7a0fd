------------------------- MODULE BatchReleaseProofs -------------------------
(* Proofs about BatchRelease, for any set of batches, dispatches and       *)
(* clients and any bounds: what is shipped is released, in stock and on    *)
(* the books of its batch, and a release is final.                         *)
EXTENDS BatchRelease, SumTheorems, TLAPS

-----------------------------------------------------------------------------
(* What the operators on rows change, and what they keep.                  *)

LEMMA BumpRow ==
  ASSUME NEW row \in BatchRow, row.version < MaxVersion
  PROVE  /\ Bump(row) \in BatchRow
         /\ Bump(row).version = row.version + 1
         /\ Bump(row).life = row.life
         /\ Bump(row).origin = row.origin
         /\ Bump(row).kind = row.kind
         /\ Bump(row).coa = row.coa
         /\ Bump(row).expiry = row.expiry
         /\ Bump(row).size = row.size
         /\ Bump(row).materials = row.materials
BY VersionAssumption DEF Bump, BatchRow

LEMMA WithLifeRow ==
  ASSUME NEW row \in BatchRow, NEW life \in Lives
  PROVE  /\ WithLife(row, life) \in BatchRow
         /\ WithLife(row, life).life = life
         /\ WithLife(row, life).version = row.version
         /\ WithLife(row, life).origin = row.origin
         /\ WithLife(row, life).kind = row.kind
         /\ WithLife(row, life).coa = row.coa
         /\ WithLife(row, life).expiry = row.expiry
         /\ WithLife(row, life).size = row.size
         /\ WithLife(row, life).materials = row.materials
BY DEF WithLife, BatchRow

LEMMA WithCoaRow ==
  ASSUME NEW row \in BatchRow, NEW result \in {"none", "pass", "fail"}
  PROVE  /\ WithCoa(row, result) \in BatchRow
         /\ WithCoa(row, result).coa = result
         /\ WithCoa(row, result).version = row.version
         /\ WithCoa(row, result).origin = row.origin
         /\ WithCoa(row, result).kind = row.kind
         /\ WithCoa(row, result).life = row.life
         /\ WithCoa(row, result).expiry = row.expiry
         /\ WithCoa(row, result).size = row.size
         /\ WithCoa(row, result).materials = row.materials
BY DEF WithCoa, BatchRow

LEMMA ExpiredRow ==
  ASSUME NEW row \in BatchRow
  PROVE  /\ Expired(row) \in BatchRow
         /\ Expired(row).version = row.version
         /\ Expired(row).origin = row.origin
         /\ Expired(row).kind = row.kind
         /\ Expired(row).life = row.life
         /\ Expired(row).coa = row.coa
         /\ Expired(row).size = row.size
         /\ Expired(row).materials = row.materials
BY DEF Expired, BatchRow

LEMMA ReturnedRow ==
  ASSUME NEW row \in BatchRow
  PROVE  /\ Returned(row) \in BatchRow
         /\ Returned(row).version = row.version
         /\ Returned(row).origin = row.origin
         /\ Returned(row).kind = row.kind
         /\ Returned(row).life = row.life
         /\ Returned(row).coa = row.coa
         /\ Returned(row).size = row.size
         /\ Returned(row).expiry = row.expiry
BY DEF Returned, BatchRow

LEMMA WithStatusRow ==
  ASSUME NEW g \in FgRow, NEW status \in FgStatuses
  PROVE  /\ WithStatus(g, status) \in FgRow
         /\ WithStatus(g, status).status = status
         /\ WithStatus(g, status).produced = g.produced
         /\ WithStatus(g, status).dispatched = g.dispatched
         /\ WithStatus(g, status).opening = g.opening
BY DEF WithStatus, FgRow

LEMMA WithDispatchedRow ==
  ASSUME NEW g \in FgRow, NEW n \in Int
  PROVE  /\ WithDispatched(g, n) \in FgRow
         /\ WithDispatched(g, n).dispatched = n
         /\ WithDispatched(g, n).produced = g.produced
         /\ WithDispatched(g, n).status = g.status
         /\ WithDispatched(g, n).opening = g.opening
BY DEF WithDispatched, FgRow

LEMMA IncrementedRow ==
  ASSUME NEW g \in FgRow, NEW qty \in Int
  PROVE  /\ Incremented(g, qty) \in FgRow
         /\ Incremented(g, qty).dispatched = g.dispatched + qty
         /\ Incremented(g, qty).produced = g.produced
         /\ Incremented(g, qty).opening = g.opening
         /\ Incremented(g, qty).status = IF g.produced - g.dispatched <= qty
                                         THEN "FullyDispatched" ELSE "PartiallyDispatched"
<1> DEFINE status == IF Remaining(g) <= qty THEN "FullyDispatched" ELSE "PartiallyDispatched"
           moved  == WithDispatched(g, g.dispatched + qty)
<1>1. g.dispatched + qty \in Int
  BY DEF FgRow
<1>2. /\ moved \in FgRow
      /\ moved.dispatched = g.dispatched + qty
      /\ moved.produced = g.produced
      /\ moved.opening = g.opening
  BY <1>1, WithDispatchedRow
<1>3. status \in FgStatuses
  BY DEF FgStatuses
<1>4. Incremented(g, qty) = WithStatus(moved, status)
  BY DEF Incremented
<1>5. status = IF g.produced - g.dispatched <= qty THEN "FullyDispatched" ELSE "PartiallyDispatched"
  BY DEF Remaining
<1> HIDE DEF moved, status
<1>6. /\ WithStatus(moved, status) \in FgRow
      /\ WithStatus(moved, status).status = status
      /\ WithStatus(moved, status).dispatched = moved.dispatched
      /\ WithStatus(moved, status).produced = moved.produced
      /\ WithStatus(moved, status).opening = moved.opening
  BY <1>2, <1>3, WithStatusRow
<1>7. QED
  BY <1>2, <1>4, <1>5, <1>6

LEMMA ReversedRow ==
  ASSUME NEW g \in FgRow, NEW qty \in Int
  PROVE  /\ Reversed(g, qty) \in FgRow
         /\ Reversed(g, qty).dispatched = g.dispatched - qty
         /\ Reversed(g, qty).produced = g.produced
         /\ Reversed(g, qty).opening = g.opening
         /\ Reversed(g, qty).status = IF g.dispatched <= qty
                                      THEN "Available" ELSE "PartiallyDispatched"
<1> DEFINE status == IF g.dispatched <= qty THEN "Available" ELSE "PartiallyDispatched"
           moved  == WithDispatched(g, g.dispatched - qty)
<1>1. g.dispatched - qty \in Int
  BY DEF FgRow
<1>2. /\ moved \in FgRow
      /\ moved.dispatched = g.dispatched - qty
      /\ moved.produced = g.produced
      /\ moved.opening = g.opening
  BY <1>1, WithDispatchedRow
<1>3. status \in FgStatuses
  BY DEF FgStatuses
<1>4. Reversed(g, qty) = WithStatus(moved, status)
  BY DEF Reversed
<1>5. status = IF g.dispatched <= qty THEN "Available" ELSE "PartiallyDispatched"
  BY DEF Remaining
<1> HIDE DEF moved, status
<1>6. /\ WithStatus(moved, status) \in FgRow
      /\ WithStatus(moved, status).status = status
      /\ WithStatus(moved, status).dispatched = moved.dispatched
      /\ WithStatus(moved, status).produced = moved.produced
      /\ WithStatus(moved, status).opening = moved.opening
  BY <1>2, <1>3, WithStatusRow
<1>7. QED
  BY <1>2, <1>4, <1>5, <1>6

LEMMA ImpliedSellable ==
  ASSUME NEW g \in FgRow
  PROVE  /\ ImpliedStatus(g) \in Sellable
         /\ ImpliedStatus(g) \in FgStatuses
BY DEF ImpliedStatus, Remaining, FgRow, FgStatuses, Sellable

LEMMA BackfilledRow ==
  ASSUME NEW size \in 1..MaxQty, NEW remaining \in 0..MaxQty, remaining <= size
  PROVE  /\ Backfilled(size, remaining) \in FgRow
         /\ Backfilled(size, remaining).produced = size
         /\ Backfilled(size, remaining).dispatched = size - remaining
         /\ Backfilled(size, remaining).opening = size - remaining
         /\ Backfilled(size, remaining).status \in Sellable
<1> DEFINE row == [status |-> "none", produced |-> size, dispatched |-> size - remaining,
                   opening |-> size - remaining]
<1>1. row \in FgRow
  BY QtyAssumption DEF FgRow
<1>2. /\ row.produced = size
      /\ row.dispatched = size - remaining
      /\ row.opening = size - remaining
  OBVIOUS
<1>3. Backfilled(size, remaining) = WithStatus(row, ImpliedStatus(row))
  BY DEF Backfilled
<1>4. ImpliedStatus(row) \in FgStatuses /\ ImpliedStatus(row) \in Sellable
  BY <1>1, ImpliedSellable
<1> HIDE DEF row
<1>5. QED
  BY <1>1, <1>2, <1>3, <1>4, WithStatusRow

LEMMA VoidedRow ==
  ASSUME NEW row \in DispatchRow
  PROVE  /\ Voided(row) \in DispatchRow
         /\ Voided(row).state = "voided"
         /\ Voided(row).batch = row.batch
         /\ Voided(row).qty = row.qty
BY DEF Voided, DispatchRow

LEMMA WithQtyRow ==
  ASSUME NEW row \in DispatchRow, NEW qty \in 0..MaxQty
  PROVE  /\ WithQty(row, qty) \in DispatchRow
         /\ WithQty(row, qty).state = row.state
         /\ WithQty(row, qty).batch = row.batch
         /\ WithQty(row, qty).qty = qty
BY DEF WithQty, DispatchRow

-----------------------------------------------------------------------------
(* The inductive invariant.                                                *)

(* A dispatch that was made names a batch and a positive quantity. *)
DispatchNamed ==
  \A d \in Dispatches : dispatch[d].state # "unused"
                          => dispatch[d].batch \in Batches /\ dispatch[d].qty >= 1

(* A trial batch is never released. *)
ReleasedProduction ==
  \A b \in Batches : batch[b].life = "released" => batch[b].kind = "Production"

(* createBatch writes the finished-goods row in its own transaction. *)
SystemStocked ==
  \A b \in Batches : batch[b].origin = "system" /\ Exists(b) => fg[b].status # "none"

(* Nothing the system made leaves before its release. *)
UnreleasedKept ==
  \A b \in Batches : batch[b].origin = "system" /\ batch[b].life # "released"
                       => fg[b].dispatched = 0

(* While the version a client read is the row's, so are the status and the *)
(* CoA it read, but for a CoA that clearCoaSnapshot took away.             *)
SeenCurrent ==
  \A c \in Clients : seen[c] # None =>
     LET row == batch[seen[c].batch] IN
     /\ row.life # "absent"
     /\ seen[c].version <= row.version
     /\ seen[c].version = row.version /\ row.life # "deleted" =>
          row.life = seen[c].life /\ row.coa \in {seen[c].coa, "none"}

IInv == /\ TypeOK
        /\ NoOversell
        /\ DispatchNamed
        /\ ReleasedProduction
        /\ ShippedOnlyReleased
        /\ SystemStocked
        /\ UnreleasedKept
        /\ OnOfferOnlyReleased
        /\ StatusFollowsQuantities
        /\ SeenCurrent

(* An edit of one batch row that keeps its status, kind, origin and size,  *)
(* and moves the version unless it only takes the CoA away.                *)
LEMMA RowEdit ==
  ASSUME IInv, NEW b \in Batches, NEW row \in BatchRow,
         Exists(b),
         row.life = batch[b].life, row.origin = batch[b].origin, row.kind = batch[b].kind,
         \/ row.version = batch[b].version + 1
         \/ row.version = batch[b].version /\ row.coa \in {batch[b].coa, "none"},
         batch' = [batch EXCEPT ![b] = row],
         UNCHANGED <<fg, dispatch, seen>>,
         clearing' \in [Clients -> Batches \cup {None}]
  PROVE  IInv'
<1>1. TypeOK'
  BY DEF IInv, TypeOK
<1>2. \A x \in Batches : /\ batch'[x].life = batch[x].life
                         /\ batch'[x].origin = batch[x].origin
                         /\ batch'[x].kind = batch[x].kind
                         /\ batch'[x].version >= batch[x].version
                         /\ batch'[x].version = batch[x].version =>
                              batch'[x].coa \in {batch[x].coa, "none"}
  BY DEF IInv, TypeOK, BatchRow
<1>3. SeenCurrent'
  <2> SUFFICES ASSUME NEW c \in Clients, seen[c] # None
               PROVE  LET r == batch'[seen[c].batch] IN
                      /\ r.life # "absent"
                      /\ seen[c].version <= r.version
                      /\ seen[c].version = r.version /\ r.life # "deleted" =>
                           r.life = seen[c].life /\ r.coa \in {seen[c].coa, "none"}
    BY DEF SeenCurrent
  <2>1. /\ seen[c].batch \in Batches
        /\ seen[c].version \in Nat
    BY DEF IInv, TypeOK, View
  <2>2. /\ batch[seen[c].batch].version \in Nat
        /\ batch'[seen[c].batch].version \in Nat
    BY <1>1, <2>1 DEF IInv, TypeOK, BatchRow
  <2>3. QED
    BY <1>2, <2>1, <2>2 DEF IInv, SeenCurrent
<1>4. NoOversell' /\ DispatchNamed'
  BY DEF IInv, NoOversell, DispatchNamed
<1>5. ReleasedProduction' /\ ShippedOnlyReleased'
  BY <1>2 DEF IInv, ReleasedProduction, ShippedOnlyReleased, DispatchNamed
<1>6. SystemStocked' /\ UnreleasedKept'
  BY <1>2 DEF IInv, SystemStocked, UnreleasedKept, Exists
<1>7. OnOfferOnlyReleased'
  BY <1>2 DEF IInv, OnOfferOnlyReleased
<1>8. StatusFollowsQuantities'
  BY <1>2 DEF IInv, StatusFollowsQuantities
<1>9. QED
  BY <1>1, <1>3, <1>4, <1>5, <1>6, <1>7, <1>8 DEF IInv

(* A change of one finished-goods row, with whatever it does to dispatches. *)
LEMMA StockEdit ==
  ASSUME IInv, NEW b \in Batches, NEW g \in FgRow,
         g.status # "none",
         0 <= g.dispatched, g.dispatched <= g.produced,
         batch[b].origin = "system" /\ batch[b].life # "released" =>
           g.dispatched = 0 /\ g.status \notin Sellable,
         batch[b].origin = "system" /\ g.status \in Sellable => g.status = ImpliedStatus(g),
         fg' = [fg EXCEPT ![b] = g],
         UNCHANGED <<batch, clearing, seen>>,
         dispatch' \in [Dispatches -> DispatchRow],
         DispatchNamed', ShippedOnlyReleased'
  PROVE  IInv'
<1>1. TypeOK'
  BY DEF IInv, TypeOK
<1>2. NoOversell'
  BY DEF IInv, TypeOK, NoOversell
<1>3. ReleasedProduction' /\ SeenCurrent'
  BY DEF IInv, ReleasedProduction, SeenCurrent
<1>4. SystemStocked'
  BY DEF IInv, TypeOK, SystemStocked, Exists
<1>5. UnreleasedKept' /\ OnOfferOnlyReleased'
  BY DEF IInv, TypeOK, UnreleasedKept, OnOfferOnlyReleased
<1>6. StatusFollowsQuantities'
  BY DEF IInv, TypeOK, StatusFollowsQuantities
<1>7. QED
  BY <1>1, <1>2, <1>3, <1>4, <1>5, <1>6 DEF IInv

-----------------------------------------------------------------------------
(* Each action preserves the invariant.                                    *)

LEMMA CreateBatchStep ==
  ASSUME IInv, NEW b \in Batches, NEW kind \in {"Production", "Trial"},
         NEW expiry \in {"missing", "ahead"}, NEW size \in 1..MaxQty,
         NEW materials \in {"none", "issued"},
         CreateBatch(b, kind, expiry, size, materials)
  PROVE  IInv'
<1> DEFINE row   == [life |-> "awaiting_qc", origin |-> "system", kind |-> kind,
                     coa |-> "none", expiry |-> expiry, size |-> size, version |-> 1,
                     materials |-> materials]
           stock == [status |-> "Quarantined", produced |-> size,
                     dispatched |-> 0, opening |-> 0]
<1>1. TypeOK'
  <2>1. row \in BatchRow
    BY VersionAssumption DEF BatchRow, Lives
  <2>2. stock \in FgRow
    BY QtyAssumption DEF FgRow, FgStatuses
  <2>3. /\ batch' = [batch EXCEPT ![b] = row]
        /\ fg' = [fg EXCEPT ![b] = stock]
        /\ UNCHANGED <<dispatch, clearing, seen>>
    BY DEF CreateBatch
  <2> HIDE DEF row, stock
  <2>4. QED
    BY <2>1, <2>2, <2>3 DEF IInv, TypeOK
<1>2. /\ batch[b].life = "absent"
      /\ batch'[b].life = "awaiting_qc"
      /\ fg'[b].status = "Quarantined"
      /\ fg'[b].dispatched = 0
      /\ fg'[b].produced = size
      /\ \A x \in Batches \ {b} : batch'[x] = batch[x] /\ fg'[x] = fg[x]
      /\ UNCHANGED <<dispatch, clearing, seen>>
  BY DEF IInv, CreateBatch, TypeOK
<1>3. NoOversell'
  BY <1>2 DEF IInv, NoOversell
<1>4. DispatchNamed' /\ ReleasedProduction'
  BY <1>2 DEF IInv, DispatchNamed, ReleasedProduction
<1>5. ShippedOnlyReleased'
  <2> SUFFICES ASSUME NEW d \in Dispatches, dispatch[d].state = "live"
               PROVE  /\ batch'[dispatch[d].batch].life = "released"
                      /\ batch'[dispatch[d].batch].kind = "Production"
    BY <1>2 DEF ShippedOnlyReleased
  <2>1. dispatch[d].batch \in Batches \ {b}
    BY <1>2 DEF IInv, DispatchNamed, ShippedOnlyReleased
  <2>2. QED
    BY <1>2, <2>1 DEF IInv, ShippedOnlyReleased
<1>6. SystemStocked' /\ UnreleasedKept'
  BY <1>2 DEF IInv, SystemStocked, UnreleasedKept, Exists
<1>7. OnOfferOnlyReleased' /\ StatusFollowsQuantities'
  BY <1>2 DEF IInv, OnOfferOnlyReleased, StatusFollowsQuantities, Sellable
<1>8. SeenCurrent'
  BY <1>2 DEF IInv, TypeOK, View, SeenCurrent
<1>9. QED
  BY <1>1, <1>3, <1>4, <1>5, <1>6, <1>7, <1>8 DEF IInv

LEMMA ReadBatchStep ==
  ASSUME IInv, NEW c \in Clients, NEW b \in Batches, ReadBatch(c, b)
  PROVE  IInv'
<1>1. TypeOK'
  <2>1. [batch |-> b, version |-> batch[b].version, life |-> batch[b].life,
         coa |-> batch[b].coa] \in View
    BY DEF IInv, TypeOK, BatchRow, View
  <2>2. QED
    BY <2>1 DEF IInv, ReadBatch, TypeOK
<1>2. SeenCurrent'
  BY <1>1 DEF IInv, ReadBatch, TypeOK, BatchRow, View, SeenCurrent, Exists
<1>3. QED
  BY <1>1, <1>2
  DEF IInv, ReadBatch, NoOversell, DispatchNamed, ReleasedProduction, ShippedOnlyReleased,
      SystemStocked, UnreleasedKept, OnOfferOnlyReleased, StatusFollowsQuantities, Exists

LEMMA UpdateBatchMetadataStep ==
  ASSUME IInv, NEW c \in Clients, UpdateBatchMetadata(c)
  PROVE  IInv'
<1> DEFINE b == seen[c].batch
<1>1. b \in Batches /\ Exists(b) /\ batch[b].version < MaxVersion
  BY DEF IInv, TypeOK, View, UpdateBatchMetadata, CarriesVersion, CanBump
<1>2. batch[b] \in BatchRow
  BY <1>1 DEF IInv, TypeOK
<1>3. QED
  BY <1>1, <1>2, BumpRow, RowEdit DEF UpdateBatchMetadata, IInv, TypeOK

LEMMA SaveCoaSnapshotStep ==
  ASSUME IInv, NEW b \in Batches, NEW result \in {"pass", "fail"}, SaveCoaSnapshot(b, result)
  PROVE  IInv'
<1> DEFINE row == WithCoa(batch[b], result)
<1>1. Exists(b) /\ batch[b].version < MaxVersion /\ batch[b] \in BatchRow
  BY DEF IInv, TypeOK, SaveCoaSnapshot, Editable, CanBump
<1>2. /\ row \in BatchRow
      /\ row.version = batch[b].version /\ row.life = batch[b].life
      /\ row.origin = batch[b].origin /\ row.kind = batch[b].kind
  BY <1>1, WithCoaRow
<1>3. batch' = [batch EXCEPT ![b] = Bump(row)] /\ UNCHANGED <<fg, dispatch, clearing, seen>>
  BY DEF SaveCoaSnapshot
<1> HIDE DEF row
<1>4. QED
  BY <1>1, <1>2, <1>3, BumpRow, RowEdit DEF IInv, TypeOK

LEMMA ClearCoaStep ==
  ASSUME IInv, NEW c \in Clients,
         ClearCoaWrite(c) \/ \E b \in Batches : ClearCoaCheck(c, b)
  PROVE  IInv'
<1>1. CASE \E b \in Batches : ClearCoaCheck(c, b)
  BY <1>1
  DEF ClearCoaCheck, IInv, TypeOK, NoOversell, DispatchNamed, ReleasedProduction,
      ShippedOnlyReleased, SystemStocked, UnreleasedKept, OnOfferOnlyReleased,
      StatusFollowsQuantities, SeenCurrent, Exists
<1>2. CASE ClearCoaWrite(c)
  <2> DEFINE b == clearing[c]
  <2>1. b \in Batches /\ batch[b] \in BatchRow
    BY <1>2 DEF ClearCoaWrite, IInv, TypeOK
  <2>2. clearing' \in [Clients -> Batches \cup {None}]
    BY <1>2 DEF ClearCoaWrite, IInv, TypeOK
  <2>3. CASE Exists(b)
    BY <1>2, <2>1, <2>2, <2>3, WithCoaRow, RowEdit DEF ClearCoaWrite
  <2>4. CASE ~Exists(b)
    BY <1>2, <2>2, <2>4
    DEF ClearCoaWrite, IInv, TypeOK, NoOversell, DispatchNamed, ReleasedProduction,
        ShippedOnlyReleased, SystemStocked, UnreleasedKept, OnOfferOnlyReleased,
        StatusFollowsQuantities, SeenCurrent, Exists
  <2>5. QED
    BY <2>3, <2>4
<1>3. QED
  BY <1>1, <1>2

LEMMA PassExpiryStep ==
  ASSUME IInv, NEW b \in Batches, PassExpiry(b)
  PROVE  IInv'
<1>1. batch[b] \in BatchRow
  BY DEF IInv, TypeOK
<1>2. QED
  BY <1>1, ExpiredRow, RowEdit DEF PassExpiry, IInv, TypeOK

LEMMA ReleaseRowStep ==
  ASSUME IInv, NEW b \in Batches, ReleaseRow(b)
  PROVE  IInv'
<1> DEFINE row == WithLife(batch[b], "released")
<1>1. /\ batch[b] \in BatchRow /\ fg[b] \in FgRow
      /\ batch[b].version < MaxVersion
      /\ batch[b].life # "released" /\ Exists(b)
      /\ batch[b].kind = "Production"
  BY DEF IInv, TypeOK, ReleaseRow, CanBump, Editable, Releasable
<1>2. /\ row \in BatchRow
      /\ row.life = "released"
      /\ row.version = batch[b].version
      /\ row.origin = batch[b].origin
      /\ row.kind = batch[b].kind
      /\ row.coa = batch[b].coa
  BY <1>1, WithLifeRow DEF Lives
<1>3. /\ batch' = [batch EXCEPT ![b] = Bump(row)]
      /\ UNCHANGED <<dispatch, clearing, seen>>
  BY DEF ReleaseRow
<1>4. /\ Bump(row) \in BatchRow
      /\ Bump(row).life = "released"
      /\ Bump(row).version = batch[b].version + 1
      /\ Bump(row).origin = batch[b].origin
      /\ Bump(row).kind = "Production"
  BY <1>1, <1>2, BumpRow
<1> HIDE DEF row
<1>5. /\ fg' \in [Batches -> FgRow]
      /\ \A x \in Batches : /\ fg'[x].dispatched = fg[x].dispatched
                            /\ fg'[x].produced = fg[x].produced
      /\ \A x \in Batches \ {b} : fg'[x] = fg[x]
      /\ fg[b].status = "Quarantined" => fg'[b].status = "Available"
      /\ fg[b].status # "Quarantined" => fg'[b].status = fg[b].status
  <2>1. "Available" \in FgStatuses
    BY DEF FgStatuses
  <2>2. QED
    BY <1>1, <2>1, WithStatusRow DEF ReleaseRow, IInv, TypeOK
<1>6. TypeOK'
  BY <1>3, <1>4, <1>5 DEF IInv, TypeOK
<1>7. NoOversell' /\ DispatchNamed'
  BY <1>3, <1>5 DEF IInv, NoOversell, DispatchNamed
<1>8. ReleasedProduction' /\ ShippedOnlyReleased'
  BY <1>3, <1>4
  DEF IInv, TypeOK, ReleasedProduction, ShippedOnlyReleased, DispatchNamed
<1>9. SystemStocked' /\ UnreleasedKept'
  BY <1>1, <1>3, <1>4, <1>5 DEF IInv, TypeOK, SystemStocked, UnreleasedKept, Exists
<1>10. OnOfferOnlyReleased'
  BY <1>3, <1>4, <1>5 DEF IInv, TypeOK, OnOfferOnlyReleased
<1>11. StatusFollowsQuantities'
  <2> SUFFICES ASSUME NEW x \in Batches, fg'[x].status \in Sellable,
                      batch'[x].origin = "system"
               PROVE  fg'[x].status = ImpliedStatus(fg'[x])
    BY DEF StatusFollowsQuantities
  <2>1. CASE x # b
    BY <1>3, <1>5, <2>1 DEF IInv, TypeOK, StatusFollowsQuantities
  <2>2. CASE x = b /\ fg[b].status = "Quarantined"
    <3>1. fg'[b].dispatched = 0
      BY <1>1, <1>3, <1>4, <1>5, <2>2 DEF IInv, TypeOK, UnreleasedKept
    <3>2. QED
      BY <1>5, <2>2, <3>1 DEF ImpliedStatus
  <2>3. CASE x = b /\ fg[b].status # "Quarantined"
    BY <1>1, <1>3, <1>4, <1>5, <2>3 DEF IInv, TypeOK, OnOfferOnlyReleased
  <2>4. QED
    BY <2>1, <2>2, <2>3
<1>12. SeenCurrent'
  BY <1>1, <1>3, <1>4 DEF IInv, TypeOK, BatchRow, View, SeenCurrent
<1>13. QED
  BY <1>6, <1>7, <1>8, <1>9, <1>10, <1>11, <1>12 DEF IInv

LEMMA SetLifecycleRowStep ==
  ASSUME IInv, NEW b \in Batches, NEW status \in {"on_hold", "rejected", "cancelled"},
         NEW returnMaterials \in BOOLEAN, SetLifecycleRow(b, status, returnMaterials)
  PROVE  IInv'
<1> DEFINE kept == IF status = "cancelled" /\ returnMaterials THEN Returned(batch[b])
                                                             ELSE batch[b]
           row  == WithLife(kept, status)
<1>1. /\ batch[b] \in BatchRow /\ fg[b] \in FgRow
      /\ batch[b].version < MaxVersion
      /\ batch[b].life # "released" /\ Exists(b)
  BY DEF IInv, TypeOK, SetLifecycleRow, CanBump, Editable
<1>2. /\ kept \in BatchRow
      /\ kept.version = batch[b].version
      /\ kept.origin = batch[b].origin
      /\ kept.kind = batch[b].kind
  BY <1>1, ReturnedRow
<1>3. batch' = [batch EXCEPT ![b] = Bump(row)] /\ UNCHANGED <<dispatch, clearing, seen>>
  BY DEF SetLifecycleRow
<1> HIDE DEF kept
<1>4. /\ row \in BatchRow
      /\ row.life = status
      /\ row.version = batch[b].version
      /\ row.origin = batch[b].origin
      /\ row.kind = batch[b].kind
  BY <1>2, WithLifeRow DEF Lives
<1> HIDE DEF row
<1>5. /\ Bump(row) \in BatchRow
      /\ Bump(row).life = status
      /\ Bump(row).version = batch[b].version + 1
      /\ Bump(row).origin = batch[b].origin
      /\ Bump(row).kind = batch[b].kind
  BY <1>1, <1>4, BumpRow
<1>6. /\ fg' \in [Batches -> FgRow]
      /\ \A x \in Batches : /\ fg'[x].dispatched = fg[x].dispatched
                            /\ fg'[x].produced = fg[x].produced
      /\ \A x \in Batches \ {b} : fg'[x] = fg[x]
      /\ fg[b].status = "none" => fg'[b].status = "none"
      /\ fg[b].status # "none" => fg'[b].status = "Quarantined"
  <2>1. "Quarantined" \in FgStatuses
    BY DEF FgStatuses
  <2>2. QED
    BY <1>1, <2>1, WithStatusRow DEF SetLifecycleRow, IInv, TypeOK
<1>7. TypeOK'
  BY <1>3, <1>5, <1>6 DEF IInv, TypeOK
<1>8. NoOversell' /\ DispatchNamed'
  BY <1>3, <1>6 DEF IInv, NoOversell, DispatchNamed
<1>9. ReleasedProduction' /\ ShippedOnlyReleased'
  BY <1>1, <1>3, <1>5
  DEF IInv, TypeOK, ReleasedProduction, ShippedOnlyReleased, DispatchNamed
<1>10. SystemStocked' /\ UnreleasedKept'
  BY <1>1, <1>3, <1>5, <1>6 DEF IInv, TypeOK, SystemStocked, UnreleasedKept, Exists
<1>11. OnOfferOnlyReleased' /\ StatusFollowsQuantities'
  BY <1>1, <1>3, <1>5, <1>6
  DEF IInv, TypeOK, OnOfferOnlyReleased, StatusFollowsQuantities, Sellable
<1>12. SeenCurrent'
  BY <1>1, <1>3, <1>5 DEF IInv, TypeOK, BatchRow, View, SeenCurrent
<1>13. QED
  BY <1>7, <1>8, <1>9, <1>10, <1>11, <1>12 DEF IInv

LEMMA DeleteBatchStep ==
  ASSUME IInv, NEW b \in Batches, DeleteBatch(b)
  PROVE  IInv'
<1> DEFINE row == WithLife(batch[b], "deleted")
<1>1. batch[b] \in BatchRow /\ Exists(b)
  BY DEF IInv, TypeOK, DeleteBatch
<1>2. /\ row \in BatchRow
      /\ row.life = "deleted"
      /\ row.version = batch[b].version
      /\ row.origin = batch[b].origin
  BY <1>1, WithLifeRow DEF Lives
<1>3. /\ batch' = [batch EXCEPT ![b] = row]
      /\ fg' = [fg EXCEPT ![b] = NoFg]
      /\ \A d \in Dispatches : dispatch[d].batch # b
      /\ UNCHANGED <<dispatch, clearing, seen>>
  BY DEF DeleteBatch
<1> HIDE DEF row
<1>4. NoFg \in FgRow /\ NoFg.status = "none" /\ NoFg.dispatched = 0 /\ NoFg.produced = 0
  BY QtyAssumption DEF NoFg, FgRow
<1>5. TypeOK'
  BY <1>2, <1>3, <1>4 DEF IInv, TypeOK
<1>6. NoOversell' /\ DispatchNamed'
  BY <1>3, <1>4 DEF IInv, TypeOK, NoOversell, DispatchNamed
<1>7. ReleasedProduction' /\ ShippedOnlyReleased'
  BY <1>2, <1>3 DEF IInv, TypeOK, ReleasedProduction, ShippedOnlyReleased, DispatchNamed
<1>8. SystemStocked' /\ UnreleasedKept'
  BY <1>2, <1>3, <1>4 DEF IInv, TypeOK, SystemStocked, UnreleasedKept, Exists
<1>9. OnOfferOnlyReleased' /\ StatusFollowsQuantities'
  BY <1>2, <1>3, <1>4
  DEF IInv, TypeOK, OnOfferOnlyReleased, StatusFollowsQuantities, Sellable
<1>10. SeenCurrent'
  BY <1>2, <1>3 DEF IInv, TypeOK, View, SeenCurrent
<1>11. QED
  BY <1>5, <1>6, <1>7, <1>8, <1>9, <1>10 DEF IInv

LEMMA BackfillStep ==
  ASSUME IInv, NEW b \in Batches, NEW remaining \in 0..MaxQty,
         BackfillFinishedGoods(b, remaining)
  PROVE  IInv'
<1> DEFINE g == Backfilled(batch[b].size, remaining)
<1>1. /\ batch[b].size \in 1..MaxQty /\ remaining <= batch[b].size
      /\ batch[b].origin # "system"
  BY DEF IInv, TypeOK, BatchRow, BackfillFinishedGoods, SystemStocked
<1>2. /\ g \in FgRow
      /\ g.produced = batch[b].size
      /\ g.dispatched = batch[b].size - remaining
      /\ g.status # "none"
  BY <1>1, BackfilledRow DEF Sellable
<1>3. 0 <= g.dispatched /\ g.dispatched <= g.produced
  BY <1>1, <1>2
<1>4. fg' = [fg EXCEPT ![b] = g] /\ UNCHANGED <<batch, dispatch, clearing, seen>>
  BY DEF BackfillFinishedGoods
<1>5. /\ dispatch' \in [Dispatches -> DispatchRow]
      /\ DispatchNamed' /\ ShippedOnlyReleased'
  BY <1>4 DEF IInv, TypeOK, DispatchNamed, ShippedOnlyReleased
<1> HIDE DEF g
<1>6. QED
  BY <1>1, <1>2, <1>3, <1>4, <1>5, StockEdit

LEMMA SetFinishedGoodsStatusStep ==
  ASSUME IInv, NEW b \in Batches, CancelFinishedGoods(b) \/ RestoreFinishedGoods(b)
  PROVE  IInv'
<1>1. fg[b] \in FgRow /\ 0 <= fg[b].dispatched /\ fg[b].dispatched <= fg[b].produced
  BY DEF IInv, TypeOK, NoOversell
<1>2. UNCHANGED <<batch, dispatch, clearing, seen>>
  BY DEF CancelFinishedGoods, RestoreFinishedGoods
<1>3. /\ dispatch' \in [Dispatches -> DispatchRow]
      /\ DispatchNamed' /\ ShippedOnlyReleased'
  BY <1>2 DEF IInv, TypeOK, DispatchNamed, ShippedOnlyReleased
<1>4. CASE CancelFinishedGoods(b)
  <2> DEFINE g == WithStatus(fg[b], "Cancelled")
  <2>1. /\ g \in FgRow /\ g.status = "Cancelled"
        /\ g.dispatched = fg[b].dispatched /\ g.produced = fg[b].produced
    BY <1>1, WithStatusRow DEF FgStatuses
  <2>2. batch[b].origin = "system" /\ batch[b].life # "released" => g.dispatched = 0
    BY <2>1 DEF IInv, UnreleasedKept
  <2>3. fg' = [fg EXCEPT ![b] = g]
    BY <1>4 DEF CancelFinishedGoods
  <2> HIDE DEF g
  <2>4. g.status \notin Sellable /\ g.status # "none"
    BY <2>1 DEF Sellable
  <2>5. QED
    BY <1>1, <1>2, <1>3, <2>1, <2>2, <2>3, <2>4, StockEdit
<1>5. CASE RestoreFinishedGoods(b)
  <2> DEFINE g == WithStatus(fg[b], ImpliedStatus(fg[b]))
  <2>1. ImpliedStatus(fg[b]) \in FgStatuses
    BY <1>1, ImpliedSellable
  <2>2. /\ g \in FgRow /\ g.status = ImpliedStatus(fg[b])
        /\ g.dispatched = fg[b].dispatched /\ g.produced = fg[b].produced
    BY <1>1, <2>1, WithStatusRow
  <2>3. fg' = [fg EXCEPT ![b] = g] /\ batch[b].life = "released"
    BY <1>5 DEF RestoreFinishedGoods
  <2> HIDE DEF g
  <2>4. g.status = ImpliedStatus(g) /\ g.status # "none"
    BY <2>2 DEF ImpliedStatus, Remaining
  <2>5. QED
    BY <1>1, <1>2, <1>3, <2>2, <2>3, <2>4, StockEdit
<1>6. QED
  BY <1>4, <1>5

(* A quantity drawn from a released batch, or given back to one. *)
LEMMA Moved ==
  ASSUME IInv, NEW b \in Batches, NEW g \in FgRow, NEW qty \in 1..MaxQty,
         batch[b].life = "released",
         \/ Incrementable(b, qty) /\ g = Incremented(fg[b], qty)
         \/ Reversible(fg[b], qty) /\ g = Reversed(fg[b], qty),
         fg' = [fg EXCEPT ![b] = g],
         UNCHANGED <<batch, clearing, seen>>,
         dispatch' \in [Dispatches -> DispatchRow],
         DispatchNamed', ShippedOnlyReleased'
  PROVE  IInv'
<1>1. /\ fg[b] \in FgRow
      /\ fg[b].dispatched \in Int /\ fg[b].produced \in Int
      /\ 0 <= fg[b].dispatched /\ fg[b].dispatched <= fg[b].produced
      /\ qty \in Int /\ qty >= 1
  BY QtyAssumption DEF IInv, TypeOK, NoOversell, FgRow
<1>2. CASE Incrementable(b, qty) /\ g = Incremented(fg[b], qty)
  <2>1. /\ g.dispatched = fg[b].dispatched + qty
        /\ g.produced = fg[b].produced
        /\ g.status = IF fg[b].produced - fg[b].dispatched <= qty
                      THEN "FullyDispatched" ELSE "PartiallyDispatched"
    BY <1>1, <1>2, IncrementedRow
  <2>2. 0 <= g.dispatched /\ g.dispatched <= g.produced
    BY <1>1, <1>2, <2>1 DEF Incrementable, Remaining
  <2>3. g.status = ImpliedStatus(g) /\ g.status # "none"
    BY <1>1, <2>1 DEF ImpliedStatus, Remaining
  <2>4. QED
    BY <2>2, <2>3, StockEdit
<1>3. CASE Reversible(fg[b], qty) /\ g = Reversed(fg[b], qty)
  <2>1. /\ g.dispatched = fg[b].dispatched - qty
        /\ g.produced = fg[b].produced
        /\ g.status = IF fg[b].dispatched <= qty
                      THEN "Available" ELSE "PartiallyDispatched"
    BY <1>1, <1>3, ReversedRow
  <2>2. 0 <= g.dispatched /\ g.dispatched <= g.produced
    BY <1>1, <1>3, <2>1 DEF Reversible
  <2>3. g.status = ImpliedStatus(g) /\ g.status # "none"
    BY <1>1, <2>1 DEF ImpliedStatus, Remaining
  <2>4. QED
    BY <2>2, <2>3, StockEdit
<1>4. QED
  BY <1>2, <1>3

LEMMA CreateDispatchStep ==
  ASSUME IInv, NEW d \in Dispatches, NEW b \in Batches, NEW qty \in 1..MaxQty,
         CreateDispatch(d, b, qty)
  PROVE  IInv'
<1> DEFINE row == [state |-> "live", batch |-> b, qty |-> qty]
           g   == Incremented(fg[b], qty)
<1>1. /\ Incrementable(b, qty)
      /\ fg' = [fg EXCEPT ![b] = g]
      /\ dispatch' = [dispatch EXCEPT ![d] = row]
      /\ UNCHANGED <<batch, clearing, seen>>
  BY DEF CreateDispatch
<1>2. row \in DispatchRow /\ row.batch = b /\ row.qty = qty
  BY QtyAssumption DEF DispatchRow
<1>3. batch[b].life = "released" /\ batch[b].kind = "Production"
  BY <1>1 DEF Incrementable, IInv, ReleasedProduction
<1>4. g \in FgRow
  BY IncrementedRow, QtyAssumption DEF IInv, TypeOK
<1> HIDE DEF row, g
<1>5. dispatch' \in [Dispatches -> DispatchRow]
  BY <1>1, <1>2 DEF IInv, TypeOK
<1>6. DispatchNamed' /\ ShippedOnlyReleased'
  BY <1>1, <1>2, <1>3, QtyAssumption
  DEF IInv, TypeOK, DispatchNamed, ShippedOnlyReleased
<1>7. QED
  BY <1>1, <1>3, <1>4, <1>5, <1>6, Moved DEF g

LEMMA UpdateDispatchStep ==
  ASSUME IInv, NEW d \in Dispatches, NEW qty \in 1..MaxQty, UpdateDispatch(d, qty)
  PROVE  IInv'
<1> DEFINE b   == dispatch[d].batch
           old == dispatch[d].qty
           row == WithQty(dispatch[d], qty)
<1>1. /\ dispatch[d] \in DispatchRow /\ dispatch[d].state = "live"
      /\ b \in Batches /\ old \in 1..MaxQty
      /\ fg[b] \in FgRow
      /\ batch[b].life = "released" /\ batch[b].kind = "Production"
      /\ dispatch' = [dispatch EXCEPT ![d] = row]
      /\ UNCHANGED <<batch, clearing, seen>>
  BY DEF IInv, TypeOK, DispatchRow, DispatchNamed, ShippedOnlyReleased, UpdateDispatch
<1>2. row \in DispatchRow /\ row.state = "live" /\ row.batch = b /\ row.qty = qty
  BY <1>1, WithQtyRow
<1> HIDE DEF row
<1>3. dispatch' \in [Dispatches -> DispatchRow]
  BY <1>1, <1>2 DEF IInv, TypeOK
<1>4. DispatchNamed' /\ ShippedOnlyReleased'
  BY <1>1, <1>2, QtyAssumption DEF IInv, TypeOK, DispatchNamed, ShippedOnlyReleased
<1>5. CASE /\ qty - old > 0
           /\ Incrementable(b, qty - old)
           /\ fg' = [fg EXCEPT ![b] = Incremented(@, qty - old)]
  <2>1. qty - old \in 1..MaxQty
    BY <1>1, <1>5, QtyAssumption
  <2>2. Incremented(fg[b], qty - old) \in FgRow
    BY <1>1, <2>1, QtyAssumption, IncrementedRow
  <2>3. QED
    BY <1>1, <1>3, <1>4, <1>5, <2>1, <2>2, Moved
<1>6. CASE /\ qty - old < 0
           /\ Reversible(fg[b], -(qty - old))
           /\ fg' = [fg EXCEPT ![b] = Reversed(@, -(qty - old))]
  <2>1. -(qty - old) \in 1..MaxQty
    BY <1>1, <1>6, QtyAssumption
  <2>2. Reversed(fg[b], -(qty - old)) \in FgRow
    BY <1>1, <2>1, QtyAssumption, ReversedRow
  <2>3. QED
    BY <1>1, <1>3, <1>4, <1>6, <2>1, <2>2, Moved
<1>7. QED
  BY <1>5, <1>6 DEF UpdateDispatch

LEMMA VoidDispatchStep ==
  ASSUME IInv, NEW d \in Dispatches, VoidDispatch(d)
  PROVE  IInv'
<1> DEFINE b   == dispatch[d].batch
           qty == dispatch[d].qty
           row == Voided(dispatch[d])
<1>1. /\ dispatch[d] \in DispatchRow /\ dispatch[d].state = "live"
      /\ b \in Batches /\ qty \in 1..MaxQty
      /\ fg[b] \in FgRow
      /\ batch[b].life = "released"
      /\ dispatch' = [dispatch EXCEPT ![d] = row]
      /\ UNCHANGED <<batch, clearing, seen>>
  BY DEF IInv, TypeOK, DispatchRow, DispatchNamed, ShippedOnlyReleased, VoidDispatch
<1>2. row \in DispatchRow /\ row.state = "voided" /\ row.batch = b /\ row.qty = qty
  BY <1>1, VoidedRow
<1> HIDE DEF row
<1>3. dispatch' \in [Dispatches -> DispatchRow]
  BY <1>1, <1>2 DEF IInv, TypeOK
<1>4. DispatchNamed' /\ ShippedOnlyReleased'
  BY <1>1, <1>2, QtyAssumption DEF IInv, TypeOK, DispatchNamed, ShippedOnlyReleased
<1>5. CASE Reversible(fg[b], qty)
  <2>1. Reversed(fg[b], qty) \in FgRow
    BY <1>1, QtyAssumption, ReversedRow
  <2>2. fg' = [fg EXCEPT ![b] = Reversed(fg[b], qty)]
    BY <1>5 DEF VoidDispatch
  <2>3. QED
    BY <1>1, <1>3, <1>4, <1>5, <2>1, <2>2, Moved
<1>6. CASE ~Reversible(fg[b], qty)
  <2>1. fg' = fg
    BY <1>6 DEF VoidDispatch
  <2>2. QED
    BY <1>1, <1>3, <1>4, <2>1
    DEF IInv, TypeOK, NoOversell, ReleasedProduction, SystemStocked, UnreleasedKept,
        OnOfferOnlyReleased, StatusFollowsQuantities, SeenCurrent, Exists
<1>7. QED
  BY <1>5, <1>6

-----------------------------------------------------------------------------
(* The invariant holds in every state.                                     *)

LEMMA InvInit == Init => IInv
<1> SUFFICES ASSUME Init PROVE IInv
  OBVIOUS
<1>1. AbsentRow \in BatchRow /\ AbsentRow.life = "absent"
  BY QtyAssumption, VersionAssumption DEF AbsentRow, BatchRow, Lives
<1>2. \A row \in LegacyRows : /\ row \in BatchRow
                              /\ row.life = "needs_review" /\ row.origin = "legacy"
  BY QtyAssumption, VersionAssumption DEF LegacyRows, BatchRow, Lives
<1>3. NoFg \in FgRow /\ NoFg.status = "none" /\ NoFg.dispatched = 0 /\ NoFg.produced = 0
  BY QtyAssumption DEF NoFg, FgRow
<1>4. \A b \in Batches : /\ batch[b] \in BatchRow
                         /\ batch[b].life \in {"absent", "needs_review"}
                         /\ batch[b].life = "needs_review" => batch[b].origin = "legacy"
                         /\ fg[b] = NoFg
  BY <1>1, <1>2 DEF Init
<1>5. \A d \in Dispatches : dispatch[d] \in DispatchRow /\ dispatch[d].state = "unused"
  BY QtyAssumption DEF Init, DispatchRow
<1>6. TypeOK
  BY <1>3, <1>4, <1>5 DEF Init, TypeOK
<1>7. NoOversell /\ DispatchNamed /\ ReleasedProduction /\ ShippedOnlyReleased
  BY <1>3, <1>4, <1>5
  DEF NoOversell, DispatchNamed, ReleasedProduction, ShippedOnlyReleased
<1>8. SystemStocked /\ UnreleasedKept /\ OnOfferOnlyReleased /\ StatusFollowsQuantities
  BY <1>3, <1>4
  DEF SystemStocked, UnreleasedKept, OnOfferOnlyReleased, StatusFollowsQuantities,
      Sellable, Exists
<1>9. SeenCurrent
  BY DEF Init, SeenCurrent
<1>10. QED
  BY <1>6, <1>7, <1>8, <1>9 DEF IInv

LEMMA InvNext == IInv /\ [Next]_vars => IInv'
<1> SUFFICES ASSUME IInv, [Next]_vars PROVE IInv'
  OBVIOUS
<1>1. ASSUME NEW c \in Clients, ReleaseBatchAtVersion(c) PROVE IInv'
  <2>1. seen[c].batch \in Batches
    BY <1>1 DEF ReleaseBatchAtVersion, CarriesVersion, IInv, TypeOK, View
  <2>2. QED
    BY <1>1, <2>1, ReleaseRowStep DEF ReleaseBatchAtVersion
<1>2. CASE UNCHANGED vars
  BY <1>2
  DEF vars, IInv, TypeOK, NoOversell, DispatchNamed, ReleasedProduction,
      ShippedOnlyReleased, SystemStocked, UnreleasedKept, OnOfferOnlyReleased,
      StatusFollowsQuantities, SeenCurrent, Exists
<1>3. QED
  BY <1>1, <1>2, CreateBatchStep, ReadBatchStep, UpdateBatchMetadataStep,
     SaveCoaSnapshotStep, ClearCoaStep, ReleaseRowStep, SetLifecycleRowStep,
     DeleteBatchStep, PassExpiryStep, BackfillStep, SetFinishedGoodsStatusStep,
     CreateDispatchStep, UpdateDispatchStep, VoidDispatchStep
  DEF Next, ReleaseBatch, SetBatchLifecycle

(* Every state the program reaches satisfies the inductive invariant. *)
THEOREM Invariance == Spec => []IInv
BY InvInit, InvNext, PTL DEF Spec

-----------------------------------------------------------------------------
(* What follows from it.                                                   *)

(* The rows keep the shape of their tables, versions and quantities within *)
(* their bounds.                                                           *)
THEOREM TypeCorrect == Spec => []TypeOK
BY Invariance, PTL DEF IInv

(* Dispatch, edit, void, cancel, restore and backfill never oversell a batch. *)
THEOREM NeverOversold == Spec => []NoOversell
BY Invariance, PTL DEF IInv

(* Only released production batches are ever shipped, and they stay so.    *)
THEOREM OnlyReleasedShipped == Spec => []ShippedOnlyReleased
BY Invariance, PTL DEF IInv

(* Only a released batch is on offer, whoever restores or reverses its row. *)
THEOREM OnlyReleasedOnOffer == Spec => []OnOfferOnlyReleased
BY Invariance, PTL DEF IInv

(* The status of a finished-goods row agrees with its quantities.          *)
THEOREM StatusAgrees == Spec => []StatusFollowsQuantities
BY Invariance, PTL DEF IInv

-----------------------------------------------------------------------------
(* Every live dispatch is on the books of its batch.  The sum of the live  *)
(* dispatches moves with the one dispatch an action writes.                *)

(* What one dispatch row draws from a batch. *)
Draws(row, b) == IF row.state = "live" /\ row.batch = b THEN row.qty ELSE 0

(* A batch without a finished-goods row has nothing dispatched. *)
NoRowNothingGone ==
  \A b \in Batches : fg[b].status = "none" => fg[b].dispatched = 0

Accounts == ShipmentsAccounted /\ NoRowNothingGone

LEMMA DrawsNat ==
  ASSUME NEW row \in DispatchRow, NEW b
  PROVE  Draws(row, b) \in Nat
BY QtyAssumption DEF Draws, DispatchRow

LEMMA LiveQtyDraws ==
  ASSUME TypeOK, NEW b
  PROVE  /\ LiveQty(b) = SumOver([d \in Dispatches |-> Draws(dispatch[d], b)], Dispatches)
         /\ LiveQty(b) \in Nat
<1> DEFINE f == [d \in Dispatches |-> Draws(dispatch[d], b)]
<1>1. LiveQty(b) = SumOver(f, Dispatches)
  BY DEF LiveQty, Draws
<1>2. \A d \in Dispatches : f[d] \in Nat
  BY DrawsNat DEF TypeOK
<1> HIDE DEF f
<1>3. SumOver(f, Dispatches) \in Nat
  BY <1>2, FiniteAssumption, SumNat
<1>4. QED
  BY <1>1, <1>3 DEF f

LEMMA NothingLive ==
  ASSUME NEW b, \A d \in Dispatches : ~(dispatch[d].state = "live" /\ dispatch[d].batch = b)
  PROVE  LiveQty(b) = 0
<1> DEFINE f == [d \in Dispatches |-> IF dispatch[d].state = "live" /\ dispatch[d].batch = b
                                      THEN dispatch[d].qty ELSE 0]
<1>1. \A d \in Dispatches : f[d] = 0
  OBVIOUS
<1>2. LiveQty(b) = SumOver(f, Dispatches)
  BY DEF LiveQty
<1> HIDE DEF f
<1>3. QED
  BY <1>1, <1>2, FiniteAssumption, SumZeros

LEMMA OneTermChanges ==
  ASSUME NEW f, NEW g, NEW d \in Dispatches,
         \A x \in Dispatches : f[x] \in Int /\ g[x] \in Int,
         \A x \in Dispatches \ {d} : g[x] = f[x]
  PROVE  SumOver(g, Dispatches) = SumOver(f, Dispatches) - f[d] + g[d]
BY FiniteAssumption, SumChange

(* One dispatch row is written. *)
LEMMA OneDispatchWritten ==
  ASSUME TypeOK, TypeOK', NEW d \in Dispatches, NEW row,
         dispatch' = [dispatch EXCEPT ![d] = row], NEW b
  PROVE  LiveQty(b)' = LiveQty(b) - Draws(dispatch[d], b) + Draws(row, b)
<1>1. PICK f : f = [x \in Dispatches |-> Draws(dispatch[x], b)]
  OBVIOUS
<1>2. PICK g : g = [x \in Dispatches |-> Draws(dispatch'[x], b)]
  OBVIOUS
<1>3. LiveQty(b) = SumOver(f, Dispatches) /\ LiveQty(b)' = SumOver(g, Dispatches)
  BY <1>1, <1>2 DEF LiveQty, Draws
<1>4. \A x \in Dispatches : f[x] \in Int /\ g[x] \in Int
  BY <1>1, <1>2, DrawsNat DEF TypeOK
<1>5. \A x \in Dispatches \ {d} : g[x] = f[x]
  BY <1>1, <1>2 DEF TypeOK
<1>6. f[d] = Draws(dispatch[d], b) /\ g[d] = Draws(row, b)
  BY <1>1, <1>2 DEF TypeOK
<1>7. SumOver(g, Dispatches) = SumOver(f, Dispatches) - f[d] + g[d]
  BY <1>4, <1>5, OneTermChanges
<1>8. QED
  BY <1>3, <1>6, <1>7

LEMMA RowBooks ==
  ASSUME IInv, NEW b \in Batches
  PROVE  /\ fg[b] \in FgRow
         /\ fg[b].dispatched \in Int
         /\ fg[b].opening \in Nat
BY QtyAssumption DEF IInv, TypeOK, FgRow

(* No dispatch and no quantity changes. *)
LEMMA BooksKept ==
  ASSUME Accounts, UNCHANGED dispatch,
         \A b \in Batches : /\ fg'[b].dispatched = fg[b].dispatched
                            /\ fg'[b].opening = fg[b].opening
                            /\ fg'[b].status = "none" => fg[b].status = "none"
  PROVE  Accounts'
<1>1. \A b \in Batches : LiveQty(b)' = LiveQty(b)
  BY DEF LiveQty
<1>2. QED
  BY <1>1 DEF Accounts, ShipmentsAccounted, NoRowNothingGone

(* The books of a batch no live dispatch draws from are opened or closed. *)
LEMMA BooksOpened ==
  ASSUME IInv, Accounts, UNCHANGED dispatch, NEW b \in Batches, NEW g \in FgRow,
         LiveQty(b) = 0, g.opening <= g.dispatched,
         g.status = "none" => g.dispatched = 0,
         fg' = [fg EXCEPT ![b] = g]
  PROVE  Accounts'
<1>1. \A x \in Batches : LiveQty(x)' = LiveQty(x)
  BY DEF LiveQty
<1>2. fg'[b] = g /\ \A x \in Batches \ {b} : fg'[x] = fg[x]
  BY DEF IInv, TypeOK
<1>3. LiveQty(b) + g.opening <= g.dispatched
  BY QtyAssumption DEF FgRow
<1>4. QED
  BY <1>1, <1>2, <1>3 DEF Accounts, ShipmentsAccounted, NoRowNothingGone

(* One dispatch is written, and the books of its batch move at least with it. *)
LEMMA BooksMoved ==
  ASSUME IInv, IInv', Accounts, NEW d \in Dispatches, NEW b \in Batches, NEW row \in DispatchRow,
         NEW g \in FgRow,
         dispatch[d].state # "unused" => dispatch[d].batch = b,
         row.batch = b,
         dispatch' = [dispatch EXCEPT ![d] = row],
         fg' = [fg EXCEPT ![b] = g],
         g.opening = fg[b].opening,
         g.status # "none",
         g.dispatched - fg[b].dispatched >= Draws(row, b) - Draws(dispatch[d], b)
  PROVE  Accounts'
<1>1. fg'[b] = g /\ \A x \in Batches \ {b} : fg'[x] = fg[x]
  BY DEF IInv, TypeOK
<1>2. dispatch[d] \in DispatchRow
  BY DEF IInv, TypeOK
<1>3. ShipmentsAccounted'
  <2> SUFFICES ASSUME NEW x \in Batches
               PROVE  LiveQty(x)' + fg'[x].opening <= fg'[x].dispatched
    BY DEF ShipmentsAccounted
  <2>1. LiveQty(x)' = LiveQty(x) - Draws(dispatch[d], x) + Draws(row, x)
    BY OneDispatchWritten DEF IInv
  <2>2. LiveQty(x) \in Nat
    BY LiveQtyDraws DEF IInv
  <2>3. Draws(dispatch[d], x) \in Nat /\ Draws(row, x) \in Nat
    BY <1>2, DrawsNat
  <2>4. LiveQty(x) + fg[x].opening <= fg[x].dispatched
    BY DEF Accounts, ShipmentsAccounted
  <2>5. fg[x].dispatched \in Int /\ fg[x].opening \in Nat
    BY RowBooks
  <2>6. CASE x = b
    <3>1. g.dispatched \in Int
      BY DEF FgRow
    <3>2. QED
      BY <1>1, <2>1, <2>2, <2>3, <2>4, <2>5, <2>6, <3>1
  <2>7. CASE x # b
    <3>1. Draws(dispatch[d], x) = 0 /\ Draws(row, x) = 0
      BY <2>7 DEF Draws
    <3>2. fg'[x] = fg[x]
      BY <1>1, <2>7
    <3>3. QED
      BY <2>1, <2>2, <2>4, <3>1, <3>2
  <2>8. QED
    BY <2>6, <2>7
<1>4. NoRowNothingGone'
  BY <1>1 DEF Accounts, NoRowNothingGone
<1>5. QED
  BY <1>3, <1>4 DEF Accounts

LEMMA StatusBooks ==
  ASSUME IInv, Accounts, UNCHANGED dispatch, NEW b \in Batches, NEW status \in FgStatuses,
         fg' = [fg EXCEPT ![b] = WithStatus(@, status)] \/ UNCHANGED fg
  PROVE  Accounts'
<1>1. \A x \in Batches : /\ fg'[x].dispatched = fg[x].dispatched
                         /\ fg'[x].opening = fg[x].opening
                         /\ fg'[x].status = "none" => fg[x].status = "none"
  <2>1. status # "none"
    BY DEF FgStatuses
  <2>2. QED
    BY <2>1, RowBooks, WithStatusRow DEF IInv, TypeOK
<1>2. QED
  BY <1>1, BooksKept

LEMMA CreateBatchBooks ==
  ASSUME IInv, Accounts, NEW b \in Batches, NEW kind, NEW expiry, NEW size \in 1..MaxQty,
         NEW materials, CreateBatch(b, kind, expiry, size, materials)
  PROVE  Accounts'
<1> DEFINE g == [status |-> "Quarantined", produced |-> size, dispatched |-> 0, opening |-> 0]
<1>1. g \in FgRow /\ g.opening = 0 /\ g.dispatched = 0 /\ g.status = "Quarantined"
  BY QtyAssumption DEF FgRow, FgStatuses
<1>2. /\ fg' = [fg EXCEPT ![b] = g] /\ UNCHANGED dispatch
      /\ batch[b].life = "absent"
  BY DEF CreateBatch
<1>3. LiveQty(b) = 0
  BY <1>2, NothingLive DEF IInv, ShippedOnlyReleased
<1> HIDE DEF g
<1>4. g.opening <= g.dispatched /\ g.status # "none"
  BY <1>1
<1>5. QED
  BY <1>1, <1>2, <1>3, <1>4, BooksOpened

LEMMA DeleteBatchBooks ==
  ASSUME IInv, Accounts, NEW b \in Batches, DeleteBatch(b)
  PROVE  Accounts'
<1>1. NoFg \in FgRow /\ NoFg.dispatched = 0 /\ NoFg.opening = 0
  BY QtyAssumption DEF NoFg, FgRow
<1>2. fg' = [fg EXCEPT ![b] = NoFg] /\ UNCHANGED dispatch
  BY DEF DeleteBatch
<1>3. LiveQty(b) = 0
  BY NothingLive DEF DeleteBatch
<1>4. NoFg.opening <= NoFg.dispatched
  BY <1>1
<1>5. QED
  BY <1>1, <1>2, <1>3, <1>4, BooksOpened

LEMMA BackfillBooks ==
  ASSUME IInv, Accounts, NEW b \in Batches, NEW remaining \in 0..MaxQty,
         BackfillFinishedGoods(b, remaining)
  PROVE  Accounts'
<1> DEFINE g == Backfilled(batch[b].size, remaining)
<1>1. batch[b].size \in 1..MaxQty /\ remaining <= batch[b].size
  BY DEF IInv, TypeOK, BatchRow, BackfillFinishedGoods
<1>2. /\ g \in FgRow
      /\ g.opening = g.dispatched
      /\ g.status # "none"
  BY <1>1, BackfilledRow DEF Sellable
<1>3. fg' = [fg EXCEPT ![b] = g] /\ UNCHANGED dispatch
  BY DEF BackfillFinishedGoods
<1>4. LiveQty(b) = 0
  <2>1. fg[b].dispatched = 0 /\ LiveQty(b) + fg[b].opening <= fg[b].dispatched
    BY DEF BackfillFinishedGoods, Accounts, NoRowNothingGone, ShipmentsAccounted
  <2>2. LiveQty(b) \in Nat
    BY LiveQtyDraws DEF IInv
  <2>3. QED
    BY <2>1, <2>2, RowBooks
<1> HIDE DEF g
<1>5. g.opening <= g.dispatched
  BY <1>2 DEF FgRow
<1>6. QED
  BY <1>2, <1>3, <1>4, <1>5, BooksOpened

LEMMA CreateDispatchBooks ==
  ASSUME IInv, IInv', Accounts, NEW d \in Dispatches, NEW b \in Batches, NEW qty \in 1..MaxQty,
         CreateDispatch(d, b, qty)
  PROVE  Accounts'
<1> DEFINE row == [state |-> "live", batch |-> b, qty |-> qty]
           g   == Incremented(fg[b], qty)
<1>1. /\ fg' = [fg EXCEPT ![b] = g]
      /\ dispatch' = [dispatch EXCEPT ![d] = row]
      /\ dispatch[d].state = "unused"
  BY DEF CreateDispatch
<1>2. row \in DispatchRow /\ row.batch = b /\ Draws(row, b) = qty
  BY QtyAssumption DEF DispatchRow, Draws
<1>3. Draws(dispatch[d], b) = 0
  BY <1>1 DEF Draws
<1>4. /\ g \in FgRow
      /\ g.dispatched = fg[b].dispatched + qty
      /\ g.opening = fg[b].opening
      /\ g.status # "none"
  <2>1. fg[b] \in FgRow /\ qty \in Int
    BY RowBooks
  <2>2. QED
    BY <2>1, IncrementedRow
<1>5. g.dispatched - fg[b].dispatched >= Draws(row, b) - Draws(dispatch[d], b)
  BY <1>2, <1>3, <1>4, RowBooks, QtyAssumption
<1> HIDE DEF row, g
<1>6. QED
  BY <1>1, <1>2, <1>4, <1>5, BooksMoved

LEMMA UpdateDispatchBooks ==
  ASSUME IInv, IInv', Accounts, NEW d \in Dispatches, NEW qty \in 1..MaxQty,
         UpdateDispatch(d, qty)
  PROVE  Accounts'
<1> DEFINE b   == dispatch[d].batch
           old == dispatch[d].qty
           row == WithQty(dispatch[d], qty)
<1>1. /\ dispatch[d] \in DispatchRow /\ dispatch[d].state = "live"
      /\ b \in Batches /\ old \in 1..MaxQty
      /\ dispatch' = [dispatch EXCEPT ![d] = row]
  BY DEF IInv, TypeOK, DispatchRow, DispatchNamed, UpdateDispatch
<1>2. row \in DispatchRow /\ row.batch = b /\ row.state = "live" /\ row.qty = qty
  BY <1>1, WithQtyRow
<1>3. Draws(row, b) = qty /\ Draws(dispatch[d], b) = old
  BY <1>1, <1>2 DEF Draws
<1>4. fg[b] \in FgRow /\ fg[b].dispatched \in Int
  BY <1>1, RowBooks
<1> HIDE DEF row
<1>5. ASSUME NEW g, fg' = [fg EXCEPT ![b] = g], g \in FgRow, g.status # "none",
             g.opening = fg[b].opening,
             g.dispatched = fg[b].dispatched + (qty - old)
      PROVE  Accounts'
  <2>1. g.dispatched - fg[b].dispatched >= Draws(row, b) - Draws(dispatch[d], b)
    BY <1>1, <1>3, <1>4, <1>5, QtyAssumption
  <2>2. QED
    BY <1>1, <1>2, <1>5, <2>1, BooksMoved
<1>6. CASE /\ qty - old > 0
           /\ fg' = [fg EXCEPT ![b] = Incremented(@, qty - old)]
  <2>1. fg' = [fg EXCEPT ![b] = Incremented(fg[b], qty - old)]
    BY <1>6
  <2>2. qty - old \in Int
    BY <1>1, QtyAssumption
  <2>3. QED
    BY <1>4, <1>5, <2>1, <2>2, IncrementedRow
<1>7. CASE /\ qty - old < 0
           /\ fg' = [fg EXCEPT ![b] = Reversed(@, -(qty - old))]
  <2>1. fg' = [fg EXCEPT ![b] = Reversed(fg[b], -(qty - old))]
    BY <1>7
  <2>2. -(qty - old) \in Int
    BY <1>1, QtyAssumption
  <2>3. fg[b].dispatched - (-(qty - old)) = fg[b].dispatched + (qty - old)
    BY <1>1, <1>4, QtyAssumption
  <2>4. QED
    BY <1>4, <1>5, <2>1, <2>2, <2>3, ReversedRow
<1>8. QED
  BY <1>6, <1>7 DEF UpdateDispatch

(* The books of a void that takes nothing back show more than is live. *)
LEMMA VoidDispatchBooks ==
  ASSUME IInv, IInv', Accounts, NEW d \in Dispatches, VoidDispatch(d)
  PROVE  Accounts'
<1> DEFINE b   == dispatch[d].batch
           qty == dispatch[d].qty
           row == Voided(dispatch[d])
<1>1. /\ dispatch[d] \in DispatchRow /\ dispatch[d].state = "live"
      /\ b \in Batches /\ qty \in 1..MaxQty
      /\ batch[b].life = "released"
      /\ dispatch' = [dispatch EXCEPT ![d] = row]
  BY DEF IInv, TypeOK, DispatchRow, DispatchNamed, ShippedOnlyReleased, VoidDispatch
<1>2. row \in DispatchRow /\ row.batch = b /\ row.state = "voided"
  BY <1>1, VoidedRow
<1>3. Draws(row, b) = 0 /\ Draws(dispatch[d], b) = qty
  BY <1>1, <1>2 DEF Draws
<1>4. fg[b] \in FgRow /\ fg[b].dispatched \in Int /\ fg[b].opening \in Nat
  BY <1>1, RowBooks
<1>5. fg[b].status # "none"
  <2>1. LiveQty(b) >= qty
    <3> DEFINE f == [x \in Dispatches |-> Draws(dispatch[x], b)]
    <3>1. \A x \in Dispatches : f[x] \in Nat
      BY DrawsNat DEF IInv, TypeOK
    <3>2. f[d] = qty
      BY <1>3
    <3>3. LiveQty(b) = SumOver(f, Dispatches)
      BY LiveQtyDraws DEF IInv
    <3> HIDE DEF f
    <3>4. f[d] <= SumOver(f, Dispatches)
      BY <3>1, FiniteAssumption, SumMember
    <3>5. QED
      BY <3>2, <3>3, <3>4, <1>1, QtyAssumption, LiveQtyDraws DEF IInv
  <2>2. LiveQty(b) + fg[b].opening <= fg[b].dispatched
    BY <1>1 DEF Accounts, ShipmentsAccounted
  <2>3. LiveQty(b) \in Nat
    BY LiveQtyDraws DEF IInv
  <2>4. fg[b].dispatched # 0
    BY <1>1, <1>4, <2>1, <2>2, <2>3, QtyAssumption
  <2>5. QED
    BY <1>1, <2>4 DEF Accounts, NoRowNothingGone
<1> HIDE DEF row
<1>6. ASSUME NEW g, fg' = [fg EXCEPT ![b] = g], g \in FgRow, g.status # "none",
             g.opening = fg[b].opening,
             g.dispatched \in {fg[b].dispatched, fg[b].dispatched - qty}
      PROVE  Accounts'
  <2>1. g.dispatched - fg[b].dispatched >= Draws(row, b) - Draws(dispatch[d], b)
    BY <1>1, <1>3, <1>4, <1>6, QtyAssumption
  <2>2. QED
    BY <1>1, <1>2, <1>6, <2>1, BooksMoved
<1>7. CASE Reversible(fg[b], qty)
  <2>1. fg' = [fg EXCEPT ![b] = Reversed(fg[b], qty)]
    BY <1>7 DEF VoidDispatch
  <2>2. qty \in Int
    BY <1>1, QtyAssumption
  <2>3. QED
    BY <1>4, <1>6, <2>1, <2>2, ReversedRow
<1>8. CASE ~Reversible(fg[b], qty)
  <2>1. fg' = [fg EXCEPT ![b] = fg[b]]
    BY <1>8 DEF VoidDispatch, IInv, TypeOK
  <2>2. QED
    BY <1>4, <1>5, <1>6, <2>1
<1>9. QED
  BY <1>7, <1>8

LEMMA AccountsInit == Init => Accounts
<1> SUFFICES ASSUME Init PROVE Accounts
  OBVIOUS
<1>1. \A b \in Batches : fg[b].dispatched = 0 /\ fg[b].opening = 0
  BY DEF Init, NoFg
<1>2. \A b \in Batches : LiveQty(b) = 0
  BY NothingLive DEF Init
<1>3. QED
  BY <1>1, <1>2 DEF Accounts, ShipmentsAccounted, NoRowNothingGone

LEMMA AccountsNext ==
  ASSUME IInv, IInv', Accounts, [Next]_vars
  PROVE  Accounts'
<1>1. CASE UNCHANGED <<fg, dispatch>>
  BY <1>1, BooksKept
<1>2. ASSUME NEW b \in Batches, ReleaseRow(b) PROVE Accounts'
  <2>1. "Available" \in FgStatuses /\ UNCHANGED dispatch
    BY <1>2 DEF FgStatuses, ReleaseRow
  <2>2. fg' = [fg EXCEPT ![b] = WithStatus(@, "Available")] \/ UNCHANGED fg
    BY <1>2 DEF ReleaseRow
  <2>3. QED
    BY <2>1, <2>2, StatusBooks
<1>3. ASSUME NEW c \in Clients, ReleaseBatchAtVersion(c) PROVE Accounts'
  <2>1. seen[c].batch \in Batches
    BY <1>3 DEF ReleaseBatchAtVersion, CarriesVersion, IInv, TypeOK, View
  <2>2. QED
    BY <1>2, <1>3, <2>1 DEF ReleaseBatchAtVersion
<1>4. ASSUME NEW b \in Batches, NEW status, NEW returnMaterials,
             SetLifecycleRow(b, status, returnMaterials)
      PROVE  Accounts'
  <2>1. "Quarantined" \in FgStatuses /\ UNCHANGED dispatch
    BY <1>4 DEF FgStatuses, SetLifecycleRow
  <2>2. fg' = [fg EXCEPT ![b] = WithStatus(@, "Quarantined")] \/ UNCHANGED fg
    BY <1>4 DEF SetLifecycleRow
  <2>3. QED
    BY <2>1, <2>2, StatusBooks
<1>5. ASSUME NEW b \in Batches, CancelFinishedGoods(b) PROVE Accounts'
  <2>1. "Cancelled" \in FgStatuses
    BY DEF FgStatuses
  <2>2. QED
    BY <1>5, <2>1, StatusBooks DEF CancelFinishedGoods
<1>6. ASSUME NEW b \in Batches, RestoreFinishedGoods(b) PROVE Accounts'
  <2>1. ImpliedStatus(fg[b]) \in FgStatuses
    BY RowBooks, ImpliedSellable
  <2>2. fg' = [fg EXCEPT ![b] = WithStatus(@, ImpliedStatus(fg[b]))] /\ UNCHANGED dispatch
    BY <1>6 DEF RestoreFinishedGoods
  <2>3. QED
    BY <2>1, <2>2, StatusBooks
<1>7. QED
  BY <1>1, <1>2, <1>3, <1>4, <1>5, <1>6, CreateBatchBooks, DeleteBatchBooks, BackfillBooks,
     CreateDispatchBooks, UpdateDispatchBooks, VoidDispatchBooks
  DEF Next, vars, ReadBatch, UpdateBatchMetadata, SaveCoaSnapshot, ClearCoaCheck,
      ClearCoaWrite, ReleaseBatch, SetBatchLifecycle, PassExpiry

(* Whatever is dispatched, edited, voided, cancelled, restored and         *)
(* backfilled, a batch has at least as much dispatched as its live         *)
(* dispatches and its backfill say.                                        *)
THEOREM ShipmentsOnBooks == Spec => []ShipmentsAccounted
<1>1. Init => IInv /\ Accounts
  BY InvInit, AccountsInit
<1>2. (IInv /\ Accounts) /\ [Next]_vars => (IInv /\ Accounts)'
  BY InvNext, AccountsNext
<1>3. IInv /\ Accounts => ShipmentsAccounted
  BY DEF Accounts
<1>4. QED
  BY <1>1, <1>2, <1>3, PTL DEF Spec

LEMMA FinalStep ==
  ASSUME IInv, [Next]_vars, NEW b \in Batches, batch[b].life = "released"
  PROVE  \/ batch'[b].life = "deleted"
         \/ /\ batch'[b].life = "released"
            /\ batch'[b].version = batch[b].version
            /\ batch'[b].size = batch[b].size
            /\ batch'[b].coa \in {batch[b].coa, "none"}
<1>1. batch[b] \in BatchRow
  BY DEF IInv, TypeOK
<1>2. CASE batch'[b] = batch[b]
  BY <1>2
<1>3. CASE DeleteBatch(b)
  BY <1>1, <1>3, WithLifeRow DEF DeleteBatch, IInv, TypeOK, Lives
<1>4. CASE \E c \in Clients : clearing[c] = b /\ ClearCoaWrite(c)
  BY <1>1, <1>2, <1>4, WithCoaRow DEF ClearCoaWrite, IInv, TypeOK
<1>5. CASE PassExpiry(b)
  BY <1>1, <1>5, ExpiredRow DEF PassExpiry, IInv, TypeOK
<1>6. \/ batch'[b] = batch[b]
      \/ DeleteBatch(b)
      \/ \E c \in Clients : clearing[c] = b /\ ClearCoaWrite(c)
      \/ PassExpiry(b)
  BY DEF IInv, TypeOK, Next, vars, CreateBatch, ReadBatch, UpdateBatchMetadata,
         SaveCoaSnapshot, ClearCoaCheck, ClearCoaWrite, ReleaseBatch, ReleaseRow,
         ReleaseBatchAtVersion, SetBatchLifecycle, SetLifecycleRow, DeleteBatch,
         PassExpiry, BackfillFinishedGoods, CancelFinishedGoods, RestoreFinishedGoods,
         CreateDispatch, UpdateDispatch, VoidDispatch, Editable
<1>7. QED
  BY <1>2, <1>3, <1>4, <1>5, <1>6

(* A release is never taken back: status, version and size are fixed, and  *)
(* the CoA can only be lost, never replaced.                               *)
THEOREM ReleaseFinal == Spec => ReleasedIsFinal
<1>1. IInv /\ [Next]_vars =>
        [\A b \in Batches : batch[b].life = "released" =>
          \/ batch'[b].life = "deleted"
          \/ /\ batch'[b].life = "released"
             /\ batch'[b].version = batch[b].version
             /\ batch'[b].size = batch[b].size
             /\ batch'[b].coa \in {batch[b].coa, "none"}]_vars
  BY FinalStep
<1>2. QED
  BY <1>1, Invariance, PTL DEF Spec, ReleasedIsFinal

(* A versioned release never approves a batch other than the one its       *)
(* approver read.                                                          *)
THEOREM ApprovalSound == Spec => ApprovedAsSeen
<1>1. ASSUME IInv, NEW c \in Clients, ReleaseBatchAtVersion(c)
      PROVE  /\ batch[seen[c].batch].coa = seen[c].coa
             /\ batch[seen[c].batch].life = seen[c].life
  BY <1>1 DEF ReleaseBatchAtVersion, CarriesVersion, ReleaseRow, Releasable, Exists,
              IInv, SeenCurrent
<1>2. IInv =>
        [\A c \in Clients : ReleaseBatchAtVersion(c) =>
          /\ batch[seen[c].batch].coa = seen[c].coa
          /\ batch[seen[c].batch].life = seen[c].life]_vars
  BY <1>1
<1>3. QED
  BY <1>2, Invariance, PTL DEF Spec, ApprovedAsSeen
=============================================================================
