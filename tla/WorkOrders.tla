------------------------------ MODULE WorkOrders ------------------------------
(***************************************************************************)
(* Production work orders and the batches made for them                    *)
(* (production-work-orders.service.ts, utils/workOrderProgress.ts, and the *)
(* work order's side of batches.service.ts).                               *)
(*                                                                         *)
(* A work order moves by hand, under its row lock and with the version the *)
(* caller saw, and by itself: a batch recorded for it starts it, released  *)
(* output within tolerance completes it.  Generating a batch reads the     *)
(* work order without a lock, so it is three actions: the reads, the       *)
(* insert, and the reconciliation that commits.  A release is two.  What a *)
(* transaction has written shows when it commits.                          *)
(*                                                                         *)
(* The rows that an open transaction inserts for a work order hold its key *)
(* (FOR KEY SHARE), and whoever locks the work order waits for all of      *)
(* them.  Two such transactions wait for each other until PostgreSQL rolls *)
(* one back.                                                               *)
(***************************************************************************)
EXTENDS Integers, FiniteSets, Sums

CONSTANTS
  WorkOrders,   \* ids of work orders
  Batches,      \* ids of batches; bounds the batches ever created
  Keys,         \* Idempotency-Key headers
  Clients,      \* requests being served at the same time
  Planned,      \* planned_quantity of every work order
  Sizes,        \* sizes a batch may have
  None          \* no work order, no batch, no key

ASSUME QuantityAssumption == Planned \in Nat \ {0} /\ Sizes \subseteq Nat \ {0}
ASSUME FiniteAssumption   == IsFiniteSet(Batches)
ASSUME NoneAssumption     == None \notin WorkOrders \cup Batches \cup Keys

VARIABLES
  workOrder,    \* the work-order rows
  batch,        \* the batches made for them
  tx            \* what each request has read and will write

vars == <<workOrder, batch, tx>>

OPEN_FOR_BATCH == {"planned", "released_to_production", "in_progress"}
NotStarted     == {"planned", "released_to_production"}
Closed         == {"completed", "cancelled"}

(* A status and a version: version moves with every change of status.      *)
(* `automatic` says that reconciliation completed it; only properties read *)
(* it.  No code path creates a draft.                                      *)
WorkOrderRow == [status    : OPEN_FOR_BATCH \cup Closed \cup {"absent"},
                 version   : 1..4,
                 ready     : BOOLEAN,
                 automatic : BOOLEAN]

(* A batch that awaits QC or is on hold is "pending", a rejected or        *)
(* cancelled one "discarded": a work order does not tell them apart.       *)
Live == {"pending", "released"}

BatchRow == [life : Live \cup {"absent", "discarded", "deleted"},
             wo   : WorkOrders \cup {None},
             size : Sizes \cup {0},
             key  : Keys \cup {None}]

(* version 0: the request named none.                                      *)
Tx == [op      : {"none", "transition", "generate", "release"},
       step    : {"none", "checked", "held"},
       wo      : WorkOrders \cup {None},
       batch   : Batches \cup {None},
       size    : Sizes \cup {0},
       key     : Keys \cup {None},
       version : 0..4,
       status  : OPEN_FOR_BATCH \cup Closed \cup {"absent"}]

Idle == [op |-> "none", step |-> "none", wo |-> None, batch |-> None, size |-> 0,
         key |-> None, version |-> 0, status |-> "absent"]

Init ==
  /\ workOrder = [w \in WorkOrders |-> [status |-> "absent", version |-> 1,
                                        ready |-> FALSE, automatic |-> FALSE]]
  /\ batch = [b \in Batches |-> [life |-> "absent", wo |-> None, size |-> 0, key |-> None]]
  /\ tx = [c \in Clients |-> Idle]

-----------------------------------------------------------------------------
(* Rows and locks.                                                         *)

Exists(b) == batch[b].life \notin {"absent", "deleted"}

HoldsKey(c, w)   == tx[c].op \in {"generate", "release"} /\ tx[c].step = "held" /\ tx[c].wo = w
HoldsBatch(c, b) == tx[c].op = "release" /\ tx[c].batch = b

(* SELECT ... FOR UPDATE gets the work order. *)
Lockable(c, w) == \A x \in Clients \ {c} : ~HoldsKey(x, w)
BatchFree(b)   == \A x \in Clients : ~HoldsBatch(x, b)

Starts(c, t) == tx[c] = Idle /\ tx' = [tx EXCEPT ![c] = t]
Ends(c)      == tx' = [tx EXCEPT ![c] = Idle]

-----------------------------------------------------------------------------
(* syncWorkOrderProgress.                                                  *)

OutputOf(rows, w, lives) ==
  SumOver([b \in Batches |-> IF rows[b].wo = w /\ rows[b].life \in lives THEN rows[b].size ELSE 0],
          Batches)

Abs(n) == IF n < 0 THEN -n ELSE n

(* OUTPUT_TOLERANCE is 5 %. *)
WithinTolerance(quantity) == 20 * Abs(quantity - Planned) <= Planned

(* Status and version are written together. *)
MovedNoVersion(row, status) == [row EXCEPT !.status = status]
Moved(row, status) == [row EXCEPT !.status = status, !.version = @ + 1]

NextStatusExact(status, live, released) ==
  IF released = Planned THEN "completed"
  ELSE IF status \in NotStarted /\ live > 0 THEN "in_progress"
  ELSE status
NextStatus(status, live, released) ==
  IF released > 0 /\ WithinTolerance(released) THEN "completed"
  ELSE IF status \in NotStarted /\ live > 0 THEN "in_progress"
  ELSE status

ReconcilableAny(row) == TRUE
Reconcilable(row) == row.status \in OPEN_FOR_BATCH

(* The row after reconciling it with the batches `rows`. *)
Synced(row, w, rows) ==
  LET next == NextStatus(row.status, OutputOf(rows, w, Live), OutputOf(rows, w, {"released"})) IN
  IF ~Reconcilable(row) \/ next = row.status THEN row
  ELSE [Moved(row, next) EXCEPT !.automatic = (next = "completed")]

-----------------------------------------------------------------------------
(* createWorkOrder: released at once if that was asked and materials are   *)
(* ready.                                                                  *)

CreateWorkOrder(w, ready, releaseNow) ==
  /\ workOrder[w].status = "absent"
  /\ workOrder' = [workOrder EXCEPT ![w] =
       [status |-> IF releaseNow /\ ready THEN "released_to_production" ELSE "planned",
        version |-> 1, ready |-> ready, automatic |-> FALSE]]
  /\ UNCHANGED <<batch, tx>>

-----------------------------------------------------------------------------
(* transitionWorkOrder.                                                    *)

TRANSITIONS(status) ==
  CASE status = "planned"                -> {"released_to_production", "cancelled"}
    [] status = "released_to_production" -> {"cancelled"}
    [] status = "in_progress"            -> {"completed", "cancelled"}
    [] OTHER -> {}

(* The screen the caller decides on. *)
OpenWorkOrder(c, w) ==
  /\ workOrder[w].status # "absent"
  /\ Starts(c, [Idle EXCEPT !.op = "transition", !.step = "checked", !.wo = w,
                            !.version = workOrder[w].version, !.status = workOrder[w].status])
  /\ UNCHANGED <<workOrder, batch>>

(* Cancelling takes a reason, and so does completing outside tolerance;    *)
(* completing by hand counts every live batch, released or not.            *)
Transition(c, status, reason) ==
  LET w == tx[c].wo  row == workOrder[w] IN
  /\ tx[c].op = "transition"
  /\ Lockable(c, w)
  /\ row.version = tx[c].version
  /\ status \in TRANSITIONS(row.status)
  /\ status = "released_to_production" => row.ready
  /\ status = "cancelled" => reason
  /\ status = "completed" => reason \/ WithinTolerance(OutputOf(batch, w, Live))
  /\ workOrder' = [workOrder EXCEPT ![w] = Moved(row, status)]
  /\ Ends(c)
  /\ UNCHANGED batch

-----------------------------------------------------------------------------
(* createWorkOrderBatch.                                                   *)

KeyUsed(key) == key # None /\ \E b \in Batches : Exists(b) /\ batch[b].key = key

(* The key is new, the work order open, and at the version named, if any.  *)
GenerateCheck(c, w, size, key, version) ==
  /\ ~KeyUsed(key)
  /\ workOrder[w].status \in OPEN_FOR_BATCH
  /\ version \in {0, workOrder[w].version}
  /\ Starts(c, [Idle EXCEPT !.op = "generate", !.step = "checked", !.wo = w, !.size = size,
                            !.key = key, !.version = version, !.status = workOrder[w].status])
  /\ UNCHANGED <<workOrder, batch>>

(* client_request_id is unique: the insert waits for an open one with the  *)
(* same key, and gives way to a committed one, which is replayed.          *)
KeyFreeAlways(c) == TRUE
KeyFree(c) == \A x \in Clients \ {c} :
                ~(tx[x].op = "generate" /\ tx[x].step = "held" /\ tx[x].key = tx[c].key /\ tx[c].key # None)

GenerateInsert(c, b) ==
  /\ tx[c].op = "generate" /\ tx[c].step = "checked"
  /\ batch[b].life = "absent" /\ \A x \in Clients : tx[x].batch # b
  /\ KeyFree(c) /\ ~KeyUsed(tx[c].key)
  /\ tx' = [tx EXCEPT ![c] = [@ EXCEPT !.step = "held", !.batch = b]]
  /\ UNCHANGED <<workOrder, batch>>

GenerateReplay(c) ==
  /\ tx[c].op = "generate" /\ tx[c].step = "checked"
  /\ KeyUsed(tx[c].key)
  /\ Ends(c)
  /\ UNCHANGED <<workOrder, batch>>

(* Under the lock the work order must still be open, and at the version    *)
(* named; otherwise WorkOrderStateError takes the batch back.              *)
StillOpenUnchecked(c) == TRUE
StillOpen(c) ==
  /\ workOrder[tx[c].wo].status \in OPEN_FOR_BATCH
  /\ tx[c].version \in {0, workOrder[tx[c].wo].version}

GenerateCommit(c) ==
  LET t    == tx[c]
      rows == [batch EXCEPT ![t.batch] = [life |-> "pending", wo |-> t.wo,
                                          size |-> t.size, key |-> t.key]] IN
  /\ t.op = "generate" /\ t.step = "held"
  /\ Lockable(c, t.wo) /\ StillOpen(c)
  /\ batch' = rows
  /\ workOrder' = [workOrder EXCEPT ![t.wo] = Synced(@, t.wo, rows)]
  /\ Ends(c)

GenerateRefused(c) ==
  /\ tx[c].op = "generate" /\ tx[c].step = "held"
  /\ Lockable(c, tx[c].wo) /\ ~StillOpen(c)
  /\ Ends(c)
  /\ UNCHANGED <<workOrder, batch>>

-----------------------------------------------------------------------------
(* The work order's side of the batch handlers.  What else they ask of a   *)
(* batch is in module BatchRelease; a release asks nothing of its status.  *)

ReleaseBatch(c, b) ==
  /\ Exists(b) /\ batch[b].life # "released" /\ BatchFree(b)
  /\ Starts(c, [Idle EXCEPT !.op = "release", !.step = "held", !.batch = b, !.wo = batch[b].wo])
  /\ UNCHANGED <<workOrder, batch>>

ReleaseCommit(c) ==
  LET t    == tx[c]
      rows == [batch EXCEPT ![t.batch] = [@ EXCEPT !.life = "released"]] IN
  /\ t.op = "release"
  /\ Lockable(c, t.wo)
  /\ batch' = rows
  /\ workOrder' = [workOrder EXCEPT ![t.wo] = Synced(@, t.wo, rows)]
  /\ Ends(c)

(* Put on hold, rejected or cancelled; the work order is not reconciled. *)
SetBatchLifecycle(b, life) ==
  /\ Exists(b) /\ batch[b].life # "released" /\ BatchFree(b)
  /\ batch' = [batch EXCEPT ![b] = [@ EXCEPT !.life = life]]
  /\ UNCHANGED <<workOrder, tx>>

DeleteBatch(b) ==
  /\ Exists(b) /\ BatchFree(b)
  /\ batch' = [batch EXCEPT ![b] = [@ EXCEPT !.life = "deleted", !.key = None]]
  /\ UNCHANGED <<workOrder, tx>>

(* A deadlock, short stock or a lost connection ends a request; a screen   *)
(* is closed.                                                              *)
Abandon(c) ==
  /\ tx[c] # Idle
  /\ Ends(c)
  /\ UNCHANGED <<workOrder, batch>>

-----------------------------------------------------------------------------
Next ==
  \/ \E w \in WorkOrders, ready \in BOOLEAN, releaseNow \in BOOLEAN :
       CreateWorkOrder(w, ready, releaseNow)
  \/ \E c \in Clients, w \in WorkOrders : OpenWorkOrder(c, w)
  \/ \E c \in Clients, status \in OPEN_FOR_BATCH \cup Closed, reason \in BOOLEAN :
       Transition(c, status, reason)
  \/ \E c \in Clients, w \in WorkOrders, size \in Sizes, key \in Keys \cup {None}, version \in 0..4 :
       GenerateCheck(c, w, size, key, version)
  \/ \E c \in Clients, b \in Batches : GenerateInsert(c, b)
  \/ \E c \in Clients : GenerateReplay(c)
  \/ \E c \in Clients : GenerateCommit(c)
  \/ \E c \in Clients : GenerateRefused(c)
  \/ \E c \in Clients, b \in Batches : ReleaseBatch(c, b)
  \/ \E c \in Clients : ReleaseCommit(c)
  \/ \E b \in Batches, life \in {"pending", "discarded"} : SetBatchLifecycle(b, life)
  \/ \E b \in Batches : DeleteBatch(b)
  \/ \E c \in Clients : Abandon(c)

Spec == Init /\ [][Next]_vars

-----------------------------------------------------------------------------
(* Properties.                                                             *)

(* Rows keep their shape, and a work order moves at most three times.      *)
TypeOK ==
  /\ workOrder \in [WorkOrders -> WorkOrderRow]
  /\ batch \in [Batches -> BatchRow]
  /\ tx \in [Clients -> Tx]

(* No batch is recorded for a work order that was completed or cancelled   *)
(* while the batch was being generated.                                    *)
NoBatchOnClosed ==
  [][\A b \in Batches : batch[b].life = "absent" /\ batch'[b].life # "absent"
        => workOrder[batch'[b].wo].status \in OPEN_FOR_BATCH]_vars

(* Nothing that happens to its batches, and no late request, reopens or    *)
(* otherwise moves a work order that is completed or cancelled.            *)
ClosedStaysClosed ==
  [][\A w \in WorkOrders : workOrder[w].status \in Closed
        => workOrder'[w] = workOrder[w]]_vars

(* However often a submit with an Idempotency-Key is retried, and on       *)
(* whatever work order, the key made at most one of the batches there are. *)
OneBatchPerKey ==
  \A b1, b2 \in Batches :
    Exists(b1) /\ Exists(b2) /\ batch[b1].key = batch[b2].key /\ batch[b1].key # None => b1 = b2

(* A work order that waits to be started has never had a batch that is     *)
(* still there: it cannot be released to production over work in progress. *)
WaitingHasNoBatch ==
  \A w \in WorkOrders : workOrder[w].status \in NotStarted =>
    \A b \in Batches : Exists(b) => batch[b].wo # w

(* Overlapping releases never leave a work order open whose released       *)
(* output is what was planned.  Deleting a batch does not reconcile, so    *)
(* work orders that lost one are left out.                                 *)
OutputCompletes ==
  \A w \in WorkOrders :
    /\ OutputOf(batch, w, {"released"}) > 0 /\ WithinTolerance(OutputOf(batch, w, {"released"}))
    /\ \A b \in Batches : batch[b].wo = w => batch[b].life # "deleted"
    => workOrder[w].status \in Closed

(* "A batch that later fails QC never leaves the order closed with nothing *)
(* to ship": a work order that completed by itself has released output, as *)
(* long as no batch of it is deleted.                                      *)
CompletedHasOutput ==
  \A w \in WorkOrders :
    /\ workOrder[w].automatic
    /\ \A b \in Batches : batch[b].wo = w => batch[b].life # "deleted"
    => OutputOf(batch, w, {"released"}) > 0

(* Rows and transactions keep their shape, and the status of a work order  *)
(* that moves by itself is the one its batches imply, however their        *)
(* releases, holds and its own transitions overlap.                        *)
StatusFollowsBatches ==
  TypeOK /\ WaitingHasNoBatch /\ OutputCompletes /\ CompletedHasOutput

(* A transition, and a batch generated with a version, happens to a work   *)
(* order in the status its caller saw.                                     *)
ActsAsSeen ==
  [][\A c \in Clients :
       /\ tx[c].op \in {"transition", "generate"} /\ tx[c].version # 0
       /\ tx'[c] = Idle /\ <<workOrder, batch>>' # <<workOrder, batch>>
       => workOrder[tx[c].wo].status = tx[c].status]_vars
=============================================================================
