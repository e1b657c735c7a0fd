-------------------------- MODULE WorkOrdersProofs --------------------------
(***************************************************************************)
(* Proofs about WorkOrders: what is closed stays closed, a key makes one   *)
(* batch, a transition finds the status that its caller saw, and a work    *)
(* order is where its batches put it.                                      *)
(*                                                                         *)
(* Keys and screens are not inductive. A batch that is inserted and not    *)
(* yet committed already owns its key, and a screen is as old as its       *)
(* version says only because every move of a work order counts its version *)
(* up. And a version is small because a status is reached in few moves.    *)
(*                                                                         *)
(* That a status follows its batches also needs that a status which is     *)
(* absent has none, and that a batch has a size (Follows, Sized).          *)
(***************************************************************************)
EXTENDS WorkOrders, SumTheorems, TLAPS

HoldsNew(t) == t.op = "generate" /\ t.step = "held"

\* What a request t of client c has read and holds, whatever the others did since.
RequestFits(c, t) ==
    /\ t.op \in {"transition", "generate"} =>
         /\ t.wo \in WorkOrders
         /\ workOrder[t.wo].status # "absent"
         /\ t.version <= workOrder[t.wo].version
         /\ t.version = workOrder[t.wo].version => t.status = workOrder[t.wo].status
    /\ t.op = "generate" => t.size \in Sizes
    /\ HoldsNew(t) => t.batch \in Batches /\ batch[t.batch].life = "absent"
    /\ t.op = "release" => /\ t.batch \in Batches /\ Exists(t.batch)
                           /\ t.wo = batch[t.batch].wo
    /\ t.batch # None => /\ t.op = "release" \/ HoldsNew(t)
                         /\ \A d \in Clients \ {c} : tx[d].batch # t.batch
    /\ HoldsNew(t) /\ t.key # None =>
         /\ ~KeyUsed(t.key)
         /\ \A d \in Clients \ {c} : HoldsNew(tx[d]) => tx[d].key # t.key

\* How often a work order may have moved to its status.
MovesTo(status) ==
    CASE status = "released_to_production" -> 2
      [] status = "in_progress" -> 3
      [] status \in Closed -> 4
      [] OTHER -> 1

RowFits(row) == row \in WorkOrderRow /\ row.version <= MovesTo(row.status)

RowsFit    == \A w \in WorkOrders : RowFits(workOrder[w])
MadeForOne == \A b \in Batches : batch[b].life # "absent" => batch[b].wo \in WorkOrders
AllFit     == \A c \in Clients : RequestFits(c, tx[c])

WorkOrderInv ==
    /\ TypeOK
    /\ RowsFit
    /\ MadeForOne
    /\ OneBatchPerKey
    /\ AllFit

\* A work order is created, or moves while it is open and counts its version up.
RowStep(old, new) ==
    \/ new = old
    \/ old.status = "absent"
    \/ /\ old.status \in OPEN_FOR_BATCH
       /\ new.status # "absent"
       /\ new.version = old.version + 1

-----------------------------------------------------------------------------
(* Rows                                                                     *)

LEMMA MovedRow ==
    ASSUME NEW r \in WorkOrderRow, NEW s \in OPEN_FOR_BATCH \cup Closed, r.version < 4
    PROVE  /\ Moved(r, s) \in WorkOrderRow
           /\ Moved(r, s).status = s
           /\ Moved(r, s).version = r.version + 1
  <1>1. PICK v : v = r.version + 1
    OBVIOUS
  <1>2. v \in 1..4
    BY <1>1 DEF WorkOrderRow
  <1>3. [r EXCEPT !.status = s, !.version = v] \in WorkOrderRow
    BY <1>2 DEF WorkOrderRow
  <1>4. Moved(r, s) = [r EXCEPT !.status = s, !.version = v]
    BY <1>1 DEF Moved
  <1> QED BY <1>1, <1>3, <1>4 DEF WorkOrderRow

LEMMA SyncedStep ==
    ASSUME NEW row, RowFits(row), NEW w, NEW rows
    PROVE  RowFits(Synced(row, w, rows)) /\ RowStep(row, Synced(row, w, rows))
  <1> DEFINE next == NextStatus(row.status, OutputOf(rows, w, Live), OutputOf(rows, w, {"released"}))
  <1>1. CASE ~Reconcilable(row) \/ next = row.status
    BY <1>1 DEF Synced, RowStep
  <1>2. CASE ~(~Reconcilable(row) \/ next = row.status)
    <2>1. \/ next = "completed" \/ (next = "in_progress" /\ row.status \in NotStarted)
          \/ next = row.status
      BY DEF NextStatus
    <2>2. row.status \in OPEN_FOR_BATCH
      BY <1>2 DEF Reconcilable
    <2>3. Synced(row, w, rows) = [Moved(row, next) EXCEPT !.automatic = (next = "completed")]
      BY <1>2 DEF Synced
    <2>4. Synced(row, w, rows) = [status |-> next, version |-> row.version + 1,
                                  ready |-> row.ready, automatic |-> (next = "completed")]
      BY <2>3 DEF Moved, RowFits, WorkOrderRow
    <2> HIDE DEF next
    <2> QED BY <1>2, <2>1, <2>2, <2>4
            DEF RowFits, RowStep, WorkOrderRow, MovesTo, OPEN_FOR_BATCH, Closed, NotStarted
  <1> QED BY <1>1, <1>2

\* Only four operations write a work order, and they move it as they may.
LEMMA RowsStep ==
    ASSUME WorkOrderInv, [Next]_vars
    PROVE  /\ workOrder' \in [WorkOrders -> WorkOrderRow]
           /\ \A w \in WorkOrders : RowFits(workOrder'[w]) /\ RowStep(workOrder[w], workOrder'[w])
  <1>0. /\ workOrder \in [WorkOrders -> WorkOrderRow]
        /\ \A w \in WorkOrders : RowFits(workOrder[w])
    BY DEF WorkOrderInv, TypeOK, RowsFit
  <1>1. CASE UNCHANGED workOrder
    BY <1>0, <1>1 DEF RowStep
  <1>2. ASSUME NEW w \in WorkOrders, NEW new, RowFits(new), RowStep(workOrder[w], new),
               workOrder' = [workOrder EXCEPT ![w] = new]
        PROVE  /\ workOrder' \in [WorkOrders -> WorkOrderRow]
               /\ \A x \in WorkOrders : RowFits(workOrder'[x]) /\ RowStep(workOrder[x], workOrder'[x])
    BY <1>0, <1>2 DEF RowFits, RowStep
  <1>3. ASSUME NEW w \in WorkOrders, NEW ready \in BOOLEAN, NEW releaseNow \in BOOLEAN,
               CreateWorkOrder(w, ready, releaseNow)
        PROVE  \E new : /\ RowFits(new) /\ RowStep(workOrder[w], new)
                        /\ workOrder' = [workOrder EXCEPT ![w] = new]
    <2> DEFINE new == [status |-> IF releaseNow /\ ready THEN "released_to_production" ELSE "planned",
                       version |-> 1, ready |-> ready, automatic |-> FALSE]
    <2>1. RowFits(new)
      BY DEF RowFits, WorkOrderRow, MovesTo, OPEN_FOR_BATCH, Closed
    <2>2. RowStep(workOrder[w], new)
      BY <1>3 DEF CreateWorkOrder, RowStep
    <2> QED BY <1>3, <2>1, <2>2 DEF CreateWorkOrder
  <1>4. ASSUME NEW c \in Clients, NEW status \in OPEN_FOR_BATCH \cup Closed, NEW reason \in BOOLEAN,
               Transition(c, status, reason)
        PROVE  \E w \in WorkOrders : \E new : /\ RowFits(new) /\ RowStep(workOrder[w], new)
                                              /\ workOrder' = [workOrder EXCEPT ![w] = new]
    <2>1. tx[c].wo \in WorkOrders
      BY <1>4 DEF Transition, WorkOrderInv, AllFit, RequestFits
    <2>2. PICK w \in WorkOrders : w = tx[c].wo
      BY <2>1
    <2>3. PICK old : old = workOrder[w]
      OBVIOUS
    <2>4. /\ status \in TRANSITIONS(old.status)
          /\ workOrder' = [workOrder EXCEPT ![w] = Moved(old, status)]
      BY <1>4, <2>2, <2>3 DEF Transition
    <2>5. RowFits(old)
      BY <1>0, <2>3
    <2>7. /\ old.status \in OPEN_FOR_BATCH
          /\ old.status = "planned" => status \in {"released_to_production", "cancelled"}
          /\ old.status = "released_to_production" => status = "cancelled"
          /\ old.status = "in_progress" => status \in {"completed", "cancelled"}
      BY <2>4 DEF TRANSITIONS, OPEN_FOR_BATCH
    <2>6. old \in WorkOrderRow /\ old.version < 4 /\ old.version \in Nat
      BY <2>5, <2>7 DEF RowFits, WorkOrderRow, MovesTo, OPEN_FOR_BATCH, Closed
    <2>8. PICK new : new = Moved(old, status)
      OBVIOUS
    <2>9. new \in WorkOrderRow /\ new.status = status /\ new.version = old.version + 1
      BY <2>6, <2>8, MovedRow
    <2>10. RowFits(new) /\ RowStep(old, new)
      BY <2>5, <2>6, <2>7, <2>9 DEF RowFits, RowStep, MovesTo, OPEN_FOR_BATCH, Closed
    <2> QED BY <2>3, <2>4, <2>8, <2>10
  <1>5. ASSUME NEW w \in WorkOrders, NEW rows,
               workOrder' = [workOrder EXCEPT ![w] = Synced(@, w, rows)]
        PROVE  \E new : /\ RowFits(new) /\ RowStep(workOrder[w], new)
                        /\ workOrder' = [workOrder EXCEPT ![w] = new]
    BY <1>0, <1>5, SyncedStep
  <1>6. ASSUME NEW c \in Clients, GenerateCommit(c)
        PROVE  \E w \in WorkOrders : \E rows : workOrder' = [workOrder EXCEPT ![w] = Synced(@, w, rows)]
    <2>1. tx[c].wo \in WorkOrders
      BY <1>6 DEF GenerateCommit, WorkOrderInv, AllFit, RequestFits
    <2> QED BY <1>6, <2>1 DEF GenerateCommit
  <1>7. ASSUME NEW c \in Clients, ReleaseCommit(c)
        PROVE  \E w \in WorkOrders : \E rows : workOrder' = [workOrder EXCEPT ![w] = Synced(@, w, rows)]
    <2>1. tx[c].batch \in Batches /\ Exists(tx[c].batch) /\ tx[c].wo = batch[tx[c].batch].wo
      BY <1>7 DEF ReleaseCommit, WorkOrderInv, AllFit, RequestFits
    <2>2. tx[c].wo \in WorkOrders
      BY <2>1 DEF WorkOrderInv, MadeForOne, Exists
    <2> QED BY <1>7, <2>2 DEF ReleaseCommit
  <1>8. \/ UNCHANGED workOrder
        \/ \E w \in WorkOrders, ready \in BOOLEAN, releaseNow \in BOOLEAN :
             CreateWorkOrder(w, ready, releaseNow)
        \/ \E c \in Clients, status \in OPEN_FOR_BATCH \cup Closed, reason \in BOOLEAN :
             Transition(c, status, reason)
        \/ \E c \in Clients : GenerateCommit(c)
        \/ \E c \in Clients : ReleaseCommit(c)
    BY DEF Next, vars, OpenWorkOrder, GenerateCheck, GenerateInsert, GenerateReplay,
           GenerateRefused, ReleaseBatch, SetBatchLifecycle, DeleteBatch, Abandon
  <1> QED BY <1>1, <1>2, <1>3, <1>4, <1>5, <1>6, <1>7, <1>8

-----------------------------------------------------------------------------
(* Requests                                                                 *)

LEMMA IdleFits ==
    ASSUME NEW c
    PROVE  Idle \in Tx /\ RequestFits(c, Idle)
  BY DEF Idle, Tx, RequestFits, HoldsNew, OPEN_FOR_BATCH, Closed

\* A request reads or inserts what it may: the others are where they were.
LEMMA RequestStep ==
    ASSUME WorkOrderInv, NEW c \in Clients, NEW t \in Tx, RequestFits(c, t),
           workOrder' = workOrder, batch' = batch, tx' = [tx EXCEPT ![c] = t]
    PROVE  WorkOrderInv'
  <1>1. tx \in [Clients -> Tx] /\ tx' \in [Clients -> Tx] /\ tx'[c] = t
    BY DEF WorkOrderInv, TypeOK
  <1>2. \A d \in Clients \ {c} : tx'[d] = tx[d]
    BY <1>1
  <1>3. /\ TypeOK' /\ RowsFit' /\ MadeForOne' /\ OneBatchPerKey'
        /\ \A b : Exists(b)' <=> Exists(b)
        /\ \A k : KeyUsed(k)' <=> KeyUsed(k)
    BY <1>1 DEF WorkOrderInv, TypeOK, RowsFit, MadeForOne, OneBatchPerKey, Exists, KeyUsed
  <1>4. RequestFits(c, tx[c])'
    BY <1>1, <1>2, <1>3 DEF RequestFits
  <1>5. ASSUME NEW d \in Clients \ {c}
        PROVE  RequestFits(d, tx[d])'
    <2>1. RequestFits(d, tx[d])
      BY DEF WorkOrderInv, AllFit
    <2>2. tx[d].batch # None => tx'[c].batch # tx[d].batch
      BY <1>1 DEF RequestFits
    <2>3. HoldsNew(tx[d]) /\ tx[d].key # None /\ HoldsNew(t) => t.key # tx[d].key
      BY DEF RequestFits
    <2>4. tx[d].batch # None => \A e \in Clients \ {d} : tx'[e].batch # tx[d].batch
      BY <1>2, <2>1, <2>2 DEF RequestFits
    <2>5. HoldsNew(tx[d]) /\ tx[d].key # None =>
            \A e \in Clients \ {d} : HoldsNew(tx'[e]) => tx'[e].key # tx[d].key
      BY <1>1, <1>2, <2>1, <2>3 DEF RequestFits
    <2> QED BY <1>2, <1>3, <2>1, <2>4, <2>5 DEF RequestFits, HoldsNew
  <1> QED BY <1>3, <1>4, <1>5 DEF WorkOrderInv, AllFit

\* Rows change, and at most one request ends: those that go on find theirs.
LEMMA RowsChange ==
    ASSUME WorkOrderInv,
           TypeOK', RowsFit', MadeForOne', OneBatchPerKey',
           \A w \in WorkOrders : RowStep(workOrder[w], workOrder'[w]),
           \A d \in Clients : tx'[d] = tx[d] \/ tx'[d] = Idle,
           \A d \in Clients : tx'[d] = tx[d] /\ tx[d].batch # None
                => batch'[tx[d].batch] = batch[tx[d].batch],
           \A d \in Clients : tx'[d] = tx[d] /\ HoldsNew(tx[d]) /\ tx[d].key # None
                => ~KeyUsed(tx[d].key)'
    PROVE  WorkOrderInv'
  <1>1. ASSUME NEW d \in Clients
        PROVE  RequestFits(d, tx[d])'
    <2>1. CASE tx'[d] = Idle
      BY <2>1 DEF Idle, RequestFits, HoldsNew
    <2>2. CASE tx'[d] = tx[d]
      <3>1. PICK t : t = tx[d]
        OBVIOUS
      <3>2. RequestFits(d, t) /\ t \in Tx
        BY <3>1 DEF WorkOrderInv, AllFit, TypeOK
      <3>3. tx'[d] = t
        BY <2>2, <3>1
      <3>4. t.op \in {"transition", "generate"} =>
              /\ t.wo \in WorkOrders
              /\ workOrder'[t.wo].status # "absent"
              /\ t.version <= workOrder'[t.wo].version
              /\ t.version = workOrder'[t.wo].version => t.status = workOrder'[t.wo].status
        <4> SUFFICES ASSUME t.op \in {"transition", "generate"}
                     PROVE  /\ t.wo \in WorkOrders
                            /\ workOrder'[t.wo].status # "absent"
                            /\ t.version <= workOrder'[t.wo].version
                            /\ t.version = workOrder'[t.wo].version => t.status = workOrder'[t.wo].status
          OBVIOUS
        <4>1. /\ t.wo \in WorkOrders
              /\ workOrder[t.wo].status # "absent"
              /\ t.version <= workOrder[t.wo].version
              /\ t.version = workOrder[t.wo].version => t.status = workOrder[t.wo].status
          BY <3>2 DEF RequestFits
        <4>2. RowStep(workOrder[t.wo], workOrder'[t.wo])
          BY <4>1
        <4>3. t.version \in Int /\ workOrder[t.wo].version \in Int
          BY <3>2, <4>1 DEF WorkOrderInv, TypeOK, WorkOrderRow, Tx
        <4> QED BY <4>1, <4>2, <4>3 DEF RowStep
      <3>5. t.batch # None => batch'[t.batch] = batch[t.batch]
        BY <2>2, <3>1
      <3>6. t.op = "release" \/ HoldsNew(t) => t.batch \in Batches
        BY <3>2 DEF RequestFits
      <3>7. t.op = "release" \/ HoldsNew(t) => batch'[t.batch] = batch[t.batch]
        BY <3>5, <3>6, NoneAssumption
      <3>8. HoldsNew(t) /\ t.key # None => ~KeyUsed(t.key)'
        BY <2>2, <3>1
      <3>9. t.batch # None => \A e \in Clients \ {d} : tx'[e].batch # t.batch
        BY <3>2 DEF RequestFits, Idle
      <3>10. HoldsNew(t) /\ t.key # None =>
               \A e \in Clients \ {d} : HoldsNew(tx'[e]) => tx'[e].key # t.key
        BY <3>2 DEF RequestFits, Idle, HoldsNew
      <3> QED BY <3>2, <3>3, <3>4, <3>7, <3>8, <3>9, <3>10 DEF RequestFits, Exists, HoldsNew
    <2> QED BY <2>1, <2>2
  <1> QED BY <1>1 DEF WorkOrderInv, AllFit
-----------------------------------------------------------------------------
(* Operations                                                               *)

LEMMA EndsIdle ==
    ASSUME WorkOrderInv, NEW c \in Clients, Ends(c)
    PROVE  /\ tx' \in [Clients -> Tx]
           /\ tx'[c] = Idle
           /\ \A d \in Clients \ {c} : tx'[d] = tx[d]
  BY IdleFits DEF WorkOrderInv, TypeOK, Ends

\* Batches and requests stay, or a request ends.
LEMMA RowsOnly ==
    ASSUME WorkOrderInv, Next, UNCHANGED batch, UNCHANGED tx \/ \E c \in Clients : Ends(c)
    PROVE  WorkOrderInv'
  <1>1. /\ workOrder' \in [WorkOrders -> WorkOrderRow]
        /\ \A w \in WorkOrders : RowFits(workOrder'[w]) /\ RowStep(workOrder[w], workOrder'[w])
    BY RowsStep
  <1>2. /\ tx' \in [Clients -> Tx]
        /\ \A d \in Clients : tx'[d] = tx[d] \/ tx'[d] = Idle
    BY EndsIdle DEF WorkOrderInv, TypeOK
  <1>3. /\ TypeOK' /\ RowsFit' /\ MadeForOne' /\ OneBatchPerKey'
        /\ \A k : KeyUsed(k)' <=> KeyUsed(k)
    BY <1>1, <1>2 DEF WorkOrderInv, TypeOK, RowsFit, MadeForOne, OneBatchPerKey, Exists, KeyUsed
  <1>4. \A d \in Clients : HoldsNew(tx[d]) /\ tx[d].key # None => ~KeyUsed(tx[d].key)
    BY DEF WorkOrderInv, AllFit, RequestFits
  <1> QED BY <1>1, <1>2, <1>3, <1>4, RowsChange

\* A request that starts.
LEMMA StartsStep ==
    ASSUME WorkOrderInv, NEW c \in Clients, NEW t \in Tx, RequestFits(c, t), Starts(c, t),
           workOrder' = workOrder, batch' = batch
    PROVE  WorkOrderInv'
  BY RequestStep DEF Starts

LEMMA ScreenRow ==
    ASSUME NEW w \in WorkOrders, NEW v \in 0..4, NEW s \in OPEN_FOR_BATCH \cup Closed \cup {"absent"}
    PROVE  [Idle EXCEPT !.op = "transition", !.step = "checked", !.wo = w,
                        !.version = v, !.status = s] \in Tx
  BY DEF Idle, Tx

LEMMA SubmitRow ==
    ASSUME NEW w \in WorkOrders, NEW n \in Sizes, NEW k \in Keys \cup {None}, NEW v \in 0..4,
           NEW s \in OPEN_FOR_BATCH \cup Closed \cup {"absent"}
    PROVE  [Idle EXCEPT !.op = "generate", !.step = "checked", !.wo = w, !.size = n,
                        !.key = k, !.version = v, !.status = s] \in Tx
  BY DEF Idle, Tx

LEMMA ReleaseRow ==
    ASSUME NEW w \in WorkOrders, NEW b \in Batches
    PROVE  [Idle EXCEPT !.op = "release", !.step = "held", !.batch = b, !.wo = w] \in Tx
  <1>1. 0 \in 0..4
    OBVIOUS
  <1> QED BY <1>1, Zenon DEF Idle, Tx

LEMMA OpenWorkOrderInv ==
    ASSUME WorkOrderInv, NEW c \in Clients, NEW w \in WorkOrders, OpenWorkOrder(c, w)
    PROVE  WorkOrderInv'
  <1> DEFINE t == [Idle EXCEPT !.op = "transition", !.step = "checked", !.wo = w,
                             !.version = workOrder[w].version, !.status = workOrder[w].status]
  <1>0. /\ t.op = "transition" /\ t.step = "checked" /\ t.wo = w /\ t.batch = None
        /\ t.version = workOrder[w].version /\ t.status = workOrder[w].status
    BY DEF Idle
  <1>1. Starts(c, t) /\ workOrder' = workOrder /\ batch' = batch /\ workOrder[w].status # "absent"
    BY DEF OpenWorkOrder
  <1>2. workOrder[w] \in WorkOrderRow
    BY DEF WorkOrderInv, TypeOK
  <1>3. t \in Tx
    <2>1. workOrder[w].version \in 0..4 /\ workOrder[w].status \in OPEN_FOR_BATCH \cup Closed \cup {"absent"}
      BY <1>2 DEF WorkOrderRow
    <2> QED BY <2>1, ScreenRow
  <1>4. RequestFits(c, t)
    BY <1>0, <1>1, <1>2 DEF RequestFits, HoldsNew, WorkOrderRow
  <1> HIDE DEF t
  <1> QED BY <1>1, <1>3, <1>4, StartsStep

LEMMA GenerateCheckInv ==
    ASSUME WorkOrderInv, NEW c \in Clients, NEW w \in WorkOrders, NEW size \in Sizes,
           NEW key \in Keys \cup {None}, NEW version \in 0..4,
           GenerateCheck(c, w, size, key, version)
    PROVE  WorkOrderInv'
  <1> DEFINE t == [Idle EXCEPT !.op = "generate", !.step = "checked", !.wo = w, !.size = size,
                             !.key = key, !.version = version, !.status = workOrder[w].status]
  <1>0. /\ t.op = "generate" /\ t.step = "checked" /\ t.wo = w /\ t.batch = None
        /\ t.size = size /\ t.version = version /\ t.status = workOrder[w].status
    BY DEF Idle
  <1>1. /\ Starts(c, t) /\ workOrder' = workOrder /\ batch' = batch
        /\ workOrder[w].status \in OPEN_FOR_BATCH /\ version \in {0, workOrder[w].version}
    BY DEF GenerateCheck
  <1>2. workOrder[w] \in WorkOrderRow
    BY DEF WorkOrderInv, TypeOK
  <1>3. t \in Tx
    BY <1>2, SubmitRow DEF WorkOrderRow
  <1>4. RequestFits(c, t)
    BY <1>0, <1>1, <1>2 DEF RequestFits, HoldsNew, WorkOrderRow, OPEN_FOR_BATCH
  <1> HIDE DEF t
  <1> QED BY <1>1, <1>3, <1>4, StartsStep

\* A batch that is there and that no release holds is nobody's.
LEMMA FreeIsUnheld ==
    ASSUME WorkOrderInv, NEW b \in Batches, Exists(b), BatchFree(b)
    PROVE  \A d \in Clients : tx[d].batch # b
  <1> SUFFICES ASSUME NEW d \in Clients, tx[d].batch = b
               PROVE  FALSE
    OBVIOUS
  <1>1. b # None
    BY NoneAssumption
  <1>2. tx[d].op = "release" \/ (HoldsNew(tx[d]) /\ batch[b].life = "absent")
    BY <1>1 DEF WorkOrderInv, AllFit, RequestFits
  <1> QED BY <1>2 DEF BatchFree, HoldsBatch, Exists

LEMMA ReleaseBatchInv ==
    ASSUME WorkOrderInv, NEW c \in Clients, NEW b \in Batches, ReleaseBatch(c, b)
    PROVE  WorkOrderInv'
  <1> DEFINE t == [Idle EXCEPT !.op = "release", !.step = "held", !.batch = b, !.wo = batch[b].wo]
  <1>0. /\ t.op = "release" /\ t.wo = batch[b].wo /\ t.batch = b
    BY DEF Idle
  <1>1. /\ Starts(c, t) /\ workOrder' = workOrder /\ batch' = batch
        /\ Exists(b) /\ BatchFree(b)
    BY DEF ReleaseBatch
  <1>2. batch[b].wo \in WorkOrders
    BY <1>1 DEF WorkOrderInv, MadeForOne, Exists
  <1>3. t \in Tx
    BY <1>2, ReleaseRow
  <1>4. \A d \in Clients : tx[d].batch # b
    BY <1>1, FreeIsUnheld
  <1>5. RequestFits(c, t)
    BY <1>0, <1>1, <1>4 DEF RequestFits, HoldsNew
  <1> HIDE DEF t
  <1> QED BY <1>1, <1>3, <1>5, StartsStep

LEMMA GenerateInsertInv ==
    ASSUME WorkOrderInv, NEW c \in Clients, NEW b \in Batches, GenerateInsert(c, b)
    PROVE  WorkOrderInv'
  <1> DEFINE t == [tx[c] EXCEPT !.step = "held", !.batch = b]
  <1>1. /\ tx' = [tx EXCEPT ![c] = t] /\ workOrder' = workOrder /\ batch' = batch
        /\ tx[c].op = "generate" /\ tx[c].step = "checked"
        /\ batch[b].life = "absent" /\ \A x \in Clients : tx[x].batch # b
        /\ KeyFree(c) /\ ~KeyUsed(tx[c].key)
    BY DEF GenerateInsert
  <1>2. tx[c] \in Tx /\ RequestFits(c, tx[c])
    BY DEF WorkOrderInv, TypeOK, AllFit
  <1>3. t \in Tx
    BY <1>2 DEF Tx
  <1>4. /\ t.op = tx[c].op /\ t.step = "held" /\ t.wo = tx[c].wo /\ t.batch = b
        /\ t.size = tx[c].size /\ t.key = tx[c].key /\ t.version = tx[c].version
        /\ t.status = tx[c].status
    BY <1>2 DEF Tx
  <1> HIDE DEF t
  <1>5. t.key # None => \A d \in Clients \ {c} : HoldsNew(tx[d]) => tx[d].key # t.key
    BY <1>1, <1>4 DEF KeyFree, HoldsNew
  <1>6. RequestFits(c, t)
    BY <1>1, <1>2, <1>4, <1>5 DEF RequestFits, HoldsNew
  <1> QED BY <1>1, <1>3, <1>6, RequestStep

LEMMA GenerateCommitInv ==
    ASSUME WorkOrderInv, NEW c \in Clients, GenerateCommit(c)
    PROVE  WorkOrderInv'
  <1>1. PICK t : t = tx[c]
    OBVIOUS
  <1>2. t \in Tx /\ RequestFits(c, t)
    BY <1>1 DEF WorkOrderInv, TypeOK, AllFit
  <1>3. /\ t.op = "generate" /\ t.step = "held"
        /\ batch' = [batch EXCEPT ![t.batch] = [life |-> "pending", wo |-> t.wo,
                                                size |-> t.size, key |-> t.key]]
        /\ Ends(c)
    BY <1>1 DEF GenerateCommit
  <1>4. /\ t.batch \in Batches /\ batch[t.batch].life = "absent"
        /\ t.wo \in WorkOrders /\ t.size \in Sizes
    BY <1>2, <1>3 DEF RequestFits, HoldsNew
  <1>5. PICK b \in Batches : b = t.batch
    BY <1>4
  <1>6. /\ tx' \in [Clients -> Tx] /\ tx'[c] = Idle
        /\ \A d \in Clients \ {c} : tx'[d] = tx[d]
    BY <1>3, EndsIdle
  <1>7. /\ workOrder' \in [WorkOrders -> WorkOrderRow]
        /\ \A w \in WorkOrders : RowFits(workOrder'[w]) /\ RowStep(workOrder[w], workOrder'[w])
    BY RowsStep DEF Next
  <1>8. PICK new : new = [life |-> "pending", wo |-> t.wo, size |-> t.size, key |-> t.key]
    OBVIOUS
  <1>9. /\ new.life = "pending" /\ new.wo = t.wo /\ new.key = t.key /\ new \in BatchRow
    BY <1>2, <1>4, <1>8 DEF BatchRow, Tx, Live
  <1>10. /\ batch \in [Batches -> BatchRow]
         /\ batch' = [batch EXCEPT ![b] = new]
    BY <1>3, <1>5, <1>8 DEF WorkOrderInv, TypeOK
  <1>11. /\ batch' \in [Batches -> BatchRow]
         /\ batch'[b] = new
         /\ \A x \in Batches \ {b} : batch'[x] = batch[x]
    BY <1>9, <1>10
  <1>12. TypeOK' /\ RowsFit' /\ MadeForOne'
    BY <1>4, <1>6, <1>7, <1>9, <1>11 DEF WorkOrderInv, TypeOK, RowsFit, MadeForOne
  <1>13. t.key # None => ~KeyUsed(t.key)
    BY <1>2, <1>3 DEF RequestFits, HoldsNew
  <1>14. OneBatchPerKey'
    BY <1>9, <1>11, <1>13 DEF WorkOrderInv, OneBatchPerKey, Exists, KeyUsed
  <1>15. ASSUME NEW d \in Clients, tx'[d] = tx[d], tx[d].batch # None
         PROVE  batch'[tx[d].batch] = batch[tx[d].batch]
    <2>1. d # c
      BY <1>1, <1>5, <1>6, <1>15, NoneAssumption DEF Idle
    <2>2. tx[d].batch # b
      BY <1>2, <1>5, <2>1, NoneAssumption DEF RequestFits
    <2>3. tx[d].batch \in Batches
      BY <1>15 DEF WorkOrderInv, AllFit, RequestFits
    <2> QED BY <1>11, <2>2, <2>3
  <1>16. ASSUME NEW d \in Clients, tx'[d] = tx[d], HoldsNew(tx[d]), tx[d].key # None
         PROVE  ~KeyUsed(tx[d].key)'
    <2>1. d # c
      BY <1>6, <1>16 DEF Idle, HoldsNew
    <2>2. ~KeyUsed(tx[d].key) /\ tx[d].key # t.key
      BY <1>2, <1>3, <1>16, <2>1 DEF WorkOrderInv, AllFit, RequestFits, HoldsNew
    <2> QED BY <1>9, <1>11, <1>16, <2>2 DEF KeyUsed, Exists
  <1>17. \A d \in Clients : tx'[d] = tx[d] \/ tx'[d] = Idle
    BY <1>6
  <1> QED BY <1>7, <1>12, <1>14, <1>15, <1>16, <1>17, RowsChange

\* A batch that is nobody else's moves to another status.
LEMMA BatchMoves ==
    ASSUME WorkOrderInv, Next, NEW b \in Batches, NEW life \in {"pending", "discarded", "released"}, Exists(b),
           batch' = [batch EXCEPT ![b] = [@ EXCEPT !.life = life]],
           tx' \in [Clients -> Tx],
           \A d \in Clients : tx'[d] = tx[d] \/ tx'[d] = Idle,
           \A d \in Clients : tx'[d] = tx[d] /\ tx[d].batch # None => tx[d].batch # b
    PROVE  WorkOrderInv'
  <1>1. batch \in [Batches -> BatchRow]
    BY DEF WorkOrderInv, TypeOK
  <1>2. PICK old \in BatchRow : old = batch[b]
    BY <1>1
  <1>3. PICK new : new = [old EXCEPT !.life = life]
    OBVIOUS
  <1>4. new \in BatchRow /\ new.life = life /\ new.wo = old.wo /\ new.key = old.key
    BY <1>3 DEF BatchRow, Live
  <1>5. /\ batch' \in [Batches -> BatchRow]
        /\ batch'[b] = new
        /\ \A x \in Batches \ {b} : batch'[x] = batch[x]
    BY <1>1, <1>2, <1>3, <1>4
  <1>6. /\ workOrder' \in [WorkOrders -> WorkOrderRow]
        /\ \A w \in WorkOrders : RowFits(workOrder'[w]) /\ RowStep(workOrder[w], workOrder'[w])
    BY RowsStep
  <1>7. \A x \in Batches : /\ Exists(x)' <=> Exists(x)
                           /\ batch'[x].wo = batch[x].wo /\ batch'[x].key = batch[x].key
    BY <1>2, <1>4, <1>5 DEF Exists
  <1>8. TypeOK' /\ RowsFit' /\ MadeForOne' /\ OneBatchPerKey'
    BY <1>2, <1>4, <1>5, <1>6, <1>7 DEF WorkOrderInv, TypeOK, RowsFit, MadeForOne, OneBatchPerKey, Exists
  <1>9. \A k : KeyUsed(k)' => KeyUsed(k)
    BY <1>7 DEF KeyUsed
  <1>10. \A d \in Clients : tx'[d] = tx[d] /\ tx[d].batch # None
            => batch'[tx[d].batch] = batch[tx[d].batch]
    BY <1>5 DEF WorkOrderInv, AllFit, RequestFits
  <1>11. \A d \in Clients : HoldsNew(tx[d]) /\ tx[d].key # None => ~KeyUsed(tx[d].key)
    BY DEF WorkOrderInv, AllFit, RequestFits
  <1> QED BY <1>6, <1>8, <1>9, <1>10, <1>11, RowsChange

LEMMA ReleaseCommitInv ==
    ASSUME WorkOrderInv, NEW c \in Clients, ReleaseCommit(c)
    PROVE  WorkOrderInv'
  <1>1. PICK t : t = tx[c]
    OBVIOUS
  <1>2. t \in Tx /\ RequestFits(c, t)
    BY <1>1 DEF WorkOrderInv, TypeOK, AllFit
  <1>3. /\ t.op = "release"
        /\ batch' = [batch EXCEPT ![t.batch] = [@ EXCEPT !.life = "released"]]
        /\ Ends(c)
    BY <1>1 DEF ReleaseCommit
  <1>4. t.batch \in Batches /\ Exists(t.batch)
    BY <1>2, <1>3 DEF RequestFits
  <1>5. PICK b \in Batches : b = t.batch
    BY <1>4
  <1>6. /\ tx' \in [Clients -> Tx] /\ tx'[c] = Idle
        /\ \A d \in Clients \ {c} : tx'[d] = tx[d]
    BY <1>3, EndsIdle
  <1>7. ASSUME NEW d \in Clients, tx'[d] = tx[d], tx[d].batch # None
        PROVE  tx[d].batch # b
    <2>1. d # c
      BY <1>1, <1>5, <1>6, <1>7, NoneAssumption DEF Idle
    <2> QED BY <1>2, <1>5, <2>1, NoneAssumption DEF RequestFits
  <1>8. Exists(b) /\ "released" \in Live /\ batch' = [batch EXCEPT ![b] = [@ EXCEPT !.life = "released"]]
    BY <1>3, <1>4, <1>5 DEF Live
  <1> QED BY <1>6, <1>7, <1>8, BatchMoves DEF Next

LEMMA SetBatchLifecycleInv ==
    ASSUME WorkOrderInv, NEW b \in Batches, NEW life \in {"pending", "discarded"}, SetBatchLifecycle(b, life)
    PROVE  WorkOrderInv'
  <1>1. Exists(b) /\ BatchFree(b) /\ UNCHANGED tx
        /\ batch' = [batch EXCEPT ![b] = [@ EXCEPT !.life = life]]
    BY DEF SetBatchLifecycle
  <1>2. \A d \in Clients : tx[d].batch # b
    BY <1>1, FreeIsUnheld
  <1>3. tx' \in [Clients -> Tx]
    BY <1>1 DEF WorkOrderInv, TypeOK
  <1> QED BY <1>1, <1>2, <1>3, BatchMoves DEF Next, Live

LEMMA DeleteBatchInv ==
    ASSUME WorkOrderInv, NEW b \in Batches, DeleteBatch(b)
    PROVE  WorkOrderInv'
  <1>1. Exists(b) /\ BatchFree(b) /\ UNCHANGED <<workOrder, tx>>
        /\ batch' = [batch EXCEPT ![b] = [@ EXCEPT !.life = "deleted", !.key = None]]
    BY DEF DeleteBatch
  <1>2. \A d \in Clients : tx[d].batch # b
    BY <1>1, FreeIsUnheld
  <1>3. batch \in [Batches -> BatchRow]
    BY DEF WorkOrderInv, TypeOK
  <1>4. PICK old \in BatchRow : old = batch[b]
    BY <1>3
  <1>5. PICK new : new = [old EXCEPT !.life = "deleted", !.key = None]
    OBVIOUS
  <1>6. new \in BatchRow /\ new.life = "deleted" /\ new.wo = old.wo
    BY <1>5 DEF BatchRow
  <1>7. /\ batch' \in [Batches -> BatchRow]
        /\ batch'[b] = new
        /\ \A x \in Batches \ {b} : batch'[x] = batch[x]
    BY <1>1, <1>3, <1>4, <1>5, <1>6
  <1>8. TypeOK' /\ RowsFit' /\ MadeForOne' /\ OneBatchPerKey'
    BY <1>1, <1>4, <1>6, <1>7 DEF WorkOrderInv, TypeOK, RowsFit, MadeForOne, OneBatchPerKey, Exists
  <1>9. \A k : KeyUsed(k)' => KeyUsed(k)
    BY <1>6, <1>7 DEF KeyUsed, Exists
  <1>10. \A d \in Clients : tx[d].batch # None => batch'[tx[d].batch] = batch[tx[d].batch]
    BY <1>2, <1>7 DEF WorkOrderInv, AllFit, RequestFits
  <1>11. \A d \in Clients : HoldsNew(tx[d]) /\ tx[d].key # None => ~KeyUsed(tx[d].key)
    BY DEF WorkOrderInv, AllFit, RequestFits
  <1>12. \A w \in WorkOrders : RowStep(workOrder[w], workOrder'[w])
    BY <1>1 DEF RowStep
  <1> QED BY <1>1, <1>8, <1>9, <1>10, <1>11, <1>12, RowsChange

-----------------------------------------------------------------------------
(* A work order's status and its batches                                    *)

There(rows, b) == rows[b].life \notin {"absent", "deleted"}
Kept(rows, w)  == \A b \in Batches : rows[b].wo = w => rows[b].life # "deleted"
Output(rows, w) == OutputOf(rows, w, {"released"})

\* The status of the work order w is the one that the batches `rows` imply.
Follows(row, rows, w) ==
    /\ row.status = "absent" => \A b \in Batches : rows[b].life # "absent" => rows[b].wo # w
    /\ row.status \in NotStarted => \A b \in Batches : There(rows, b) => rows[b].wo # w
    /\ Kept(rows, w) /\ Output(rows, w) > 0 /\ WithinTolerance(Output(rows, w))
         => row.status \in Closed
    /\ row.automatic /\ Kept(rows, w) => Output(rows, w) > 0

AllFollow == \A w \in WorkOrders : Follows(workOrder[w], batch, w)
Sized     == \A b \in Batches : batch[b].life # "absent" => batch[b].size > 0

\* What a batch adds to the output of a work order.
Share(row, w, lives) == IF row.wo = w /\ row.life \in lives THEN row.size ELSE 0

LEMMA OutputIs ==
    ASSUME NEW rows, NEW w, NEW lives
    PROVE  OutputOf(rows, w, lives) = SumOver([b \in Batches |-> Share(rows[b], w, lives)], Batches)
  BY DEF OutputOf, Share

LEMMA ShareIsNat ==
    ASSUME NEW rows \in [Batches -> BatchRow], NEW w, NEW lives, NEW b \in Batches
    PROVE  Share(rows[b], w, lives) \in Nat
  <1>1. rows[b].size \in Sizes \cup {0}
    BY DEF BatchRow
  <1>2. rows[b].size \in Nat
    <2>1. PICK n \in Sizes \cup {0} : n = rows[b].size
      BY <1>1
    <2>2. n = 0 \/ n \in Nat \ {0}
      BY QuantityAssumption
    <2> QED BY <2>1, <2>2
  <1> QED BY <1>2 DEF Share

\* Batches that keep their shares keep the output.
LEMMA SameOutput ==
    ASSUME NEW r, NEW s, NEW w, NEW lives,
           \A b \in Batches : Share(s[b], w, lives) = Share(r[b], w, lives)
    PROVE  OutputOf(s, w, lives) = OutputOf(r, w, lives)
  <1>1. [b \in Batches |-> Share(s[b], w, lives)] = [b \in Batches |-> Share(r[b], w, lives)]
    OBVIOUS
  <1> QED BY <1>1, OutputIs

LEMMA OutputGrows ==
    ASSUME NEW r \in [Batches -> BatchRow], NEW s \in [Batches -> BatchRow], NEW w, NEW lives,
           \A b \in Batches : Share(r[b], w, lives) <= Share(s[b], w, lives)
    PROVE  OutputOf(r, w, lives) <= OutputOf(s, w, lives)
  <1>1. PICK f : f = [b \in Batches |-> Share(r[b], w, lives)]
    OBVIOUS
  <1>2. PICK g : g = [b \in Batches |-> Share(s[b], w, lives)]
    OBVIOUS
  <1>3. \A b \in Batches : f[b] \in Int /\ g[b] \in Int /\ f[b] <= g[b]
    BY <1>1, <1>2, ShareIsNat
  <1>4. SumOver(f, Batches) <= SumOver(g, Batches)
    BY <1>3, FiniteAssumption, SumMonotone
  <1> QED BY <1>1, <1>2, <1>4, OutputIs

\* A batch that counts makes the output positive.
LEMMA OutputPositive ==
    ASSUME NEW r \in [Batches -> BatchRow], NEW w, NEW lives, NEW b \in Batches,
           r[b].wo = w, r[b].life \in lives, r[b].size > 0
    PROVE  OutputOf(r, w, lives) > 0
  <1>1. PICK f : f = [x \in Batches |-> Share(r[x], w, lives)]
    OBVIOUS
  <1>2. \A x \in Batches : f[x] \in Nat
    BY <1>1, ShareIsNat
  <1>3. f[b] = r[b].size
    BY <1>1 DEF Share
  <1>4. f[b] <= SumOver(f, Batches)
    BY <1>2, FiniteAssumption, SumMember
  <1>5. SumOver(f, Batches) \in Int
    BY <1>2, FiniteAssumption, SumInt
  <1> QED BY <1>1, <1>2, <1>3, <1>4, <1>5, OutputIs

LEMMA OutputIsNat ==
    ASSUME NEW r \in [Batches -> BatchRow], NEW w, NEW lives
    PROVE  OutputOf(r, w, lives) \in Nat
  <1>1. PICK f : f = [x \in Batches |-> Share(r[x], w, lives)]
    OBVIOUS
  <1>2. \A x \in Batches : f[x] \in Nat
    BY <1>1, ShareIsNat
  <1> QED BY <1>1, <1>2, FiniteAssumption, SumNat, OutputIs

\* A status fits other batches too, if none of them is new for the work order and,
\* unless one was deleted, they have put out as much.
LEMMA FollowsOthers ==
    ASSUME NEW row, NEW r, NEW s, NEW w, Follows(row, r, w),
           \A b \in Batches : s[b].wo = w /\ s[b].life # "absent" => r[b].wo = w /\ r[b].life # "absent",
           \A b \in Batches : s[b].wo = w /\ There(s, b) => r[b].wo = w /\ There(r, b),
           Kept(s, w) => Kept(r, w) /\ Output(s, w) = Output(r, w)
    PROVE  Follows(row, s, w)
  BY DEF Follows

\* A batch of another work order does not matter.
LEMMA FollowsElsewhere ==
    ASSUME NEW row, NEW r, NEW s, NEW w, Follows(row, r, w), NEW b \in Batches,
           s[b].wo # w, r[b].life # "absent" => r[b].wo # w,
           \A x \in Batches \ {b} : s[x] = r[x]
    PROVE  Follows(row, s, w)
  <1>1. /\ \A x \in Batches : s[x].wo = w /\ s[x].life # "absent" => r[x].wo = w /\ r[x].life # "absent"
        /\ \A x \in Batches : s[x].wo = w /\ There(s, x) => r[x].wo = w /\ There(r, x)
    BY DEF There
  <1>2. Kept(s, w) => Kept(r, w)
    BY DEF Kept
  <1>3. \A x \in Batches : Share(s[x], w, {"released"}) = Share(r[x], w, {"released"})
    <2> SUFFICES ASSUME NEW x \in Batches
                 PROVE  Share(s[x], w, {"released"}) = Share(r[x], w, {"released"})
      OBVIOUS
    <2>1. CASE x # b
      BY <2>1
    <2>2. CASE x = b
      BY <2>2 DEF Share
    <2> QED BY <2>1, <2>2
  <1>4. OutputOf(s, w, {"released"}) = OutputOf(r, w, {"released"})
    BY <1>3, SameOutput
  <1> QED BY <1>1, <1>2, <1>4, FollowsOthers DEF Output

\* A new work order has no batches.
LEMMA FollowsCreated ==
    ASSUME NEW row, NEW new, NEW rows, NEW w, Follows(row, rows, w), row.status = "absent",
           new.status # "absent", new.automatic = FALSE
    PROVE  Follows(new, rows, w)
  BY DEF Follows, There, Closed

\* A transition by hand.
LEMMA FollowsMoved ==
    ASSUME NEW row \in WorkOrderRow, NEW rows, NEW w, NEW status, Follows(row, rows, w), row.version < 4,
           status \in TRANSITIONS(row.status)
    PROVE  Follows(Moved(row, status), rows, w)
  <1>1. /\ row.status \in OPEN_FOR_BATCH
        /\ row.status = "planned" => status \in {"released_to_production", "cancelled"}
        /\ row.status = "released_to_production" => status = "cancelled"
        /\ row.status = "in_progress" => status \in {"completed", "cancelled"}
    BY DEF TRANSITIONS, OPEN_FOR_BATCH
  <1>2. status \in OPEN_FOR_BATCH \cup Closed
    BY <1>1 DEF OPEN_FOR_BATCH, Closed
  <1>3. PICK new : new = Moved(row, status)
    OBVIOUS
  <1>4. new.status = status /\ new.automatic = row.automatic
    BY <1>3 DEF Moved, WorkOrderRow
  <1>5. status # "absent" /\ (status \in NotStarted => row.status \in NotStarted)
    BY <1>1 DEF NotStarted, OPEN_FOR_BATCH
  <1>6. row.status \in Closed => status \in Closed
    BY <1>1 DEF Closed, OPEN_FOR_BATCH
  <1>7. Follows(new, rows, w)
    BY <1>4, <1>5, <1>6 DEF Follows
  <1> QED BY <1>3, <1>7

\* Reconciliation makes the status fit, if the work order can wait for no batch
\* that is there already.
LEMMA FollowsSynced ==
    ASSUME NEW row \in WorkOrderRow, NEW rows \in [Batches -> BatchRow], NEW w,
           row.status # "absent",
           ~Reconcilable(row) => Follows(row, rows, w),
           row.status \in NotStarted => OutputOf(rows, w, Live) > 0,
           row.automatic /\ Kept(rows, w) => Output(rows, w) > 0
    PROVE  Follows(Synced(row, w, rows), rows, w)
  <1>1. PICK out : out = Output(rows, w)
    OBVIOUS
  <1>2. PICK live : live = OutputOf(rows, w, Live)
    OBVIOUS
  <1>3. PICK next : next = NextStatus(row.status, live, out)
    OBVIOUS
  <1>4. PICK new : new = Synced(row, w, rows)
    OBVIOUS
  <1>5. new = IF ~Reconcilable(row) \/ next = row.status THEN row
              ELSE [Moved(row, next) EXCEPT !.automatic = (next = "completed")]
    BY <1>1, <1>2, <1>3, <1>4 DEF Synced, Output
  <1>6. CASE ~Reconcilable(row)
    BY <1>4, <1>5, <1>6
  <1>7. CASE Reconcilable(row)
    <2>1. row.status \in OPEN_FOR_BATCH
      BY <1>7 DEF Reconcilable
    <2>2. /\ out > 0 /\ WithinTolerance(out) => next = "completed"
          /\ next = "completed" => out > 0
          /\ next \notin NotStarted /\ next # "absent"
      <3>1. CASE out > 0 /\ WithinTolerance(out)
        <4>1. next = "completed"
          BY <1>3, <3>1 DEF NextStatus
        <4> QED BY <3>1, <4>1 DEF NotStarted
      <3>2. CASE ~(out > 0 /\ WithinTolerance(out)) /\ row.status \in NotStarted
        <4>1. live > 0
          BY <1>2, <3>2
        <4>2. next = "in_progress"
          BY <1>3, <3>2, <4>1 DEF NextStatus
        <4> QED BY <3>2, <4>2 DEF NotStarted
      <3>3. CASE ~(out > 0 /\ WithinTolerance(out)) /\ row.status \notin NotStarted
        <4>1. next = row.status
          BY <1>3, <3>3 DEF NextStatus
        <4> QED BY <2>1, <3>3, <4>1 DEF NotStarted, OPEN_FOR_BATCH
      <3> QED BY <3>1, <3>2, <3>3
    <2>3. new.status = next /\ (new.automatic => row.automatic \/ next = "completed")
      <3>1. CASE next = row.status
        BY <1>5, <3>1
      <3>2. CASE next # row.status
        <4>1. new = [Moved(row, next) EXCEPT !.automatic = (next = "completed")]
          BY <1>5, <1>7, <3>2
        <4>2. new = [status |-> next, version |-> row.version + 1,
                     ready |-> row.ready, automatic |-> (next = "completed")]
          BY <4>1 DEF Moved, WorkOrderRow
        <4> QED BY <4>2
      <3> QED BY <3>1, <3>2
    <2>4. Follows(new, rows, w)
      BY <1>1, <2>2, <2>3 DEF Follows, Closed
    <2> QED BY <1>4, <2>4
  <1> QED BY <1>6, <1>7

\* A request that has checked, inserted or ended has changed no status and no batch.
LEMMA RowsStay ==
    ASSUME AllFollow, UNCHANGED <<workOrder, batch>>
    PROVE  AllFollow'
  <1>1. workOrder' = workOrder /\ batch' = batch
    OBVIOUS
  <1> QED BY <1>1 DEF AllFollow

\* A work order is created or moved by hand.
LEMMA OneMoves ==
    ASSUME AllFollow, NEW w \in WorkOrders, NEW new, Follows(new, batch, w), UNCHANGED batch,
           workOrder \in [WorkOrders -> WorkOrderRow], workOrder' = [workOrder EXCEPT ![w] = new]
    PROVE  AllFollow'
  <1>1. PICK rows : rows = batch
    OBVIOUS
  <1>2. batch' = rows
    BY <1>1
  <1>3. \A v \in WorkOrders : Follows(workOrder'[v], rows, v)
    BY <1>1 DEF AllFollow
  <1> QED BY <1>2, <1>3 DEF AllFollow

LEMMA CreateFollows ==
    ASSUME WorkOrderInv, AllFollow, NEW w \in WorkOrders, NEW ready \in BOOLEAN, NEW releaseNow \in BOOLEAN,
           CreateWorkOrder(w, ready, releaseNow)
    PROVE  AllFollow'
  <1>1. PICK new : new = [status |-> IF releaseNow /\ ready THEN "released_to_production" ELSE "planned",
                          version |-> 1, ready |-> ready, automatic |-> FALSE]
    OBVIOUS
  <1>2. /\ workOrder[w].status = "absent" /\ UNCHANGED batch
        /\ workOrder' = [workOrder EXCEPT ![w] = new]
    BY <1>1 DEF CreateWorkOrder
  <1>3. new.status # "absent" /\ new.automatic = FALSE
    BY <1>1
  <1>4. Follows(new, batch, w)
    BY <1>2, <1>3, FollowsCreated DEF AllFollow
  <1> QED BY <1>2, <1>4, OneMoves DEF WorkOrderInv, TypeOK

LEMMA TransitionFollows ==
    ASSUME WorkOrderInv, AllFollow, NEW c \in Clients, NEW status \in OPEN_FOR_BATCH \cup Closed,
           NEW reason \in BOOLEAN, Transition(c, status, reason)
    PROVE  AllFollow'
  <1>1. tx[c].wo \in WorkOrders
    BY DEF Transition, WorkOrderInv, AllFit, RequestFits
  <1>2. PICK w \in WorkOrders : w = tx[c].wo
    BY <1>1
  <1>3. PICK row : row = workOrder[w]
    OBVIOUS
  <1>4. /\ status \in TRANSITIONS(row.status) /\ UNCHANGED batch
        /\ workOrder' = [workOrder EXCEPT ![w] = Moved(row, status)]
    BY <1>2, <1>3 DEF Transition
  <1>5. RowFits(row)
    BY <1>3 DEF WorkOrderInv, RowsFit
  <1>6. row.status \in OPEN_FOR_BATCH
    BY <1>4 DEF TRANSITIONS, OPEN_FOR_BATCH
  <1>7. row \in WorkOrderRow /\ row.version < 4
    BY <1>5, <1>6 DEF RowFits, WorkOrderRow, MovesTo, OPEN_FOR_BATCH, Closed
  <1>8. Follows(row, batch, w)
    BY <1>3 DEF AllFollow
  <1>9. Follows(Moved(row, status), batch, w)
    BY <1>4, <1>7, <1>8, FollowsMoved
  <1> QED BY <1>4, <1>9, OneMoves DEF WorkOrderInv, TypeOK

\* One batch changes, and the work order it is for is reconciled.
LEMMA OneSynced ==
    ASSUME AllFollow, NEW w \in WorkOrders, NEW b \in Batches, NEW row \in BatchRow, NEW rows,
           batch \in [Batches -> BatchRow], workOrder \in [WorkOrders -> WorkOrderRow],
           rows = [batch EXCEPT ![b] = row], row.wo = w,
           batch[b].life # "absent" => batch[b].wo = w,
           batch[b].life # "deleted", row.life \in Live,
           batch[b].life = "released" => row.life = "released" /\ row.size = batch[b].size,
           row.size > 0, workOrder[w].status # "absent",
           batch[b].life = "absent" => Reconcilable(workOrder[w]),
           batch' = rows, workOrder' = [workOrder EXCEPT ![w] = Synced(@, w, rows)]
    PROVE  AllFollow'
  <1>1. PICK old : old = batch
    OBVIOUS
  <1>2. /\ old \in [Batches -> BatchRow] /\ rows \in [Batches -> BatchRow]
        /\ rows[b] = row /\ \A x \in Batches \ {b} : rows[x] = old[x]
    BY <1>1
  <1>3. ASSUME NEW v \in WorkOrders, v # w
        PROVE  Follows(workOrder'[v], rows, v)
    <2>1. Follows(workOrder[v], old, v)
      BY <1>1 DEF AllFollow
    <2>2. rows[b].wo # v /\ (old[b].life # "absent" => old[b].wo # v)
      BY <1>1, <1>2, <1>3
    <2>3. Follows(workOrder[v], rows, v)
      BY <1>2, <2>1, <2>2, FollowsElsewhere
    <2> QED BY <1>3, <2>3
  <1>4. PICK r \in WorkOrderRow : r = workOrder[w]
    OBVIOUS
  <1>5. Follows(r, old, w)
    BY <1>1, <1>4 DEF AllFollow
  <1>6. OutputOf(rows, w, Live) > 0
    BY <1>2, OutputPositive
  <1>7. Kept(rows, w) => Kept(old, w)
    BY <1>1, <1>2 DEF Kept
  <1>8. Output(old, w) <= Output(rows, w)
    <2>1. \A x \in Batches : Share(old[x], w, {"released"}) <= Share(rows[x], w, {"released"})
      <3> SUFFICES ASSUME NEW x \in Batches
                   PROVE  Share(old[x], w, {"released"}) <= Share(rows[x], w, {"released"})
        OBVIOUS
      <3>1. Share(old[x], w, {"released"}) \in Nat /\ Share(rows[x], w, {"released"}) \in Nat
        BY <1>2, ShareIsNat
      <3>2. CASE x # b
        BY <1>2, <3>1, <3>2
      <3>3. CASE x = b
        <4>1. CASE old[x].life = "released"
          <5>1. Share(rows[x], w, {"released"}) = Share(old[x], w, {"released"})
            BY <1>1, <1>2, <3>3, <4>1 DEF Share
          <5> QED BY <3>1, <5>1
        <4>2. CASE old[x].life # "released"
          <5>1. Share(old[x], w, {"released"}) = 0
            BY <4>2 DEF Share
          <5> QED BY <3>1, <5>1
        <4> QED BY <4>1, <4>2
      <3> QED BY <3>2, <3>3
    <2> QED BY <1>2, <2>1, OutputGrows DEF Output
  <1>9. Output(old, w) \in Nat /\ Output(rows, w) \in Nat
    BY <1>2, OutputIsNat DEF Output
  <1>10. r.automatic /\ Kept(rows, w) => Output(rows, w) > 0
    <2> SUFFICES ASSUME r.automatic, Kept(rows, w)
                 PROVE  Output(rows, w) > 0
      OBVIOUS
    <2>1. Output(old, w) > 0
      BY <1>5, <1>7 DEF Follows
    <2> QED BY <1>8, <1>9, <2>1
  <1>11. ~Reconcilable(r) => Follows(r, rows, w)
    <2> SUFFICES ASSUME ~Reconcilable(r)
                 PROVE  Follows(r, rows, w)
      OBVIOUS
    <2>1. r.status \in Closed /\ r.status # "absent" /\ r.status \notin NotStarted
      BY <1>4 DEF Reconcilable, WorkOrderRow, Closed, OPEN_FOR_BATCH, NotStarted
    <2> QED BY <1>10, <2>1 DEF Follows
  <1>12. Follows(Synced(r, w, rows), rows, w)
    BY <1>2, <1>4, <1>6, <1>10, <1>11, FollowsSynced
  <1>13. \A v \in WorkOrders : Follows(workOrder'[v], rows, v)
    BY <1>3, <1>4, <1>12
  <1> QED BY <1>13 DEF AllFollow

LEMMA GenerateFollows ==
    ASSUME WorkOrderInv, AllFollow, NEW c \in Clients, GenerateCommit(c)
    PROVE  AllFollow'
  <1>1. PICK t : t = tx[c]
    OBVIOUS
  <1>2. t \in Tx /\ RequestFits(c, t)
    BY <1>1 DEF WorkOrderInv, TypeOK, AllFit
  <1>3. PICK row : row = [life |-> "pending", wo |-> t.wo, size |-> t.size, key |-> t.key]
    OBVIOUS
  <1>4. PICK rows : rows = [batch EXCEPT ![t.batch] = row]
    OBVIOUS
  <1>5. /\ t.op = "generate" /\ t.step = "held" /\ StillOpen(c)
        /\ batch' = rows
        /\ workOrder' = [workOrder EXCEPT ![t.wo] = Synced(@, t.wo, rows)]
    BY <1>1, <1>3, <1>4 DEF GenerateCommit
  <1>6. /\ t.batch \in Batches /\ batch[t.batch].life = "absent"
        /\ t.wo \in WorkOrders /\ t.size \in Sizes /\ workOrder[t.wo].status # "absent"
    BY <1>2, <1>5 DEF RequestFits, HoldsNew
  <1>7. row.wo = t.wo /\ row.life = "pending" /\ row.size = t.size /\ row \in BatchRow
    BY <1>2, <1>3, <1>6 DEF BatchRow, Tx, Live
  <1>8. row.size > 0
    <2>1. t.size \in Nat \ {0}
      BY <1>6, QuantityAssumption
    <2> QED BY <1>7, <2>1
  <1>9. Reconcilable(workOrder[t.wo])
    BY <1>1, <1>5 DEF StillOpen, Reconcilable
  <1>10. row.life \in Live /\ row.life # "released"
    BY <1>7 DEF Live
  <1>11. batch \in [Batches -> BatchRow] /\ workOrder \in [WorkOrders -> WorkOrderRow]
    BY DEF WorkOrderInv, TypeOK
  <1> QED BY <1>4, <1>5, <1>6, <1>7, <1>8, <1>9, <1>10, <1>11, OneSynced

LEMMA ReleaseFollows ==
    ASSUME WorkOrderInv, AllFollow, Sized, NEW c \in Clients, ReleaseCommit(c)
    PROVE  AllFollow'
  <1>1. PICK t : t = tx[c]
    OBVIOUS
  <1>2. t \in Tx /\ RequestFits(c, t)
    BY <1>1 DEF WorkOrderInv, TypeOK, AllFit
  <1>3. t.op = "release"
    BY <1>1 DEF ReleaseCommit
  <1>4. t.batch \in Batches /\ Exists(t.batch) /\ t.wo = batch[t.batch].wo
    BY <1>2, <1>3 DEF RequestFits
  <1>5. batch \in [Batches -> BatchRow] /\ workOrder \in [WorkOrders -> WorkOrderRow]
    BY DEF WorkOrderInv, TypeOK
  <1>6. PICK old \in BatchRow : old = batch[t.batch]
    BY <1>4, <1>5
  <1>7. PICK row : row = [old EXCEPT !.life = "released"]
    OBVIOUS
  <1>8. PICK rows : rows = [batch EXCEPT ![t.batch] = row]
    OBVIOUS
  <1>9. /\ batch' = rows
        /\ workOrder' = [workOrder EXCEPT ![t.wo] = Synced(@, t.wo, rows)]
    BY <1>1, <1>4, <1>5, <1>6, <1>7, <1>8 DEF ReleaseCommit
  <1>10. row \in BatchRow /\ row.life = "released" /\ row.wo = old.wo /\ row.size = old.size
    BY <1>7 DEF BatchRow, Live
  <1>11. old.life # "absent" /\ old.life # "deleted"
    BY <1>4, <1>6 DEF Exists
  <1>12. t.wo \in WorkOrders
    BY <1>4, <1>6, <1>11 DEF WorkOrderInv, MadeForOne
  <1>13. workOrder[t.wo].status # "absent"
    BY <1>4, <1>6, <1>11, <1>12 DEF AllFollow, Follows
  <1>14. row.size > 0
    BY <1>4, <1>6, <1>10, <1>11 DEF Sized
  <1>15. row.life \in Live
    BY <1>10 DEF Live
  <1>16. /\ batch[t.batch].life # "absent" /\ batch[t.batch].life # "deleted"
         /\ batch[t.batch].wo = t.wo /\ row.wo = t.wo /\ row.size = batch[t.batch].size
    BY <1>4, <1>6, <1>10, <1>11
  <1> QED BY <1>4, <1>5, <1>8, <1>9, <1>10, <1>12, <1>13, <1>14, <1>15, <1>16, OneSynced

\* Nothing is reconciled: a batch that is not released moves, or a batch goes.
LEMMA BatchOnly ==
    ASSUME AllFollow, NEW b \in Batches, NEW row, batch \in [Batches -> BatchRow],
           batch[b].life \notin {"absent", "deleted"}, row.wo = batch[b].wo,
           batch' = [batch EXCEPT ![b] = row], UNCHANGED workOrder,
           \/ row.life = "deleted"
           \/ row.life # "released" /\ batch[b].life # "released"
    PROVE  AllFollow'
  <1>1. PICK old : old = batch
    OBVIOUS
  <1>2. PICK rows : rows = [old EXCEPT ![b] = row]
    OBVIOUS
  <1>3. /\ batch' = rows /\ rows[b] = row /\ \A x \in Batches \ {b} : rows[x] = old[x]
    BY <1>1, <1>2
  <1>4. ASSUME NEW w \in WorkOrders
        PROVE  Follows(workOrder[w], rows, w)
    <2>1. Follows(workOrder[w], old, w)
      BY <1>1 DEF AllFollow
    <2>2. /\ \A x \in Batches : rows[x].wo = w /\ rows[x].life # "absent" => old[x].wo = w /\ old[x].life # "absent"
          /\ \A x \in Batches : rows[x].wo = w /\ There(rows, x) => old[x].wo = w /\ There(old, x)
      BY <1>1, <1>3 DEF There
    <2>3. ASSUME Kept(rows, w)
          PROVE  Kept(old, w) /\ Output(rows, w) = Output(old, w)
      <3>1. Kept(old, w)
        BY <1>1, <1>3, <2>3 DEF Kept
      <3>2. rows[b].wo = w => rows[b].life # "deleted"
        BY <2>3 DEF Kept
      <3>3. ASSUME NEW x \in Batches
            PROVE  Share(rows[x], w, {"released"}) = Share(old[x], w, {"released"})
        <4>1. CASE x # b
          BY <1>3, <4>1
        <4>2. CASE x = b
          BY <1>1, <1>3, <3>2, <4>2 DEF Share
        <4> QED BY <4>1, <4>2
      <3>4. OutputOf(rows, w, {"released"}) = OutputOf(old, w, {"released"})
        BY <3>3, SameOutput
      <3> QED BY <3>1, <3>4 DEF Output
    <2> QED BY <2>1, <2>2, <2>3, FollowsOthers
  <1> QED BY <1>3, <1>4 DEF AllFollow

LEMMA LifecycleFollows ==
    ASSUME WorkOrderInv, AllFollow, NEW b \in Batches, NEW life \in {"pending", "discarded"},
           SetBatchLifecycle(b, life)
    PROVE  AllFollow'
  <1>1. batch \in [Batches -> BatchRow]
    BY DEF WorkOrderInv, TypeOK
  <1>2. PICK old \in BatchRow : old = batch[b]
    BY <1>1
  <1>3. PICK row : row = [old EXCEPT !.life = life]
    OBVIOUS
  <1>4. row.life = life /\ row.wo = old.wo
    BY <1>3 DEF BatchRow
  <1>5. /\ batch' = [batch EXCEPT ![b] = row] /\ UNCHANGED workOrder
        /\ old.life \notin {"absent", "deleted"} /\ old.life # "released"
    BY <1>2, <1>3 DEF SetBatchLifecycle, Exists
  <1> QED BY <1>1, <1>2, <1>4, <1>5, BatchOnly

LEMMA DeleteFollows ==
    ASSUME WorkOrderInv, AllFollow, NEW b \in Batches, DeleteBatch(b)
    PROVE  AllFollow'
  <1>1. batch \in [Batches -> BatchRow]
    BY DEF WorkOrderInv, TypeOK
  <1>2. PICK old \in BatchRow : old = batch[b]
    BY <1>1
  <1>3. PICK row : row = [old EXCEPT !.life = "deleted", !.key = None]
    OBVIOUS
  <1>4. row.life = "deleted" /\ row.wo = old.wo
    BY <1>3 DEF BatchRow
  <1>5. /\ batch' = [batch EXCEPT ![b] = row] /\ UNCHANGED workOrder
        /\ old.life \notin {"absent", "deleted"}
    BY <1>2, <1>3 DEF DeleteBatch, Exists
  <1> QED BY <1>1, <1>2, <1>4, <1>5, BatchOnly

\* No batch is empty.
LEMMA SizedStep ==
    ASSUME WorkOrderInv, Sized, Next
    PROVE  Sized'
  <1>1. batch \in [Batches -> BatchRow]
    BY DEF WorkOrderInv, TypeOK
  <1>2. ASSUME NEW b \in Batches, NEW row, row.size > 0, batch' = [batch EXCEPT ![b] = row]
        PROVE  Sized'
    BY <1>1, <1>2 DEF Sized
  <1>3. ASSUME NEW b \in Batches, Exists(b), NEW row, row.size = batch[b].size,
               batch' = [batch EXCEPT ![b] = row]
        PROVE  Sized'
    BY <1>2, <1>3 DEF Sized, Exists
  <1>4. ASSUME UNCHANGED batch
        PROVE  Sized'
    BY <1>4 DEF Sized
  <1>5. ASSUME NEW c \in Clients, GenerateCommit(c)
        PROVE  Sized'
    <2>1. /\ tx[c].batch \in Batches /\ tx[c].size \in Sizes
          /\ batch' = [batch EXCEPT ![tx[c].batch] = [life |-> "pending", wo |-> tx[c].wo,
                                                       size |-> tx[c].size, key |-> tx[c].key]]
      BY <1>5 DEF GenerateCommit, WorkOrderInv, AllFit, RequestFits, HoldsNew
    <2>2. PICK n \in Sizes : n = tx[c].size
      BY <2>1
    <2>3. n \in Nat \ {0}
      BY QuantityAssumption
    <2>4. n > 0
      BY <2>3
    <2>5. [life |-> "pending", wo |-> tx[c].wo, size |-> n, key |-> tx[c].key].size > 0
      BY <2>4
    <2> QED BY <1>2, <2>1, <2>2, <2>5
  <1>6. ASSUME NEW c \in Clients, ReleaseCommit(c)
        PROVE  Sized'
    <2>1. /\ tx[c].batch \in Batches /\ Exists(tx[c].batch)
          /\ batch' = [batch EXCEPT ![tx[c].batch] = [@ EXCEPT !.life = "released"]]
      BY <1>6 DEF ReleaseCommit, WorkOrderInv, AllFit, RequestFits
    <2>2. PICK old \in BatchRow : old = batch[tx[c].batch]
      BY <1>1, <2>1
    <2>3. [old EXCEPT !.life = "released"].size = old.size
      BY DEF BatchRow
    <2> QED BY <1>1, <1>3, <2>1, <2>2, <2>3
  <1>7. ASSUME NEW b \in Batches, NEW life \in {"pending", "discarded"}, SetBatchLifecycle(b, life)
        PROVE  Sized'
    <2>1. PICK old \in BatchRow : old = batch[b]
      BY <1>1
    <2>2. [old EXCEPT !.life = life].size = old.size
      BY DEF BatchRow
    <2> QED BY <1>1, <1>3, <1>7, <2>1, <2>2 DEF SetBatchLifecycle
  <1>8. ASSUME NEW b \in Batches, DeleteBatch(b)
        PROVE  Sized'
    <2>1. PICK old \in BatchRow : old = batch[b]
      BY <1>1
    <2>2. [old EXCEPT !.life = "deleted", !.key = None].size = old.size
      BY DEF BatchRow
    <2> QED BY <1>1, <1>3, <1>8, <2>1, <2>2 DEF DeleteBatch
  <1> QED BY <1>4, <1>5, <1>6, <1>7, <1>8
          DEF Next, CreateWorkOrder, OpenWorkOrder, Transition, GenerateCheck, GenerateInsert,
              GenerateReplay, GenerateRefused, ReleaseBatch, Abandon

-----------------------------------------------------------------------------
(* The theorems                                                             *)

LEMMA InitInv == Init => WorkOrderInv
  <1> SUFFICES ASSUME Init PROVE WorkOrderInv
    OBVIOUS
  <1>1. \A c \in Clients : RequestFits(c, Idle) /\ Idle \in Tx
    BY IdleFits
  <1>2. TypeOK
    BY <1>1 DEF Init, TypeOK, WorkOrderRow, BatchRow
  <1>3. RowsFit
    BY <1>2 DEF Init, RowsFit, RowFits, TypeOK, MovesTo, Closed
  <1>4. MadeForOne /\ OneBatchPerKey /\ AllFit
    BY <1>1 DEF Init, MadeForOne, OneBatchPerKey, Exists, AllFit
  <1> QED BY <1>2, <1>3, <1>4 DEF WorkOrderInv

LEMMA StepKeepsInv == WorkOrderInv /\ [Next]_vars => WorkOrderInv'
  <1> SUFFICES ASSUME WorkOrderInv, [Next]_vars PROVE WorkOrderInv'
    OBVIOUS
  <1>1. CASE UNCHANGED vars
    <2>1. workOrder' = workOrder /\ batch' = batch /\ tx' = tx
      BY <1>1 DEF vars
    <2> QED BY <2>1 DEF WorkOrderInv, TypeOK, RowsFit, MadeForOne, OneBatchPerKey, Exists, AllFit,
                        RequestFits, KeyUsed
  <1> SUFFICES ASSUME Next PROVE WorkOrderInv'
    BY <1>1
  <1>2. ASSUME NEW w \in WorkOrders, NEW ready \in BOOLEAN, NEW releaseNow \in BOOLEAN,
               CreateWorkOrder(w, ready, releaseNow)
        PROVE  WorkOrderInv'
    BY <1>2, RowsOnly DEF CreateWorkOrder
  <1>3. ASSUME NEW c \in Clients, NEW status \in OPEN_FOR_BATCH \cup Closed, NEW reason \in BOOLEAN,
               Transition(c, status, reason)
        PROVE  WorkOrderInv'
    BY <1>3, RowsOnly DEF Transition
  <1>4. ASSUME NEW c \in Clients, GenerateReplay(c) \/ GenerateRefused(c) \/ Abandon(c)
        PROVE  WorkOrderInv'
    BY <1>4, RowsOnly DEF GenerateReplay, GenerateRefused, Abandon
  <1> QED BY <1>2, <1>3, <1>4, OpenWorkOrderInv, GenerateCheckInv, GenerateInsertInv,
             GenerateCommitInv, ReleaseBatchInv, ReleaseCommitInv, SetBatchLifecycleInv,
             DeleteBatchInv DEF Next

\* The type of the state; a work order moves at most three times.
THEOREM WorkOrdersTyped == Spec => []TypeOK
  <1>1. WorkOrderInv => TypeOK
    BY DEF WorkOrderInv
  <1> QED BY <1>1, InitInv, StepKeepsInv, PTL DEF Spec

\* A work order that moves by itself is where its batches put it: with a batch it has
\* been started, with released output within tolerance it is closed, and if it completed
\* by itself it has output, however releases, holds, deletions and transitions overlap.
THEOREM StatusIsThatOfBatches == Spec => []StatusFollowsBatches
  <1> DEFINE StatusInv == WorkOrderInv /\ Sized /\ AllFollow
  <1>1. Init => StatusInv
    <2> SUFFICES ASSUME Init PROVE StatusInv
      OBVIOUS
    <2>1. /\ workOrder = [w \in WorkOrders |-> [status |-> "absent", version |-> 1,
                                               ready |-> FALSE, automatic |-> FALSE]]
          /\ batch = [b \in Batches |-> [life |-> "absent", wo |-> None, size |-> 0, key |-> None]]
      BY DEF Init
    <2>2. Sized
      BY <2>1 DEF Sized
    <2>3. ASSUME NEW w \in WorkOrders
          PROVE  Follows(workOrder[w], batch, w)
      <3>1. PICK rows : rows = batch
        OBVIOUS
      <3>2. PICK f : f = [b \in Batches |-> Share(rows[b], w, {"released"})]
        OBVIOUS
      <3>3. \A b \in Batches : f[b] = 0
        BY <2>1, <3>1, <3>2 DEF Share
      <3>4. SumOver(f, Batches) = 0
        BY <3>3, FiniteAssumption, SumZeros
      <3>5. Output(rows, w) = 0
        BY <3>2, <3>4, OutputIs DEF Output
      <3>6. ~(Output(rows, w) > 0)
        BY <3>5
      <3>7. /\ workOrder[w].status = "absent" /\ workOrder[w].automatic = FALSE
            /\ \A b \in Batches : rows[b].life = "absent"
        BY <2>1, <3>1
      <3> QED BY <3>1, <3>6, <3>7 DEF Follows, NotStarted
    <2> QED BY <2>2, <2>3, InitInv DEF AllFollow
  <1>2. StatusInv /\ [Next]_vars => StatusInv'
    <2> SUFFICES ASSUME WorkOrderInv, Sized, AllFollow, [Next]_vars
                 PROVE  WorkOrderInv' /\ Sized' /\ AllFollow'
      OBVIOUS
    <2>1. WorkOrderInv'
      BY StepKeepsInv
    <2>2. CASE UNCHANGED vars
      BY <2>1, <2>2, RowsStay DEF vars, Sized
    <2>3. CASE Next
      <3>1. Sized'
        BY <2>3, SizedStep
      <3>2. AllFollow'
        BY <2>3, RowsStay, CreateFollows, TransitionFollows, GenerateFollows, ReleaseFollows,
           LifecycleFollows, DeleteFollows
           DEF Next, OpenWorkOrder, GenerateCheck, GenerateInsert, GenerateReplay,
               GenerateRefused, ReleaseBatch, Abandon
      <3> QED BY <2>1, <3>1, <3>2
    <2> QED BY <2>2, <2>3
  <1>3. StatusInv => StatusFollowsBatches
    BY DEF WorkOrderInv, AllFollow, Follows, Kept, Output, There, Exists, StatusFollowsBatches,
           WaitingHasNoBatch, OutputCompletes, CompletedHasOutput
  <1> QED BY <1>1, <1>2, <1>3, PTL DEF Spec

\* However a submit is retried, its key makes one batch.
THEOREM KeyMakesOneBatch == Spec => []OneBatchPerKey
  <1>1. WorkOrderInv => OneBatchPerKey
    BY DEF WorkOrderInv
  <1> QED BY <1>1, InitInv, StepKeepsInv, PTL DEF Spec

\* Nothing reopens or moves a work order that is completed or cancelled.
THEOREM ClosedForGood == Spec => ClosedStaysClosed
  <1>1. WorkOrderInv /\ [Next]_vars => [\A w \in WorkOrders : workOrder[w].status \in Closed
                                  => workOrder'[w] = workOrder[w]]_vars
    BY RowsStep DEF RowStep, Closed, OPEN_FOR_BATCH
  <1> QED BY <1>1, InitInv, StepKeepsInv, PTL DEF Spec, ClosedStaysClosed

\* No batch is recorded for a work order that closed while the batch was being generated.
THEOREM NoLateBatch == Spec => NoBatchOnClosed
  <1>1. ASSUME WorkOrderInv, Next, NEW b \in Batches, batch[b].life = "absent", batch'[b].life # "absent"
        PROVE  workOrder[batch'[b].wo].status \in OPEN_FOR_BATCH
    <2>1. batch \in [Batches -> BatchRow]
      BY <1>1 DEF WorkOrderInv, TypeOK
    <2>2. PICK c \in Clients : GenerateCommit(c)
      <3>1. ASSUME NEW x \in Batches, Exists(x), \A y \in Batches \ {x} : batch'[y] = batch[y]
            PROVE  FALSE
        BY <1>1, <3>1 DEF Exists
      <3>2. ASSUME NEW c \in Clients, ReleaseCommit(c)
            PROVE  FALSE
        <4>1. /\ tx[c].batch \in Batches /\ Exists(tx[c].batch)
              /\ batch' = [batch EXCEPT ![tx[c].batch] = [@ EXCEPT !.life = "released"]]
          BY <1>1, <3>2 DEF ReleaseCommit, WorkOrderInv, AllFit, RequestFits
        <4> QED BY <2>1, <3>1, <4>1
      <3>3. ASSUME NEW x \in Batches, NEW life \in {"pending", "discarded"}, SetBatchLifecycle(x, life)
            PROVE  FALSE
        BY <2>1, <3>1, <3>3 DEF SetBatchLifecycle
      <3>4. ASSUME NEW x \in Batches, DeleteBatch(x)
            PROVE  FALSE
        BY <2>1, <3>1, <3>4 DEF DeleteBatch
      <3> QED BY <1>1, <3>2, <3>3, <3>4
              DEF Next, CreateWorkOrder, OpenWorkOrder, Transition, GenerateCheck, GenerateInsert,
                  GenerateReplay, GenerateRefused, ReleaseBatch, Abandon
    <2>3. PICK t : t = tx[c]
      OBVIOUS
    <2>4. /\ batch' = [batch EXCEPT ![t.batch] = [life |-> "pending", wo |-> t.wo,
                                                  size |-> t.size, key |-> t.key]]
          /\ workOrder[t.wo].status \in OPEN_FOR_BATCH
      BY <2>2, <2>3 DEF GenerateCommit, StillOpen
    <2>5. b = t.batch
      BY <1>1, <2>1, <2>4
    <2> QED BY <2>1, <2>4, <2>5
  <1>2. WorkOrderInv /\ [Next]_vars =>
          [\A b \in Batches : batch[b].life = "absent" /\ batch'[b].life # "absent"
              => workOrder[batch'[b].wo].status \in OPEN_FOR_BATCH]_vars
    BY <1>1
  <1> QED BY <1>2, InitInv, StepKeepsInv, PTL DEF Spec, NoBatchOnClosed

\* A request that names a version happens to the status that its caller saw.
THEOREM ActsOnWhatWasSeen == Spec => ActsAsSeen
  <1>1. ASSUME WorkOrderInv, Next, NEW c \in Clients,
               tx[c].op \in {"transition", "generate"}, tx[c].version # 0,
               tx'[c] = Idle, <<workOrder, batch>>' # <<workOrder, batch>>
        PROVE  workOrder[tx[c].wo].status = tx[c].status
    <2>1. tx \in [Clients -> Tx] /\ tx[c] # Idle
      BY <1>1 DEF WorkOrderInv, TypeOK, Idle
    <2>2. tx' # tx
      BY <1>1, <2>1
    <2>3. \/ \E status \in OPEN_FOR_BATCH \cup Closed, reason \in BOOLEAN : Transition(c, status, reason)
          \/ GenerateCommit(c)
      <3>1. ASSUME NEW d \in Clients, Ends(d)
            PROVE  d = c
        BY <1>1, <2>1, <3>1 DEF Ends
      <3>2. ~ReleaseCommit(c)
        BY <1>1 DEF ReleaseCommit
      <3> QED BY <1>1, <2>2, <3>1, <3>2
              DEF Next, CreateWorkOrder, OpenWorkOrder, Transition, GenerateCheck, GenerateInsert,
                  GenerateReplay, GenerateCommit, GenerateRefused, ReleaseBatch, ReleaseCommit,
                  SetBatchLifecycle, DeleteBatch, Abandon
    <2>4. workOrder[tx[c].wo].version = tx[c].version
      BY <1>1, <2>3 DEF Transition, GenerateCommit, StillOpen
    <2> QED BY <1>1, <2>4 DEF WorkOrderInv, AllFit, RequestFits
  <1>2. WorkOrderInv /\ [Next]_vars =>
          [\A c \in Clients :
             /\ tx[c].op \in {"transition", "generate"} /\ tx[c].version # 0
             /\ tx'[c] = Idle /\ <<workOrder, batch>>' # <<workOrder, batch>>
             => workOrder[tx[c].wo].status = tx[c].status]_vars
    BY <1>1
  <1> QED BY <1>2, InitInv, StepKeepsInv, PTL DEF Spec, ActsAsSeen
=============================================================================
