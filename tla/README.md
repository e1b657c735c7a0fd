# Verification of macrocoats-api

TLA+ models of the parts of the Macro Coats API where several requests change the
same rows or the same memory: making a batch, taking its materials from stock,
releasing it, allocating it to a customer order, and shipping it; buying the materials
and the prices they cost; the formulas a batch is made by, and who may see them;
sign-in sessions; the product documents, the cache in front of them and the PDFs stored
from them; the browsers that render PDFs; and the invoices read from Zoho with the
figures made of them. TLC checks them on small instances; TLAPS proves their safety
properties for every instance.

The API is one Node process (or several) in front of PostgreSQL. A handler runs
one or more SQL statements, mostly inside a transaction at READ COMMITTED. Between
two statements of one handler, any other handler may commit. What protects a
handler is what it writes into its SQL: `SELECT ... FOR UPDATE`, an `UPDATE` with a
guard in its `WHERE`, a `version` column, a unique or foreign key. The models
keep exactly these, and give every unprotected read an action of its own.

## The system's parts

| Part | State | Operations | Works with |
|---|---|---|---|
| Batches | `batches`: lifecycle, CoA, label expiry, version, work order, idempotency key | create, edit, record and clear CoA, release (one, many), hold/reject/cancel, delete | takes stock; owns a finished-goods row; tells its work order; allocates to an order on release |
| Inventory, containers | `inventory_items.stock_qty`, `pack_container_stock`, their movement rows | deduct, give back, edit, count, receive, delete | batches, purchase entries |
| Finished goods | produced and dispatched quantity, status | create, backfill, cancel, restore, increment, reverse | batches, dispatches |
| Dispatch | `dispatches`: batch, order line, quantity, voided | create, edit, void | finished goods, orders |
| Customer orders | status, deleted, lines, links of batches to lines | create, edit, set status, link, unlink, recompute status, delete | batches, dispatches, work orders |
| Work orders | status, version, readiness | create, transition, generate a batch, reconcile | batches, order lines |
| Vendors, vendor prices, purchases | vendors; one open price per vendor and material, with its history; purchase entries | quote a price, buy, delete a vendor or a material, reports | inventory |
| Formulation variants | status, component lists, assignments to companies, product access, cached library | create, edit, approve, replace the recipe, assign, unassign, delete | batches (approval gate), companies |
| Sessions | refresh tokens, passwords, company access tokens and their expiry | log in, exchange, log out, change password, rotate a company's token | users, companies |
| Documents | product documents, Redis cache in front | edit, change status, read | stored PDFs |
| Stored PDFs | queue, files named by payload hash | enqueue, drain, serve | documents, browsers |
| PDF rendering | pool of Chromium browsers, pending and cached brochures | render, launch, crash, retire, shut down | stored PDFs, routes |
| Customer supply, investor dashboard | list of Zoho invoices, their details in memory and in a table | refresh, summarise | Zoho |
| The rest | company files, prices, quotations, letterheads, hazard data, other reports, templates | single-row writes or read-only views | |

What is hard in it:

* **Checks on unlocked reads.** `clearCoaSnapshot`, `setOrderStatus`, `updateOrder`,
  `recomputeStatus`, `unlinkBatch` and the first reads of `createWorkOrderBatch` decide
  on rows that can change before they write.
* **Lock order.** `createBatch` takes the container, then all inventory rows in
  scan order; a return takes items, then the container. Two releases of one work
  order both hold a key-share lock and then want the row. Deadlocks are possible
  and PostgreSQL breaks them by aborting a transaction.
* **Retries.** A submit with an `Idempotency-Key`, a second void, a second
  cancellation.
* **Legal sequences with a bad end.** Cancel then release, dispatch then raise,
  cancel stock then void.
* **A cache filled late.** A reader puts into Redis what it read before a change
  deleted the entry; the stored PDFs are rendered from what the cache gives.
* **A queue in memory.** Announced changes, the drain loop and its queue are lost with
  the process; PDFs and cache entries outlive it.
* **Work shared between callers.** One render for all who ask for a brochure, one load of
  the invoice cache for all who come first, one pool that overlapping cold starts rebuild.
* **Several statements without a transaction.** Exchanging a refresh token is three; a
  process may stop between any two.
* **An outside system that moves.** Invoices change in Zoho while their list and then
  their details are read.
* **Derived state.** Order status, work-order status and finished-goods status are
  recomputed from other rows, by whoever changes those.

What makes each part correct is stated as the properties below.

## Modules

`BatchRelease` – a batch, its finished goods, and its dispatches without an order
line (`batches.service.ts`, `finished-goods.service.ts`, `dispatch.service.ts`).
A handler that locks the batch row first, and a single guarded `UPDATE`, is one
action. `clearCoaSnapshot` is two. `seen` is what a client last read, for the calls
that carry a version.

`StockLedger` – what stock promises, in three atomic steps: a batch takes all it
needs or nothing; what it took can come back; a person adjusts a good.

`BatchStock` – the same with row locks: `createBatch` (counter row, container,
inventory rows in any order the scan may meet them), cancelling with a return,
deleting, and the single statements that edit stock. Requests wait for rows, and
`DeadlockAbort` is PostgreSQL's deadlock check. `BatchStock` implements `StockLedger`
(`opened <- {b : batch[b] # "none"}`).

`OrderFulfilment` – one customer order with its lines, links and dispatches
(`customer-purchase-orders.service.ts`, the order's side of `dispatch.service.ts`
and of `releaseBatch`). A transaction is several actions: an unprotected read each,
then the sums of `recomputeStatus`, then the commit. `tx[c]` holds what it has read
and will write; locks are what the open transactions imply (`HoldsOrder`, ...).

`WorkOrders` – production work orders and their batches
(`production-work-orders.service.ts`, `utils/workOrderProgress.ts`, the work order's
side of `batches.service.ts`). Generating a batch is check, insert, reconcile and
commit; a release is two actions; a manual transition carries the version its
caller saw.

`ProductDocuments` – one product's documents, their cache entries and its stored PDFs
(`products.service.ts`, `plugins/redis.ts`, `pdf-store.service.ts`, `server.ts`). Each
await of `getDocument`, `updateDocument` and `transitionDocumentStatus` ends an action;
what runs between two awaits (the event, queueing, starting an idle drain loop up to
its first read) is one action. The drain loop is a reader like a request: `pc`,
`on` and `got` have an entry for `Drainer`. A content is the number of the edit that
wrote it, and a file is the set of contents whose PDF is on disk. `behind` and
`published` are history: what was not tried since its document changed, and what has
ever been published.

`FormulaVariants` – the formulas of one product (`formulation-variants.service.ts`, the
product access of `companies.service.ts`, the approval gate of `createBatch`). Each
handler is its unlocked read, its write and its `cacheDel`. A recipe is the set of saved
lists whose rows are in the table, which shows what `replaceComponents` deletes: the rows
it sees, not those that come. `excused` and `raced` are history: what the properties
leave out, and why.

`Sessions` – refresh tokens, the passwords and access tokens they were opened with
(`auth.service.ts`, `rotateCompanyToken` and `deleteCompany`). A token row keeps the first
token of its session (`root`) and how often the secrets had changed when the session was
opened (`epoch`).

`PdfPool` – the pool of browsers of `pdf.service.ts` and the sharing of brochures in
`pdf.routes.ts`. An action is what Node runs between two awaits. Browsers crash and age;
the queue of stored PDFs is one more caller, which a shutdown does not wait for.

`Procurement` – vendors, price history, purchases and the reports over them
(`vendors`, `vendor-prices`, `purchase-entries`, `inventory` services and the script that
entered the opening prices). Recording a price and a purchase are a read and a
transaction; reports are operators on the state, as the SQL has them.

`Invoices` – a refresh of `customer-supply.service.ts`: the list page by page, the details
that are missing, the caches, the table; and the figures that `buildSupplySummary` and
the investor dashboard make of them. Zoho is four actions of its own. Of cached details
the model keeps which version they were filed under and which they are of.

`Sums` – the sum of the numbers a function gives the elements of a finite set, which stands for
every `SUM` and `reduce` of the code.

`MC...` modules – constants and symmetry for TLC, one for each of the modules above.

`SumTheorems` – lemmas on sums. `BatchReleaseProofs`, `BatchStockProofs`, `OrderFulfilmentProofs`,
`WorkOrdersProofs`, `SessionsPdfProofs` (of `Sessions` and `PdfPool`), `DocumentsVariantsProofs` (of
`ProductDocuments` and `FormulaVariants`) and `ProcurementInvoicesProofs` (of `Procurement` and
`Invoices`) – the theorems. Two components that meet in a proof module share no state: it holds
their proofs one after the other.

The two halves of `createBatch`, `releaseBatch` and of a dispatch meet in their rows:
`BatchRelease` has the batch's transactions atomic, which is justified because the
batch row is locked first and finished goods change by single guarded statements;
`BatchStock`, `OrderFulfilment` and `WorkOrders` open up the part of the transaction
that touches rows others share.

### Conventions

* A call the code refuses without writing is not an action, unless it holds locks
  until then (`RefuseCreate`, `GenerateRefused`) or ends something already begun.
* Statuses with spaces are written without them ("PartiallyDispatched").
* Definitions whose names say a fault (`IncrementableAnyQty`, `OrderFreeAlways`,
  `NextStatusExact`, ...) stand beside the definition they vary and are used by
  nothing: they are plausible slips of the code, kept to show that each property
  notices one.

### What stands for what

* Quantities are small naturals. `numeric(12,3)` arithmetic is exact, and no property
  depends on the scale; `round3` does not appear.
* `coa` is none, pass or fail (all tests pass, or one does not); `expiry` is missing,
  ahead or past, and `PassExpiry` is the calendar.
* `reserved_quantity` is written by no code and stays 0; `actual_yield` is only ever
  the batch size.
* In `BatchRelease` a cancellation that returns materials finds one of them to take the stock
  back (`Returned`). When every item is gone or no longer tracked, `batches.service.ts:508`
  writes no reversal, and what is left is the state of a cancellation that returns nothing.
* The date of a dispatch is not kept. That it may not lie after the batch's expiry
  (`dispatch.service.ts:136`) is a matter of the input: a date up to the expiry makes the same
  step, and a batch past its expiry is refused by the guarded update whatever the date.
* Prices are whole hundredths and quantities whole thousandths, as the columns of purchases have
  them; `toFixed(2)` is `Cents`, which rounds exact half cents up. The code rounds doubles, which
  at half a cent may go either way: the bounds of `ReportsAgree` admit both where it compares
  rounded with unrounded, but list and page, which round the same amount in two sums, may there
  be a cent apart.
* `created_at` is the time at which a transaction began, any of `Times`: not in the order of the
  commits, and the same for two.
* A listed invoice has a `last_modified_time`. The code's `?? ''`
  (`customer-supply.service.ts:165`, `:176`) would take lines that were read without one as
  current for good; that Zoho sends one is assumed, as nothing in `src` says when it would not.
* The matching of material names and units gives each batch its need of every item:
  the need is input.
* Product, variant and customer are taken to match: another is refused before anything
  is written.

## What each run checks

All runs but `ProductDocuments` have `CHECK_DEADLOCK FALSE`:
ids are finite and a system whose ids are used up, or whose batches are all released,
has nothing left to do. A document can always be read once more.

### BatchRelease (1 batch, 2 dispatches, 2 clients, quantities up to 2, version up to 4)

One batch suffices, as batches share no row here; two dispatches and quantity 2 give
partial, full and excess shipments; two clients let a stale `seen` or a pending
clear meet another's change; four versions allow three changes to a row. Initial
states include batches from before the lifecycle and finished-goods tables
(`needs_review`, to be backfilled).

* `NoOversell`: 0 <= dispatched <= produced.
* `ShippedOnlyReleased`: a live dispatch is of a released production batch.
* `ShipmentsAccounted`: the row counts every live dispatch.
* `OnOfferOnlyReleased`: stock on offer is stock of a released batch. Backfilled rows are
  left out, since a backfill may describe an unreleased batch.
* `ReleasedIsFinal`: nothing but a deletion changes a released batch's lifecycle,
  version, size, or its result to another one.
* `ApprovedAsSeen`: a release with a version releases the status and CoA its approver read.

### BatchStock (2 items, 1 container, 2 numberings, 2 batches, 2 requests)

Two items and a container make every lock-order conflict between two requests; two
numberings let creates overlap, the same one makes them queue. `Handled` names the
goods people touch by hand (one item, the container), the others only move through
batches. `MaxNeed` and `MaxStock` are 1: stock either covers a need or does not.

* `Conserved`: stock is what people put there less what the movements say batches hold.
* `SameContainerNeverDeadlocks`: creates that fill the same container never wait for each
  other in a circle, whatever order the scan takes: the container comes first.
* `ImplementsLedger`: refinement of `StockLedger`, whose `Take` asks that all is in stock:
  nothing is oversold, and a refused or aborted request leaves nothing behind.

### BatchStockLive (the same, nothing touched by hand)

* `EveryRequestEnds`: a create, cancel or delete that began ends. Fairness: strong for
  taking a free row, because PostgreSQL queues waiters, so a request that finds its row
  free again and again gets it; weak for the steps that depend on nobody (commit,
  refusal), because the event loop runs them; weak for `DeadlockAbort`, the deadlock
  timeout. No fairness for starting requests or for people. No symmetry in this run.

### OrderFulfilment (2 lines, 1 batch of yield 2, 2 dispatches, 2 clients, up to 2 ordered)

Two lines compete for one batch; two dispatches for one line; two clients overlap any
two handlers at any unprotected point. One order is enough: handlers lock and
recompute orders one at a time, and links of other orders to the same batch would only
take capacity away.

* `QuantitiesAgree`: allocation stays within what a batch yields (`BatchNotOverallocated`),
  what is left is its yield less its live dispatches (`StockAccounted`), and a draft has
  nothing allocated, shipped or under way (`DraftUntouched`).
* `LinksGrowWithinDemand`: when a link commits, allocation is within what the line orders
  (an edit may lower the line later).
* `ShipsOnlyOpenOrder`: a dispatch commits against an open order.
* `ReferencesSurvive`: no line that a link or dispatch refers to is replaced.

### WorkOrders (2 work orders, 2 batches, 1 key, 2 clients, planned 21, batches of 10)

One released batch of 10 leaves a work order open and two (20 of 21) are inside the
5 % tolerance, not exactly on it. One key on two work orders covers reuse.

* `StatusFollowsBatches`: a work order that waits has no live batch (`WaitingHasNoBatch`),
  one whose released output is enough is closed (`OutputCompletes`), and one that closed by
  itself has output (`CompletedHasOutput`). The last two leave out work orders that lost a
  batch to `deleteBatch`, which does not reconcile.
* `OneBatchPerKey`, `NoBatchOnClosed`, `ClosedStaysClosed`, `ActsAsSeen`: retries, late
  batches, late transitions and stale screens.

### ProductDocuments (the TDS, 1 client, 2 edits or transitions, 1 restart, a failing Redis)

The TDS feeds two PDFs, its own and the brochure, which share the queue; the MSDS feeds
one and shares nothing else. One client overlaps the drain loop, which is the second
reader and fills the cache like any other; more clients overlap each other in the
proofs (any number). Two changes let one
arrive while the other is announced or rendered; one restart puts a crash or a
shutdown at every point. Documents begin in `qa_review` or `published`: the statuses
from which a change decides whether a PDF may exist.

* `QueueHasRunner`: no PDF waits without a drain loop, and no key stays in `queued`.
* `ChangeOnItsWay`, `ChangeIsTried`: a committed change is queued, about to be announced, or
  left to the regeneration after a restart, and each of its PDFs is tried again.
* `StoredWasPublished`: a stored content was published at some time.
* `CacheRecovers`: when the edits end, so do stale entries.

Fairness: weak, for the steps of a request that has started and of the drain loop (the
event loop, PostgreSQL, Redis and the renderer answer, with success or failure), the
boot timer, the expiry of a key (`SETEX`) and the exit of a process that is shutting
down, which its supervisor starts again. No fairness for clients beginning a request,
nor for crashes. A failing render counts as tried: the code logs and does not retry.
The query of the boot regeneration is assumed to succeed: when it fails the code logs
it and stored PDFs wait for the next change or restart.

### FormulaVariants (2 formulas, 1 company, 2 lists, 2 clients)

Two formulas compete for a company's default and make an unassignment the last one or not;
two clients overlap any two handlers; two lists are two saves of recipes. Formulas begin
absent, suggested or approved.

* `AssignedHasAccess`: a company that a formula is assigned to can see its product, however
  assignment, unassignment and deletion overlap.
* `OnlyApprovedUsed`: what is in production, or a batch was made from, was approved before.
* `LibraryConsistent`: an old library is cached only until its writer deletes it, but for the
  writers and readers named in `LibraryCurrent`.

### Sessions (2 users, 3 tokens, 2 clients, 2 changes of secrets per user)

Two clients are a retry and its original, or an exchange and a change of password; three
tokens are a session with two exchanges or two sessions. `Lost` ends a request anywhere.

* `OneLivePerSession`: retried and overlapping exchanges never fork a session.
* `OldSessionsEnd`: after a change of password, or a rotation of the company's token, only
  sessions whose login or exchange was under way go on (they are marked `late`).

### PdfPool (2 browsers, 2 requests and the queue, 2 payloads, cache of 1)

Two browsers let cold starts overlap, three callers let two wait for a third's render or
two print with one browser; a cache of one evicts.

* `PoolConsistent`: a browser counts as used by those that print with it.
* `OneRenderPerPayload`: a brochure is rendered once for all who ask for it together.
* `NoUsableBrowserLost`: overlapping cold starts do not drop one another's browser.
* `EveryCallerIsAnswered` (liveness). Fairness: weak for a caller's template, for its launch
  and for its printing, each of which Puppeteer ends or times out (launch, page and render
  timeouts). None for clients, crashes or ageing. A caller that waits for another's render
  has no step of its own: it goes when that one settles.

### Procurement (2 vendors, 1 material, 2 prices, 2 entries, 2 clients, 2 days, today the
first, a window of 1 month, 2 times of recording)

Two prices of one vendor follow each other or race, of two vendors compete; the second day is
in the next month; entries may be dated after today, as the request schema allows. Two times make
entries tie, or commit in another order than they began. A purchase is of 0.3 units at a cent
or two, so that months are rounded up, down and to nothing. A third day, second material or third
price multiplies the states by about ten and adds no case: a second price closes the first
wherever it begins, and the proof covers any number.

* `OnePriceADay`: intervals of prices neither meet nor leave a day out.
* `EntriesKeepTheirPrice`: an entry was priced right by what was recorded when it was looked
  up, and keeps what it refers to.
* `PastCostStands`: what is recorded for later days leaves what a material cost before.
* `ReportsAgree`: vendor list, vendor page, purchase list, summary and rates tell the same, up
  to what the code makes differ: receipts after the current month, the rounding of each month
  on the pages but not in the summary, and the order of entries that tie.

### Invoices (2 invoices, 2 refreshes, 2 versions, 3 changes in Zoho, pages of 1, 2 products)

Pages of one invoice let the list move between pages; two refreshes overlap at any await; two
versions are old and new lines. A refresh reads at most one chunk of details
(`ReadLimits` up to 2, a chunk has four): later chunks repeat the first with more rows.

* `NoStaleLines`: lines shown are of the listed version or a later one.
* `MissingIsReported`: an answer reports as pending or failed what it lacks.
* `SameSales`: two views make the same sales, and products add up to the whole.

### Symmetry

Ids of items, numberings, batches, dispatches, clients, requests, lines, work orders
are interchangeable: they are only compared for equality, and every CHOOSE over them
picks an order of summation. Symmetry is used in safety runs only.

## Where the code and what it says of itself disagree

One has a run whose property TLC finds violated: `ReleasedEvidenceKept`.
`clearCoaSnapshot` checks, a release commits, `clearCoaSnapshot` writes: a released batch has
no CoA, although its routes call released evidence immutable.

The others are in the models as the code has them. Each follows from the actions named:

* Cancel a batch with its materials returned, then release it (`SetLifecycleRow`,
  `ReleaseRow`): nothing asks whether it was cancelled, against
  `batches.service.ts:545`.
* Cancel stock, void its dispatch (`CancelFinishedGoods`, `Reversible`): the quantity stays
  counted as dispatched, against the comment at `finished-goods.service.ts:188`.
* A void reads the order as open, somebody cancels it, the void's recomputation writes an
  open status (`SumLines`, `Commit`), against the comment at
  `customer-purchase-orders.service.ts:340`.
* Create a dispatch within the line's remainder, then raise it (`UpdateDispatch`): only stock
  is checked, against "mirrors createDispatch's guard" at `dispatch.service.ts:277`.
* The drain loop reads a published row, an archive commits and deletes the cache entry, the
  drain loop sets it (`QueryRow`, `CacheSet`): the PDF of the archived document stays,
  against `pdf-store.service.ts:25`.
* Two saves of a recipe overlap (`ReplaceDelete`, `ReplaceCommit`): both lists stay, where
  `README.md:555` says the list is replaced.
* A list of invoices that moved under its pages names an invoice twice
  (`ReadPage`): it counts twice for two minutes, and when it had to be read, the statement
  that stores details fails and with it the refresh (`Persist` is not enabled), so that details
  read are not written back, against `customer-supply.service.ts:121`.
* The list of vendors counts the receipts dated after the current month, a vendor's own page
  does not (`SpendOnList`, `SpendOnPage`; `ReportsAgree` states the difference).

Seen while modelling, and promised nowhere: the pages of vendors round each month and the summary
none, so that their totals may be cents apart (`Rounded`); the previous price of an entry is, in
the list, never that of another of the same date and time, in the summary it may be
(`PreviousPaid`, `Lagged`); reads of details that fail stand first in the list
and starve the rest (`FirstOf`); an answer may show the listed total over lines of a later
version (`FetchDetail`); a default assignment of a new formula is dropped without an error
when the company has another (`CreateCommit`); two recomputations of one order may leave the
older status (`Commit`); `unlinkBatch` may leave a dispatch without its allocation
(`UnlinkBatchCheck`); two work orders may both take the remainder of an order line
(`production-work-orders.service.ts:168`); browsers that are thirty minutes old are dropped and
never closed (`AcquireCold`); the branch of `acquireBrowser` that waits for a full pool is
never reached.

## What is proved

All safety properties and action properties that the passing runs check, and the refinement, are
theorems: for every set of batches, dispatches, requests, invoices and so on, and every bound,
from the named assumptions on constants only. Liveness stays with TLC (see the end of this
section).

The assumptions are of four kinds: quantities and bounds are naturals (`QtyAssumption`,
`NeedAssumption`, `RatesAssumption`, `QuantityAssumption`, `TimesAssumption`, ...); `None` is no id; the days of a calendar lie in months
that do not go back (`MonthAssumption`), and the reports' window is a number of months
(`WindowAssumption`); and what the code adds up or counts is finite (`FiniteAssumption`,
`FinitenessAssumption`, `ListsFinite`): rows of a table, callers of a process. TLC evaluates all of
them in the runs.

### Sums

`Sums` has the one operator for totals, a fold of the community modules over a finite set.
`SumTheorems` proves what is needed of it: any element may be taken out first (`SumRemove`), and
from this that sums are naturals or integers, that one that differs in one element differs by
that element, that disjoint parts and groups add up, and that a table adds up to the same by
rows and by columns (`SumSwap`). The library's induction on finite sets takes an operator, which no
prover here instantiates; `GrowingSets` is the same induction over a set of subsets, from the
least cardinality of a counterexample.

### BatchRelease (`BatchReleaseProofs`)

The inductive invariant is the conjunction of `TypeOK`, `NoOversell`,
`ShippedOnlyReleased`, `OnOfferOnlyReleased`, `StatusFollowsQuantities` and of what ties the
rows together: a live dispatch names its batch (`DispatchNamed`); a released batch is of
production (`ReleasedProduction`); a batch that `createBatch` made has a finished-goods row
(`SystemStocked`), of which nothing was shipped before the release (`UnreleasedKept`); and
while the version that a client read is still the row's, so is the status it read, and its CoA
is the row's or was cleared (`SeenCurrent`). `NoOversell` alone is not inductive: a reversal
needs that what it takes off is there. For `ShipmentsAccounted` (`Accounts`) it adds that a batch
without a finished-goods row has nothing dispatched (`NoRowNothingGone`), from which a backfill
starts.
Proved: `TypeOK`, `NoOversell`, `ShippedOnlyReleased`, `OnOfferOnlyReleased`,
`StatusFollowsQuantities`, `ShipmentsAccounted`, `ReleasedIsFinal`, `ApprovedAsSeen`.

### BatchStock (`BatchStockProofs`)

The inductive invariant is `TypeOK`, `NeverNegative`, and: what a request
read in a row it holds is what is in stock (`LockedRead`), it has read nothing in a row it
does not hold (`ReadLocked`), and a return is of a batch that was made (`ReturnsMade`).
`ImplementsLedger` follows: a commit maps to `Take` or `GiveBack`, an edit by hand to `Adjust`,
everything else to a stutter. `Conserved` needs besides that a batch which was not made took
nothing (`UnmadeTookNothing`). `SameContainerNeverDeadlocks` rests on the order of the plan
(`Orderly`): a create that fills a container has locked it, or has it to lock next and holds no
other good (`ContainerFirst`); it does so for rows that it does not hold (`PlanAhead`), and a
scan never passes a container over (`ContainersStay`). So of two that fill it the one that waits
holds nothing the other could wait for.
Proved: `TypeOK`, `NeverNegative`, `ChecksHold`, `ImplementsLedger`, `Conserved`,
`SameContainerNeverDeadlocks`.

### OrderFulfilment (`OrderFulfilmentProofs`)

The first invariant (`OrderInv`) is `ReferencesSurvive`, `DraftUntouched` and: at most one
request holds the order (`OneHolder`); while one does, the order is open and its line is there,
whatever the requests that do not lock it decide (`Finds`); whatever any of them is about, the
order is no draft, and none is going to make it one (`Decides`). Rows are typed but for what is
a sum (`Shape`).

The second (`Books`) is about totals: `BatchNotOverallocated`, `StockAccounted`, and of every
transaction under way, that what it is going to write fits the rows as they are now (`Backed`):
the quantity of a link fits its line and its batch, stock covers a dispatch, and the dispatch to
be voided or raised is live. That this outlasts the steps of the others is the work of
the locks: one request holds a batch's stock (`OneStockHolder`), one a dispatch
(`OneDispatchUser`), one the order.
Proved: `QuantitiesAgree`, `ReferencesSurvive`, `LinksGrowWithinDemand`, `ShipsOnlyOpenOrder`.

### WorkOrders (`WorkOrdersProofs`)

The inductive invariant (`WorkOrderInv`) is `TypeOK`, `OneBatchPerKey` and:
a version is no more than the moves that lead to its status (`RowsFit`), which bounds it by
four; every batch was made for a work order (`MadeForOne`); and of each request
(`AllFit`), what it read is of the version it names or the row has moved on, the batch it
inserted is nobody else's and not there before it commits, and the key of that batch is
unused (`RequestFits`). For `StatusFollowsBatches` each row also follows its batches (`Follows`):
a work order that does not exist has none; and a batch has a size (`Sized`), so that a release
which completes its work order leaves it with output.
Proved: `TypeOK`, `StatusFollowsBatches`, `OneBatchPerKey`, `NoBatchOnClosed`,
`ClosedStaysClosed`, `ActsAsSeen`.

### ProductDocuments and FormulaVariants (`DocumentsVariantsProofs`)

Of documents, the inductive invariant is `TypeOK`, `QueueHasRunner`,
`ChangeOnItsWay`, `StoredWasPublished`, and three facts: whoever is under way is about a
document, the drain loop about that of its job, and whoever has read has a document at
hand (`Placed`); every copy that says it is published, in the row, the cache or a reader's
hands, is of a content that was (`Honest`), without which nothing follows about what a job
stores from a stale copy; and a stopped queue is empty (`StoppedIsEmpty`), without which the
loop that ends at a shutdown could strand a PDF. Lemmas on sequences (`KeysOfConcat`,
`DistinctConcat`, `KeysOfTail`) say what queueing and taking a job do to the keys.
Proved: `TypeOK`, `QueueHasRunner`, `ChangeOnItsWay`, `StoredWasPublished`.

Of formulas, the invariant (`VariantInv`) is `VariantTypeOK`, `AssignedHasAccess`,
`LibraryCurrent`, and: what is in use or was made was approved (`UsableApproved`); a request that
will put a formula into production or make a batch of it saw it approved, one that marks a default
has its assignment, and after the last assignment was counted away there is none left, unless the
company is excused (`RequestsFit`). `NewFits` says that a formula being created is created by one
request, and that only a formula with a row is assigned, so that what a creation commits is
nobody else's. What a commit does to the requests of others (a listing grows stale, a row that was
read is gone) is one operator of the model, `Aged`, with lemmas of its own.
Proved: `AssignedHasAccess`, `LibraryConsistent`, `OnlyApprovedUsed`.

### Sessions and PdfPool (`SessionsPdfProofs`)

Of sessions, the inductive invariant (`SessionInv`) is `TypeOK`, `OneLivePerSession`,
`OldSessionsEnd` and: a session that is being exchanged has no live token
(`NoTokenDuringExchange`) and is exchanged once (`OneExchangePerSession`); and the root of a
row or of an exchange names a row that is there (`RootsAreRows`), so that a new session starts
a root nobody has.
Proved: `TypeOK`, `OneLivePerSession`, `OldSessionsEnd`.

Of the pool, the invariant (`PdfInv`) is the three properties and where a caller may be
(`CallersFit`): who prints has a browser that was launched, who does not has none, and who waits
asked for a payload. That the count in an entry is the number of those that print needs two
lemmas on cardinalities, for one user more and one less.
Proved: `PoolConsistent`, `OneRenderPerPayload`, `NoUsableBrowserLost`.

### Procurement and Invoices (`ProcurementInvoicesProofs`)

Prices first (`PriceInv`): `OnePriceADay` is restated without
cardinalities: prices are intervals, of which no two of a pair meet and which leave out no day
from the first on (`Intervals`, `Disjoint`, `Covered`); and the price that a request read is
still of its pair and began before the one it will record, unless the vendor is gone
(`ReadInv`). Then entries (`EntryInv`): of the prices it looked up, the one that an entry, or a
request whose vendor is there, holds began last. `EntriesKeepTheirPrice` follows from both.
`PastCostStands` is the same facts over one step: a price that is closed, and the one that is
recorded, differ only on days the step is excused for. `ReportsAgree` needs of the invariant only
its types and intervals, and is otherwise arithmetic on any rows. It adds up one set of entries
in groups: by month, by vendor, up to the current month and after it. A sum of n rounded terms is
within n half cents of the sum of the terms (`SumWithin`), first over the months of a page, then
over the pages. Purchases are ordered weakly, by date and time: `NumbersMeet` says which
elements of a finite weak order may get the row number before another's, those that tie with
it and the last of those before it.
Proved: `TypeOK`, `OnePriceADay`, `EntriesKeepTheirPrice`, `ReportsAgree`, `PastCostStands`.

Of invoices, the first invariant (`FreshInv`): whatever is cached, stored or just read is
of the version it is filed under or a later one (`AsNewAsKey`), no listed version is ahead of
Zoho (`NotAhead`), and what a refresh has read of an invoice is no older than what its list
says of it (`ReadAfterListed`). `NoStaleLines` reads it off the answer. `SameSales` holds of any
answer with finitely many rows: the window keeps the rows that the sales keep, and a table of
rows and products adds up the same both ways.

`MissingIsReported` needs a second invariant (`ReportInv`) which follows a list through its
refresh. While Zoho's list does not move, the pages read are its first rows (`OnPages`), so that an
invoice has one row (`Apart`): with two, one would be read and the other reported. The rows left
out of a chunk are at most the pending ones, and once the chunk has settled any other row without
line items has failed (`Reported`): another refresh can fill the cache in between, but what it
replaces is excused (`crossed`). TLC found this invariant true on the run's instance before it was
proved.
Proved: `InvoiceTypeOK`, `NoStaleLines`, `SameSales`, `MissingIsReported`.

### What stays with TLC

Liveness: `EveryRequestEnds`, `ChangeIsTried`, `CacheRecovers`, `EveryCallerIsAnswered`. They need
ENABLED for their fairness, which no prover here handles. And `ReleasedEvidenceKept`, which is
false. The pages, the details and the reports are functions and folds; no RECURSIVE operator is
used, so nothing else is left out for the prover's sake. The properties of the code that the
models do not state are below.

## What is not modelled

* `setPaymentStatus`, labels, notes, formulas, costs, timelines: data no property needs.
* Dispatches and finished-goods rows that predate the release gate are not initial states;
  backfilled batches are.
* Returning materials checks `materials_returned` in `BatchRelease`; `BatchStock` and
  `WorkOrders` let a cancelled batch be put on hold without it, and `BatchStock` lets any
  batch be cancelled: more behaviours than the code has.
* `BatchStock` does not link batch rows to the version or the release; trial batches, which
  take nothing, are batches with no needs. New inventory items are not created.
* In `OrderFulfilment` the other gates of a release are left to `BatchRelease`, work-order
  demands (which forbid replacing lines) and cancelled stock are left out, and a lock is
  taken in one action with the read that follows it.
* In `WorkOrders` a demand on an order line is not modelled, nor the trial kind, whose
  batches the code never releases.
* In `ProductDocuments` the documents and their product exist, and PDF generation is switched
  on. Company users read past the cache and change nothing, as does `findStoredPdf`. The
  older PDFs of a job are removed in one step, which a crash may precede. After a shutdown
  begins Redis answers as before, where the code has disconnected it, which is a failed call.
  The end of the drain loop and the `finally` that clears `draining` are one step: between
  them only callbacks of the same I/O event run, and no event both ends a job and answers
  the last await before an announcement, except one reply of Redis to both, where the
  announcement is fewer callbacks away than the loop's end.
* In `FormulaVariants` one product stands for all (keys, variants and access of products do not
  meet), the text of components and tags is left out, and companies are not created.
* In `Sessions` a signature and a hash do what they promise, access tokens, which live
  fifteen minutes without a row, are not modelled, and roles are not told apart.
* In `PdfPool` templates and pages are steps that end or fail. `Usable` is the filter of
  connected, young entries; the timer that a full pool would wait for is never started.
* In `Procurement` there is one currency; vendors' and materials' other fields, filters and
  paging are left out, as are the summary's totals by vendor and a page's by material.
* In `Invoices` names are matched already: an item is its product and a customer its
  company. Dispatches, months, units and balances are left out.
* The parts listed in `PROJECT.json` as not modelled, with the reason there.

Much of the repository has no behaviour to model: of its 29,700 lines of implementation
more than 8,000 are seed data, and most of the rest are templates and page layout, request
schemas, routes that call one function, handlers that write one row, and reports that only
read. What the models cover is where rows, caches and queues are shared; larger coverage
would have to come from those, where a model would restate the code without a question to
ask of it.

## What could follow

`WorkOrders` with the demands of order lines; `OrderFulfilment` with a second order, and a
property on the final agreement of status and totals; company readers and download routes
in `ProductDocuments`.
