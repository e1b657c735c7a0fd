------------------------------ MODULE Invoices ------------------------------
(***************************************************************************)
(* Zoho invoices as the program reads them: the list, read page by page    *)
(* and kept for two minutes; the line items, read one invoice at a time,   *)
(* kept in memory and in zoho_invoice_details; and the figures made of     *)
(* them (customer-supply.service.ts, utils/supplySummary.ts and            *)
(* utils/invoicedSales.ts).                                                *)
(*                                                                         *)
(* Zoho is outside the program and changes at any time. An action of a     *)
(* refresh is what the program does between two awaits.                    *)
(***************************************************************************)
EXTENDS Integers, Sequences, FiniteSets, FiniteSetsExt, SequencesExt, Sums

CONSTANTS
    Invoices,
    Refreshes,     \* refreshes at the same time
    MaxVersion,    \* bound: last_modified_time takes the values 1..MaxVersion
    MaxChanges,    \* bound: changes in Zoho
    PageSize,      \* LIST_PAGE_SIZE
    MaxPages,      \* LIST_MAX_PAGES
    ReadLimits,    \* the readLimit of a caller; bound: at most one chunk (DETAIL_CONCURRENCY)
    Products,
    Amount,        \* what an invoice, as of a version, bills of a product before GST; 0: nothing
    Customer,      \* the customer of an invoice
    All            \* no filter

ASSUME BoundsAssumption == {MaxVersion, MaxChanges, PageSize, MaxPages} \cup ReadLimits \subseteq Nat \ {0}
ASSUME AmountAssumption == Amount \in [Invoices -> [1..MaxVersion -> [Products -> Nat]]]
ASSUME AllAssumption    == All \notin Products
ASSUME FiniteAssumption == IsFiniteSet(Invoices) /\ IsFiniteSet(Products)

VARIABLES
    listing,    \* Zoho: its invoices, the newest first
    version,    \* Zoho: of each invoice, 0 before its creation
    void,       \* Zoho: invoices that are drafts or void
    changes,    \* Zoho: how many so far
    listCache,  \* the rows of the last list, while they are less than two minutes old
    detail,     \* detailCache
    loaded,     \* detailCache was loaded from the table
    stored,     \* zoho_invoice_details
    refresh     \* what each refresh has read

invoiceVars == <<listing, version, void, changes, listCache, detail, loaded, stored, refresh>>
zoho == <<listing, version, void, changes>>
program == <<listCache, detail, loaded, stored, refresh>>

-----------------------------------------------------------------------------
Versions == 1..MaxVersion

\* A row of the list; `void` stands for the two statuses that need no lines.
Rows == [id : Invoices, modified : Versions, void : BOOLEAN]

\* An empty list is not told from none. `moved` is history: an invoice came or went while the
\* pages were read.
NoList == [rows |-> <<>>, moved |-> FALSE]

\* Line items that were read: `modified` is the cache's key, `seen` the version they are of.
NoDetail == [modified |-> 0]
Details == [modified : Versions, seen : Versions]

\* What became of each row: the version that was read, or
Unread == 0     \* it will be read,
Failed == -1    \* its read failed,
Left == -2      \* it is not read: known, without need of lines, or beyond the limit.
Reads == Versions \cup {Unread, Failed, Left}

\* `crossed` is history: another refresh replaced line items since this one chose its own.
NoRefresh == [op |-> "idle"]
RefreshStates ==
    {NoRefresh}
    \cup [op : {"paging"}, rows : Seq(Rows), page : 1..MaxPages, moved : BOOLEAN]
    \cup [op : {"listed"}, rows : Seq(Rows), moved : BOOLEAN]
    \cup [op : {"reading", "saving", "ready"}, rows : Seq(Rows), moved : BOOLEAN,
          got : Seq(Reads), pending : Nat, crossed : BOOLEAN]

\* The type of the state.
InvoiceTypeOK ==
    /\ listing \in Seq(Invoices)
    /\ version \in [Invoices -> 0..MaxVersion]
    /\ void \subseteq Invoices
    /\ changes \in 0..MaxChanges
    /\ listCache \in [rows : Seq(Rows), moved : BOOLEAN]
    /\ detail \in [Invoices -> Details \cup {NoDetail}]
    /\ loaded \in BOOLEAN
    /\ stored \in [Invoices -> Details \cup {NoDetail}]
    /\ refresh \in [Refreshes -> RefreshStates]

InvoiceInit ==
    /\ listing = <<>>
    /\ version = [i \in Invoices |-> 0]
    /\ void = {}
    /\ changes = 0
    /\ listCache = NoList
    /\ detail = [i \in Invoices |-> NoDetail]
    /\ loaded = FALSE
    /\ stored = [i \in Invoices |-> NoDetail]
    /\ refresh = [c \in Refreshes |-> NoRefresh]

-----------------------------------------------------------------------------
(* Zoho                                                                     *)

ZohoChange == changes < MaxChanges /\ changes' = changes + 1

PagesMove ==
    refresh' = [c \in Refreshes |-> IF refresh[c].op = "paging" THEN [refresh[c] EXCEPT !.moved = TRUE] ELSE refresh[c]]

\* An invoice is entered, with a date that puts it first or last.
ZohoCreate(i) ==
    /\ ZohoChange
    /\ version[i] = 0
    /\ version' = [version EXCEPT ![i] = 1]
    /\ listing' \in {<<i>> \o listing, Append(listing, i)}
    /\ PagesMove
    /\ UNCHANGED <<void, listCache, detail, loaded, stored>>

ZohoDelete(i) ==
    /\ ZohoChange
    /\ \E k \in DOMAIN listing : listing[k] = i /\ listing' = RemoveAt(listing, k)
    /\ PagesMove
    /\ UNCHANGED <<version, void, listCache, detail, loaded, stored>>

\* Its line items change, and with them last_modified_time.
ZohoEdit(i) ==
    /\ ZohoChange
    /\ version[i] \in 1..(MaxVersion - 1)
    /\ version' = [version EXCEPT ![i] = @ + 1]
    /\ UNCHANGED <<listing, void, program>>

\* Its status changes.
ZohoStatus(i) ==
    /\ ZohoChange
    /\ version[i] # 0
    /\ void' = IF i \in void THEN void \ {i} ELSE void \cup {i}
    /\ UNCHANGED <<listing, version, program>>

RowNow(i) == [id |-> i, modified |-> version[i], void |-> i \in void]

-----------------------------------------------------------------------------
(* A refresh: listAllInvoices                                               *)

\* The list of less than two minutes ago, ...
ListFromCache(c) ==
    /\ refresh[c] = NoRefresh
    /\ listCache # NoList
    /\ refresh' = [refresh EXCEPT ![c] = [op |-> "listed", rows |-> listCache.rows, moved |-> listCache.moved]]
    /\ UNCHANGED <<zoho, listCache, detail, loaded, stored>>

\* ... or, without one or when it is forced, every page of it,
ListStart(c) ==
    /\ refresh[c] = NoRefresh
    /\ refresh' = [refresh EXCEPT ![c] = [op |-> "paging", rows |-> <<>>, page |-> 1, moved |-> FALSE]]
    /\ UNCHANGED <<zoho, listCache, detail, loaded, stored>>

Smaller(m, n) == IF m < n THEN m ELSE n
Page(k) == [j \in 1..Smaller(PageSize, Len(listing) - PageSize * (k - 1)) |->
              RowNow(listing[PageSize * (k - 1) + j])]
HasMore(k) == Len(listing) > PageSize * k

\* page by page of what Zoho has when the page is asked for. The last one ends the list.
ReadPage(c) ==
    LET r == refresh[c]
        rows == r.rows \o (IF PageSize * (r.page - 1) < Len(listing) THEN Page(r.page) ELSE <<>>)
    IN /\ r.op = "paging"
       /\ IF HasMore(r.page) /\ r.page < MaxPages
          THEN /\ refresh' = [refresh EXCEPT ![c].rows = rows, ![c].page = @ + 1]
               /\ UNCHANGED listCache
          ELSE /\ refresh' = [refresh EXCEPT ![c] = [op |-> "listed", rows |-> rows, moved |-> r.moved]]
               /\ listCache' = [rows |-> rows, moved |-> r.moved]
       /\ UNCHANGED <<zoho, detail, loaded, stored>>

ListExpires ==
    /\ listCache # NoList
    /\ listCache' = NoList
    /\ UNCHANGED <<zoho, detail, loaded, stored, refresh>>

-----------------------------------------------------------------------------
(* withDetails                                                              *)

\* ensureDetailCacheLoaded: once for the life of the process, for whoever comes first.
LoadDetails(c) ==
    /\ refresh[c].op = "listed"
    /\ ~loaded
    /\ loaded' = TRUE
    /\ detail' = [i \in Invoices |-> IF stored[i] = NoDetail THEN detail[i] ELSE stored[i]]
    /\ UNCHANGED <<zoho, listCache, stored, refresh>>

\* A slip: line items that are known, of whatever version, are not read again.
MissingUnknown(rows) == {k \in DOMAIN rows : ~rows[k].void /\ detail[rows[k].id] = NoDetail}

\* The rows whose line items are not known as of the row's version. Zoho gives every row one.
Missing(rows) ==
    {k \in DOMAIN rows : ~rows[k].void /\ detail[rows[k].id].modified # rows[k].modified}

FirstOf(S, n) == {k \in S : Cardinality({j \in S : j < k}) < n}

\* The first of them are read, the others are pending.
Choose(c) ==
    /\ refresh[c].op = "listed"
    /\ loaded
    /\ \E readLimit \in ReadLimits :
         LET rows == refresh[c].rows
             batch == FirstOf(Missing(rows), readLimit)
         IN refresh' = [refresh EXCEPT ![c] =
                      [op |-> "reading", rows |-> rows, moved |-> refresh[c].moved,
                       got |-> [k \in DOMAIN rows |-> IF k \in batch THEN Unread ELSE Left],
                       pending |-> Cardinality(Missing(rows) \ batch), crossed |-> FALSE]]
    /\ UNCHANGED <<zoho, listCache, detail, loaded, stored>>

\* fetchDetail: what Zoho has of the invoice now. A call fails at will, one for an invoice that
\* is gone always.
FetchDetail(c) ==
    /\ refresh[c].op = "reading"
    /\ \E k \in DOMAIN refresh[c].got :
         LET i == refresh[c].rows[k].id
             listed == \E j \in DOMAIN listing : listing[j] = i
         IN /\ refresh[c].got[k] = Unread
            /\ \E seen \in {Failed} \cup (IF listed THEN {version[i]} ELSE {}) :
                 refresh' = [refresh EXCEPT ![c].got[k] = seen]
    /\ UNCHANGED <<zoho, listCache, detail, loaded, stored>>

Read(r) == {k \in DOMAIN r.got : r.got[k] \in Versions}
ReadsOf(r, i) == {k \in Read(r) : r.rows[k].id = i}

\* A slip: the key is taken from the list that is cached by now.
FreshDetailByCache(r, i, otherwise) ==
    LET now == {k \in DOMAIN listCache.rows : listCache.rows[k].id = i}
    IN IF ReadsOf(r, i) = {} THEN otherwise
       ELSE LET last == Max(ReadsOf(r, i))
            IN [modified |-> IF now = {} THEN r.rows[last].modified ELSE listCache.rows[Max(now)].modified,
                seen |-> r.got[last]]

\* The line items of a chunk that were read, under the version of their row; of an invoice that
\* was read twice, the last.
FreshDetail(r, i, otherwise) ==
    IF ReadsOf(r, i) = {} THEN otherwise
    ELSE LET last == Max(ReadsOf(r, i))
         IN [modified |-> r.rows[last].modified, seen |-> r.got[last]]

\* They go into the cache when the whole chunk has settled, ...
Settle(c) ==
    /\ refresh[c].op = "reading"
    /\ \A k \in DOMAIN refresh[c].got : refresh[c].got[k] # Unread
    /\ detail' = [i \in Invoices |-> FreshDetail(refresh[c], i, detail[i])]
    /\ refresh' = [d \in Refreshes |->
                 IF d = c THEN [refresh[c] EXCEPT !.op = IF Read(refresh[c]) = {} THEN "ready" ELSE "saving"]
                 ELSE IF refresh[d].op \in {"reading", "saving", "ready"} /\ Read(refresh[c]) # {}
                 THEN [refresh[d] EXCEPT !.crossed = TRUE]
                 ELSE refresh[d]]
    /\ UNCHANGED <<zoho, listCache, loaded, stored>>

\* ... and are written to the table in one statement. One that names a row twice is an error.
Persist(c) ==
    LET r == refresh[c]
    IN /\ r.op = "saving"
       /\ \A j, k \in Read(r) : r.rows[j].id = r.rows[k].id => j = k
       /\ stored' = [i \in Invoices |-> FreshDetail(r, i, stored[i])]
       /\ refresh' = [refresh EXCEPT ![c].op = "ready"]
       /\ UNCHANGED <<zoho, listCache, detail, loaded>>

\* The answer is made of the rows and of what the cache has by then.
Answer(c) ==
    /\ refresh[c].op = "ready"
    /\ refresh' = [refresh EXCEPT ![c] = NoRefresh]
    /\ UNCHANGED <<zoho, listCache, detail, loaded, stored>>

\* Zoho, its token or the database fails: the refresh ends, what it cached stays.
Fails(c) ==
    /\ refresh[c] # NoRefresh
    /\ refresh' = [refresh EXCEPT ![c] = NoRefresh]
    /\ UNCHANGED <<zoho, listCache, detail, loaded, stored>>

\* The process stops and starts again with empty caches.
Restart ==
    /\ listCache' = NoList
    /\ detail' = [i \in Invoices |-> NoDetail]
    /\ loaded' = FALSE
    /\ refresh' = [c \in Refreshes |-> NoRefresh]
    /\ UNCHANGED <<zoho, stored>>

-----------------------------------------------------------------------------
InvoiceNext ==
    \/ ListExpires \/ Restart
    \/ \E i \in Invoices : ZohoCreate(i) \/ ZohoDelete(i) \/ ZohoEdit(i) \/ ZohoStatus(i)
    \/ \E c \in Refreshes :
         \/ ListFromCache(c) \/ ListStart(c) \/ ReadPage(c) \/ LoadDetails(c) \/ Choose(c)
         \/ FetchDetail(c) \/ Settle(c) \/ Persist(c) \/ Answer(c) \/ Fails(c)

InvoiceSpec == InvoiceInit /\ [][InvoiceNext]_invoiceVars

-----------------------------------------------------------------------------
(* The figures                                                              *)

\* The invoices of an answer. `seen` 0: its line items are not known.
Served(c) ==
    [k \in DOMAIN refresh[c].rows |->
       LET row == refresh[c].rows[k]
       IN [id |-> row.id, void |-> row.void, modified |-> row.modified,
           seen |-> IF detail[row.id].modified = row.modified THEN detail[row.id].seen ELSE 0]]

FailedReads(r) == Cardinality({k \in DOMAIN r.got : r.got[k] = Failed})

\* Drafts and void invoices are not executed orders.
Executed(a) == {k \in DOMAIN a : ~a[k].void}

\* A slip: the status is not asked for when the line items are at hand.
KnownAll(a) == {k \in DOMAIN a : a[k].seen # 0}

\* The invoices that have their line items.
Known(a) == {k \in Executed(a) : a[k].seen # 0}

Customers == {Customer[i] : i \in Invoices}
Bills(x, p) == IF x.seen = 0 THEN 0 ELSE Amount[x.id][x.seen][p]

\* buildSupplySummary: a product filter drops the invoices without the product, and the lines
\* of others. A row of the sales is a customer and a product.
Scoped(a, customer, product) ==
    {k \in Executed(a) : /\ customer # All => Customer[a[k].id] = customer
                         /\ product # All => Bills(a[k], product) > 0}
Sales(a, customer, product) ==
    LET scope == Scoped(a, customer, product)
    IN [row \in Customers \X Products |->
          SumOver([k \in scope |-> IF Customer[a[k].id] = row[1] /\ product \in {All, row[2]}
                                   THEN Bills(a[k], row[2]) ELSE 0], scope)]
SalesTotal(a, customer, product) == SumOver(Sales(a, customer, product), Customers \X Products)

\* toSaleLines and windowTotals, of the investor dashboard.
SaleLines(a) == {line \in Known(a) \X Products : Bills(a[line[1]], line[2]) > 0}
WindowTotal(a) == SumOver([line \in SaleLines(a) |-> Bills(a[line[1]], line[2])], SaleLines(a))

-----------------------------------------------------------------------------
(* Properties                                                               *)

Ready(c) == refresh[c].op = "ready"

\* An answer never shows line items older than the version of the invoice it lists: cached and
\* stored items are used for the version they were read for, across failures, restarts and
\* refreshes that overlap.
NoStaleLines ==
    \A c \in Refreshes : Ready(c) =>
        \A k \in DOMAIN Served(c) : Served(c)[k].seen # 0 => Served(c)[k].seen >= Served(c)[k].modified

\* What an answer lacks it reports as pending or failed, unless the list moved under its pages
\* or another refresh replaced items in between.
MissingIsReported ==
    \A c \in Refreshes : Ready(c) /\ ~refresh[c].crossed /\ ~refresh[c].moved =>
        Cardinality(Executed(Served(c)) \ Known(Served(c))) <= refresh[c].pending + FailedReads(refresh[c])

\* The supply view and the investor dashboard make the same sales of the same invoices, and what
\* the view shows of each product adds up to what it shows of all.
SameSales ==
    \A c \in Refreshes : Ready(c) =>
        LET a == Served(c)
        IN /\ SalesTotal(a, All, All) = WindowTotal(a)
           /\ \A customer \in Customers \cup {All} :
                SalesTotal(a, customer, All)
                    = SumOver([p \in Products |-> SalesTotal(a, customer, p)], Products)
=============================================================================
