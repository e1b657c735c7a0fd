---------------------------- MODULE Procurement ----------------------------
(***************************************************************************)
(* Buying: vendors, the price history of each vendor and material, the     *)
(* purchase entries that are priced from it, and the reports over them     *)
(* (vendors, vendor-prices, purchase-entries and inventory services, and   *)
(* the script that entered the opening prices).                            *)
(*                                                                         *)
(* createVendorPrice and createPurchaseEntry read without locks and write  *)
(* later, in a transaction; what they read may be old by then. Dates are   *)
(* days 1..LastDay and a day's month is MonthOf; receipts may be dated     *)
(* after Today, as the request schema allows. Prices are whole hundredths  *)
(* and quantities whole thousandths, as their columns have them, so that   *)
(* their product is exact and a report that shows cents rounds it.         *)
(***************************************************************************)
EXTENDS Integers, FiniteSets, FiniteSetsExt, Sums

CONSTANTS
    Vendors, Items,
    Defaults,      \* items that come with the program (is_default)
    Prices,        \* ids of vendor_material_prices rows
    Entries,       \* ids of purchase_entries rows
    Clients,       \* concurrent requests
    LastDay,       \* bound: days 1..LastDay
    Today,         \* current_date
    MonthOf,       \* the calendar month of a day
    WindowMonths,  \* INSIGHT_MONTHS: trailing months of the reports
    Rate,          \* unit price of each price row, in hundredths
    PaidByHand,    \* a unit price typed into a purchase entry, in hundredths
    ListPrice,     \* inventory_items.price, in hundredths
    Quantity,      \* quantity of each purchase, in thousandths
    Times,         \* the times at which a transaction may begin
    NoPrice

ASSUME NoPriceAssumption == NoPrice \notin Prices \cup Vendors \cup Items
ASSUME DaysAssumption  == LastDay \in Nat \ {0} /\ Today \in 1..LastDay
ASSUME RatesAssumption == Rate \in [Prices -> Nat] /\ PaidByHand \in Nat /\ ListPrice \in Nat
ASSUME QuantityAssumption == Quantity \in [Entries -> Nat]
ASSUME TimesAssumption == Times \subseteq Nat
ASSUME FinitenessAssumption == IsFiniteSet(Entries) /\ IsFiniteSet(Vendors)
ASSUME WindowAssumption == WindowMonths \in Nat
ASSUME MonthAssumption == /\ MonthOf \in [1..LastDay -> Nat]
                          /\ \A d, e \in 1..LastDay : d <= e => MonthOf[d] <= MonthOf[e]

VARIABLES
    vendors,   \* vendor rows
    items,     \* inventory_items rows
    price,     \* vendor_material_prices
    entry,     \* purchase_entries
    req        \* what each request has read and will write

vars == <<vendors, items, price, entry, req>>

-----------------------------------------------------------------------------
Days == 1..LastDay
Forever == LastDay + 1   \* effective_to IS NULL

Absent == [vendor |-> NoPrice]
Gone == [item |-> NoPrice]     \* ids are not used again
PriceRows == [vendor : Vendors, item : Items, from : Days, to : Days \cup {Forever}]

\* `at` is created_at. `looked` is history: the vendor's prices of the material when the entry
\* was priced.
EntryRows == [vendor : Vendors, item : Items, date : Days, paid : Nat, typed : BOOLEAN,
              price : Prices \cup {NoPrice}, looked : SUBSET Prices, at : Times]

Recorded == {p \in Prices : price[p] \notin {Absent, Gone}}
Entered == {e \in Entries : entry[e] # Absent}

Idle == [op |-> "idle"]
Requests ==
    {Idle}
    \cup [op : {"price"}, vendor : Vendors, item : Items, from : Days, current : Prices \cup {NoPrice}]
    \cup {r \in [op : {"buy"}, vendor : Vendors, item : Items, date : Days, typed : BOOLEAN,
                 price : Prices \cup {NoPrice}, looked : SUBSET Prices] :
             r.typed \/ r.price # NoPrice}

\* The type of the state.
TypeOK ==
    /\ vendors \subseteq Vendors
    /\ items \subseteq Items
    /\ price \in [Prices -> PriceRows \cup {Absent, Gone}]
    /\ entry \in [Entries -> EntryRows \cup {Absent}]
    /\ req \in [Clients -> Requests]

Init ==
    /\ vendors = Vendors
    /\ items = Items
    /\ price = [p \in Prices |-> Absent]
    /\ entry = [e \in Entries |-> Absent]
    /\ req = [c \in Clients |-> Idle]

-----------------------------------------------------------------------------
(* Prices                                                                   *)

Of(v, i) == {p \in Recorded : price[p].vendor = v /\ price[p].item = i}
Active(v, i) == {p \in Of(v, i) : price[p].to = Forever}
Covers(p, d) == price[p].from <= d /\ d <= price[p].to

TheOne(S) == IF S = {} THEN NoPrice ELSE CHOOSE p \in S : TRUE

\* A slip: the interval is read as open at its start.
EffectiveAfter(v, i, d) ==
    LET on == {p \in Of(v, i) : price[p].from < d /\ d <= price[p].to}
    IN TheOne({p \in on : \A q \in on : price[q].from <= price[p].from})

\* getEffectivePrice: of the prices that cover the day, the one that began last.
Effective(v, i, d) ==
    LET on == {p \in Of(v, i) : Covers(p, d)}
    IN TheOne({p \in on : \A q \in on : price[q].from <= price[p].from})

\* A slip: a day too many.
DayBeforeEarly(d) == d - 2

\* subtractOneDay
DayBefore(d) == d - 1

\* createVendorPrice reads the price in force; the new one must begin after it did.
PriceRead(c, v, i, d) ==
    /\ req[c] = Idle
    /\ v \in vendors /\ i \in items
    /\ \A p \in Active(v, i) : d > price[p].from
    /\ req' = [req EXCEPT ![c] = [op |-> "price", vendor |-> v, item |-> i, from |-> d,
                                  current |-> TheOne(Active(v, i))]]
    /\ UNCHANGED <<vendors, items, price, entry>>

\* A slip: nothing forbids two prices in force.
AllowedAlways(r) == r.vendor \in vendors /\ r.item \in items

\* What the database asks of the new row: its vendor and its material exist, and once the
\* price that was read is closed there is no other in force (partial unique index).
Allowed(r) ==
    /\ r.vendor \in vendors /\ r.item \in items
    /\ Active(r.vendor, r.item) \subseteq {r.current}

\* It closes the price it read, by id, and records the new one ...
PriceCommit(c, p) ==
    /\ req[c].op = "price"
    /\ price[p] = Absent
    /\ Allowed(req[c])
    /\ LET r == req[c]
           closed == [q \in Prices |->
                        IF q = r.current THEN [price[q] EXCEPT !.to = DayBefore(r.from)]
                        ELSE price[q]]
       IN price' = [closed EXCEPT ![p] = [vendor |-> r.vendor, item |-> r.item,
                                          from |-> r.from, to |-> Forever]]
    /\ req' = [req EXCEPT ![c] = Idle]
    /\ UNCHANGED <<vendors, items, entry>>

\* ... or fails, and the closing is undone with it.
PriceAborts(c) ==
    /\ req[c].op = "price"
    /\ ~Allowed(req[c])
    /\ req' = [req EXCEPT ![c] = Idle]
    /\ UNCHANGED <<vendors, items, price, entry>>

\* migrateVendorChemicalsToPrices: an opening price for a pair that has none, from the day the
\* vendor was created.
OpeningPrice(p, v, i) ==
    /\ price[p] = Absent
    /\ v \in vendors /\ i \in items
    /\ Of(v, i) = {}
    /\ price' = [price EXCEPT ![p] = [vendor |-> v, item |-> i, from |-> 1, to |-> Forever]]
    /\ UNCHANGED <<vendors, items, entry, req>>

-----------------------------------------------------------------------------
(* Purchases                                                                *)

\* createPurchaseEntry looks the price up; without one, the request must bring its own.
BuyRead(c, v, i, d, typed) ==
    /\ req[c] = Idle
    /\ typed \/ Effective(v, i, d) # NoPrice
    /\ req' = [req EXCEPT ![c] = [op |-> "buy", vendor |-> v, item |-> i, date |-> d, typed |-> typed,
                                  price |-> Effective(v, i, d), looked |-> Of(v, i)]]
    /\ UNCHANGED <<vendors, items, price, entry>>

\* The foreign keys of the entry.
Insertable(r) ==
    /\ r.vendor \in vendors /\ r.item \in items
    /\ r.price \in Recorded \cup {NoPrice}

\* Its transaction: the entry, and the stock (BatchStock!Purchase). created_at is the time at
\* which it began: of two that overlap the later to commit may have begun first, or with the other.
BuyCommit(c, e, time) ==
    /\ req[c].op = "buy"
    /\ e \notin Entered
    /\ Insertable(req[c])
    /\ LET r == req[c]
       IN entry' = [entry EXCEPT ![e] =
                      [vendor |-> r.vendor, item |-> r.item, date |-> r.date,
                       paid |-> IF r.typed THEN PaidByHand ELSE Rate[r.price], typed |-> r.typed,
                       price |-> r.price, looked |-> r.looked, at |-> time]]
    /\ req' = [req EXCEPT ![c] = Idle]
    /\ UNCHANGED <<vendors, items, price>>

BuyAborts(c) ==
    /\ req[c].op = "buy"
    /\ ~Insertable(req[c])
    /\ req' = [req EXCEPT ![c] = Idle]
    /\ UNCHANGED <<vendors, items, price, entry>>

-----------------------------------------------------------------------------
(* Vendors and items                                                        *)

\* deleteVendor takes the vendor's prices along, and fails if something was bought.
DeleteVendor(v) ==
    /\ v \in vendors
    /\ \A e \in Entered : entry[e].vendor # v
    /\ vendors' = vendors \ {v}
    /\ price' = [p \in Prices |-> IF p \in Recorded /\ price[p].vendor = v THEN Gone ELSE price[p]]
    /\ UNCHANGED <<items, entry, req>>

HasHistory(i) ==
    (\E p \in Recorded : price[p].item = i) \/ (\E e \in Entered : entry[e].item = i)

\* deleteItem fails for a material with prices or purchases.
DeleteItem(i) ==
    /\ i \in items
    /\ ~HasHistory(i)
    /\ items' = items \ {i}
    /\ UNCHANGED <<vendors, price, entry, req>>

\* resetToDefaults leaves the materials that came with the program, or have a history.
ResetToDefaults ==
    /\ items' = {i \in items : i \in Defaults \/ HasHistory(i)}
    /\ UNCHANGED <<vendors, price, entry, req>>

Next ==
    \/ ResetToDefaults
    \/ \E v \in Vendors : DeleteVendor(v)
    \/ \E i \in Items : DeleteItem(i)
    \/ \E p \in Prices, v \in Vendors, i \in Items : OpeningPrice(p, v, i)
    \/ \E c \in Clients :
         \/ PriceAborts(c) \/ BuyAborts(c)
         \/ \E p \in Prices : PriceCommit(c, p)
         \/ \E e \in Entries, t \in Times : BuyCommit(c, e, t)
         \/ \E v \in Vendors, i \in Items, d \in Days :
              \/ PriceRead(c, v, i, d)
              \/ \E typed \in BOOLEAN : BuyRead(c, v, i, d, typed)

Spec == Init /\ [][Next]_vars

-----------------------------------------------------------------------------
(* Reports                                                                  *)

SameItem(e) == {f \in Entered : entry[f].item = entry[e].item}

\* What the reports order by: receipt date, then created_at.
Before(e, f) ==
    \/ entry[e].date < entry[f].date
    \/ entry[e].date = entry[f].date /\ entry[e].at < entry[f].at

\* previousUnitPrice of the list: of the entries before this one, a last one ({}: there is none).
PreviousPaid(e) ==
    LET earlier == {f \in SameItem(e) : Before(f, e)}
    IN {entry[f].paid : f \in {g \in earlier : \A h \in earlier : ~Before(g, h)}}

\* The row numbers that PARTITION BY item ORDER BY may give an entry: those between the entries
\* before it and the ones after it, in any order among entries that it does not tell apart.
RowNumbers(e) ==
    LET before == {f \in SameItem(e) : Before(f, e)}
        notAfter == {f \in SameItem(e) : ~Before(e, f)}
    IN Cardinality(before) + 1 .. Cardinality(notAfter)

\* LAG(unit_price) of the summary: what the row one number before may have cost.
Lagged(e) ==
    {entry[f].paid : f \in {g \in SameItem(e) \ {e} :
                               \E n \in RowNumbers(g) : n + 1 \in RowNumbers(e)}}

TiedWith(e) == {f \in SameItem(e) \ {e} : ~Before(e, f) /\ ~Before(f, e)}

\* What was paid: thousandths at hundredths each. toFixed(2) is the nearest cent.
Paid == [e \in Entered |-> Quantity[e] * entry[e].paid]
Cents(amount) == (amount + 500) \div 1000

Value(S) == SumOver(Paid, S)
FromVendor(v) == {e \in Entered : entry[e].vendor = v}
InMonth(S, m) == {e \in S : MonthOf[entry[e].date] = m}

\* The reports look back over the trailing months, the current one included. Receipts dated after
\* it have months up to the last.
FirstMonth == MonthOf[Today] - WindowMonths + 1
LastMonth == MonthOf[LastDay]

Monthly(S, months) == [m \in months |-> Value(InMonth(S, m))]
Rounded(series) == [m \in DOMAIN series |-> Cents(series[m])]
SumOf(series) == SumOver(series, DOMAIN series)

\* A slip: the series ends before the current month.
SeriesPast(S) == Monthly(S, FirstMonth..(MonthOf[Today] - 1))

\* getPurchaseSummary: month by month, not rounded.
Series(S) == Monthly(S, FirstMonth..MonthOf[Today])

\* getVendorsInsights: the spend of each vendor on the list. The WHERE has no end, and `spend`,
\* which is in cents, is rounded with each month that is added: so each month is.
SpendOnList(v) == SumOf(Rounded(Monthly(FromVendor(v), FirstMonth..LastMonth)))

\* getVendorInsights: the spend on the vendor's own page, the sum of its rounded series.
SpendOnPage(v) == SumOf(Rounded(Series(FromVendor(v))))

\* activeRatesWithPrevious: the price that an active one replaced.
Replaced(p) ==
    LET before == {q \in Of(price[p].vendor, price[p].item) : price[q].from < price[p].from}
    IN TheOne({q \in before : \A r \in before : price[r].from <= price[q].from})

\* getReceiptDatePrices: what a material cost on a day, by its latest purchase (of one day,
\* any), else by the best vendor price, else by the price list.
ReceiptPrices(i, d) ==
    LET bought == {e \in Entered : entry[e].item = i /\ entry[e].date <= d}
        rates == {Rate[p] : p \in {q \in Recorded : price[q].item = i /\ Covers(q, d)}}
    IN IF bought # {}
       THEN {entry[e].paid : e \in {f \in bought : \A g \in bought : entry[g].date <= entry[f].date}}
       ELSE IF rates # {} THEN {Min(rates)} ELSE {ListPrice}

-----------------------------------------------------------------------------
(* Properties                                                               *)

\* From the first day on which a vendor quoted a material, each day has exactly one price:
\* however requests overlap, intervals neither meet nor leave a day out, and one is in force.
OnePriceADay ==
    \A v \in Vendors, i \in Items :
        \A p \in Of(v, i) : \A d \in price[p].from..Forever :
            Cardinality({q \in Of(v, i) : Covers(q, d)}) = 1

\* An entry was priced with the price that, of those recorded when it was looked up, was the
\* last to begin by its date; and neither its price nor its vendor nor its material is deleted
\* under it, though all three were looked up before its transaction.
EntriesKeepTheirPrice ==
    \A e \in Entered :
        LET row == entry[e]
            known == {p \in row.looked \cap Recorded : price[p].vendor = row.vendor
                                                      /\ price[p].item = row.item
                                                      /\ price[p].from <= row.date}
        IN /\ row.vendor \in vendors /\ row.item \in items
           /\ row.price \in Recorded \cup {NoPrice}
           /\ row.price = NoPrice => known = {}
           /\ row.price # NoPrice => /\ row.price \in known
                                     /\ \A p \in known : price[p].from <= price[row.price].from
                                     /\ row.typed \/ row.paid = Rate[row.price]

\* The past keeps its prices: a step that records nothing for a day or before it leaves what a
\* material cost on that day as it was, unless it deletes a vendor with its prices.
PastCostStands ==
    [][ vendors' = vendors /\ <<price, entry>>' # <<price, entry>> =>
          \A i \in Items, d \in Days :
             /\ \A p \in Recorded' \ Recorded : price'[p].from > d
             /\ \A e \in Entered' \ Entered : entry'[e].date > d
             => ReceiptPrices(i, d)' = ReceiptPrices(i, d) ]_vars

\* The reports say the same. The vendor list and the vendor page differ by the receipts that
\* are dated after the current month; the pages together differ from the summary by no more than
\* half a cent for each month that a page rounds; the purchase list and the summary see the same
\* price before each purchase, or the summary sees one of the same date and time; and an active
\* price replaced the one of the day before.
ReportsAgree ==
    /\ \A v \in Vendors :
         SpendOnList(v) = SpendOnPage(v)
             + SumOf(Rounded(Monthly(FromVendor(v), (MonthOf[Today] + 1)..LastMonth)))
    /\ LET halfCents == 500 * WindowMonths * Cardinality(Vendors)
       IN 1000 * SumOf([v \in Vendors |-> SpendOnPage(v)]) - SumOf(Series(Entered))
            \in -halfCents..halfCents
    /\ \A e \in Entered : Lagged(e) = PreviousPaid(e) \cup {entry[f].paid : f \in TiedWith(e)}
    /\ \A v \in Vendors, i \in Items : \A p \in Active(v, i) :
         Replaced(p) = Effective(v, i, DayBefore(price[p].from))
=============================================================================
