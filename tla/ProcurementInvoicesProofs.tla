---------------------- MODULE ProcurementInvoicesProofs ---------------------
(***************************************************************************)
(* Proofs about Procurement and Invoices: what is bought, what is sold,    *)
(* and the reports made of both.                                           *)
(*                                                                         *)
(* Procurement: each day has one price. OnePriceADay is not inductive. Two *)
(* facts make it so: the price that a request has read began before the    *)
(* one it will record (unless its vendor is gone), and prices of a pair    *)
(* are disjoint intervals that cover every day since any of them began.    *)
(* Then a pair with a price has one in force, and what the unique index    *)
(* admits closes exactly that one. The reports agree because each adds up  *)
(* the same entries in groups of another kind, and a sum of rounded groups *)
(* is off by half a cent for each. The order of purchases is a weak one:   *)
(* an entry has a row number of one of those that it ties with.            *)
(*                                                                         *)
(* Invoices: no answer shows line items older than the version of the      *)
(* invoice it lists, what an answer lacks it reports, and two views make   *)
(* the same sales. The invariant follows a version through the program: a  *)
(* row of a list is never newer than Zoho, a read that comes after the row *)
(* is as new as it, and so are the cached and stored line items that carry *)
(* its key. For the reports it also follows a list: while it does not      *)
(* move, the pages that were read are its first rows, so an invoice has    *)
(* one row, and what a chunk has settled is missing in no other.           *)
(***************************************************************************)
EXTENDS Procurement, Invoices, SumTheorems, FiniteSetTheorems, SequenceTheorems, TLAPS

-----------------------------------------------------------------------------
(* Prices                                                                   *)

\* The columns of a request to record a price still name a price that began before.
ReadInv ==
    \A c \in Clients : req[c].op = "price" =>
        LET r == req[c]
        IN r.vendor \in vendors /\ r.current # NoPrice =>
             /\ r.current \in Of(r.vendor, r.item)
             /\ price[r.current].from < r.from

\* The prices of a pair are intervals, ...
Intervals == \A p \in Recorded : price[p].from <= price[p].to

\* ... of which no two meet, ...
Disjoint ==
    \A p, q \in Recorded :
        /\ price[p].vendor = price[q].vendor
        /\ price[p].item = price[q].item
        /\ p # q
        => price[p].to < price[q].from \/ price[q].to < price[p].from

\* ... and which cover each day since one began.
Covered ==
    \A p \in Recorded : \A d \in price[p].from..Forever :
        \E q \in Of(price[p].vendor, price[p].item) : Covers(q, d)

PriceInv == TypeOK /\ ReadInv /\ Intervals /\ Disjoint /\ Covered

-----------------------------------------------------------------------------
LEMMA RowFacts ==
    ASSUME TypeOK, NEW p \in Recorded
    PROVE  /\ p \in Prices
           /\ price[p] \in PriceRows
           /\ price[p].vendor \in Vendors
           /\ price[p].item \in Items
           /\ price[p].from \in Int
           /\ 1 <= price[p].from
           /\ price[p].from <= LastDay
           /\ price[p].to \in Int
           /\ price[p].to <= Forever
  BY DaysAssumption DEF TypeOK, Recorded, PriceRows, Days, Forever

LEMMA NotRows == Absent \notin PriceRows /\ Gone \notin PriceRows /\ NoPrice \notin Prices
  <1>1. \A r \in PriceRows : r.vendor \in Vendors /\ r.item \in Items
    BY DEF PriceRows
  <1>2. Absent.vendor = NoPrice /\ Gone.item = NoPrice
    BY DEF Absent, Gone
  <1> QED BY <1>1, <1>2, NoPriceAssumption

LEMMA TheOneOf == ASSUME NEW S, S # {} PROVE TheOne(S) \in S
  BY DEF TheOne

-----------------------------------------------------------------------------
(* Steps                                                                    *)

\* The price of a pair that is in force, if the pair has any.
LEMMA ActiveExists ==
    ASSUME PriceInv, NEW p \in Recorded
    PROVE  Active(price[p].vendor, price[p].item) # {}
  <1>1. Forever \in price[p].from..Forever
    BY RowFacts, DaysAssumption DEF PriceInv, Forever
  <1>2. PICK q \in Of(price[p].vendor, price[p].item) : Covers(q, Forever)
    BY <1>1 DEF PriceInv, Covered
  <1>3. q \in Recorded
    BY <1>2 DEF Of
  <1>4. price[q].to = Forever
    BY <1>2, <1>3, RowFacts, DaysAssumption DEF PriceInv, Covers, Forever
  <1> QED BY <1>2, <1>4 DEF Active

\* What the request of an admitted price read is the one price in force, or the pair has none.
LEMMA AdmittedClosesTheActive ==
    ASSUME PriceInv, NEW c \in Clients, req[c].op = "price", Allowed(req[c])
    PROVE  LET r == req[c]
           IN /\ r \in Requests
              /\ r.vendor \in vendors /\ r.item \in items
              /\ r.current = NoPrice => Of(r.vendor, r.item) = {}
              /\ r.current # NoPrice => /\ Active(r.vendor, r.item) = {r.current}
                                        /\ price[r.current].from < r.from
  <1> DEFINE r == req[c]
  <1>1. r \in Requests
    BY DEF PriceInv, TypeOK
  <1>2. r.vendor \in vendors /\ r.item \in items /\ Active(r.vendor, r.item) \subseteq {r.current}
    BY DEF Allowed
  <1>3. \A q \in Of(r.vendor, r.item) : Active(r.vendor, r.item) # {}
    BY ActiveExists DEF Of
  <1>4. Active(r.vendor, r.item) \subseteq Prices
    BY DEF Active, Of, Recorded
  <1>5. ASSUME r.current = NoPrice PROVE Of(r.vendor, r.item) = {}
    BY <1>2, <1>3, <1>4, <1>5, NotRows
  <1>6. ASSUME r.current # NoPrice
        PROVE  Active(r.vendor, r.item) = {r.current} /\ price[r.current].from < r.from
    <2>1. r.current \in Of(r.vendor, r.item) /\ price[r.current].from < r.from
      BY <1>2, <1>6 DEF PriceInv, ReadInv
    <2> QED BY <1>2, <1>3, <2>1
  <1> QED BY <1>1, <1>2, <1>5, <1>6

\* Prices that stay as they are keep the invariant's facts about them, and so does an entry.
LEMMA PricesSame ==
    ASSUME PriceInv, UNCHANGED price
    PROVE  Recorded' = Recorded /\ Intervals' /\ Disjoint' /\ Covered'
  BY DEF PriceInv, Intervals, Disjoint, Covered, Recorded, Of, Covers

LEMMA PricesAndVendorsSame ==
    ASSUME PriceInv, UNCHANGED <<vendors, price>>,
           \A c \in Clients : req'[c].op = "price" => req'[c] = req[c]
    PROVE  ReadInv'
  BY DEF PriceInv, ReadInv, Recorded, Of

\* What a recorded price does to the rows: the new one, the closed one, the others.
LEMMA CommittedRows ==
    ASSUME PriceInv, NEW c \in Clients, NEW p \in Prices, PriceCommit(c, p)
    PROVE  LET r == req[c]
           IN /\ r \in Requests /\ r.vendor \in vendors /\ r.item \in items
              /\ r.vendor \in Vendors /\ r.item \in Items /\ r.from \in Days
              /\ p \notin Recorded /\ p # r.current
              /\ Recorded' = Recorded \cup {p}
              /\ price' \in [Prices -> PriceRows \cup {Absent, Gone}]
              /\ price'[p] = [vendor |-> r.vendor, item |-> r.item, from |-> r.from, to |-> Forever]
              /\ \A q \in Recorded : /\ price'[q].vendor = price[q].vendor
                                     /\ price'[q].item = price[q].item
                                     /\ price'[q].from = price[q].from
                                     /\ q # r.current => price'[q].to = price[q].to
              /\ r.current = NoPrice => Of(r.vendor, r.item) = {}
              /\ r.current # NoPrice => /\ Active(r.vendor, r.item) = {r.current}
                                        /\ r.current \in Recorded
                                        /\ price[r.current].vendor = r.vendor
                                        /\ price[r.current].item = r.item
                                        /\ price[r.current].to = Forever
                                        /\ price[r.current].from < r.from
                                        /\ price'[r.current].to = r.from - 1
  <1> DEFINE r == req[c]
  <1>1. /\ r \in Requests /\ r.op = "price"
        /\ r.vendor \in vendors /\ r.item \in items
        /\ r.current = NoPrice => Of(r.vendor, r.item) = {}
        /\ r.current # NoPrice => /\ Active(r.vendor, r.item) = {r.current}
                                  /\ price[r.current].from < r.from
    BY AdmittedClosesTheActive DEF PriceCommit
  <1>2. r.vendor \in Vendors /\ r.item \in Items /\ r.from \in Days
    BY <1>1 DEF Requests, Idle
  <1>3. p \notin Recorded
    BY DEF PriceCommit, Recorded
  <1>4. ASSUME r.current # NoPrice
        PROVE  /\ r.current \in Recorded
               /\ price[r.current].vendor = r.vendor /\ price[r.current].item = r.item
               /\ price[r.current].to = Forever
    BY <1>1, <1>4 DEF Active, Of
  <1> DEFINE new == [vendor |-> r.vendor, item |-> r.item, from |-> r.from, to |-> Forever]
             closed == [q \in Prices |->
                          IF q = r.current THEN [price[q] EXCEPT !.to = DayBefore(r.from)]
                          ELSE price[q]]
  <1>5. price' = [closed EXCEPT ![p] = new]
    BY DEF PriceCommit
  <1>6. price'[p] = new /\ \A q \in Prices \ {p} : price'[q] = closed[q]
    BY <1>5
  <1>7. new \in PriceRows
    BY <1>2, DaysAssumption DEF PriceRows, Forever, Days
  <1>8. \A q \in Prices : q # r.current => closed[q] = price[q]
    OBVIOUS
  <1>9. ASSUME r.current # NoPrice
        PROVE  /\ closed[r.current] \in PriceRows
               /\ closed[r.current].vendor = price[r.current].vendor
               /\ closed[r.current].item = price[r.current].item
               /\ closed[r.current].from = price[r.current].from
               /\ closed[r.current].to = r.from - 1
    <2>1. r.current \in Prices /\ price[r.current] \in PriceRows
      BY <1>4, <1>9, RowFacts DEF PriceInv
    <2>2. closed[r.current] = [price[r.current] EXCEPT !.to = DayBefore(r.from)]
      BY <2>1
    <2>3. price[r.current].from < r.from /\ price[r.current].from \in Days
      BY <1>1, <1>9, <2>1 DEF PriceRows
    <2>4. r.from - 1 \in Days
      BY <1>2, <2>3, DaysAssumption DEF Days
    <2> HIDE DEF closed
    <2> QED BY <2>1, <2>2, <2>3, <2>4 DEF PriceRows, DayBefore
  <1>10. price \in [Prices -> PriceRows \cup {Absent, Gone}]
    BY DEF PriceInv, TypeOK
  <1>11. r.current \notin Prices => closed = price
    BY <1>10
  <1>12. r.current \in Prices => r.current # NoPrice
    BY NotRows
  <1>13. closed \in [Prices -> PriceRows \cup {Absent, Gone}]
    <2>1. \A q \in Prices : closed[q] \in PriceRows \cup {Absent, Gone}
      BY <1>8, <1>9, <1>10, <1>12
    <2> QED BY <2>1
  <1>14. \A q \in Prices : closed[q] \in {Absent, Gone} <=> price[q] \in {Absent, Gone}
    <2>1. ASSUME r.current # NoPrice
          PROVE  closed[r.current] \notin {Absent, Gone} /\ price[r.current] \notin {Absent, Gone}
      BY <1>4, <1>9, <2>1, NotRows DEF Recorded
    <2> QED BY <1>8, <1>12, <2>1
  <1> HIDE DEF closed
  <1>15. price' \in [Prices -> PriceRows \cup {Absent, Gone}]
    BY <1>5, <1>7, <1>13
  <1>16. Recorded' = Recorded \cup {p}
    BY <1>6, <1>7, <1>14, NotRows DEF Recorded
  <1>17. p # r.current
    BY <1>3, <1>4, <1>12
  <1>18. \A q \in Recorded : price'[q] = closed[q]
    BY <1>3, <1>6 DEF Recorded
  <1>19. \A q \in Recorded : /\ price'[q].vendor = price[q].vendor
                             /\ price'[q].item = price[q].item
                             /\ price'[q].from = price[q].from
                             /\ q # r.current => price'[q].to = price[q].to
    BY <1>8, <1>9, <1>12, <1>18 DEF Recorded
  <1>20. r.current # NoPrice => price'[r.current].to = r.from - 1
    BY <1>4, <1>9, <1>18
  <1> HIDE DEF r, new
  <1>21. price'[p] = [vendor |-> r.vendor, item |-> r.item, from |-> r.from, to |-> Forever]
    BY <1>6 DEF new
  <1> QED BY <1>1, <1>2, <1>3, <1>4, <1>15, <1>16, <1>17, <1>19, <1>20, <1>21 DEF r

LEMMA CommitKeepsInv ==
    ASSUME PriceInv, NEW c \in Clients, NEW p \in Prices, PriceCommit(c, p)
    PROVE  PriceInv'
  <1> PICK r : r = req[c]
    OBVIOUS
  <1>1. /\ r \in Requests /\ r.vendor \in vendors /\ r.item \in items
        /\ r.vendor \in Vendors /\ r.item \in Items /\ r.from \in Days
        /\ p \notin Recorded /\ p # r.current
        /\ Recorded' = Recorded \cup {p}
        /\ price' \in [Prices -> PriceRows \cup {Absent, Gone}]
        /\ price'[p] = [vendor |-> r.vendor, item |-> r.item, from |-> r.from, to |-> Forever]
    BY CommittedRows
  <1>2. \A q \in Recorded : /\ price'[q].vendor = price[q].vendor
                            /\ price'[q].item = price[q].item
                            /\ price'[q].from = price[q].from
                            /\ q # r.current => price'[q].to = price[q].to
    BY CommittedRows
  <1>3. r.current = NoPrice => Of(r.vendor, r.item) = {}
    BY CommittedRows
  <1>4. r.current # NoPrice => /\ Active(r.vendor, r.item) = {r.current}
                               /\ r.current \in Recorded
                               /\ price[r.current].vendor = r.vendor
                               /\ price[r.current].item = r.item
                               /\ price[r.current].to = Forever
                               /\ price[r.current].from < r.from
                               /\ price'[r.current].to = r.from - 1
    BY CommittedRows
  <1>5. /\ price'[p].vendor = r.vendor /\ price'[p].item = r.item
        /\ price'[p].from = r.from /\ price'[p].to = Forever
    BY <1>1
  <1>6. /\ UNCHANGED <<vendors, items, entry>>
        /\ req' = [req EXCEPT ![c] = Idle]
    BY DEF PriceCommit
  <1>7. /\ req \in [Clients -> Requests] /\ vendors \subseteq Vendors /\ items \subseteq Items
        /\ entry \in [Entries -> EntryRows \cup {Absent}]
    BY DEF PriceInv, TypeOK
  <1>8. LastDay \in Nat /\ r.from \in Int /\ 1 <= r.from /\ r.from <= LastDay /\ Forever = LastDay + 1
    BY <1>1, DaysAssumption DEF Days, Forever
  <1>9. \A q \in Recorded : /\ price[q].from \in Int /\ price[q].to \in Int
                            /\ price[q].from <= LastDay /\ price[q].to <= Forever
    BY RowFacts DEF PriceInv
  <1>10. /\ \A q \in Recorded : price[q].from <= price[q].to
         /\ \A q, s \in Recorded :
              price[q].vendor = price[s].vendor /\ price[q].item = price[s].item /\ q # s
              => price[q].to < price[s].from \/ price[s].to < price[q].from
    BY DEF PriceInv, Intervals, Disjoint
  <1>11. TypeOK'
    <2>1. Entered' = Entered
      BY <1>6 DEF Entered
    <2>2. req' \in [Clients -> Requests]
      BY <1>6, <1>7 DEF Requests
    <2> QED BY <1>1, <1>6, <1>7, <2>1, <2>2 DEF TypeOK
  <1>12. ReadInv'
    <2> SUFFICES ASSUME NEW d \in Clients, req'[d].op = "price", req'[d].vendor \in vendors',
                        req'[d].current # NoPrice
                 PROVE  /\ req'[d].current \in Of(req[d].vendor, req[d].item)'
                        /\ price'[req'[d].current].from < req'[d].from
      BY DEF ReadInv
    <2>1. d # c
      BY <1>6, <1>7 DEF Idle
    <2>2. req'[d] = req[d]
      BY <1>6, <1>7, <2>1
    <2>3. req[d].current \in Of(req[d].vendor, req[d].item) /\ price[req[d].current].from < req[d].from
      BY <1>6, <2>2 DEF PriceInv, ReadInv
    <2>4. req[d].current \in Recorded
      BY <2>3 DEF Of
    <2> QED BY <1>1, <1>2, <2>2, <2>3, <2>4 DEF Of
  <1>13. Intervals'
    <2> SUFFICES ASSUME NEW q \in Recorded' PROVE price'[q].from <= price'[q].to
      BY DEF Intervals
    <2>1. CASE q = p
      BY <1>5, <1>8, <2>1
    <2>2. CASE q \in Recorded /\ q = r.current
      BY <1>2, <1>4, <1>8, <1>9, <2>2, NotRows DEF Recorded
    <2>3. CASE q \in Recorded /\ q # r.current
      BY <1>2, <1>10, <2>3
    <2> QED BY <1>1, <2>1, <2>2, <2>3
  \* A price of the pair that is not closed now ended before the closed one began.
  <1>14. ASSUME NEW q \in Recorded, price[q].vendor = r.vendor, price[q].item = r.item,
                r.current # NoPrice, q # r.current
         PROVE  price[q].to < price[r.current].from
    <2>1. price[q].to < price[r.current].from \/ price[r.current].to < price[q].from
      BY <1>4, <1>10, <1>14
    <2> QED BY <1>4, <1>8, <1>9, <1>14, <2>1
  <1>15. ASSUME NEW q \in Recorded, price[q].vendor = r.vendor, price[q].item = r.item
         PROVE  r.current # NoPrice /\ price'[q].to < r.from
    <2>1. r.current # NoPrice
      BY <1>3, <1>15 DEF Of
    <2>2. CASE q = r.current
      BY <1>4, <1>8, <2>1, <2>2
    <2>3. CASE q # r.current
      BY <1>2, <1>4, <1>8, <1>9, <1>14, <1>15, <2>1, <2>3
    <2> QED BY <2>1, <2>2, <2>3
  <1>16. Disjoint'
    <2> SUFFICES ASSUME NEW q \in Recorded', NEW s \in Recorded', q # s,
                        price'[q].vendor = price'[s].vendor, price'[q].item = price'[s].item
                 PROVE  price'[q].to < price'[s].from \/ price'[s].to < price'[q].from
      BY DEF Disjoint
    <2>1. CASE q = p
      BY <1>1, <1>2, <1>5, <1>15, <2>1
    <2>2. CASE s = p
      BY <1>1, <1>2, <1>5, <1>15, <2>2
    <2>3. CASE q \in Recorded /\ s \in Recorded
      <3>1. price[q].to < price[s].from \/ price[s].to < price[q].from
        BY <1>2, <1>10, <2>3
      <3>2. \A t \in Recorded : price'[t].to <= price[t].to
        BY <1>2, <1>4, <1>8, <1>9, NotRows DEF Recorded
      <3>3. \A t \in Recorded : price'[t].to \in Int
        BY <1>2, <1>4, <1>8, <1>9, NotRows DEF Recorded
      <3> QED BY <1>2, <1>9, <2>3, <3>1, <3>2, <3>3
    <2> QED BY <1>1, <2>1, <2>2, <2>3
  <1>17. Covered'
    <2> SUFFICES ASSUME NEW q \in Recorded', NEW d \in price'[q].from..Forever
                 PROVE  \E s \in Recorded' : /\ price'[s].vendor = price'[q].vendor
                                             /\ price'[s].item = price'[q].item
                                             /\ price'[s].from <= d /\ d <= price'[s].to
      BY DEF Covered, Of, Covers, Forever
    <2>1. CASE price'[q].vendor = r.vendor /\ price'[q].item = r.item /\ r.from <= d
      BY <1>1, <1>5, <1>8, <2>1
    <2>2. CASE ~(price'[q].vendor = r.vendor /\ price'[q].item = r.item /\ r.from <= d)
      <3>1. q \in Recorded
        BY <1>1, <1>5, <1>8, <2>2
      <3>2. PICK s \in Of(price[q].vendor, price[q].item) : Covers(s, d)
        BY <1>2, <3>1 DEF PriceInv, Covered
      <3>3. /\ s \in Recorded /\ price[s].vendor = price[q].vendor /\ price[s].item = price[q].item
            /\ price[s].from <= d /\ d <= price[s].to
        BY <3>2 DEF Of, Covers
      <3>4. CASE s # r.current
        BY <1>1, <1>2, <3>1, <3>3, <3>4
      <3>5. CASE s = r.current
        <4>1. r.current # NoPrice
          BY <3>3, <3>5, NotRows DEF Recorded
        <4>2. d < r.from
          BY <1>2, <1>4, <1>8, <1>9, <2>2, <3>1, <3>3, <3>5, <4>1
        <4>3. d <= price'[s].to
          BY <1>4, <1>8, <1>9, <3>1, <1>2, <3>5, <4>1, <4>2
        <4> QED BY <1>1, <1>2, <3>1, <3>3, <4>3
      <3> QED BY <3>4, <3>5
    <2> QED BY <2>1, <2>2
  <1> QED BY <1>11, <1>12, <1>13, <1>16, <1>17 DEF PriceInv

\* Nothing recorded, nothing deleted.
LEMMA UntouchedKeepsInv ==
    ASSUME PriceInv, TypeOK', UNCHANGED <<vendors, price>>,
           \A c \in Clients : req'[c].op = "price" => req'[c] = req[c]
    PROVE  PriceInv'
  BY PricesSame, PricesAndVendorsSame DEF PriceInv

LEMMA ReadKeepsInv ==
    ASSUME PriceInv, NEW c \in Clients, NEW v \in Vendors, NEW i \in Items, NEW d \in Days,
           PriceRead(c, v, i, d)
    PROVE  PriceInv'
  <1> DEFINE A == Active(v, i)
             row == [op |-> "price", vendor |-> v, item |-> i, from |-> d, current |-> TheOne(A)]
  <1>1. /\ v \in vendors /\ i \in items
        /\ \A p \in A : d > price[p].from
        /\ req' = [req EXCEPT ![c] = row]
        /\ UNCHANGED vendors /\ UNCHANGED items /\ UNCHANGED price /\ UNCHANGED entry
    BY DEF PriceRead
  <1>2. A \subseteq Of(v, i) /\ A \subseteq Prices
    BY DEF Active, Of, Recorded
  <1>3. TheOne(A) # NoPrice => TheOne(A) \in A
    BY TheOneOf DEF TheOne
  <1>4. req \in [Clients -> Requests]
    BY DEF PriceInv, TypeOK
  <1>5. req'[c] = row /\ \A b \in Clients : b # c => req'[b] = req[b]
    BY <1>1, <1>4
  <1> HIDE DEF A
  <1>6. row \in Requests
    BY <1>2, <1>3 DEF Requests
  <1> HIDE DEF row
  <1>7. TypeOK'
    <2>1. Entered' = Entered
      BY <1>1 DEF Entered
    <2> QED BY <1>1, <1>4, <1>6, <2>1 DEF PriceInv, TypeOK
  <1>8. ReadInv'
    <2> SUFFICES ASSUME NEW b \in Clients, req'[b].op = "price", req'[b].vendor \in vendors',
                        req'[b].current # NoPrice
                 PROVE  /\ req'[b].current \in Of(req[b].vendor, req[b].item)'
                        /\ price'[req'[b].current].from < req'[b].from
      BY DEF ReadInv
    <2>1. CASE b = c
      <3>1. /\ req'[b].vendor = v /\ req'[b].item = i /\ req'[b].from = d
            /\ req'[b].current = TheOne(A)
        BY <1>5, <2>1 DEF row
      <3>2. TheOne(A) \in Of(v, i) /\ d > price[TheOne(A)].from
        BY <1>1, <1>2, <1>3, <3>1
      <3>3. TheOne(A) \in Recorded
        BY <3>2 DEF Of
      <3>4. price[TheOne(A)].from \in Int /\ d \in Int
        BY <3>3, RowFacts DEF PriceInv, Days
      <3>5. price[TheOne(A)].from < d
        BY <3>2, <3>4
      <3> QED BY <1>1, <3>1, <3>2, <3>3, <3>5 DEF Of, Recorded
    <2>2. CASE b # c
      <3>1. req'[b] = req[b]
        BY <1>5, <2>2
      <3>2. /\ req[b].current \in Of(req[b].vendor, req[b].item)
            /\ price[req[b].current].from < req[b].from
        BY <1>1, <3>1 DEF PriceInv, ReadInv
      <3> QED BY <1>1, <3>1, <3>2 DEF Of, Recorded
    <2> QED BY <2>1, <2>2
  <1> QED BY <1>1, <1>7, <1>8, PricesSame DEF PriceInv

\* The script records a price for a pair that has none.
LEMMA OpeningKeepsInv ==
    ASSUME PriceInv, NEW p \in Prices, NEW v \in Vendors, NEW i \in Items, OpeningPrice(p, v, i)
    PROVE  PriceInv'
  <1> PICK new : new = [vendor |-> v, item |-> i, from |-> 1, to |-> Forever]
    OBVIOUS
  <1>1. /\ price[p] = Absent /\ Of(v, i) = {}
        /\ price' = [price EXCEPT ![p] = new]
        /\ vendors' = vendors /\ items' = items /\ entry' = entry /\ req' = req
    BY DEF OpeningPrice
  <1>2. price \in [Prices -> PriceRows \cup {Absent, Gone}]
    BY DEF PriceInv, TypeOK
  <1>3. new \in PriceRows
    BY DaysAssumption DEF PriceRows, Days, Forever
  <1>4. price'[p] = new /\ \A q \in Prices : q # p => price'[q] = price[q]
    BY <1>1, <1>2
  <1>5. p \notin Recorded /\ Recorded' = Recorded \cup {p}
    BY <1>1, <1>3, <1>4, NotRows DEF Recorded
  <1>6. \A q \in Recorded : price'[q] = price[q] /\ ~(price[q].vendor = v /\ price[q].item = i)
    BY <1>1, <1>4, <1>5 DEF Recorded, Of
  <1>7. /\ price'[p].vendor = v /\ price'[p].item = i
        /\ price'[p].from = 1 /\ price'[p].to = Forever
    BY <1>4
  <1>8. TypeOK'
    <2>1. Entered' = Entered
      BY <1>1 DEF Entered
    <2>2. price' \in [Prices -> PriceRows \cup {Absent, Gone}]
      BY <1>1, <1>2, <1>3
    <2> QED BY <1>1, <2>1, <2>2 DEF PriceInv, TypeOK
  <1>9. ReadInv'
    <2> SUFFICES ASSUME NEW b \in Clients, req[b].op = "price", req[b].vendor \in vendors,
                        req[b].current # NoPrice
                 PROVE  /\ req[b].current \in Of(req[b].vendor, req[b].item)'
                        /\ price'[req[b].current].from < req[b].from
      BY <1>1 DEF ReadInv
    <2>1. /\ req[b].current \in Of(req[b].vendor, req[b].item)
          /\ price[req[b].current].from < req[b].from
      BY DEF PriceInv, ReadInv
    <2> QED BY <1>1, <1>5, <1>6, <2>1 DEF Of
  <1>10. Intervals'
    BY <1>5, <1>6, <1>7, DaysAssumption DEF PriceInv, Intervals, Forever
  <1>11. Disjoint'
    <2> SUFFICES ASSUME NEW q \in Recorded', NEW s \in Recorded', q # s,
                        price'[q].vendor = price'[s].vendor, price'[q].item = price'[s].item
                 PROVE  price'[q].to < price'[s].from \/ price'[s].to < price'[q].from
      BY DEF Disjoint
    <2>1. q \in Recorded /\ s \in Recorded
      BY <1>5, <1>6, <1>7
    <2> QED BY <1>6, <2>1 DEF PriceInv, Disjoint
  <1>12. Covered'
    <2> SUFFICES ASSUME NEW q \in Recorded', NEW d \in price'[q].from..Forever
                 PROVE  \E s \in Recorded' : /\ price'[s].vendor = price'[q].vendor
                                             /\ price'[s].item = price'[q].item
                                             /\ price'[s].from <= d /\ d <= price'[s].to
      BY DEF Covered, Of, Covers, Forever
    <2>1. CASE q = p
      BY <1>5, <1>7, <2>1, DaysAssumption DEF Forever
    <2>2. CASE q \in Recorded
      <3>1. PICK s \in Of(price[q].vendor, price[q].item) : Covers(s, d)
        BY <1>6, <2>2 DEF PriceInv, Covered
      <3> QED BY <1>5, <1>6, <2>2, <3>1 DEF Of, Covers
    <2> QED BY <1>5, <2>1, <2>2
  <1> QED BY <1>8, <1>9, <1>10, <1>11, <1>12 DEF PriceInv

\* A vendor goes with all its prices.
LEMMA DeleteVendorKeepsInv ==
    ASSUME PriceInv, NEW v \in Vendors, DeleteVendor(v)
    PROVE  PriceInv'
  <1>1. /\ vendors' = vendors \ {v}
        /\ price' = [p \in Prices |-> IF p \in Recorded /\ price[p].vendor = v THEN Gone ELSE price[p]]
        /\ items' = items /\ entry' = entry /\ req' = req
    BY DEF DeleteVendor
  <1>2. \A p \in Recorded' : p \in Recorded /\ price[p].vendor # v /\ price'[p] = price[p]
    BY <1>1 DEF Recorded
  <1>3. \A p \in Recorded : price[p].vendor # v => p \in Recorded'
    BY <1>1 DEF Recorded
  <1>4. TypeOK'
    <2>1. Entered' = Entered
      BY <1>1 DEF Entered
    <2>2. price' \in [Prices -> PriceRows \cup {Absent, Gone}]
      BY <1>1 DEF PriceInv, TypeOK
    <2> QED BY <1>1, <2>1, <2>2 DEF PriceInv, TypeOK
  <1>5. ReadInv'
    <2> SUFFICES ASSUME NEW b \in Clients, req[b].op = "price", req[b].vendor \in vendors',
                        req[b].current # NoPrice
                 PROVE  /\ req[b].current \in Of(req[b].vendor, req[b].item)'
                        /\ price'[req[b].current].from < req[b].from
      BY <1>1 DEF ReadInv
    <2>1. /\ req[b].current \in Of(req[b].vendor, req[b].item)
          /\ price[req[b].current].from < req[b].from
      BY <1>1 DEF PriceInv, ReadInv
    <2>2. req[b].current \in Recorded'
      BY <1>1, <1>3, <2>1 DEF Of
    <2> QED BY <1>1, <1>2, <2>1, <2>2 DEF Of
  <1>6. Intervals' /\ Disjoint'
    BY <1>2 DEF PriceInv, Intervals, Disjoint
  <1>7. Covered'
    <2> SUFFICES ASSUME NEW q \in Recorded', NEW d \in price'[q].from..Forever
                 PROVE  \E s \in Of(price[q].vendor, price[q].item)' : Covers(s, d)'
      BY DEF Covered, Forever
    <2>1. PICK s \in Of(price[q].vendor, price[q].item) : Covers(s, d)
      BY <1>2 DEF PriceInv, Covered
    <2> QED BY <1>2, <1>3, <2>1 DEF Of, Covers
  <1> QED BY <1>4, <1>5, <1>6, <1>7 DEF PriceInv

-----------------------------------------------------------------------------
(* Theorems                                                                 *)

LEMMA InitInv == Init => PriceInv
  <1> SUFFICES ASSUME Init PROVE PriceInv
    OBVIOUS
  <1>1. Recorded = {} /\ Entered = {}
    BY DEF Init, Recorded, Entered
  <1>2. \A c \in Clients : req[c].op # "price"
    BY DEF Init, Idle
  <1>3. TypeOK
    BY <1>1 DEF Init, TypeOK, Requests
  <1> QED BY <1>1, <1>2, <1>3 DEF PriceInv, ReadInv, Intervals, Disjoint, Covered

LEMMA StepKeepsInv == PriceInv /\ [Next]_vars => PriceInv'
  <1> SUFFICES ASSUME PriceInv, [Next]_vars PROVE PriceInv'
    OBVIOUS
  <1>1. req \in [Clients -> Requests]
    BY DEF PriceInv, TypeOK
  <1>2. Idle \in Requests /\ Idle.op # "price"
    BY DEF Requests, Idle
  <1>3. CASE ResetToDefaults
    <2>1. /\ items' = {i \in items : i \in Defaults \/ HasHistory(i)}
          /\ vendors' = vendors /\ price' = price /\ entry' = entry /\ req' = req
      BY <1>3 DEF ResetToDefaults
    <2>2. Entered' = Entered
      BY <2>1 DEF Entered
    <2>3. TypeOK'
      BY <2>1, <2>2 DEF PriceInv, TypeOK
    <2> QED BY <2>1, <2>3, UntouchedKeepsInv
  <1>4. ASSUME NEW v \in Vendors, DeleteVendor(v) PROVE PriceInv'
    BY <1>4, DeleteVendorKeepsInv
  <1>5. ASSUME NEW i \in Items, DeleteItem(i) PROVE PriceInv'
    <2>1. /\ items' = items \ {i}
          /\ vendors' = vendors /\ price' = price /\ entry' = entry /\ req' = req
      BY <1>5 DEF DeleteItem
    <2>2. Entered' = Entered
      BY <2>1 DEF Entered
    <2>3. TypeOK'
      BY <2>1, <2>2 DEF PriceInv, TypeOK
    <2> QED BY <2>1, <2>3, UntouchedKeepsInv
  <1>6. ASSUME NEW p \in Prices, NEW v \in Vendors, NEW i \in Items, OpeningPrice(p, v, i)
        PROVE  PriceInv'
    BY <1>6, OpeningKeepsInv
  <1>7. ASSUME NEW c \in Clients, PriceAborts(c) \/ BuyAborts(c) PROVE PriceInv'
    <2>1. /\ vendors' = vendors /\ items' = items /\ price' = price /\ entry' = entry
          /\ req' = [req EXCEPT ![c] = Idle]
      BY <1>7 DEF PriceAborts, BuyAborts
    <2>2. TypeOK'
      <3>1. Entered' = Entered
        BY <2>1 DEF Entered
      <3> QED BY <1>1, <1>2, <2>1, <3>1 DEF PriceInv, TypeOK
    <2>3. \A b \in Clients : req'[b].op = "price" => req'[b] = req[b]
      BY <1>1, <1>2, <2>1
    <2> QED BY <2>1, <2>2, <2>3, UntouchedKeepsInv
  <1>8. ASSUME NEW c \in Clients, NEW p \in Prices, PriceCommit(c, p) PROVE PriceInv'
    BY <1>8, CommitKeepsInv
  <1>9. ASSUME NEW c \in Clients, NEW e \in Entries, NEW t \in Times, BuyCommit(c, e, t) PROVE PriceInv'
    <2> PICK r : r = req[c]
      OBVIOUS
    <2> PICK row : row = [vendor |-> r.vendor, item |-> r.item, date |-> r.date,
                          paid |-> IF r.typed THEN PaidByHand ELSE Rate[r.price],
                          typed |-> r.typed, price |-> r.price, looked |-> r.looked,
                          at |-> t]
      OBVIOUS
    <2>1. /\ r.op = "buy" /\ e \notin Entered /\ Insertable(r)
          /\ entry' = [entry EXCEPT ![e] = row]
          /\ req' = [req EXCEPT ![c] = Idle]
          /\ vendors' = vendors /\ items' = items /\ price' = price
      BY <1>9 DEF BuyCommit
    <2>2. req' \in [Clients -> Requests] /\ \A b \in Clients : req'[b].op = "price" => req'[b] = req[b]
      BY <1>1, <1>2, <2>1
    <2>3. /\ r.vendor \in Vendors /\ r.item \in Items /\ r.date \in Days /\ r.typed \in BOOLEAN
          /\ r.price \in Prices \cup {NoPrice} /\ r.looked \in SUBSET Prices
          /\ r.typed \/ r.price # NoPrice
      BY <1>1, <2>1 DEF Requests, Idle
    <2>4. row \in EntryRows
      BY <2>3, RatesAssumption DEF EntryRows
    <2>5. TypeOK'
      BY <2>1, <2>2, <2>4 DEF PriceInv, TypeOK
    <2> QED BY <2>1, <2>2, <2>5, UntouchedKeepsInv
  <1>10. ASSUME NEW c \in Clients, NEW v \in Vendors, NEW i \in Items, NEW d \in Days,
                PriceRead(c, v, i, d)
         PROVE  PriceInv'
    BY <1>10, ReadKeepsInv
  <1>11. ASSUME NEW c \in Clients, NEW v \in Vendors, NEW i \in Items, NEW d \in Days,
                NEW typed \in BOOLEAN, BuyRead(c, v, i, d, typed)
         PROVE  PriceInv'
    <2> PICK row : row = [op |-> "buy", vendor |-> v, item |-> i, date |-> d, typed |-> typed,
                          price |-> Effective(v, i, d), looked |-> Of(v, i)]
      OBVIOUS
    <2>1. /\ typed \/ Effective(v, i, d) # NoPrice
          /\ req' = [req EXCEPT ![c] = row]
          /\ vendors' = vendors /\ items' = items /\ price' = price /\ entry' = entry
      BY <1>11 DEF BuyRead
    <2>2. Effective(v, i, d) \in Prices \cup {NoPrice}
      BY TheOneOf DEF Effective, Of, Recorded, TheOne
    <2>3. Of(v, i) \in SUBSET Prices
      BY DEF Of, Recorded
    <2>4. row \in Requests /\ row.op # "price"
      BY <2>1, <2>2, <2>3 DEF Requests
    <2>5. TypeOK'
      BY <1>1, <2>1, <2>4 DEF PriceInv, TypeOK
    <2>6. \A b \in Clients : req'[b].op = "price" => req'[b] = req[b]
      BY <1>1, <2>1, <2>4
    <2> QED BY <2>1, <2>5, <2>6, UntouchedKeepsInv
  <1>12. CASE UNCHANGED vars
    <2>1. vendors' = vendors /\ items' = items /\ price' = price /\ entry' = entry /\ req' = req
      BY <1>12 DEF vars
    <2>2. TypeOK'
      BY <2>1 DEF PriceInv, TypeOK
    <2> QED BY <2>1, <2>2, UntouchedKeepsInv
  <1> QED BY <1>3, <1>4, <1>5, <1>6, <1>7, <1>8, <1>9, <1>10, <1>11, <1>12 DEF Next

\* The covering price of a day is there and is one.
LEMMA InvOnePrice == PriceInv => OnePriceADay
  <1> SUFFICES ASSUME PriceInv, NEW v \in Vendors, NEW i \in Items,
                      NEW p \in Of(v, i), NEW d \in price[p].from..Forever
               PROVE  Cardinality({q \in Of(v, i) : Covers(q, d)}) = 1
    BY DEF OnePriceADay
  <1>1. p \in Recorded /\ price[p].vendor = v /\ price[p].item = i
    BY DEF Of
  <1>2. PICK q \in Of(v, i) : Covers(q, d)
    BY <1>1 DEF PriceInv, Covered
  <1>3. ASSUME NEW s \in Of(v, i), Covers(s, d) PROVE s = q
    <2>1. d \in Int
      BY <1>1, RowFacts DEF PriceInv
    <2>2. /\ q \in Recorded /\ s \in Recorded
          /\ price[q].vendor = price[s].vendor /\ price[q].item = price[s].item
          /\ price[q].from <= d /\ d <= price[q].to /\ price[s].from <= d /\ d <= price[s].to
      BY <1>2, <1>3 DEF Of, Covers
    <2>3. /\ price[q].from \in Int /\ price[q].to \in Int
          /\ price[s].from \in Int /\ price[s].to \in Int
      BY <2>2, RowFacts DEF PriceInv
    <2> QED BY <2>1, <2>2, <2>3 DEF PriceInv, Disjoint
  <1>4. {s \in Of(v, i) : Covers(s, d)} = {q}
    BY <1>2, <1>3
  <1> QED BY <1>4, FS_Singleton

-----------------------------------------------------------------------------
(* Entries                                                                  *)

\* The prices that a row looked up and that count on its date.
KnownPrices(r) == {p \in r.looked \cap Recorded : /\ price[p].vendor = r.vendor
                                                  /\ price[p].item = r.item
                                                  /\ price[p].from <= r.date}

\* The price of a row is the last of them to begin.
Priced(r) ==
    /\ \A p \in r.looked : p \in Prices /\ price[p] # Absent
    /\ r.price = NoPrice => KnownPrices(r) = {}
    /\ r.price # NoPrice => /\ r.price \in KnownPrices(r)
                            /\ \A p \in KnownPrices(r) : price[p].from <= price[r.price].from

\* A request keeps the price it found as long as its vendor is there, an entry for good, as its
\* vendor and its material are.
EntryInv ==
    /\ \A c \in Clients : (req[c].op = "buy" /\ req[c].vendor \in vendors) => Priced(req[c])
    /\ \A e \in Entered : /\ entry[e].vendor \in vendors /\ entry[e].item \in items
                          /\ Priced(entry[e])
                          /\ (entry[e].price # NoPrice /\ ~entry[e].typed)
                                => entry[e].paid = Rate[entry[e].price]

FullInv == PriceInv /\ EntryInv

LEMMA EffectiveIsPriced ==
    ASSUME PriceInv, NEW v \in Vendors, NEW i \in Items, NEW d \in Days, NEW r,
           r.vendor = v, r.item = i, r.date = d, r.price = Effective(v, i, d), r.looked = Of(v, i)
    PROVE  Priced(r)
  <1> DEFINE on == {p \in Of(v, i) : Covers(p, d)}
             best == {p \in on : \A q \in on : price[q].from <= price[p].from}
  <1>1. Effective(v, i, d) = TheOne(best)
    BY DEF Effective
  <1>2. d \in Int /\ d <= Forever
    BY DaysAssumption DEF Days, Forever
  <1>3. \A p \in Of(v, i) : /\ p \in Recorded /\ price[p].vendor = v /\ price[p].item = i
                            /\ price[p].from \in Int /\ price[p].to \in Int
                            /\ price[p].from <= price[p].to
    BY RowFacts DEF PriceInv, Intervals, Of
  <1>4. KnownPrices(r) = {p \in Of(v, i) : price[p].from <= d}
    BY <1>3 DEF KnownPrices
  <1>5. ASSUME NEW p \in KnownPrices(r) PROVE on # {}
    <2>1. p \in Recorded /\ price[p].vendor = v /\ price[p].item = i /\ d \in price[p].from..Forever
      BY <1>2, <1>3, <1>4, <1>5, DaysAssumption DEF Forever
    <2> QED BY <2>1 DEF PriceInv, Covered
  \* Of the covering prices and the known ones, none began after a covering one.
  <1>6. ASSUME NEW p \in on, NEW q \in KnownPrices(r) PROVE price[q].from <= price[p].from
    <2>1. /\ p \in Recorded /\ q \in Recorded
          /\ price[p].vendor = price[q].vendor /\ price[p].item = price[q].item
          /\ price[p].from <= d /\ d <= price[p].to /\ price[q].from <= d
          /\ price[q].from <= price[q].to
      BY <1>3, <1>4, <1>6 DEF Covers
    <2>2. p = q \/ price[p].to < price[q].from \/ price[q].to < price[p].from
      BY <2>1 DEF PriceInv, Disjoint
    <2>3. /\ price[p].from \in Int /\ price[p].to \in Int
          /\ price[q].from \in Int /\ price[q].to \in Int
      BY <1>3, <1>4, <1>6
    <2> QED BY <1>2, <2>1, <2>2, <2>3
  <1>7. on \subseteq KnownPrices(r)
    BY <1>4 DEF Covers
  <1>8. best = on
    BY <1>6, <1>7
  <1>9. on = {} => Effective(v, i, d) = NoPrice
    BY <1>1, <1>8 DEF TheOne
  <1>10. on # {} => Effective(v, i, d) \in on
    BY <1>1, <1>8, TheOneOf
  <1>11. \A p \in on : p # NoPrice
    BY NotRows DEF Of, Recorded
  <1>12. \A p \in Of(v, i) : p \in Prices /\ price[p] # Absent
    BY DEF Of, Recorded
  <1> HIDE DEF on, best
  <1> QED BY <1>5, <1>6, <1>7, <1>9, <1>10, <1>11, <1>12 DEF Priced

\* What a step may do to the prices: ids are not used again, rows keep their vendor, material and
\* first day, and none is deleted but with its vendor.
PricesStay ==
    /\ \A p \in Prices : price[p] # Absent => price'[p] # Absent
    /\ \A p \in Recorded' : price[p] # Absent => p \in Recorded
    /\ \A p \in Recorded :
         p \in Recorded' => /\ price'[p].vendor = price[p].vendor
                            /\ price'[p].item = price[p].item
                            /\ price'[p].from = price[p].from
    /\ \A p \in Recorded : price[p].vendor \in vendors' => p \in Recorded'

LEMMA PricedStays ==
    ASSUME PricesStay, NEW r, Priced(r), r.vendor \in vendors'
    PROVE  Priced(r)'
  <1>1. \A p \in r.looked : p \in Prices /\ price[p] # Absent /\ price'[p] # Absent
    BY DEF Priced, PricesStay
  <1>2. \A p \in r.looked \cap Recorded' :
          /\ p \in Recorded
          /\ price'[p].vendor = price[p].vendor /\ price'[p].item = price[p].item
          /\ price'[p].from = price[p].from
    BY <1>1 DEF PricesStay
  <1>3. CASE r.price = NoPrice
    BY <1>1, <1>2, <1>3 DEF Priced, KnownPrices
  <1>4. CASE r.price # NoPrice
    <2>1. /\ r.price \in r.looked /\ r.price \in Recorded
          /\ price[r.price].vendor = r.vendor /\ price[r.price].item = r.item
          /\ price[r.price].from <= r.date
      BY <1>4 DEF Priced, KnownPrices
    <2>2. \A p \in r.looked \cap Recorded :
            (price[p].vendor = r.vendor /\ price[p].item = r.item /\ price[p].from <= r.date)
               => price[p].from <= price[r.price].from
      BY <1>4 DEF Priced, KnownPrices
    <2>3. r.price \in Recorded'
      BY <2>1 DEF PricesStay
    <2> QED BY <1>1, <1>2, <1>4, <2>1, <2>2, <2>3 DEF Priced, KnownPrices
  <1> QED BY <1>3, <1>4

\* A step that enters nothing, and after which every request to buy is an old one or `row`.
LEMMA EntriesStay ==
    ASSUME FullInv, PricesStay, entry' = entry, vendors' \subseteq vendors,
           \A e \in Entered : entry[e].vendor \in vendors' /\ entry[e].item \in items',
           NEW row, Priced(row)',
           \A c \in Clients : req'[c].op = "buy" => req'[c] = req[c] \/ req'[c] = row
    PROVE  EntryInv'
  <1>1. ASSUME NEW c \in Clients, req'[c].op = "buy", req'[c].vendor \in vendors'
        PROVE  Priced(req[c])'
    <2> PICK r : r = req'[c]
      OBVIOUS
    <2>1. CASE r = row
      BY <2>1 DEF Priced, KnownPrices
    <2>2. CASE r = req[c]
      <3>1. Priced(r)
        BY <1>1, <2>2 DEF FullInv, EntryInv
      <3>2. Priced(r)'
        BY <1>1, <3>1, PricedStays
      <3> QED BY <3>2 DEF Priced, KnownPrices
    <2> QED BY <1>1, <2>1, <2>2
  <1>2. Entered' = Entered
    BY DEF Entered
  <1>3. ASSUME NEW e \in Entered
        PROVE  /\ Priced(entry[e])'
               /\ (entry'[e].price # NoPrice /\ ~entry'[e].typed) => entry'[e].paid = Rate[entry'[e].price]
    <2> PICK r : r = entry[e]
      OBVIOUS
    <2>1. Priced(r) /\ r.vendor \in vendors'
      BY DEF FullInv, EntryInv
    <2>2. Priced(r)'
      BY <2>1, PricedStays
    <2>3. Priced(entry[e])'
      BY <2>2 DEF Priced, KnownPrices
    <2> QED BY <2>3 DEF FullInv, EntryInv
  <1> QED BY <1>1, <1>2, <1>3 DEF EntryInv

LEMMA InitEntries == Init => EntryInv
  BY DEF Init, EntryInv, Entered, Idle

\* Steps that leave the prices.
LEMMA SamePricesStay == UNCHANGED <<vendors, price>> => PricesStay
  BY DEF PricesStay, Recorded

\* A step without a new request to buy.
LEMMA NothingBought ==
    ASSUME FullInv, PricesStay, entry' = entry, vendors' \subseteq vendors,
           \A e \in Entered : entry[e].vendor \in vendors' /\ entry[e].item \in items',
           \A c \in Clients : req'[c].op = "buy" => req'[c] = req[c]
    PROVE  EntryInv'
  <1> PICK row : row = [price |-> NoPrice, looked |-> {}]
    OBVIOUS
  <1>1. row.price = NoPrice /\ row.looked = {}
    OBVIOUS
  <1>2. Priced(row)'
    BY <1>1 DEF Priced, KnownPrices
  <1> QED BY <1>2, EntriesStay

LEMMA StepKeepsEntries == FullInv /\ [Next]_vars => EntryInv'
  <1> SUFFICES ASSUME FullInv, [Next]_vars PROVE EntryInv'
    OBVIOUS
  <1>1. /\ req \in [Clients -> Requests] /\ entry \in [Entries -> EntryRows \cup {Absent}]
        /\ PriceInv
    BY DEF FullInv, PriceInv, TypeOK
  <1>2. Idle \in Requests /\ Idle.op # "buy" /\ Idle.op # "price"
    BY DEF Requests, Idle
  <1>3. \A e \in Entered : entry[e].vendor \in vendors /\ entry[e].item \in items
    BY DEF FullInv, EntryInv
  <1>4. CASE ResetToDefaults
    <2>1. /\ items' = {i \in items : i \in Defaults \/ HasHistory(i)}
          /\ vendors' = vendors /\ price' = price /\ entry' = entry /\ req' = req
      BY <1>4 DEF ResetToDefaults
    <2>2. \A e \in Entered : entry[e].item \in items'
      BY <1>3, <2>1 DEF HasHistory
    <2> QED BY <1>3, <2>1, <2>2, SamePricesStay, NothingBought
  <1>5. ASSUME NEW v \in Vendors, DeleteVendor(v) PROVE EntryInv'
    <2>1. /\ vendors' = vendors \ {v} /\ \A e \in Entered : entry[e].vendor # v
          /\ price' = [p \in Prices |-> IF p \in Recorded /\ price[p].vendor = v THEN Gone ELSE price[p]]
          /\ items' = items /\ entry' = entry /\ req' = req
      BY <1>5 DEF DeleteVendor
    <2>2. Gone # Absent
      BY DEF Gone, Absent
    <2>3. PricesStay
      BY <2>1, <2>2 DEF PricesStay, Recorded
    <2> QED BY <1>3, <2>1, <2>3, NothingBought
  <1>6. ASSUME NEW i \in Items, DeleteItem(i) PROVE EntryInv'
    <2>1. /\ items' = items \ {i} /\ ~HasHistory(i)
          /\ vendors' = vendors /\ price' = price /\ entry' = entry /\ req' = req
      BY <1>6 DEF DeleteItem
    <2>2. \A e \in Entered : entry[e].item \in items'
      BY <1>3, <2>1 DEF HasHistory
    <2> QED BY <1>3, <2>1, <2>2, SamePricesStay, NothingBought
  <1>7. ASSUME NEW p \in Prices, NEW v \in Vendors, NEW i \in Items, OpeningPrice(p, v, i)
        PROVE  EntryInv'
    <2> PICK new : new = [vendor |-> v, item |-> i, from |-> 1, to |-> Forever]
      OBVIOUS
    <2>1. /\ price[p] = Absent /\ price' = [price EXCEPT ![p] = new]
          /\ vendors' = vendors /\ items' = items /\ entry' = entry /\ req' = req
      BY <1>7 DEF OpeningPrice
    <2>2. price \in [Prices -> PriceRows \cup {Absent, Gone}]
      BY <1>1 DEF PriceInv, TypeOK
    <2>3. PricesStay
      BY <2>1, <2>2 DEF PricesStay, Recorded
    <2> QED BY <1>3, <2>1, <2>3, NothingBought
  <1>8. ASSUME NEW c \in Clients, PriceAborts(c) \/ BuyAborts(c) PROVE EntryInv'
    <2>1. /\ vendors' = vendors /\ items' = items /\ price' = price /\ entry' = entry
          /\ req' = [req EXCEPT ![c] = Idle]
      BY <1>8 DEF PriceAborts, BuyAborts
    <2>2. \A b \in Clients : req'[b].op = "buy" => req'[b] = req[b]
      BY <1>1, <1>2, <2>1
    <2> QED BY <1>3, <2>1, <2>2, SamePricesStay, NothingBought
  <1>9. ASSUME NEW c \in Clients, NEW p \in Prices, PriceCommit(c, p) PROVE EntryInv'
    <2>1. /\ p \notin Recorded /\ Recorded' = Recorded \cup {p}
          /\ price[p] = Absent
          /\ price' \in [Prices -> PriceRows \cup {Absent, Gone}]
          /\ vendors' = vendors /\ items' = items /\ entry' = entry
          /\ req' = [req EXCEPT ![c] = Idle]
      BY <1>1, <1>9, CommittedRows DEF PriceCommit
    <2>2. \A q \in Recorded : /\ price'[q].vendor = price[q].vendor
                              /\ price'[q].item = price[q].item
                              /\ price'[q].from = price[q].from
      BY <1>1, <1>9, CommittedRows
    <2>3. \A q \in Prices : price[q] # Absent => price'[q] # Absent
      <3> SUFFICES ASSUME NEW q \in Prices, price[q] # Absent PROVE price'[q] # Absent
        OBVIOUS
      <3>1. CASE q \in Recorded
        BY <2>1, <3>1 DEF Recorded
      <3>2. CASE q \notin Recorded
        <4> PICK r : r = req[c]
          OBVIOUS
        <4>1. price[q] = Gone /\ q # p
          BY <2>1, <3>2 DEF Recorded
        <4>2. q # r.current
          <5>1. req[c].current # NoPrice => req[c].current \in Recorded
            BY <1>1, <1>9, CommittedRows
          <5> QED BY <3>2, <5>1, NotRows
        <4>3. price'[q] = price[q]
          BY <1>9, <4>1, <4>2 DEF PriceCommit
        <4> QED BY <4>3
      <3> QED BY <3>1, <3>2
    <2>4. PricesStay
      BY <2>1, <2>2, <2>3 DEF PricesStay
    <2>5. \A b \in Clients : req'[b].op = "buy" => req'[b] = req[b]
      BY <1>1, <1>2, <2>1
    <2> QED BY <1>3, <2>1, <2>4, <2>5, NothingBought
  <1>10. ASSUME NEW c \in Clients, NEW v \in Vendors, NEW i \in Items, NEW d \in Days,
                PriceRead(c, v, i, d)
         PROVE  EntryInv'
    <2>1. /\ vendors' = vendors /\ items' = items /\ price' = price /\ entry' = entry
          /\ req' = [req EXCEPT ![c] = [op |-> "price", vendor |-> v, item |-> i, from |-> d,
                                        current |-> TheOne(Active(v, i))]]
      BY <1>10 DEF PriceRead
    <2>2. \A b \in Clients : req'[b].op = "buy" => req'[b] = req[b]
      BY <1>1, <2>1
    <2> QED BY <1>3, <2>1, <2>2, SamePricesStay, NothingBought
  <1>11. ASSUME NEW c \in Clients, NEW v \in Vendors, NEW i \in Items, NEW d \in Days,
                NEW typed \in BOOLEAN, BuyRead(c, v, i, d, typed)
         PROVE  EntryInv'
    <2> PICK row : row = [op |-> "buy", vendor |-> v, item |-> i, date |-> d, typed |-> typed,
                          price |-> Effective(v, i, d), looked |-> Of(v, i)]
      OBVIOUS
    <2>1. /\ req' = [req EXCEPT ![c] = row]
          /\ vendors' = vendors /\ items' = items /\ price' = price /\ entry' = entry
      BY <1>11 DEF BuyRead
    <2>2. Priced(row)
      BY <1>1, EffectiveIsPriced
    <2>3. Priced(row)'
      BY <2>1, <2>2 DEF Priced, KnownPrices, Recorded
    <2>4. \A b \in Clients : req'[b].op = "buy" => req'[b] = req[b] \/ req'[b] = row
      BY <1>1, <2>1
    <2> QED BY <1>3, <2>1, <2>3, <2>4, SamePricesStay, EntriesStay
  <1>12. ASSUME NEW c \in Clients, NEW e \in Entries, NEW t \in Times, BuyCommit(c, e, t) PROVE EntryInv'
    <2> PICK r : r = req[c]
      OBVIOUS
    <2> PICK row : row = [vendor |-> r.vendor, item |-> r.item, date |-> r.date,
                          paid |-> IF r.typed THEN PaidByHand ELSE Rate[r.price],
                          typed |-> r.typed, price |-> r.price, looked |-> r.looked,
                          at |-> t]
      OBVIOUS
    <2>1. /\ r.op = "buy" /\ e \notin Entered /\ Insertable(r)
          /\ entry' = [entry EXCEPT ![e] = row]
          /\ req' = [req EXCEPT ![c] = Idle]
          /\ vendors' = vendors /\ items' = items /\ price' = price
      BY <1>12 DEF BuyCommit
    <2>2. Priced(r) /\ r.vendor \in vendors /\ r.item \in items
      BY <2>1 DEF FullInv, EntryInv, Insertable
    <2>3. Priced(row)
      BY <2>2 DEF Priced, KnownPrices
    <2>4. (row.price # NoPrice /\ ~row.typed) => row.paid = Rate[row.price]
      OBVIOUS
    <2>5. row.vendor \in vendors /\ row.item \in items
      BY <2>2
    <2>6. ASSUME NEW b \in Clients, req'[b].op = "buy", req'[b].vendor \in vendors'
          PROVE  Priced(req[b])'
      <3>1. req'[b] = req[b]
        BY <1>1, <1>2, <2>1, <2>6
      <3>2. Priced(req[b])
        BY <2>1, <2>6, <3>1 DEF FullInv, EntryInv
      <3> QED BY <2>1, <3>1, <3>2 DEF Priced, KnownPrices, Recorded
    <2>7. ASSUME NEW f \in Entered'
          PROVE  /\ entry'[f].vendor \in vendors' /\ entry'[f].item \in items'
                 /\ Priced(entry[f])'
                 /\ (entry'[f].price # NoPrice /\ ~entry'[f].typed) => entry'[f].paid = Rate[entry'[f].price]
      <3>1. CASE f = e
        <4>1. entry'[f] = row
          BY <1>1, <2>1, <3>1
        <4> QED BY <2>1, <2>3, <2>4, <2>5, <4>1 DEF Priced, KnownPrices, Recorded
      <3>2. CASE f # e
        <4>1. entry'[f] = entry[f] /\ f \in Entered
          BY <1>1, <2>1, <2>7, <3>2 DEF Entered
        <4>2. /\ Priced(entry[f])
              /\ (entry[f].price # NoPrice /\ ~entry[f].typed) => entry[f].paid = Rate[entry[f].price]
          BY <4>1 DEF FullInv, EntryInv
        <4> QED BY <1>3, <2>1, <4>1, <4>2 DEF Priced, KnownPrices, Recorded
      <3> QED BY <3>1, <3>2
    <2> QED BY <2>6, <2>7 DEF EntryInv
  <1>13. CASE UNCHANGED vars
    <2>1. vendors' = vendors /\ items' = items /\ price' = price /\ entry' = entry /\ req' = req
      BY <1>13 DEF vars
    <2> QED BY <1>3, <2>1, SamePricesStay, NothingBought
  <1> QED BY <1>4, <1>5, <1>6, <1>7, <1>8, <1>9, <1>10, <1>11, <1>12, <1>13 DEF Next

LEMMA InvEntries == FullInv => EntriesKeepTheirPrice
  <1> SUFFICES ASSUME FullInv, NEW e \in Entered
               PROVE  LET row == entry[e]
                          known == {p \in row.looked \cap Recorded : price[p].vendor = row.vendor
                                                                    /\ price[p].item = row.item
                                                                    /\ price[p].from <= row.date}
                      IN /\ row.vendor \in vendors /\ row.item \in items
                         /\ row.price \in Recorded \cup {NoPrice}
                         /\ row.price = NoPrice => known = {}
                         /\ row.price # NoPrice => /\ row.price \in known
                                                   /\ \A p \in known : price[p].from <= price[row.price].from
                                                   /\ row.typed \/ row.paid = Rate[row.price]
    BY DEF EntriesKeepTheirPrice
  <1>1. /\ entry[e].vendor \in vendors /\ entry[e].item \in items /\ Priced(entry[e])
        /\ (entry[e].price # NoPrice /\ ~entry[e].typed) => entry[e].paid = Rate[entry[e].price]
    BY DEF FullInv, EntryInv
  <1> QED BY <1>1 DEF Priced, KnownPrices

\* The type of the state.
THEOREM ProcurementTyped == Spec => []TypeOK
  BY InitInv, StepKeepsInv, PTL DEF Spec, PriceInv

\* However requests overlap, a vendor's prices of a material never meet and leave no day out.
THEOREM EachDayHasOnePrice == Spec => []OnePriceADay
  BY InitInv, StepKeepsInv, InvOnePrice, PTL DEF Spec

LEMMA FullInvariance == Spec => []FullInv
  <1>1. Init => FullInv
    BY InitInv, InitEntries DEF FullInv
  <1>2. FullInv /\ [Next]_vars => FullInv'
    BY StepKeepsInv, StepKeepsEntries DEF FullInv
  <1> QED BY <1>1, <1>2, PTL DEF Spec

\* Every entry keeps the price that was in force on its date, as far as it was recorded, and its
\* vendor and material.
THEOREM EntriesArePriced == Spec => []EntriesKeepTheirPrice
  BY FullInvariance, InvEntries, PTL

-----------------------------------------------------------------------------
(* The order of purchases                                                   *)

\* Row numbers of a finite weak order: an element may come right after those that it ties with,
\* and those before it that no other is after and still before it.
LEMMA NumbersMeet ==
    ASSUME NEW S, IsFiniteSet(S), NEW R,
           \A x \in S : <<x, x>> \notin R,
           \A x, y, z \in S : <<x, y>> \in R /\ <<y, z>> \in R => <<x, z>> \in R,
           \A x, y, z \in S : <<x, z>> \in R => <<x, y>> \in R \/ <<y, z>> \in R,
           NEW e \in S, NEW g \in S, g # e
    PROVE  (\E n \in (Cardinality({x \in S : <<x, g>> \in R}) + 1)..Cardinality({x \in S : <<g, x>> \notin R}) :
              n + 1 \in (Cardinality({x \in S : <<x, e>> \in R}) + 1)..Cardinality({x \in S : <<e, x>> \notin R}))
             <=> \/ <<g, e>> \notin R /\ <<e, g>> \notin R
                 \/ <<g, e>> \in R /\ \A h \in S : <<h, e>> \in R => <<g, h>> \notin R
  <1> DEFINE low(y) == {x \in S : <<x, y>> \in R}
             upto(y) == {x \in S : <<y, x>> \notin R}
             l(y) == Cardinality(low(y))
             u(y) == Cardinality(upto(y))
  <1>1. \A y \in S : /\ IsFiniteSet(low(y)) /\ IsFiniteSet(upto(y))
                     /\ low(y) \subseteq upto(y) /\ y \in upto(y) \ low(y)
    BY FS_Subset
  <1>2. \A y \in S : l(y) \in Nat /\ u(y) \in Nat
    BY <1>1, FS_CardinalityType
  <1>3. ASSUME NEW y \in S
        PROVE  l(y) + 1 <= u(y)
    <2>1. low(y) \cup {y} \subseteq upto(y) /\ y \notin low(y)
      BY <1>1
    <2> HIDE DEF low, upto
    <2>2. Cardinality(low(y) \cup {y}) = l(y) + 1
      BY <1>1, <2>1, FS_AddElement
    <2> QED BY <1>1, <2>1, <2>2, FS_Subset
  <1>4. ASSUME <<g, e>> \notin R, <<e, g>> \notin R
        PROVE  l(g) = l(e) /\ u(g) = u(e) /\ l(e) + 2 <= u(e)
    <2>1. low(g) = low(e) /\ upto(g) = upto(e)
      BY <1>4
    <2>2. (low(e) \cup {e}) \cup {g} \subseteq upto(e) /\ e \notin low(e) /\ g \notin low(e) \cup {e}
      BY <1>1, <1>4
    <2> HIDE DEF low, upto
    <2>3. IsFiniteSet(low(e) \cup {e}) /\ Cardinality(low(e) \cup {e}) = l(e) + 1
      BY <1>1, <2>2, FS_AddElement
    <2>4. Cardinality((low(e) \cup {e}) \cup {g}) = Cardinality(low(e) \cup {e}) + 1
      BY <2>2, <2>3, FS_AddElement
    <2>5. Cardinality((low(e) \cup {e}) \cup {g}) <= u(e)
      BY <1>1, <2>2, FS_Subset
    <2> QED BY <1>2, <2>1, <2>3, <2>4, <2>5
  <1>5. ASSUME <<g, e>> \in R, \A h \in S : <<h, e>> \in R => <<g, h>> \notin R
        PROVE  u(g) = l(e)
    <2>1. upto(g) = low(e)
      BY <1>5
    <2> QED BY <2>1
  <1>6. ASSUME <<g, e>> \in R, NEW h \in S, <<h, e>> \in R, <<g, h>> \in R
        PROVE  u(g) + 1 <= l(e)
    <2>1. upto(g) \cup {h} \subseteq low(e) /\ h \notin upto(g)
      BY <1>6
    <2> HIDE DEF low, upto
    <2>2. Cardinality(upto(g) \cup {h}) = u(g) + 1
      BY <1>1, <2>1, FS_AddElement
    <2> QED BY <1>1, <2>1, <2>2, FS_Subset
  <1>7. ASSUME <<e, g>> \in R
        PROVE  u(e) <= l(g)
    <2>1. upto(e) \subseteq low(g)
      BY <1>7
    <2> HIDE DEF low, upto
    <2> QED BY <1>1, <2>1, FS_Subset
  <1>8. ~(<<g, e>> \in R /\ <<e, g>> \in R)
    OBVIOUS
  <1>9. (\E n \in (l(g) + 1)..u(g) : n + 1 \in (l(e) + 1)..u(e))
          <=> \/ <<g, e>> \notin R /\ <<e, g>> \notin R
              \/ <<g, e>> \in R /\ \A h \in S : <<h, e>> \in R => <<g, h>> \notin R
    <2> HIDE DEF low, upto, l, u
    <2>1. /\ l(g) \in Nat /\ u(g) \in Nat /\ l(g) + 1 <= u(g)
          /\ l(e) \in Nat /\ u(e) \in Nat /\ l(e) + 1 <= u(e)
      BY <1>2, <1>3
    <2>2. CASE <<g, e>> \notin R /\ <<e, g>> \notin R
      <3>1. l(g) + 1 \in (l(g) + 1)..u(g) /\ (l(g) + 1) + 1 \in (l(e) + 1)..u(e)
        BY <1>4, <2>1, <2>2
      <3> QED BY <2>2, <3>1
    <2>3. CASE <<g, e>> \in R /\ \A h \in S : <<h, e>> \in R => <<g, h>> \notin R
      <3>1. u(g) \in (l(g) + 1)..u(g) /\ u(g) + 1 \in (l(e) + 1)..u(e)
        BY <1>5, <2>1, <2>3
      <3> QED BY <2>3, <3>1
    <2>4. CASE <<g, e>> \in R /\ \E h \in S : <<h, e>> \in R /\ <<g, h>> \in R
      <3>1. u(g) + 1 <= l(e)
        BY <1>6, <2>4
      <3> QED BY <1>8, <2>1, <2>4, <3>1
    <2>5. CASE <<e, g>> \in R
      <3>1. u(e) <= l(g)
        BY <1>7, <2>5
      <3> QED BY <1>8, <2>1, <2>5, <3>1
    <2> QED BY <2>2, <2>3, <2>4, <2>5
  <1> QED BY <1>9

LEMMA EntryFacts ==
    ASSUME TypeOK
    PROVE  /\ IsFiniteSet(Entered)
           /\ \A e \in Entered : /\ entry[e].vendor \in Vendors /\ entry[e].item \in Items
                                 /\ entry[e].date \in Days /\ entry[e].paid \in Nat /\ entry[e].at \in Nat
  <1>1. IsFiniteSet(Entered)
    BY FS_Subset, FinitenessAssumption DEF Entered
  <1> QED BY <1>1, TimesAssumption DEF TypeOK, Entered, EntryRows

\* What the summary takes for the price before is the list's, or that of an entry of the same time.
LEMMA LaggedIsPreviousOrTied ==
    ASSUME TypeOK, NEW e \in Entered
    PROVE  Lagged(e) = PreviousPaid(e) \cup {entry[f].paid : f \in TiedWith(e)}
  <1> DEFINE S == SameItem(e)
             R == {t \in Entered \X Entered : Before(t[1], t[2])}
             earlier == {f \in S : Before(f, e)}
             last == {g \in earlier : \A h \in earlier : ~Before(g, h)}
             behind == {g \in S \ {e} : \E n \in RowNumbers(g) : n + 1 \in RowNumbers(e)}
  <1>1. IsFiniteSet(S) /\ e \in S /\ S \subseteq Entered
    BY EntryFacts, FS_Subset DEF SameItem
  <1>2. \A f, g \in S : <<f, g>> \in R <=> Before(f, g)
    BY <1>1
  <1>3. \A f \in S : entry[f].date \in Nat /\ entry[f].at \in Nat
    BY <1>1, EntryFacts, DaysAssumption DEF Days
  <1>4. \A f \in S : ~Before(f, f)
    BY <1>3 DEF Before
  <1>5. \A f, g, h \in S : Before(f, g) /\ Before(g, h) => Before(f, h)
    BY <1>3 DEF Before
  <1>6. \A f, g, h \in S : Before(f, h) => Before(f, g) \/ Before(g, h)
    BY <1>3 DEF Before
  <1>7. \A g \in S : SameItem(g) = S
    BY <1>1 DEF SameItem
  <1> HIDE DEF R, S
  <1>8. ASSUME NEW g \in S
        PROVE  RowNumbers(g) = (Cardinality({x \in S : <<x, g>> \in R}) + 1)..Cardinality({x \in S : <<g, x>> \notin R})
    <2>1. /\ {f \in S : Before(f, g)} = {x \in S : <<x, g>> \in R}
          /\ {f \in S : ~Before(g, f)} = {x \in S : <<g, x>> \notin R}
      BY <1>2
    <2>2. RowNumbers(g) = (Cardinality({f \in S : Before(f, g)}) + 1)..Cardinality({f \in S : ~Before(g, f)})
      BY <1>7 DEF RowNumbers
    <2> QED BY <2>1, <2>2
  <1>9. ASSUME NEW g \in S, g # e
        PROVE  (\E n \in RowNumbers(g) : n + 1 \in RowNumbers(e)) <=> g \in last \/ g \in TiedWith(e)
    <2>1. /\ \A x \in S : <<x, x>> \notin R
          /\ \A x, y, z \in S : <<x, y>> \in R /\ <<y, z>> \in R => <<x, z>> \in R
          /\ \A x, y, z \in S : <<x, z>> \in R => <<x, y>> \in R \/ <<y, z>> \in R
      BY <1>2, <1>4, <1>5, <1>6
    <2>2. (\E n \in RowNumbers(g) : n + 1 \in RowNumbers(e))
            <=> \/ <<g, e>> \notin R /\ <<e, g>> \notin R
                \/ <<g, e>> \in R /\ \A h \in S : <<h, e>> \in R => <<g, h>> \notin R
      <3>1. (\E n \in (Cardinality({x \in S : <<x, g>> \in R}) + 1)..Cardinality({x \in S : <<g, x>> \notin R}) :
               n + 1 \in (Cardinality({x \in S : <<x, e>> \in R}) + 1)..Cardinality({x \in S : <<e, x>> \notin R}))
              <=> \/ <<g, e>> \notin R /\ <<e, g>> \notin R
                  \/ <<g, e>> \in R /\ \A h \in S : <<h, e>> \in R => <<g, h>> \notin R
        BY <1>1, <1>9, <2>1, NumbersMeet
      <3> QED BY <1>1, <1>8, <3>1
    <2>3. g \in TiedWith(e) <=> <<g, e>> \notin R /\ <<e, g>> \notin R
      BY <1>1, <1>2, <1>9 DEF TiedWith, S
    <2>4. g \in last <=> <<g, e>> \in R /\ \A h \in S : <<h, e>> \in R => <<g, h>> \notin R
      BY <1>1, <1>2, <1>9
    <2> QED BY <2>2, <2>3, <2>4
  <1>10. behind = last \cup TiedWith(e)
    <2>1. TiedWith(e) \subseteq S \ {e}
      BY DEF TiedWith, S
    <2>2. last \subseteq S \ {e}
      BY <1>1, <1>4
    <2> HIDE DEF last
    <2> QED BY <1>9, <2>1, <2>2
  <1>11. Lagged(e) = {entry[f].paid : f \in behind}
    BY DEF Lagged, S
  <1>12. PreviousPaid(e) = {entry[f].paid : f \in last}
    BY DEF PreviousPaid, S
  <1> HIDE DEF behind, last
  <1> QED BY <1>10, <1>11, <1>12

-----------------------------------------------------------------------------
(* Prices that were replaced                                                *)

LEMMA ReplacedWasEffective ==
    ASSUME PriceInv, NEW v \in Vendors, NEW i \in Items, NEW p \in Active(v, i)
    PROVE  Replaced(p) = Effective(v, i, DayBefore(price[p].from))
  <1>1. p \in Recorded /\ p \in Of(v, i) /\ price[p].vendor = v /\ price[p].item = i
    BY DEF Active, Of
  <1>2. PICK d : d = DayBefore(price[p].from)
    OBVIOUS
  <1>3. d \in Int /\ d = price[p].from - 1 /\ d <= Forever /\ price[p].from \in Int
    BY <1>1, <1>2, RowFacts, DaysAssumption DEF DayBefore, PriceInv, Forever
  <1>4. \A q \in Of(v, i) : /\ q \in Recorded /\ price[q].vendor = v /\ price[q].item = i
                            /\ price[q].from \in Int /\ price[q].to \in Int
                            /\ price[q].from <= price[q].to
    BY RowFacts DEF Of, PriceInv, Intervals
  <1>5. \A q, s \in Of(v, i) : q = s \/ price[q].to < price[s].from \/ price[s].to < price[q].from
    BY <1>4 DEF PriceInv, Disjoint
  <1> DEFINE before == {q \in Of(v, i) : price[q].from < price[p].from}
             on == {q \in Of(v, i) : Covers(q, d)}
             lastBefore == {q \in before : \A r \in before : price[r].from <= price[q].from}
             lastOn == {q \in on : \A r \in on : price[r].from <= price[q].from}
  <1>6. on \subseteq before
    BY <1>3, <1>4 DEF Covers
  <1>7. ASSUME NEW q \in before
        PROVE  on # {}
    <2>1. d \in price[q].from..Forever
      BY <1>3, <1>4
    <2> QED BY <1>4, <2>1 DEF PriceInv, Covered
  <1>8. ASSUME NEW s \in on, NEW q \in before
        PROVE  price[q].from <= price[s].from /\ (q # s => price[q].from < price[s].from)
    <2>1. /\ price[s].from <= d /\ d <= price[s].to /\ price[q].from <= d
          /\ price[q].from <= price[q].to
      BY <1>3, <1>4 DEF Covers
    <2>2. q = s \/ price[q].to < price[s].from \/ price[s].to < price[q].from
      BY <1>5
    <2>3. /\ price[q].from \in Int /\ price[q].to \in Int /\ price[s].from \in Int /\ price[s].to \in Int
      BY <1>4
    <2> QED BY <1>3, <2>1, <2>2, <2>3
  <1>9. lastBefore = lastOn
    <2>1. \A q \in before : price[q].from \in Int
      BY <1>4
    <2> HIDE DEF before, on
    <2>2. ASSUME NEW q \in lastBefore
          PROVE  q \in lastOn
      <3>1. PICK s \in on : TRUE
        BY <1>7, <2>2
      <3>2. q \in before /\ price[s].from <= price[q].from
        BY <1>6, <2>2, <3>1
      <3>3. q = s
        BY <1>6, <1>8, <2>1, <3>1, <3>2
      <3> QED BY <1>6, <2>2, <3>1, <3>3
    <2>3. ASSUME NEW q \in lastOn
          PROVE  q \in lastBefore
      BY <1>6, <1>8, <2>3
    <2> QED BY <2>2, <2>3
  <1>10. Replaced(p) = TheOne(lastBefore)
    BY <1>1 DEF Replaced
  <1>11. Effective(v, i, d) = TheOne(lastOn)
    BY DEF Effective
  <1> HIDE DEF lastBefore, lastOn
  <1> QED BY <1>2, <1>9, <1>10, <1>11

-----------------------------------------------------------------------------
(* Spend                                                                    *)

Month(e) == MonthOf[entry[e].date]
InWindow(S) == {e \in S : FirstMonth <= Month(e) /\ Month(e) <= MonthOf[Today]}

LEMMA PaidFacts ==
    ASSUME TypeOK
    PROVE  /\ \A e \in Entered : Paid[e] \in Int /\ Month(e) \in Nat
           /\ MonthOf[Today] \in Nat /\ LastMonth \in Nat /\ MonthOf[Today] <= LastMonth
           /\ FirstMonth \in Int /\ FirstMonth = MonthOf[Today] - WindowMonths + 1
           /\ FirstMonth <= MonthOf[Today] + 1
  <1>1. \A e \in Entered : entry[e].paid \in Nat /\ entry[e].date \in 1..LastDay /\ Quantity[e] \in Nat
    BY EntryFacts, QuantityAssumption DEF Days, Entered
  <1>2. \A e \in Entered : Quantity[e] * entry[e].paid \in Int
    BY <1>1
  <1>3. /\ MonthOf[Today] \in Nat /\ LastMonth \in Nat /\ MonthOf[Today] <= LastMonth
    BY DaysAssumption, MonthAssumption DEF LastMonth
  <1>4. /\ FirstMonth \in Int /\ FirstMonth = MonthOf[Today] - WindowMonths + 1
        /\ FirstMonth <= MonthOf[Today] + 1
    BY <1>3, WindowAssumption DEF FirstMonth
  <1> QED BY <1>1, <1>2, <1>3, <1>4, MonthAssumption DEF Paid, Month

\* A series adds up to what its months hold.
LEMMA SeriesTotal ==
    ASSUME TypeOK, NEW S \in SUBSET Entered
    PROVE  SumOf(Series(S)) = Value(InWindow(S))
  <1> DEFINE M == FirstMonth..MonthOf[Today]
             W == InWindow(S)
             k == [e \in Entered |-> Month(e)]
  <1>1. IsFiniteSet(W) /\ W \subseteq Entered /\ IsFiniteSet(M)
    <2>1. FirstMonth \in Int /\ MonthOf[Today] \in Int
      BY PaidFacts
    <2> QED BY <2>1, EntryFacts, FS_Interval, FS_Subset DEF InWindow
  <1>2. \A e \in W : Paid[e] \in Int /\ k[e] \in M
    BY PaidFacts DEF InWindow
  <1>3. \A m \in M : InMonth(S, m) = {e \in W : k[e] = m}
    BY PaidFacts DEF InMonth, InWindow, Month
  <1> DEFINE parts == [m \in M |-> SumOver(Paid, {e \in W : k[e] = m})]
  <1>4. Series(S) = parts
    BY <1>3 DEF Series, Monthly, Value
  <1>5. DOMAIN parts = M
    OBVIOUS
  <1>6. SumOver(parts, M) = SumOver(Paid, W)
    <2> HIDE DEF M, W, k
    <2> QED BY <1>1, <1>2, SumGroups
  <1> HIDE DEF parts, M
  <1>7. SumOf(Series(S)) = SumOver(parts, M)
    BY <1>4, <1>5 DEF SumOf
  <1> QED BY <1>6, <1>7 DEF Value

IsNear(cents, amount, k) == 1000 * cents - amount \in -k..k

\* The cents of an amount are within half a cent of it.
LEMMA CentsAreNear ==
    ASSUME NEW x \in Int
    PROVE  Cents(x) \in Int /\ IsNear(Cents(x), x, 500)
  BY DEF Cents, IsNear

\* What is paid for some purchases, and its cents month by month.
LEMMA MonthlyCents ==
    ASSUME TypeOK, NEW S \in SUBSET Entered, NEW m
    PROVE  Value(InMonth(S, m)) \in Int /\ Cents(Value(InMonth(S, m))) \in Int
  <1>1. IsFiniteSet(InMonth(S, m)) /\ InMonth(S, m) \subseteq Entered
    BY EntryFacts, FS_Subset DEF InMonth
  <1>2. Value(InMonth(S, m)) \in Int
    BY <1>1, PaidFacts, SumInt DEF Value
  <1> QED BY <1>2, CentsAreNear

LEMMA RoundedTotal ==
    ASSUME TypeOK, NEW S \in SUBSET Entered, NEW a \in Int, NEW b \in Int, NEW M, a..b \subseteq M
    PROVE  SumOf(Rounded(Monthly(S, a..b))) = SumOver([m \in M |-> Cents(Value(InMonth(S, m)))], a..b)
  <1> DEFINE c == [m \in M |-> Cents(Value(InMonth(S, m)))]
             r == Rounded(Monthly(S, a..b))
  <1>1. DOMAIN r = a..b /\ \A m \in a..b : r[m] = Cents(Value(InMonth(S, m)))
    BY DEF Rounded, Monthly
  <1>2. \A m \in a..b : r[m] \in Int /\ r[m] = c[m]
    BY <1>1, MonthlyCents
  <1>3. IsFiniteSet(a..b)
    BY FS_Interval
  <1> HIDE DEF c, r
  <1>4. SumOver(r, a..b) = SumOver(c, a..b)
    BY <1>2, <1>3, SumSame
  <1>5. SumOf(r) = SumOver(c, a..b)
    BY <1>1, <1>4 DEF SumOf
  <1> QED BY <1>5 DEF c, r

LEMMA ListIsPageAndFuture ==
    ASSUME TypeOK, NEW v \in Vendors
    PROVE  SpendOnList(v) = SpendOnPage(v)
             + SumOf(Rounded(Monthly(FromVendor(v), (MonthOf[Today] + 1)..LastMonth)))
  <1> DEFINE F == FromVendor(v)
             M == FirstMonth..LastMonth
             past == FirstMonth..MonthOf[Today]
             future == (MonthOf[Today] + 1)..LastMonth
             c == [m \in M |-> Cents(Value(InMonth(F, m)))]
  <1>1. F \in SUBSET Entered
    BY DEF FromVendor
  <1>2. M = past \cup future /\ past \cap future = {}
    BY PaidFacts
  <1>3. IsFiniteSet(past) /\ IsFiniteSet(future)
    <2>1. FirstMonth \in Int /\ MonthOf[Today] \in Int /\ MonthOf[Today] + 1 \in Int /\ LastMonth \in Int
      BY PaidFacts
    <2> QED BY <2>1, FS_Interval
  <1>4. \A m \in past \cup future : c[m] \in Int
    BY <1>1, <1>2, MonthlyCents
  <1>5. /\ SpendOnList(v) = SumOver(c, M)
        /\ SpendOnPage(v) = SumOver(c, past)
        /\ SumOf(Rounded(Monthly(F, future))) = SumOver(c, future)
    <2>1. /\ FirstMonth \in Int /\ LastMonth \in Int /\ MonthOf[Today] \in Int /\ MonthOf[Today] + 1 \in Int
          /\ past \subseteq M /\ future \subseteq M
      BY <1>2, PaidFacts
    <2> HIDE DEF F
    <2>2. /\ SumOf(Rounded(Monthly(F, M))) = SumOver(c, M)
          /\ SumOf(Rounded(Monthly(F, past))) = SumOver(c, past)
          /\ SumOf(Rounded(Monthly(F, future))) = SumOver(c, future)
      BY <1>1, <2>1, RoundedTotal
    <2> QED BY <2>2 DEF SpendOnList, SpendOnPage, Series, F
  <1> HIDE DEF c, M, past, future
  <1>6. SumOver(c, past \cup future) = SumOver(c, past) + SumOver(c, future)
    BY <1>2, <1>3, <1>4, SumUnion
  <1> QED BY <1>2, <1>5, <1>6 DEF future

\* Terms that are each near, by no more than k, add up to sums that are k times as far.
LEMMA SumWithin ==
    ASSUME NEW S, IsFiniteSet(S), NEW k \in Int, NEW f, NEW g,
           \A x \in S : f[x] \in Int /\ g[x] \in Int /\ IsNear(f[x], g[x], k)
    PROVE  IsNear(SumOver(f, S), SumOver(g, S), k * Cardinality(S))
  <1> DEFINE far(T) == 1000 * SumOver(f, T) - SumOver(g, T)
             Good == {T \in SUBSET S : far(T) \in -(k * Cardinality(T))..(k * Cardinality(T))}
  <1>1. {} \in Good
    <2>1. SumOver(f, {}) = 0 /\ SumOver(g, {}) = 0 /\ Cardinality({}) = 0
      BY SumEmpty, FS_EmptySet
    <2>2. k * 0 = 0
      OBVIOUS
    <2> QED BY <2>1, <2>2
  <1>2. ASSUME NEW T \in SUBSET S, NEW x \in S \ T, T \in Good PROVE T \cup {x} \in Good
    <2>1. /\ IsFiniteSet(T) /\ SumOver(f, T) \in Int /\ SumOver(g, T) \in Int
          /\ Cardinality(T) \in Nat
      BY FS_Subset, FS_CardinalityType, SumInt
    <2>2. x \notin T /\ f[x] \in Int /\ g[x] \in Int /\ \A y \in T : f[y] \in Int /\ g[y] \in Int
      OBVIOUS
    <2>3. /\ SumOver(f, T \cup {x}) = f[x] + SumOver(f, T)
          /\ SumOver(g, T \cup {x}) = g[x] + SumOver(g, T)
          /\ Cardinality(T \cup {x}) = Cardinality(T) + 1
      BY <2>1, <2>2, SumAdd, FS_AddElement
    <2>4. \A n \in Nat : k * n \in Int /\ k * (n + 1) = k * n + k
      OBVIOUS
    <2>5. PICK b \in Int : b = k * Cardinality(T) /\ k * Cardinality(T \cup {x}) = b + k
      BY <2>1, <2>3, <2>4
    <2>6. far(T) \in -b..b /\ 1000 * f[x] - g[x] \in -k..k
      <3>1. IsNear(f[x], g[x], k)
        BY <1>2
      <3> QED BY <1>2, <2>5, <3>1 DEF IsNear
    <2>7. far(T \cup {x}) = far(T) + (1000 * f[x] - g[x])
      BY <2>1, <2>2, <2>3
    <2>8. far(T \cup {x}) \in -(b + k)..(b + k)
      <3>1. far(T) \in Int
        BY <2>1
      <3> HIDE DEF far
      <3> QED BY <2>2, <2>6, <2>7, <3>1
    <2> QED BY <2>5, <2>8
  <1>3. S \in Good
    <2> HIDE DEF Good
    <2> QED BY <1>1, <1>2, GrowingSets
  <1> QED BY <1>3 DEF IsNear

\* A page is off by half a cent for each of its months.
LEMMA PageIsNear ==
    ASSUME TypeOK, NEW v \in Vendors
    PROVE  /\ SpendOnPage(v) \in Int
           /\ Value(InWindow(FromVendor(v))) \in Int
           /\ IsNear(SpendOnPage(v), Value(InWindow(FromVendor(v))), 500 * WindowMonths)
  <1> DEFINE F == FromVendor(v)
             M == FirstMonth..MonthOf[Today]
             c == [m \in M |-> Cents(Value(InMonth(F, m)))]
             s == Series(F)
  <1>1. F \in SUBSET Entered
    BY DEF FromVendor
  <1>2. IsFiniteSet(M) /\ Cardinality(M) = WindowMonths
    <2>1. /\ FirstMonth \in Int /\ MonthOf[Today] \in Int /\ WindowMonths \in Nat
          /\ FirstMonth = MonthOf[Today] - WindowMonths + 1
      BY PaidFacts, WindowAssumption
    <2>2. IsFiniteSet(M) /\ Cardinality(M) = IF FirstMonth > MonthOf[Today] THEN 0 ELSE MonthOf[Today] - FirstMonth + 1
      BY <2>1, FS_Interval
    <2> QED BY <2>1, <2>2
  <1>3. DOMAIN s = M /\ \A m \in M : s[m] = Value(InMonth(F, m))
    BY DEF Series, Monthly
  <1>4. \A m \in M : c[m] \in Int /\ s[m] \in Int /\ IsNear(c[m], s[m], 500)
    <2> SUFFICES ASSUME NEW m \in M
                 PROVE  c[m] \in Int /\ s[m] \in Int /\ IsNear(c[m], s[m], 500)
      OBVIOUS
    <2>1. Value(InMonth(F, m)) \in Int
      BY <1>1, MonthlyCents
    <2>2. c[m] = Cents(Value(InMonth(F, m))) /\ s[m] = Value(InMonth(F, m))
      BY <1>3
    <2> HIDE DEF c, s
    <2> QED BY <2>1, <2>2, CentsAreNear
  <1>5. SpendOnPage(v) = SumOver(c, M)
    BY <1>1, PaidFacts, RoundedTotal DEF SpendOnPage, Series
  <1>6. SumOver(s, M) = Value(InWindow(F))
    BY <1>1, <1>3, SeriesTotal DEF SumOf
  <1> HIDE DEF F, M, c, s
  <1>7. IsNear(SumOver(c, M), SumOver(s, M), 500 * Cardinality(M))
    BY <1>2, <1>4, SumWithin
  <1>8. SumOver(c, M) \in Int /\ SumOver(s, M) \in Int
    BY <1>2, <1>4, SumInt
  <1> QED BY <1>2, <1>5, <1>6, <1>7, <1>8 DEF F

\* So the pages together are, from the summary, by half a cent for each month and vendor.
LEMMA PagesAddUp ==
    ASSUME TypeOK
    PROVE  1000 * SumOf([v \in Vendors |-> SpendOnPage(v)]) - SumOf(Series(Entered))
             \in -(500 * WindowMonths * Cardinality(Vendors))..(500 * WindowMonths * Cardinality(Vendors))
  <1> DEFINE W == InWindow(Entered)
             k == [e \in Entered |-> entry[e].vendor]
             parts == [v \in Vendors |-> SumOver(Paid, {e \in W : k[e] = v})]
             pages == [v \in Vendors |-> SpendOnPage(v)]
  <1>1. IsFiniteSet(W) /\ W \subseteq Entered
    BY EntryFacts, FS_Subset DEF InWindow
  <1>2. \A e \in W : Paid[e] \in Int /\ k[e] \in Vendors
    BY <1>1, EntryFacts, PaidFacts
  <1>3. ASSUME NEW v \in Vendors
        PROVE  /\ pages[v] \in Int /\ parts[v] \in Int
               /\ IsNear(pages[v], parts[v], 500 * WindowMonths)
    <2>1. InWindow(FromVendor(v)) = {e \in W : k[e] = v}
      BY DEF InWindow, FromVendor
    <2>2. parts[v] = Value(InWindow(FromVendor(v))) /\ pages[v] = SpendOnPage(v)
      BY <2>1 DEF Value
    <2> HIDE DEF parts, pages
    <2> QED BY <2>2, PageIsNear
  <1>4. DOMAIN pages = Vendors
    OBVIOUS
  <1>5. SumOver(parts, Vendors) = SumOver(Paid, W)
    <2> HIDE DEF W, k
    <2> QED BY <1>1, <1>2, FinitenessAssumption, SumGroups
  <1>6. SumOf(Series(Entered)) = SumOver(Paid, W)
    BY SeriesTotal DEF Value
  <1>7. 500 * WindowMonths \in Int
    BY WindowAssumption
  <1> HIDE DEF parts, pages, W
  <1>8. 1000 * SumOver(pages, Vendors) - SumOver(parts, Vendors)
          \in -(500 * WindowMonths * Cardinality(Vendors))..(500 * WindowMonths * Cardinality(Vendors))
    <2>1. IsNear(SumOver(pages, Vendors), SumOver(parts, Vendors), 500 * WindowMonths * Cardinality(Vendors))
      BY <1>3, <1>7, FinitenessAssumption, SumWithin
    <2> QED BY <2>1 DEF IsNear
  <1>9. SumOf(pages) = SumOver(pages, Vendors)
    BY <1>4 DEF SumOf
  <1> QED BY <1>5, <1>6, <1>8, <1>9 DEF pages

LEMMA InvReports == FullInv => ReportsAgree
  <1> SUFFICES ASSUME FullInv PROVE ReportsAgree
    OBVIOUS
  <1>1. PriceInv /\ TypeOK
    BY DEF FullInv, PriceInv
  <1> QED
    BY <1>1, ListIsPageAndFuture, PagesAddUp, LaggedIsPreviousOrTied, ReplacedWasEffective DEF ReportsAgree

-----------------------------------------------------------------------------
(* Past costs                                                               *)

\* A step after which prices cover the days up to d as before, and purchases up to d are the same.
LEMMA SameCost ==
    ASSUME NEW i, NEW d,
           {e \in Entered : entry[e].item = i /\ entry[e].date <= d}
             = {e \in Entered' : entry'[e].item = i /\ entry'[e].date <= d},
           \A e \in Entered : entry'[e] = entry[e],
           {q \in Recorded : price[q].item = i /\ Covers(q, d)}
             = {q \in Recorded' : price'[q].item = i /\ price'[q].from <= d /\ d <= price'[q].to}
    PROVE  ReceiptPrices(i, d)' = ReceiptPrices(i, d)
  <1> DEFINE bought == {e \in Entered : entry[e].item = i /\ entry[e].date <= d}
             last == {f \in bought : \A g \in bought : entry[g].date <= entry[f].date}
             paid == {entry[e].paid : e \in last}
             on == {q \in Recorded : price[q].item = i /\ Covers(q, d)}
  <1>1. bought' = bought
    OBVIOUS
  <1>2. \A e \in bought : entry'[e] = entry[e]
    OBVIOUS
  <1>3. last' = last
    <2> HIDE DEF bought
    <2> QED BY <1>1, <1>2
  <1>4. paid' = paid
    <2>1. last \subseteq bought
      OBVIOUS
    <2> HIDE DEF last, bought
    <2> QED BY <1>2, <1>3, <2>1
  <1>5. on' = on
    BY DEF Covers
  <1>6. ReceiptPrices(i, d) = IF bought # {} THEN paid
                              ELSE IF {Rate[p] : p \in on} # {} THEN {Min({Rate[p] : p \in on})} ELSE {ListPrice}
    BY DEF ReceiptPrices
  <1>7. ReceiptPrices(i, d)' = IF bought' # {} THEN paid'
                               ELSE IF {Rate[p] : p \in on'} # {} THEN {Min({Rate[p] : p \in on'})} ELSE {ListPrice}
    BY DEF ReceiptPrices
  <1> HIDE DEF paid, bought, on
  <1> QED BY <1>1, <1>4, <1>5, <1>6, <1>7

LEMMA PastStepStands ==
    ASSUME FullInv, [Next]_vars, vendors' = vendors, <<price, entry>>' # <<price, entry>>,
           NEW i \in Items, NEW d \in Days,
           \A p \in Recorded' \ Recorded : price'[p].from > d,
           \A e \in Entered' \ Entered : entry'[e].date > d
    PROVE  ReceiptPrices(i, d)' = ReceiptPrices(i, d)
  <1>0. PriceInv /\ TypeOK
    BY DEF FullInv, PriceInv
  <1>1. d \in Int /\ 1 <= d /\ d <= LastDay /\ LastDay \in Int /\ Forever = LastDay + 1
    BY DaysAssumption DEF Days, Forever
  <1>2. ASSUME NEW v \in Vendors, DeleteVendor(v)
        PROVE  FALSE
    BY <1>2 DEF DeleteVendor
  <1>3. ASSUME NEW p \in Prices, NEW v \in Vendors, NEW j \in Items, OpeningPrice(p, v, j)
        PROVE  FALSE
    <2>1. /\ price[p] = Absent
          /\ price' = [price EXCEPT ![p] = [vendor |-> v, item |-> j, from |-> 1, to |-> Forever]]
      BY <1>3 DEF OpeningPrice
    <2>2. price'[p] = [vendor |-> v, item |-> j, from |-> 1, to |-> Forever]
      BY <1>0, <2>1 DEF TypeOK
    <2>3. price'[p] \in PriceRows /\ price'[p].from = 1
      BY <2>2, DaysAssumption DEF PriceRows, Days, Forever
    <2>4. p \in Recorded' \ Recorded
      BY <2>1, <2>3, NotRows DEF Recorded
    <2> QED BY <1>1, <2>3, <2>4
  <1>4. ASSUME NEW c \in Clients, NEW p \in Prices, PriceCommit(c, p)
        PROVE  ReceiptPrices(i, d)' = ReceiptPrices(i, d)
    <2>0. PICK r : r = req[c]
      OBVIOUS
    <2>1. /\ p \notin Recorded /\ p # r.current /\ r.from \in Days
          /\ Recorded' = Recorded \cup {p}
          /\ price'[p] = [vendor |-> r.vendor, item |-> r.item, from |-> r.from, to |-> Forever]
      BY <1>0, <1>4, <2>0, CommittedRows
    <2>2. \A q \in Recorded : /\ price'[q].item = price[q].item
                              /\ price'[q].from = price[q].from
                              /\ q # r.current => price'[q].to = price[q].to
      BY <1>0, <1>4, <2>0, CommittedRows
    <2>3. r.current # NoPrice => /\ price[r.current].to = Forever
                                 /\ price'[r.current].to = r.from - 1
      BY <1>0, <1>4, <2>0, CommittedRows
    <2>4. price'[p].from = r.from /\ r.from > d /\ r.from \in Int
      BY <2>1 DEF Days
    <2>5. ASSUME NEW q \in Recorded
          PROVE  Covers(q, d) <=> price'[q].from <= d /\ d <= price'[q].to
      <3>1. CASE q = r.current
        <4>1. q # NoPrice
          BY NotRows DEF Recorded
        <4> QED BY <1>1, <2>2, <2>3, <2>4, <3>1, <4>1 DEF Covers
      <3>2. CASE q # r.current
        BY <2>2, <3>2 DEF Covers
      <3> QED BY <3>1, <3>2
    <2>6. {q \in Recorded : price[q].item = i /\ Covers(q, d)}
             = {q \in Recorded' : price'[q].item = i /\ price'[q].from <= d /\ d <= price'[q].to}
      BY <1>1, <2>1, <2>2, <2>4, <2>5
    <2>7. entry' = entry /\ Entered' = Entered
      BY <1>4 DEF PriceCommit, Entered
    <2> QED BY <2>6, <2>7, SameCost
  <1>5. ASSUME NEW c \in Clients, NEW e \in Entries, NEW t \in Times, BuyCommit(c, e, t)
        PROVE  ReceiptPrices(i, d)' = ReceiptPrices(i, d)
    <2>1. PICK row : entry' = [entry EXCEPT ![e] = row]
      BY <1>5 DEF BuyCommit
    <2>2. price' = price /\ Recorded' = Recorded /\ e \notin Entered
      BY <1>5 DEF BuyCommit, Recorded
    <2>3. \A f \in Entered : entry'[f] = entry[f] /\ f \in Entered'
      BY <1>0, <2>1, <2>2 DEF TypeOK, Entered
    <2>4. \A f \in Entered' : f \in Entered \/ ~(entry'[f].date <= d)
      <3> SUFFICES ASSUME NEW f \in Entered', f \notin Entered
                   PROVE  ~(entry'[f].date <= d)
        OBVIOUS
      <3>1. f = e
        BY <1>0, <2>1 DEF TypeOK, Entered
      <3>2. TypeOK'
        BY <1>0, StepKeepsInv DEF PriceInv
      <3>3. entry'[f] \in EntryRows
        BY <3>2 DEF TypeOK, Entered
      <3>4. entry'[f].date \in Days
        BY <3>3 DEF EntryRows
      <3>5. entry'[f].date > d
        OBVIOUS
      <3> QED BY <1>1, <3>4, <3>5 DEF Days
    <2>5. {f \in Entered : entry[f].item = i /\ entry[f].date <= d}
             = {f \in Entered' : entry'[f].item = i /\ entry'[f].date <= d}
      BY <2>3, <2>4
    <2>6. {q \in Recorded : price[q].item = i /\ Covers(q, d)}
             = {q \in Recorded' : price'[q].item = i /\ price'[q].from <= d /\ d <= price'[q].to}
      BY <2>2 DEF Covers
    <2> QED BY <2>3, <2>5, <2>6, SameCost
  <1> QED BY <1>2, <1>3, <1>4, <1>5 DEF Next, vars, ResetToDefaults, DeleteItem, PriceAborts,
             BuyAborts, PriceRead, BuyRead

-----------------------------------------------------------------------------
\* The reports say the same of any purchases, in any order and with ties: the vendor list and the
\* vendor page but for receipts after the current month, the pages and the monthly series but for
\* what the pages round, the purchase list and the summary but for entries of one time, and a
\* price and the one that it replaced.
THEOREM ReportsSayTheSame == Spec => []ReportsAgree
  BY FullInvariance, InvReports, PTL

\* What createVendorPrice and createPurchaseEntry record for later days, and the closing of the
\* price that was open, leave what a material cost on any earlier day as it was.
THEOREM PastKeepsItsCost == Spec => PastCostStands
  <1> DEFINE Stands ==
        vendors' = vendors /\ <<price, entry>>' # <<price, entry>> =>
          \A i \in Items, d \in Days :
             /\ \A p \in Recorded' \ Recorded : price'[p].from > d
             /\ \A e \in Entered' \ Entered : entry'[e].date > d
             => ReceiptPrices(i, d)' = ReceiptPrices(i, d)
  <1>1. FullInv /\ [Next]_vars => [Stands]_vars
    BY PastStepStands
  <1>2. PastCostStands <=> [][Stands]_vars
    BY DEF PastCostStands
  <1> HIDE DEF Stands
  <1> QED BY <1>1, <1>2, FullInvariance, PTL DEF Spec
-----------------------------------------------------------------------------
(* Invoices                                                                 *)

\* What is listed was entered.
ListedExists == \A k \in DOMAIN listing : version[listing[k]] # 0

\* A row shows a version that was there.
NotAhead(rows) == \A k \in DOMAIN rows : rows[k].modified <= version[rows[k].id]

\* Line items are as new as their key.
AsNewAsKey(d) == \A i \in Invoices : d[i].modified # 0 => d[i].seen >= d[i].modified

Fetched(r) == r.op \in {"reading", "saving", "ready"}

\* And so are those that a refresh has read for its rows.
ReadAfterListed(r) ==
    /\ DOMAIN r.got = DOMAIN r.rows
    /\ \A k \in Read(r) : r.got[k] >= r.rows[k].modified

FreshInv ==
    /\ InvoiceTypeOK
    /\ ListedExists
    /\ NotAhead(listCache.rows)
    /\ AsNewAsKey(detail)
    /\ AsNewAsKey(stored)
    /\ \A c \in Refreshes : /\ refresh[c] # NoRefresh => NotAhead(refresh[c].rows)
                            /\ Fetched(refresh[c]) => ReadAfterListed(refresh[c])

-----------------------------------------------------------------------------
(* The last of a set of positions                                           *)

LEMMA MaxExists ==
    ASSUME NEW S, NEW n \in Nat, S \subseteq 1..n, S # {}
    PROVE  Max(S) \in S
  <1> DEFINE T == {m \in Nat : n - m \in S}
  <1>1. PICK s \in S : TRUE
    OBVIOUS
  <1>2. n - s \in T
    BY <1>1
  <1>3. PICK m \in T : \A y \in T : m <= y
    BY <1>2, LeastNumber
  <1>4. ASSUME NEW t \in S PROVE n - m >= t
    <2>1. n - t \in T
      BY <1>4
    <2>2. m \in Nat /\ t \in 1..n /\ m <= n - t
      BY <1>3, <1>4, <2>1
    <2> HIDE DEF T
    <2> QED BY <2>2
  <1>5. n - m \in S
    BY <1>3
  <1> QED BY <1>4, <1>5 DEF Max

-----------------------------------------------------------------------------
(* Types                                                                    *)

LEMMA Bounds ==
    /\ MaxVersion \in Nat /\ MaxVersion >= 1 /\ MaxChanges \in Nat
    /\ PageSize \in Nat /\ PageSize >= 1 /\ MaxPages \in Nat /\ MaxPages >= 1
  BY BoundsAssumption

LEMMA ReqTypes ==
    ASSUME InvoiceTypeOK, NEW c \in Refreshes
    PROVE  /\ refresh[c] \in RefreshStates
           /\ refresh[c] # NoRefresh => refresh[c].rows \in Seq(Rows) /\ refresh[c].moved \in BOOLEAN
           /\ refresh[c].op = "paging" => refresh[c].page \in 1..MaxPages
           /\ Fetched(refresh[c]) => /\ refresh[c].got \in Seq(Reads) /\ refresh[c].pending \in Nat
                                     /\ refresh[c].crossed \in BOOLEAN
           /\ refresh[c].op \in {"idle", "paging", "listed", "reading", "saving", "ready"}
           /\ refresh[c].op = "idle" <=> refresh[c] = NoRefresh
  BY DEF InvoiceTypeOK, RefreshStates, NoRefresh, Fetched

LEMMA PagingType ==
    ASSUME NEW r \in RefreshStates, r.op = "paging"
    PROVE  r \in [op : {"paging"}, rows : Seq(Rows), page : 1..MaxPages, moved : BOOLEAN]
  BY DEF RefreshStates, NoRefresh

LEMMA RowTypes ==
    ASSUME NEW rows \in Seq(Rows), NEW k \in DOMAIN rows
    PROVE  /\ rows[k].id \in Invoices /\ rows[k].modified \in Versions /\ rows[k].void \in BOOLEAN
           /\ rows[k].modified \in Nat /\ rows[k].modified # 0
  <1>1. rows[k] \in Rows
    OBVIOUS
  <1> QED BY <1>1 DEF Rows, Versions

LEMMA DetailTypes ==
    ASSUME NEW d \in [Invoices -> Details \cup {NoDetail}], NEW i \in Invoices
    PROVE  /\ d[i].modified \in Nat
           /\ d[i].modified # 0 => d[i] \in Details /\ d[i].seen \in Nat
  BY DEF Details, NoDetail, Versions

\* Versions only grow, so rows stay behind.
LEMMA StaysBehind ==
    ASSUME InvoiceTypeOK, version' \in [Invoices -> 0..MaxVersion],
           \A i \in Invoices : version'[i] >= version[i],
           NEW rows \in Seq(Rows), NotAhead(rows)
    PROVE  NotAhead(rows)'
  <1> SUFFICES ASSUME NEW k \in DOMAIN rows PROVE rows[k].modified <= version'[rows[k].id]
    BY DEF NotAhead
  <1>1. rows[k].id \in Invoices /\ rows[k].modified \in Nat
    BY RowTypes
  <1>2. version[rows[k].id] \in Nat /\ version'[rows[k].id] \in Nat
    BY <1>1, Bounds DEF InvoiceTypeOK
  <1> QED BY <1>1, <1>2 DEF NotAhead

-----------------------------------------------------------------------------
(* Steps                                                                    *)

LEMMA InitFresh == InvoiceInit => FreshInv
  <1> SUFFICES ASSUME InvoiceInit PROVE FreshInv
    OBVIOUS
  <1>1. InvoiceTypeOK
    <2>1. \A S : <<>> \in Seq(S)
      OBVIOUS
    <2>2. NoList \in [rows : Seq(Rows), moved : BOOLEAN]
      BY <2>1 DEF NoList
    <2>3. refresh \in [Refreshes -> RefreshStates]
      BY DEF InvoiceInit, RefreshStates
    <2>4. /\ detail \in [Invoices -> Details \cup {NoDetail}]
          /\ stored \in [Invoices -> Details \cup {NoDetail}]
      BY DEF InvoiceInit
    <2>5. version \in [Invoices -> 0..MaxVersion] /\ changes \in 0..MaxChanges
      BY Bounds DEF InvoiceInit
    <2> QED BY <2>1, <2>2, <2>3, <2>4, <2>5 DEF InvoiceInit, InvoiceTypeOK
  <1> QED BY <1>1 DEF InvoiceInit, FreshInv, ListedExists, NotAhead, AsNewAsKey, NoList, NoDetail, Fetched, NoRefresh

\* Zoho changes; of the requests only `moved` does.
LEMMA ZohoMoves ==
    ASSUME FreshInv,
           listing' \in Seq(Invoices), void' \subseteq Invoices, changes' \in 0..MaxChanges,
           version' \in [Invoices -> 0..MaxVersion],
           \A i \in Invoices : version'[i] >= version[i],
           ListedExists',
           refresh' = refresh \/ PagesMove,
           UNCHANGED <<listCache, detail, loaded, stored>>
    PROVE  FreshInv'
  <1>1. /\ listCache' = listCache /\ detail' = detail /\ loaded' = loaded /\ stored' = stored
        /\ InvoiceTypeOK
    BY DEF FreshInv
  <1>2. refresh \in [Refreshes -> RefreshStates]
    BY <1>1 DEF InvoiceTypeOK
  <1>3. \A c \in Refreshes : \/ refresh'[c] = refresh[c]
                           \/ /\ refresh[c].op = "paging"
                              /\ refresh'[c] = [refresh[c] EXCEPT !.moved = TRUE]
    BY <1>2 DEF PagesMove
  <1>4. ASSUME NEW c \in Refreshes, refresh[c].op = "paging", refresh'[c] = [refresh[c] EXCEPT !.moved = TRUE]
        PROVE  /\ refresh'[c] \in RefreshStates /\ refresh'[c].op = "paging" /\ refresh'[c].rows = refresh[c].rows
    <2>1. refresh[c] \in [op : {"paging"}, rows : Seq(Rows), page : 1..MaxPages, moved : BOOLEAN]
      BY <1>2, <1>4, PagingType
    <2> QED BY <1>4, <2>1 DEF RefreshStates
  <1>5. refresh' \in [Refreshes -> RefreshStates]
    <2>1. \A c \in Refreshes : refresh'[c] \in RefreshStates
      BY <1>2, <1>3, <1>4
    <2>2. \E f : refresh' = [c \in Refreshes |-> f[c]]
      <3>1. CASE refresh' = refresh
        BY <1>2, <3>1
      <3>2. CASE PagesMove
        <4>1. refresh' = [c \in Refreshes |-> [d \in Refreshes |-> IF refresh[d].op = "paging" THEN [refresh[d] EXCEPT !.moved = TRUE]
                                                           ELSE refresh[d]][c]]
          BY <3>2 DEF PagesMove
        <4> QED BY <4>1
      <3> QED BY <3>1, <3>2
    <2> QED BY <2>1, <2>2
  <1>6. InvoiceTypeOK'
    BY <1>1, <1>5 DEF InvoiceTypeOK
  <1>7. \A c \in Refreshes : refresh'[c] # NoRefresh => refresh[c] # NoRefresh /\ refresh'[c].rows = refresh[c].rows
    <2>1. NoRefresh.op = "idle"
      BY DEF NoRefresh
    <2> QED BY <1>3, <1>4, <2>1
  <1>8. \A c \in Refreshes : Fetched(refresh'[c]) => refresh'[c] = refresh[c]
    BY <1>3, <1>4 DEF Fetched
  <1>9. NotAhead(listCache.rows)'
    BY <1>1, StaysBehind DEF FreshInv, InvoiceTypeOK, NotAhead
  <1>10. ASSUME NEW c \in Refreshes, refresh'[c] # NoRefresh PROVE NotAhead(refresh[c].rows)'
    <2> PICK rows : rows = refresh[c].rows
      OBVIOUS
    <2>1. NotAhead(rows) /\ rows \in Seq(Rows)
      BY <1>1, <1>7, <1>10, ReqTypes DEF FreshInv
    <2>2. NotAhead(rows)'
      BY <1>1, <2>1, StaysBehind
    <2> QED BY <1>7, <1>10, <2>2 DEF NotAhead
  <1>11. AsNewAsKey(detail)' /\ AsNewAsKey(stored)'
    BY <1>1 DEF FreshInv, AsNewAsKey
  <1>12. \A c \in Refreshes : Fetched(refresh'[c]) => ReadAfterListed(refresh[c])'
    BY <1>8 DEF FreshInv, ReadAfterListed, Read
  <1> QED BY <1>6, <1>9, <1>10, <1>11, <1>12 DEF FreshInv, Fetched

\* A request moves on to `r`, by itself; the list cache may be the rows it has.
LEMMA RequestMoves ==
    ASSUME FreshInv, NEW c \in Refreshes, NEW r \in RefreshStates, refresh' = [refresh EXCEPT ![c] = r],
           r # NoRefresh => NotAhead(r.rows),
           Fetched(r) => ReadAfterListed(r),
           listCache' = listCache \/ listCache' = NoList
             \/ (r # NoRefresh /\ listCache' = [rows |-> r.rows, moved |-> r.moved]),
           listing' = listing, version' = version, void' = void, changes' = changes,
           detail' \in [Invoices -> Details \cup {NoDetail}], AsNewAsKey(detail)',
           stored' \in [Invoices -> Details \cup {NoDetail}], AsNewAsKey(stored)',
           loaded' \in BOOLEAN
    PROVE  FreshInv'
  <1>1. /\ InvoiceTypeOK /\ refresh \in [Refreshes -> RefreshStates]
    BY DEF FreshInv, InvoiceTypeOK
  <1>2. refresh'[c] = r /\ \A d \in Refreshes : d # c => refresh'[d] = refresh[d]
    BY <1>1
  <1>3. refresh' \in [Refreshes -> RefreshStates]
    BY <1>1
  <1>4. r # NoRefresh => r.rows \in Seq(Rows) /\ r.moved \in BOOLEAN
    BY DEF RefreshStates
  <1>5. /\ listCache' \in [rows : Seq(Rows), moved : BOOLEAN]
        /\ NotAhead(listCache.rows)'
    <2>1. CASE listCache' = listCache
      BY <1>1, <2>1 DEF FreshInv, InvoiceTypeOK, NotAhead
    <2>2. CASE listCache' = NoList
      BY <2>2 DEF NoList, NotAhead
    <2>3. CASE r # NoRefresh /\ listCache' = [rows |-> r.rows, moved |-> r.moved]
      BY <1>4, <2>3 DEF NotAhead
    <2> QED BY <2>1, <2>2, <2>3
  <1>6. InvoiceTypeOK'
    BY <1>1, <1>3, <1>5 DEF InvoiceTypeOK
  <1>7. ListedExists'
    BY DEF FreshInv, ListedExists
  <1>8. \A d \in Refreshes : /\ refresh'[d] # NoRefresh => NotAhead(refresh[d].rows)'
                             /\ Fetched(refresh'[d]) => ReadAfterListed(refresh[d])'
    BY <1>2 DEF FreshInv, NotAhead, ReadAfterListed, Read
  <1> QED BY <1>5, <1>6, <1>7, <1>8 DEF FreshInv, Fetched

\* What goes into the cache and the table.
LEMMA FreshDetails ==
    ASSUME FreshInv, NEW c \in Refreshes, Fetched(refresh[c]), NEW i \in Invoices,
           NEW d \in Details \cup {NoDetail}, d.modified # 0 => d.seen >= d.modified
    PROVE  LET new == FreshDetail(refresh[c], i, d)
           IN new \in Details \cup {NoDetail} /\ (new.modified # 0 => new.seen >= new.modified)
  <1> PICK r : r = refresh[c]
    OBVIOUS
  <1>1. /\ r.rows \in Seq(Rows) /\ r.got \in Seq(Reads) /\ ReadAfterListed(r)
    BY ReqTypes DEF FreshInv, Fetched, NoRefresh
  <1>2. CASE ReadsOf(r, i) = {}
    BY <1>2 DEF FreshDetail
  <1>3. CASE ReadsOf(r, i) # {}
    <2>1. ReadsOf(r, i) \subseteq 1..Len(r.got) /\ Len(r.got) \in Nat
      BY <1>1 DEF ReadsOf, Read
    <2>2. Max(ReadsOf(r, i)) \in ReadsOf(r, i)
      BY <1>3, <2>1, MaxExists
    <2> PICK last : last = Max(ReadsOf(r, i))
      OBVIOUS
    <2>3. /\ last \in DOMAIN r.rows /\ last \in Read(r) /\ r.got[last] \in Versions
          /\ r.got[last] >= r.rows[last].modified
      BY <1>1, <2>2 DEF ReadsOf, Read, ReadAfterListed
    <2>4. r.rows[last].modified \in Versions
      BY <1>1, <2>3, RowTypes
    <2>5. FreshDetail(r, i, d) = [modified |-> r.rows[last].modified, seen |-> r.got[last]]
      BY <1>3 DEF FreshDetail
    <2> QED BY <2>3, <2>4, <2>5 DEF Details
  <1> QED BY <1>2, <1>3

\* Requests keep their rows and reads; the cache may take new line items.
LEMMA RequestsKeep ==
    ASSUME FreshInv, refresh' \in [Refreshes -> RefreshStates],
           \A d \in Refreshes : refresh'[d] # NoRefresh => /\ refresh[d] # NoRefresh
                                                           /\ refresh'[d].rows = refresh[d].rows,
           \A d \in Refreshes : Fetched(refresh'[d]) => /\ Fetched(refresh[d])
                                                        /\ refresh'[d].got = refresh[d].got,
           listCache' = listCache \/ listCache' = NoList,
           listing' = listing, version' = version, void' = void, changes' = changes,
           detail' \in [Invoices -> Details \cup {NoDetail}], AsNewAsKey(detail)',
           stored' = stored, loaded' \in BOOLEAN
    PROVE  FreshInv'
  <1>1. InvoiceTypeOK
    BY DEF FreshInv
  <1>2. /\ listCache' \in [rows : Seq(Rows), moved : BOOLEAN]
        /\ NotAhead(listCache.rows)'
    <2>1. CASE listCache' = listCache
      BY <1>1, <2>1 DEF FreshInv, InvoiceTypeOK, NotAhead
    <2>2. CASE listCache' = NoList
      BY <2>2 DEF NoList, NotAhead
    <2> QED BY <2>1, <2>2
  <1>3. InvoiceTypeOK'
    BY <1>1, <1>2 DEF InvoiceTypeOK
  <1>4. ListedExists' /\ AsNewAsKey(stored)'
    BY DEF FreshInv, ListedExists, AsNewAsKey
  <1>5. \A d \in Refreshes : Fetched(refresh'[d]) => refresh'[d] # NoRefresh
    BY DEF Fetched, NoRefresh
  <1>6. \A d \in Refreshes : /\ refresh'[d] # NoRefresh => NotAhead(refresh[d].rows)'
                             /\ Fetched(refresh'[d]) => ReadAfterListed(refresh[d])'
    BY <1>5 DEF FreshInv, NotAhead, ReadAfterListed, Read
  <1> QED BY <1>2, <1>3, <1>4, <1>6 DEF FreshInv, Fetched

\* A sequence without its element k.
LEMMA RemovedAt ==
    ASSUME NEW S, NEW s \in Seq(S), NEW k \in 1..Len(s)
    PROVE  /\ RemoveAt(s, k) \in Seq(S) /\ Len(RemoveAt(s, k)) = Len(s) - 1
           /\ \A m \in 1..(Len(s) - 1) : RemoveAt(s, k)[m] = IF m < k THEN s[m] ELSE s[m + 1]
  <1>1. RemoveAt(s, k) = SubSeq(s, 1, k - 1) \o SubSeq(s, k + 1, Len(s))
    BY DEF RemoveAt
  <1> DEFINE a == SubSeq(s, 1, k - 1)
             b == SubSeq(s, k + 1, Len(s))
  <1>2. k \in 1..Len(s) /\ Len(s) \in Nat
    OBVIOUS
  <1>3. a \in Seq(S) /\ Len(a) = k - 1 /\ \A m \in 1..(k - 1) : a[m] = s[m]
    BY <1>2
  <1>4. b \in Seq(S) /\ Len(b) = Len(s) - k /\ \A m \in 1..(Len(s) - k) : b[m] = s[k + m]
    BY <1>2
  <1> HIDE DEF a, b
  <1>5. a \o b \in Seq(S) /\ Len(a \o b) = Len(a) + Len(b)
    BY <1>3, <1>4, ConcatProperties
  <1>6. \A m \in 1..(Len(a) + Len(b)) : (a \o b)[m] = IF m <= Len(a) THEN a[m] ELSE b[m - Len(a)]
    BY <1>3, <1>4, ConcatProperties
  <1>7. Len(a) + Len(b) = Len(s) - 1
    BY <1>2, <1>3, <1>4
  <1>8. ASSUME NEW m \in 1..(Len(s) - 1)
        PROVE  (a \o b)[m] = IF m < k THEN s[m] ELSE s[m + 1]
    <2>1. m \in Int /\ k \in Int /\ m >= 1 /\ m <= Len(s) - 1
      BY <1>2
    <2>2. CASE m < k
      <3>1. m \in 1..(k - 1) /\ m <= Len(a) /\ m \in 1..(Len(a) + Len(b))
        BY <1>2, <1>3, <1>7, <2>1, <2>2
      <3> QED BY <1>3, <1>6, <2>2, <3>1
    <2>3. CASE ~(m < k)
      <3>1. ~(m <= Len(a)) /\ m \in 1..(Len(a) + Len(b))
        BY <1>2, <1>3, <1>7, <2>1, <2>3
      <3>2. (a \o b)[m] = b[m - (k - 1)]
        BY <1>3, <1>6, <3>1
      <3>3. m - (k - 1) \in 1..(Len(s) - k) /\ k + (m - (k - 1)) = m + 1
        BY <1>2, <2>1, <2>3
      <3>4. b[m - (k - 1)] = s[m + 1]
        BY <1>4, <3>3
      <3> QED BY <2>3, <3>2, <3>4
    <2> QED BY <2>2, <2>3
  <1>9. RemoveAt(s, k) = a \o b
    BY <1>1 DEF a, b
  <1> QED BY <1>5, <1>7, <1>8, <1>9

LEMMA ZohoSteps ==
    ASSUME FreshInv, NEW i \in Invoices,
           ZohoCreate(i) \/ ZohoDelete(i) \/ ZohoEdit(i) \/ ZohoStatus(i)
    PROVE  FreshInv'
  <1>1. /\ listing \in Seq(Invoices) /\ version \in [Invoices -> 0..MaxVersion]
        /\ void \subseteq Invoices /\ changes \in 0..MaxChanges
    BY DEF FreshInv, InvoiceTypeOK
  <1>2. changes' \in 0..MaxChanges
    BY <1>1, Bounds DEF ZohoChange, ZohoCreate, ZohoDelete, ZohoEdit, ZohoStatus
  <1>3. \A k \in DOMAIN listing : listing[k] \in Invoices /\ version[listing[k]] # 0
    BY <1>1 DEF FreshInv, ListedExists
  <1>4. UNCHANGED <<listCache, detail, loaded, stored>>
    BY DEF ZohoCreate, ZohoDelete, ZohoEdit, ZohoStatus, program
  <1>5. CASE ZohoCreate(i)
    <2>1. /\ version[i] = 0 /\ version' = [version EXCEPT ![i] = 1]
          /\ listing' = <<i>> \o listing \/ listing' = Append(listing, i)
          /\ PagesMove /\ void' = void
      BY <1>5 DEF ZohoCreate
    <2>2. version' \in [Invoices -> 0..MaxVersion] /\ \A j \in Invoices : version'[j] >= version[j]
      BY <1>1, <2>1, Bounds
    <2>3. listing' \in Seq(Invoices)
      <3>1. <<i>> \in Seq(Invoices)
        OBVIOUS
      <3>2. <<i>> \o listing \in Seq(Invoices)
        BY <1>1, <3>1, ConcatProperties
      <3>3. Append(listing, i) \in Seq(Invoices)
        BY <1>1, AppendProperties
      <3> QED BY <2>1, <3>2, <3>3
    <2>4. \A k \in DOMAIN listing' : listing'[k] = i \/ \E j \in DOMAIN listing : listing'[k] = listing[j]
      <3>1. CASE listing' = <<i>> \o listing
        <4> SUFFICES ASSUME NEW k \in DOMAIN listing', k # 1
                     PROVE  k - 1 \in DOMAIN listing /\ listing'[k] = listing[k - 1]
          BY <1>1, <3>1
        <4> QED BY <1>1, <3>1
      <3>2. CASE listing' = Append(listing, i)
        BY <1>1, <3>2
      <3> QED BY <2>1, <3>1, <3>2
    <2>5. ListedExists'
      <3>1. \A j \in Invoices : version[j] # 0 => version'[j] # 0
        BY <1>1, <2>1
      <3>2. version'[i] # 0
        BY <1>1, <2>1
      <3> QED BY <1>3, <2>4, <3>1, <3>2 DEF ListedExists
    <2> QED BY <1>1, <1>2, <1>4, <2>1, <2>2, <2>3, <2>5, ZohoMoves
  <1>6. CASE ZohoDelete(i)
    <2>1. PICK k \in DOMAIN listing : listing' = RemoveAt(listing, k)
      BY <1>6 DEF ZohoDelete
    <2>2. PagesMove /\ version' = version /\ void' = void
      BY <1>6 DEF ZohoDelete
    <2>3. /\ listing' \in Seq(Invoices)
          /\ \A m \in DOMAIN listing' : \E j \in DOMAIN listing : listing'[m] = listing[j]
      <3> PICK n : n = Len(listing)
        OBVIOUS
      <3>1. n \in Nat /\ DOMAIN listing = 1..n /\ k \in 1..n
        BY <1>1
      <3>2. /\ listing' \in Seq(Invoices) /\ Len(listing') = n - 1
            /\ \A m \in 1..(n - 1) : listing'[m] = IF m < k THEN listing[m] ELSE listing[m + 1]
        BY <1>1, <2>1, <3>1, RemovedAt
      <3>3. DOMAIN listing' = 1..(n - 1)
        BY <3>1, <3>2
      <3>4. ASSUME NEW m \in 1..(n - 1) PROVE \E j \in 1..n : listing'[m] = listing[j]
        <4>1. m \in 1..n /\ m + 1 \in 1..n
          BY <3>1
        <4> QED BY <3>2, <4>1
      <3> QED BY <3>1, <3>2, <3>3, <3>4
    <2>4. ListedExists'
      BY <1>3, <2>2, <2>3 DEF ListedExists
    <2>5. \A j \in Invoices : version'[j] >= version[j]
      BY <1>1, <2>2, Bounds
    <2> QED BY <1>1, <1>2, <1>4, <2>2, <2>3, <2>4, <2>5, ZohoMoves
  <1>7. CASE ZohoEdit(i)
    <2>1. /\ version[i] \in 1..(MaxVersion - 1) /\ version' = [version EXCEPT ![i] = @ + 1]
          /\ listing' = listing /\ void' = void /\ refresh' = refresh
      BY <1>7 DEF ZohoEdit, program
    <2>2. version' \in [Invoices -> 0..MaxVersion] /\ \A j \in Invoices : version'[j] >= version[j]
      BY <1>1, <2>1, Bounds
    <2>3. \A j \in Invoices : version[j] # 0 => version'[j] # 0
      BY <1>1, <2>1, Bounds
    <2>4. ListedExists'
      BY <1>3, <2>1, <2>3 DEF ListedExists
    <2> QED BY <1>1, <1>2, <1>4, <2>1, <2>2, <2>4, ZohoMoves
  <1>8. CASE ZohoStatus(i)
    <2>1. /\ void' \subseteq Invoices /\ version' = version /\ listing' = listing /\ refresh' = refresh
      BY <1>1, <1>8 DEF ZohoStatus, program
    <2>2. ListedExists' /\ \A j \in Invoices : version'[j] >= version[j]
      BY <1>1, <1>3, <2>1, Bounds DEF ListedExists
    <2> QED BY <1>1, <1>2, <1>4, <2>1, <2>2, ZohoMoves
  <1> QED BY <1>5, <1>6, <1>7, <1>8

LEMMA SmallerBounds ==
    ASSUME NEW a \in Nat, NEW b \in Nat
    PROVE  Smaller(a, b) \in Nat /\ Smaller(a, b) <= b
  BY DEF Smaller

\* The rows of a page.
LEMMA PageRows ==
    ASSUME FreshInv, NEW k \in 1..MaxPages, PageSize * (k - 1) < Len(listing)
    PROVE  Page(k) \in Seq(Rows) /\ NotAhead(Page(k))
  <1>1. /\ listing \in Seq(Invoices) /\ version \in [Invoices -> 0..MaxVersion]
        /\ void \subseteq Invoices
    BY DEF FreshInv, InvoiceTypeOK
  <1> PICK n : n = PageSize * (k - 1)
    OBVIOUS
  <1>2. n \in Nat
    BY Bounds
  <1> PICK m : m = Smaller(PageSize, Len(listing) - n)
    OBVIOUS
  <1>3. m \in Nat /\ m <= Len(listing) - n
    <2>1. n < Len(listing)
      OBVIOUS
    <2>2. Len(listing) \in Nat
      BY <1>1
    <2> PICK left : left = Len(listing) - n
      OBVIOUS
    <2>3. left \in Nat
      BY <1>2, <2>1, <2>2
    <2>4. PageSize \in Nat
      BY Bounds
    <2>5. m = Smaller(PageSize, left)
      OBVIOUS
    <2>6. m \in Nat /\ m <= left
      BY <2>3, <2>4, <2>5, SmallerBounds
    <2> QED BY <2>6
  <1>4. Page(k) = [j \in 1..m |-> RowNow(listing[n + j])]
    BY DEF Page
  <1>5. ASSUME NEW j \in 1..m
        PROVE  /\ RowNow(listing[n + j]) \in Rows
               /\ RowNow(listing[n + j]).modified = version[RowNow(listing[n + j]).id]
               /\ version[RowNow(listing[n + j]).id] \in Nat
    <2>1. n + j \in DOMAIN listing
      BY <1>1, <1>2, <1>3
    <2>2. listing[n + j] \in Invoices /\ version[listing[n + j]] # 0
      BY <1>1, <2>1 DEF FreshInv, ListedExists
    <2>3. version[listing[n + j]] \in Versions
      BY <1>1, <2>2, Bounds DEF Versions
    <2> QED BY <2>2, <2>3 DEF RowNow, Rows, Versions
  <1>6. Page(k) \in Seq(Rows)
    BY <1>3, <1>4, <1>5
  <1>7. DOMAIN Page(k) = 1..m /\ \A j \in 1..m : Page(k)[j] = RowNow(listing[n + j])
    BY <1>4
  <1> QED BY <1>5, <1>6, <1>7 DEF NotAhead

LEMMA NotAheadConcat ==
    ASSUME NEW r \in Seq(Rows), NEW s \in Seq(Rows), NotAhead(r), NotAhead(s)
    PROVE  r \o s \in Seq(Rows) /\ NotAhead(r \o s)
  <1>1. /\ r \o s \in Seq(Rows) /\ Len(r \o s) = Len(r) + Len(s)
        /\ \A i \in 1..(Len(r) + Len(s)) : (r \o s)[i] = IF i <= Len(r) THEN r[i] ELSE s[i - Len(r)]
    BY ConcatProperties
  <1>2. ASSUME NEW i \in 1..(Len(r) + Len(s))
        PROVE  (r \o s)[i].modified <= version[(r \o s)[i].id]
    <2>1. Len(r) \in Nat /\ Len(s) \in Nat /\ DOMAIN r = 1..Len(r) /\ DOMAIN s = 1..Len(s)
      OBVIOUS
    <2>2. CASE i <= Len(r)
      BY <1>1, <2>1, <2>2 DEF NotAhead
    <2>3. CASE ~(i <= Len(r))
      <3>1. i - Len(r) \in DOMAIN s
        BY <2>1, <2>3
      <3>2. (r \o s)[i] = s[i - Len(r)]
        BY <1>1, <2>3
      <3> QED BY <3>1, <3>2 DEF NotAhead
    <2> QED BY <2>2, <2>3
  <1>3. DOMAIN (r \o s) = 1..(Len(r) + Len(s))
    BY <1>1
  <1> QED BY <1>1, <1>2, <1>3 DEF NotAhead

LEMMA ListSteps ==
    ASSUME FreshInv, NEW c \in Refreshes, ListFromCache(c) \/ ListStart(c) \/ ReadPage(c)
    PROVE  FreshInv'
  <1>1. InvoiceTypeOK /\ listCache.rows \in Seq(Rows) /\ listCache.moved \in BOOLEAN
    BY DEF FreshInv, InvoiceTypeOK
  <1>2. /\ listing' = listing /\ version' = version /\ void' = void /\ changes' = changes
        /\ detail' = detail /\ stored' = stored /\ loaded' = loaded
    BY DEF ListFromCache, ListStart, ReadPage, zoho
  <1>3. /\ detail' \in [Invoices -> Details \cup {NoDetail}] /\ AsNewAsKey(detail)'
        /\ stored' \in [Invoices -> Details \cup {NoDetail}] /\ AsNewAsKey(stored)'
        /\ loaded' \in BOOLEAN
    BY <1>2 DEF FreshInv, InvoiceTypeOK, AsNewAsKey
  <1>4. CASE ListFromCache(c)
    <2> PICK r : r = [op |-> "listed", rows |-> listCache.rows, moved |-> listCache.moved]
      OBVIOUS
    <2>1. refresh' = [refresh EXCEPT ![c] = r] /\ listCache' = listCache
      BY <1>4 DEF ListFromCache
    <2>2. r \in RefreshStates /\ ~Fetched(r) /\ r.rows = listCache.rows
      BY <1>1 DEF RefreshStates, Fetched
    <2>3. NotAhead(r.rows)
      BY <2>2 DEF FreshInv
    <2> QED BY <1>2, <1>3, <2>1, <2>2, <2>3, RequestMoves
  <1>5. CASE ListStart(c)
    <2> PICK r : r = [op |-> "paging", rows |-> <<>>, page |-> 1, moved |-> FALSE]
      OBVIOUS
    <2>1. refresh' = [refresh EXCEPT ![c] = r] /\ listCache' = listCache
      BY <1>5 DEF ListStart
    <2>2. <<>> \in Seq(Rows)
      OBVIOUS
    <2>3. 1 \in 1..MaxPages
      BY Bounds
    <2>4. r \in RefreshStates /\ ~Fetched(r) /\ r.rows = <<>>
      BY <2>2, <2>3 DEF RefreshStates, Fetched
    <2>5. NotAhead(r.rows)
      BY <2>4 DEF NotAhead
    <2> QED BY <1>2, <1>3, <2>1, <2>4, <2>5, RequestMoves
  <1>6. CASE ReadPage(c)
    <2> PICK r : r = refresh[c]
      OBVIOUS
    <2> PICK more : more = (IF PageSize * (r.page - 1) < Len(listing) THEN Page(r.page) ELSE <<>>)
      OBVIOUS
    <2>1. r.op = "paging"
      BY <1>6 DEF ReadPage
    <2>2. r \in RefreshStates /\ r \in [op : {"paging"}, rows : Seq(Rows), page : 1..MaxPages, moved : BOOLEAN]
      BY <1>1, <2>1, ReqTypes, PagingType
    <2>3. NotAhead(r.rows)
      BY <2>1 DEF FreshInv, NoRefresh
    <2>4. more \in Seq(Rows) /\ NotAhead(more)
      <3>1. <<>> \in Seq(Rows) /\ NotAhead(<<>>)
        BY DEF NotAhead
      <3> QED BY <2>2, <3>1, PageRows
    <2> PICK rows : rows = r.rows \o more
      OBVIOUS
    <2>5. rows \in Seq(Rows) /\ NotAhead(rows)
      BY <2>2, <2>3, <2>4, NotAheadConcat
    <2>6. CASE HasMore(r.page) /\ r.page < MaxPages
      <3> PICK q : q = [r EXCEPT !.rows = rows, !.page = @ + 1]
        OBVIOUS
      <3>1. listCache' = listCache /\ refresh' = [refresh EXCEPT ![c].rows = rows, ![c].page = @ + 1]
        BY <1>6, <2>6 DEF ReadPage
      <3>2. refresh' = [refresh EXCEPT ![c] = q]
        BY <3>1, <1>1 DEF InvoiceTypeOK
      <3>3. r.page + 1 \in 1..MaxPages
        BY <2>2, <2>6, Bounds
      <3>4. q \in [op : {"paging"}, rows : Seq(Rows), page : 1..MaxPages, moved : BOOLEAN] /\ q.rows = rows
        BY <2>2, <2>5, <3>3
      <3>5. q \in RefreshStates /\ ~Fetched(q)
        BY <3>4 DEF RefreshStates, Fetched
      <3> QED BY <1>2, <1>3, <2>5, <3>1, <3>2, <3>4, <3>5, RequestMoves
    <2>7. CASE ~(HasMore(r.page) /\ r.page < MaxPages)
      <3> PICK q : q = [op |-> "listed", rows |-> rows, moved |-> r.moved]
        OBVIOUS
      <3>1. refresh' = [refresh EXCEPT ![c] = q] /\ listCache' = [rows |-> rows, moved |-> r.moved]
        BY <1>6, <2>7 DEF ReadPage
      <3>2. q \in RefreshStates /\ ~Fetched(q) /\ q.rows = rows /\ q.moved = r.moved /\ q # NoRefresh
        BY <2>2, <2>5 DEF RefreshStates, Fetched, NoRefresh
      <3> QED BY <1>2, <1>3, <2>5, <3>1, <3>2, RequestMoves
    <2> QED BY <2>6, <2>7
  <1> QED BY <1>4, <1>5, <1>6

\* A refresh that has its rows, and what its reads are.
LEMMA FetchedType ==
    ASSUME NEW r \in RefreshStates, Fetched(r)
    PROVE  r \in [op : {"reading", "saving", "ready"}, rows : Seq(Rows), moved : BOOLEAN,
                  got : Seq(Reads), pending : Nat, crossed : BOOLEAN]
  BY DEF RefreshStates, NoRefresh, Fetched

LEMMA ListedType ==
    ASSUME NEW r \in RefreshStates, r.op = "listed"
    PROVE  r \in [op : {"listed"}, rows : Seq(Rows), moved : BOOLEAN]
  BY DEF RefreshStates, NoRefresh

LEMMA RefreshSteps ==
    ASSUME FreshInv, NEW c \in Refreshes, Choose(c) \/ FetchDetail(c) \/ Persist(c)
    PROVE  FreshInv'
  <1> PICK r : r = refresh[c]
    OBVIOUS
  <1>1. /\ InvoiceTypeOK /\ r \in RefreshStates /\ refresh \in [Refreshes -> RefreshStates]
        /\ detail \in [Invoices -> Details \cup {NoDetail}] /\ AsNewAsKey(detail)
        /\ stored \in [Invoices -> Details \cup {NoDetail}] /\ AsNewAsKey(stored)
        /\ loaded \in BOOLEAN /\ version \in [Invoices -> 0..MaxVersion] /\ listing \in Seq(Invoices)
    BY DEF FreshInv, InvoiceTypeOK
  <1>2. /\ listing' = listing /\ version' = version /\ void' = void /\ changes' = changes
        /\ detail' = detail /\ loaded' = loaded /\ listCache' = listCache
    BY DEF Choose, FetchDetail, Persist, zoho
  <1>3. AsNewAsKey(detail)'
    BY <1>1, <1>2 DEF AsNewAsKey
  <1>4. r # NoRefresh => NotAhead(r.rows)
    BY DEF FreshInv
  <1>5. Fetched(r) => ReadAfterListed(r)
    BY DEF FreshInv
  <1>6. CASE Choose(c)
    <2> DEFINE batchOf(n) == FirstOf(Missing(r.rows), n)
               next(n) == [op |-> "reading", rows |-> r.rows, moved |-> r.moved,
                           got |-> [k \in DOMAIN r.rows |-> IF k \in batchOf(n) THEN Unread ELSE Left],
                           pending |-> Cardinality(Missing(r.rows) \ batchOf(n)), crossed |-> FALSE]
    <2>1. r.op = "listed" /\ stored' = stored /\ \E n \in ReadLimits : refresh' = [refresh EXCEPT ![c] = next(n)]
      BY <1>6 DEF Choose
    <2>2. r.rows \in Seq(Rows) /\ r.moved \in BOOLEAN /\ r # NoRefresh
      BY <1>1, <2>1, ListedType DEF NoRefresh
    <2>3. PICK n \in ReadLimits : refresh' = [refresh EXCEPT ![c] = next(n)]
      BY <2>1
    <2> PICK batch : batch = batchOf(n)
      OBVIOUS
    <2> PICK got : got = [k \in DOMAIN r.rows |-> IF k \in batch THEN Unread ELSE Left]
      OBVIOUS
    <2> PICK pending : pending = Cardinality(Missing(r.rows) \ batch)
      OBVIOUS
    <2>4. refresh' = [refresh EXCEPT ![c] = [op |-> "reading", rows |-> r.rows, moved |-> r.moved,
                                     got |-> got, pending |-> pending, crossed |-> FALSE]]
      BY <2>3
    <2>5. pending \in Nat
      <3>1. Len(r.rows) \in Nat /\ DOMAIN r.rows = 1..Len(r.rows)
        BY <2>2
      <3>2. Missing(r.rows) \ batch \subseteq 1..Len(r.rows)
        BY <3>1 DEF Missing
      <3>3. IsFiniteSet(1..Len(r.rows))
        <4>1. Len(r.rows) \in Int /\ 1 \in Int
          BY <3>1
        <4> QED BY <4>1, FS_Interval
      <3> QED BY <3>2, <3>3, FS_Subset, FS_CardinalityType
    <2>6. got \in Seq(Reads)
      <3>1. DOMAIN r.rows = 1..Len(r.rows) /\ Len(r.rows) \in Nat
        BY <2>2
      <3>2. got \in [1..Len(r.rows) -> Reads]
        BY <3>1 DEF Reads
      <3> QED BY <3>1, <3>2
    <2>7. DOMAIN got = DOMAIN r.rows /\ \A k \in DOMAIN got : got[k] \notin Versions
      BY DEF Unread, Left, Versions
    <2> HIDE DEF batchOf, next
    <2> PICK q : q = [op |-> "reading", rows |-> r.rows, moved |-> r.moved,
                      got |-> got, pending |-> pending, crossed |-> FALSE]
      OBVIOUS
    <2>8. q \in RefreshStates /\ Fetched(q) /\ q.rows = r.rows
      BY <2>2, <2>5, <2>6 DEF RefreshStates, Fetched
    <2>9. ReadAfterListed(q)
      BY <2>7 DEF ReadAfterListed, Read
    <2> QED BY <1>1, <1>2, <1>3, <1>4, <2>1, <2>2, <2>4, <2>8, <2>9, RequestMoves
  <1>7. CASE FetchDetail(c)
    <2>1. r.op = "reading" /\ stored' = stored
      BY <1>7 DEF FetchDetail
    <2>2. r \in [op : {"reading", "saving", "ready"}, rows : Seq(Rows), moved : BOOLEAN,
                 got : Seq(Reads), pending : Nat, crossed : BOOLEAN]
      BY <1>1, <2>1, FetchedType DEF Fetched
    <2>3. \E k \in DOMAIN r.got :
            \E seen \in {Failed, version[r.rows[k].id]} :
              /\ seen # Failed => version[r.rows[k].id] # 0
              /\ refresh' = [refresh EXCEPT ![c].got[k] = seen]
      <3>1. PICK k \in DOMAIN r.got :
              \E seen \in {Failed} \cup (IF \E j \in DOMAIN listing : listing[j] = r.rows[k].id
                                         THEN {version[r.rows[k].id]} ELSE {}) :
                refresh' = [refresh EXCEPT ![c].got[k] = seen]
        BY <1>7 DEF FetchDetail
      <3>2. (\E j \in DOMAIN listing : listing[j] = r.rows[k].id) => version[r.rows[k].id] # 0
        BY DEF FreshInv, ListedExists
      <3> QED BY <3>1, <3>2
    <2> PICK k \in DOMAIN r.got :
          \E seen \in {Failed, version[r.rows[k].id]} :
            /\ seen # Failed => version[r.rows[k].id] # 0
            /\ refresh' = [refresh EXCEPT ![c].got[k] = seen]
      BY <2>3
    <2>4. PICK seen \in {Failed, version[r.rows[k].id]} :
            /\ seen # Failed => version[r.rows[k].id] # 0
            /\ refresh' = [refresh EXCEPT ![c].got[k] = seen]
      OBVIOUS
    <2>5. k \in DOMAIN r.rows /\ DOMAIN r.got = DOMAIN r.rows
      BY <1>5, <2>1 DEF Fetched, ReadAfterListed
    <2>6. r.rows[k].id \in Invoices /\ r.rows[k].modified \in Nat
      BY <2>2, <2>5, RowTypes
    <2>7. seen \in Reads
      BY <1>1, <2>4, <2>6, Bounds DEF Reads, Versions
    <2>8. seen \in Versions => seen >= r.rows[k].modified
      BY <1>4, <2>1, <2>4, <2>5 DEF NotAhead, Failed, Versions, NoRefresh
    <2> PICK got : got = [r.got EXCEPT ![k] = seen]
      OBVIOUS
    <2>9. /\ got \in Seq(Reads) /\ DOMAIN got = DOMAIN r.got /\ got[k] = seen
          /\ \A j \in DOMAIN got : j # k => got[j] = r.got[j]
      BY <2>2, <2>4, <2>7
    <2> PICK q : q = [r EXCEPT !.got = got]
      OBVIOUS
    <2>10. refresh' = [refresh EXCEPT ![c] = q]
      BY <1>1, <2>4
    <2>11. /\ q \in [op : {"reading", "saving", "ready"}, rows : Seq(Rows), moved : BOOLEAN,
                     got : Seq(Reads), pending : Nat, crossed : BOOLEAN]
           /\ q.rows = r.rows /\ q.got = got
      BY <2>2, <2>9
    <2>12. q \in RefreshStates /\ Fetched(q)
      BY <2>11 DEF RefreshStates, Fetched
    <2>13. ReadAfterListed(q)
      BY <1>5, <2>1, <2>5, <2>8, <2>9, <2>11 DEF ReadAfterListed, Read, Fetched
    <2>14. NotAhead(q.rows)
      BY <1>4, <2>1, <2>11 DEF NoRefresh
    <2> QED BY <1>1, <1>2, <1>3, <2>1, <2>10, <2>12, <2>13, <2>14, RequestMoves
  <1>8. CASE Persist(c)
    <2>1. /\ r.op = "saving" /\ Fetched(r)
          /\ stored' = [i \in Invoices |-> FreshDetail(r, i, stored[i])]
          /\ refresh' = [refresh EXCEPT ![c].op = "ready"]
      BY <1>8 DEF Persist, Fetched
    <2>2. r \in [op : {"reading", "saving", "ready"}, rows : Seq(Rows), moved : BOOLEAN,
                 got : Seq(Reads), pending : Nat, crossed : BOOLEAN]
      BY <1>1, <2>1, FetchedType
    <2> PICK q : q = [r EXCEPT !.op = "ready"]
      OBVIOUS
    <2>3. /\ q \in [op : {"reading", "saving", "ready"}, rows : Seq(Rows), moved : BOOLEAN,
                    got : Seq(Reads), pending : Nat, crossed : BOOLEAN]
          /\ q.rows = r.rows /\ q.got = r.got
      BY <2>2
    <2>4. q \in RefreshStates /\ Fetched(q) /\ ReadAfterListed(q)
      BY <1>5, <2>1, <2>3 DEF RefreshStates, Fetched, ReadAfterListed, Read
    <2>5. NotAhead(q.rows)
      BY <1>4, <2>1, <2>3 DEF NoRefresh
    <2>6. refresh' = [refresh EXCEPT ![c] = q]
      BY <1>1, <2>1
    <2>7. \A i \in Invoices : /\ stored'[i] \in Details \cup {NoDetail}
                              /\ stored'[i].modified # 0 => stored'[i].seen >= stored'[i].modified
      <3> SUFFICES ASSUME NEW i \in Invoices
                   PROVE  LET new == FreshDetail(r, i, stored[i])
                          IN new \in Details \cup {NoDetail} /\ (new.modified # 0 => new.seen >= new.modified)
        BY <2>1
      <3> PICK d : d = stored[i]
        OBVIOUS
      <3>1. d \in Details \cup {NoDetail} /\ (d.modified # 0 => d.seen >= d.modified)
        BY <1>1 DEF AsNewAsKey
      <3> QED BY <2>1, <3>1, FreshDetails
    <2>8. stored' \in [Invoices -> Details \cup {NoDetail}] /\ AsNewAsKey(stored)'
      BY <2>1, <2>7 DEF AsNewAsKey
    <2> QED BY <1>1, <1>2, <1>3, <2>4, <2>5, <2>6, <2>8, RequestMoves
  <1> QED BY <1>6, <1>7, <1>8

\* The steps that fill or empty the cache.
LEMMA CacheSteps ==
    ASSUME FreshInv,
           \/ ListExpires \/ Restart
           \/ \E c \in Refreshes : LoadDetails(c) \/ Settle(c) \/ Answer(c) \/ Fails(c)
    PROVE  FreshInv'
  <1>1. /\ InvoiceTypeOK /\ refresh \in [Refreshes -> RefreshStates]
        /\ detail \in [Invoices -> Details \cup {NoDetail}] /\ AsNewAsKey(detail)
        /\ stored \in [Invoices -> Details \cup {NoDetail}] /\ AsNewAsKey(stored)
        /\ loaded \in BOOLEAN
    BY DEF FreshInv, InvoiceTypeOK
  <1>2. NoRefresh \in RefreshStates /\ ~Fetched(NoRefresh)
    BY DEF RefreshStates, Fetched, NoRefresh
  <1>3. CASE ListExpires
    <2>1. /\ listCache' = NoList /\ refresh' = refresh /\ detail' = detail /\ stored' = stored /\ loaded' = loaded
          /\ listing' = listing /\ version' = version /\ void' = void /\ changes' = changes
      BY <1>3 DEF ListExpires, zoho
    <2>2. AsNewAsKey(detail)'
      BY <1>1, <2>1 DEF AsNewAsKey
    <2> QED BY <1>1, <2>1, <2>2, RequestsKeep
  <1>4. CASE Restart
    <2>1. /\ listCache' = NoList /\ refresh' = [c \in Refreshes |-> NoRefresh] /\ stored' = stored /\ loaded' = FALSE
          /\ detail' = [i \in Invoices |-> NoDetail]
          /\ listing' = listing /\ version' = version /\ void' = void /\ changes' = changes
      BY <1>4 DEF Restart, zoho
    <2>2. AsNewAsKey(detail)' /\ detail' \in [Invoices -> Details \cup {NoDetail}]
      BY <2>1 DEF AsNewAsKey, NoDetail
    <2>3. refresh' \in [Refreshes -> RefreshStates] /\ \A c \in Refreshes : refresh'[c] = NoRefresh
      BY <1>2, <2>1
    <2> QED BY <1>2, <2>1, <2>2, <2>3, RequestsKeep
  <1>5. ASSUME NEW c \in Refreshes, LoadDetails(c) PROVE FreshInv'
    <2>1. /\ listCache' = listCache /\ refresh' = refresh /\ stored' = stored /\ loaded' = TRUE
          /\ detail' = [i \in Invoices |-> IF stored[i] = NoDetail THEN detail[i] ELSE stored[i]]
          /\ listing' = listing /\ version' = version /\ void' = void /\ changes' = changes
      BY <1>5 DEF LoadDetails, zoho
    <2>2. AsNewAsKey(detail)' /\ detail' \in [Invoices -> Details \cup {NoDetail}]
      BY <1>1, <2>1 DEF AsNewAsKey
    <2> QED BY <1>1, <2>1, <2>2, RequestsKeep
  <1>6. ASSUME NEW c \in Refreshes, Answer(c) \/ Fails(c) PROVE FreshInv'
    <2>1. /\ listCache' = listCache /\ refresh' = [refresh EXCEPT ![c] = NoRefresh] /\ stored' = stored
          /\ loaded' = loaded /\ detail' = detail
          /\ listing' = listing /\ version' = version /\ void' = void /\ changes' = changes
      BY <1>6 DEF Answer, Fails, zoho
    <2>2. AsNewAsKey(detail)'
      BY <1>1, <2>1 DEF AsNewAsKey
    <2>3. refresh' \in [Refreshes -> RefreshStates] /\ refresh'[c] = NoRefresh /\ \A d \in Refreshes : d # c => refresh'[d] = refresh[d]
      BY <1>1, <1>2, <2>1
    <2> QED BY <1>1, <1>2, <2>1, <2>2, <2>3, RequestsKeep
  <1>7. ASSUME NEW c \in Refreshes, Settle(c) PROVE FreshInv'
    <2> PICK r : r = refresh[c]
      OBVIOUS
    <2>1. /\ r.op = "reading" /\ Fetched(r)
          /\ listCache' = listCache /\ stored' = stored /\ loaded' = loaded
          /\ detail' = [i \in Invoices |-> FreshDetail(r, i, detail[i])]
          /\ listing' = listing /\ version' = version /\ void' = void /\ changes' = changes
      BY <1>7 DEF Settle, zoho, Fetched
    <2>2. \A i \in Invoices : /\ detail'[i] \in Details \cup {NoDetail}
                              /\ detail'[i].modified # 0 => detail'[i].seen >= detail'[i].modified
      <3> SUFFICES ASSUME NEW i \in Invoices
                   PROVE  LET new == FreshDetail(r, i, detail[i])
                          IN new \in Details \cup {NoDetail} /\ (new.modified # 0 => new.seen >= new.modified)
        BY <2>1
      <3> PICK d : d = detail[i]
        OBVIOUS
      <3>1. d \in Details \cup {NoDetail} /\ (d.modified # 0 => d.seen >= d.modified)
        BY <1>1 DEF AsNewAsKey
      <3> QED BY <2>1, <3>1, FreshDetails
    <2>3. detail' \in [Invoices -> Details \cup {NoDetail}] /\ AsNewAsKey(detail)'
      BY <2>1, <2>2 DEF AsNewAsKey
    <2> DEFINE next(d) == IF d = c THEN [refresh[c] EXCEPT !.op = IF Read(refresh[c]) = {} THEN "ready" ELSE "saving"]
                          ELSE IF refresh[d].op \in {"reading", "saving", "ready"} /\ Read(refresh[c]) # {}
                          THEN [refresh[d] EXCEPT !.crossed = TRUE]
                          ELSE refresh[d]
    <2>4. refresh' = [d \in Refreshes |-> next(d)]
      BY <1>7 DEF Settle
    <2>5. ASSUME NEW d \in Refreshes
          PROVE  \/ next(d) = refresh[d]
                 \/ /\ Fetched(refresh[d]) /\ next(d) \in RefreshStates
                    /\ next(d).rows = refresh[d].rows /\ next(d).got = refresh[d].got
      <3>1. CASE Fetched(refresh[d])
        <4>1. refresh[d] \in [op : {"reading", "saving", "ready"}, rows : Seq(Rows), moved : BOOLEAN,
                          got : Seq(Reads), pending : Nat, crossed : BOOLEAN]
          BY <1>1, <3>1, FetchedType
        <4>2. \E op \in {"reading", "saving", "ready"}, crossed \in BOOLEAN :
                next(d) = [refresh[d] EXCEPT !.op = op, !.crossed = crossed]
          <5>1. \A op : [refresh[d] EXCEPT !.op = op] = [refresh[d] EXCEPT !.op = op, !.crossed = refresh[d].crossed]
            BY <4>1
          <5>2. \A crossed : [refresh[d] EXCEPT !.crossed = crossed]
                               = [refresh[d] EXCEPT !.op = refresh[d].op, !.crossed = crossed]
            BY <4>1
          <5>3. refresh[d] = [refresh[d] EXCEPT !.op = refresh[d].op, !.crossed = refresh[d].crossed]
            BY <4>1
          <5>4. refresh[d].op \in {"reading", "saving", "ready"} /\ refresh[d].crossed \in BOOLEAN
            BY <4>1
          <5>5. CASE d = c
            BY <5>1, <5>4, <5>5
          <5>6. CASE d # c
            BY <5>2, <5>3, <5>4, <5>6
          <5> QED BY <5>5, <5>6
        <4>3. PICK op \in {"reading", "saving", "ready"}, crossed \in BOOLEAN :
                next(d) = [refresh[d] EXCEPT !.op = op, !.crossed = crossed]
          BY <4>2
        <4> HIDE DEF next
        <4>4. /\ next(d) \in [op : {"reading", "saving", "ready"}, rows : Seq(Rows), moved : BOOLEAN,
                              got : Seq(Reads), pending : Nat, crossed : BOOLEAN]
              /\ next(d).rows = refresh[d].rows /\ next(d).got = refresh[d].got
          BY <4>1, <4>3
        <4> QED BY <3>1, <4>4 DEF RefreshStates
      <3>2. CASE ~Fetched(refresh[d])
        BY <2>1, <3>2 DEF Fetched
      <3> QED BY <3>1, <3>2
    <2> HIDE DEF next
    <2>6. refresh' \in [Refreshes -> RefreshStates]
      BY <1>1, <2>4, <2>5
    <2>7. \A d \in Refreshes : refresh'[d] = next(d)
      BY <2>4
    <2>8. \A d \in Refreshes : Fetched(refresh[d]) => refresh[d] # NoRefresh
      BY <1>2
    <2> QED BY <1>1, <2>1, <2>3, <2>5, <2>6, <2>7, <2>8, RequestsKeep
  <1> QED BY <1>3, <1>4, <1>5, <1>6, <1>7

LEMMA StepKeepsFresh == FreshInv /\ [InvoiceNext]_invoiceVars => FreshInv'
  <1> SUFFICES ASSUME FreshInv, [InvoiceNext]_invoiceVars PROVE FreshInv'
    OBVIOUS
  <1>1. CASE UNCHANGED invoiceVars
    <2>1. /\ listing' = listing /\ version' = version /\ void' = void /\ changes' = changes
          /\ listCache' = listCache /\ detail' = detail /\ loaded' = loaded /\ stored' = stored
          /\ refresh' = refresh
      BY <1>1 DEF invoiceVars
    <2> QED BY <2>1 DEF FreshInv, InvoiceTypeOK, ListedExists, NotAhead, AsNewAsKey, Fetched, ReadAfterListed, Read
  <1>2. CASE InvoiceNext
    BY <1>2, ZohoSteps, ListSteps, RefreshSteps, CacheSteps DEF InvoiceNext
  <1> QED BY <1>1, <1>2

LEMMA FreshIsNotStale == FreshInv => NoStaleLines
  <1> SUFFICES ASSUME FreshInv, NEW c \in Refreshes, Ready(c), NEW k \in DOMAIN refresh[c].rows,
                      detail[refresh[c].rows[k].id].modified = refresh[c].rows[k].modified
               PROVE  detail[refresh[c].rows[k].id].seen >= refresh[c].rows[k].modified
    <2>1. \A c \in Refreshes : Ready(c) => DOMAIN Served(c) = DOMAIN refresh[c].rows
      BY DEF Served
    <2> QED BY <2>1 DEF NoStaleLines, Served
  <1>1. refresh[c].rows \in Seq(Rows)
    BY ReqTypes DEF FreshInv, Ready, NoRefresh
  <1>2. refresh[c].rows[k].id \in Invoices /\ refresh[c].rows[k].modified # 0
    BY <1>1, RowTypes
  <1> QED BY <1>2 DEF FreshInv, AsNewAsKey

\* The type of the state.
THEOREM InvoicesTyped == InvoiceSpec => []InvoiceTypeOK
  BY InitFresh, StepKeepsFresh, PTL DEF InvoiceSpec, FreshInv

\* No answer shows line items older than the version of the invoice it lists.
THEOREM NoAnswerIsStale == InvoiceSpec => []NoStaleLines
  BY InitFresh, StepKeepsFresh, FreshIsNotStale, PTL DEF InvoiceSpec

-----------------------------------------------------------------------------
(* The two figures made of the same invoices                                *)

\* The invoices of an answer: finitely many, with line items that were read.
IsAnswer(a) ==
    /\ IsFiniteSet(DOMAIN a)
    /\ \A k \in DOMAIN a : a[k].id \in Invoices /\ a[k].seen \in 0..MaxVersion

LEMMA FiniteCustomers ==
    /\ IsFiniteSet(Customers) /\ IsFiniteSet(Products) /\ IsFiniteSet(Customers \X Products)
  <1>1. IsFiniteSet(Invoices) /\ IsFiniteSet(Products)
    BY FiniteAssumption
  <1> DEFINE f == [i \in Invoices |-> Customer[i]]
  <1>2. f \in Surjection(Invoices, Customers)
    <2>1. f \in [Invoices -> Customers]
      BY DEF Customers
    <2>2. \A t \in Customers : \E i \in Invoices : f[i] = t
      BY DEF Customers
    <2> QED BY <2>1, <2>2 DEF Surjection
  <1>3. IsFiniteSet(Customers)
    BY <1>1, <1>2, FS_Surjection
  <1> QED BY <1>1, <1>3, FS_Product

\* What an invoice bills is a number.
LEMMA BillsNat ==
    ASSUME NEW a, IsAnswer(a), NEW k \in DOMAIN a, NEW p \in Products
    PROVE  Bills(a[k], p) \in Nat
  <1> PICK x : x = a[k]
    OBVIOUS
  <1>1. x.id \in Invoices /\ x.seen \in 0..MaxVersion
    BY DEF IsAnswer
  <1>2. CASE x.seen = 0
    BY <1>2 DEF Bills
  <1>3. CASE x.seen # 0
    <2>1. x.seen \in 1..MaxVersion
      BY <1>1, <1>3, Bounds
    <2>2. Amount[x.id] \in [1..MaxVersion -> [Products -> Nat]]
      BY <1>1, AmountAssumption
    <2>3. Amount[x.id][x.seen] \in [Products -> Nat]
      BY <2>1, <2>2
    <2>4. Amount[x.id][x.seen][p] \in Nat
      BY <2>3
    <2> QED BY <1>3, <2>4 DEF Bills
  <1> QED BY <1>2, <1>3

\* The cells of one customer hold all of a sum over customers and products.
LEMMA OneCustomerCells ==
    ASSUME NEW customer \in Customers, NEW w, \A p \in Products : w[p] \in Int, NEW g,
           \A cu \in Customers, p \in Products : g[<<cu, p>>] = IF customer = cu THEN w[p] ELSE 0
    PROVE  SumOver(g, Customers \X Products) = SumOver(w, Products)
  <1> DEFINE line(cu) == [p \in Products |-> g[<<cu, p>>]]
             lines == [cu \in Customers |-> SumOver(line(cu), Products)]
  <1>1. ASSUME NEW cu \in Customers, NEW p \in Products PROVE g[<<cu, p>>] \in Int
    <2>1. g[<<cu, p>>] = IF customer = cu THEN w[p] ELSE 0
      OBVIOUS
    <2>2. w[p] \in Int
      OBVIOUS
    <2> QED BY <2>1, <2>2
  <1>2. SumOver(g, Customers \X Products) = SumOver(lines, Customers)
    BY <1>1, FiniteCustomers, SumPairs
  <1>3. \A p \in Products : line(customer)[p] \in Int /\ line(customer)[p] = w[p]
    OBVIOUS
  <1>4. \A cu \in Customers \ {customer} : \A p \in Products : line(cu)[p] = 0
    OBVIOUS
  <1>5. \A cu \in Customers : lines[cu] = SumOver(line(cu), Products)
    OBVIOUS
  <1> HIDE DEF line, lines
  <1>6. SumOver(line(customer), Products) = SumOver(w, Products)
    BY <1>3, FiniteCustomers, SumSame
  <1>7. \A cu \in Customers \ {customer} : lines[cu] = 0
    BY <1>4, <1>5, FiniteCustomers, SumZeros
  <1>8. lines[customer] = SumOver(w, Products) /\ SumOver(w, Products) \in Int
    BY <1>5, <1>6, FiniteCustomers, SumInt
  <1>9. SumOver(lines, Customers) = lines[customer]
    BY <1>7, <1>8, FiniteCustomers, SumOnly
  <1> QED BY <1>2, <1>8, <1>9

\* What the supply view counts of one invoice under a product filter.
Counted(a, k, product) ==
    [p \in Products |-> IF product \in {All, p} THEN Bills(a[k], p) ELSE 0]

LEMMA CountedInt ==
    ASSUME NEW a, IsAnswer(a), NEW k \in DOMAIN a, NEW product
    PROVE  /\ \A p \in Products : Counted(a, k, product)[p] \in Int
           /\ SumOver(Counted(a, k, product), Products) \in Int
  <1>1. \A p \in Products : Counted(a, k, product)[p] \in Int
    BY BillsNat DEF Counted
  <1> QED BY <1>1, FiniteCustomers, SumInt

\* `f` is a table, `g` the same table turned; `rows` and `columns` are the sums of its lines.
IsTable(f, g, rows, columns, A, B) ==
    /\ \A x \in A : rows[x] = SumOver(f[x], B)
    /\ \A y \in B : columns[y] = SumOver(g[y], A)
    /\ \A x \in A, y \in B : f[x][y] \in Int /\ g[y][x] = f[x][y]

\* A table, added up by rows and by columns.
LEMMA RowsAndColumns ==
    ASSUME NEW A, IsFiniteSet(A), NEW B, IsFiniteSet(B), NEW f, NEW g, NEW rows, NEW columns,
           IsTable(f, g, rows, columns, A, B)
    PROVE  SumOver(rows, A) = SumOver(columns, B)
  <1>0. /\ \A x \in A : rows[x] = SumOver(f[x], B)
        /\ \A y \in B : columns[y] = SumOver(g[y], A)
        /\ \A x \in A, y \in B : f[x][y] \in Int /\ g[y][x] = f[x][y]
    BY DEF IsTable
  <1> DEFINE byRow == [x \in A |-> SumOver(f[x], B)]
             turned(y) == [x \in A |-> f[x][y]]
             byColumn == [y \in B |-> SumOver(turned(y), A)]
  <1>1. SumOver(byRow, A) = SumOver(byColumn, B)
    BY <1>0, SumSwap
  <1>2. \A x \in A : byRow[x] = rows[x]
    BY <1>0
  <1>3. \A y \in B : byColumn[y] = SumOver(turned(y), A)
    OBVIOUS
  <1>4. \A y \in B, x \in A : turned(y)[x] \in Int /\ turned(y)[x] = g[y][x]
    BY <1>0
  <1> HIDE DEF byRow, turned, byColumn
  <1>5. \A x \in A : byRow[x] \in Int
    <2> SUFFICES ASSUME NEW x \in A PROVE SumOver(f[x], B) \in Int
      BY <1>0, <1>2
    <2>1. \A y \in B : f[x][y] \in Int
      BY <1>0
    <2> PICK r : r = f[x]
      OBVIOUS
    <2>2. SumOver(r, B) \in Int
      BY <2>1, SumInt
    <2> QED BY <2>2
  <1>6. SumOver(byRow, A) = SumOver(rows, A)
    BY <1>2, <1>5, SumSame
  <1>7. ASSUME NEW y \in B PROVE byColumn[y] \in Int /\ byColumn[y] = columns[y]
    <2> PICK r : r = g[y]
      OBVIOUS
    <2> PICK t : t = turned(y)
      OBVIOUS
    <2>1. \A x \in A : t[x] \in Int /\ t[x] = r[x]
      BY <1>4
    <2>2. SumOver(t, A) = SumOver(r, A) /\ SumOver(t, A) \in Int
      BY <2>1, SumSame, SumInt
    <2> QED BY <1>0, <1>3, <2>2
  <1>8. SumOver(byColumn, B) = SumOver(columns, B)
    BY <1>7, SumSame
  <1> QED BY <1>1, <1>6, <1>8

\* The sales, added up invoice by invoice.
LEMMA SalesByInvoice ==
    ASSUME NEW a, IsAnswer(a), NEW customer, NEW product
    PROVE  LET scope == Scoped(a, customer, product)
           IN SalesTotal(a, customer, product)
                = SumOver([k \in scope |-> SumOver(Counted(a, k, product), Products)], scope)
  <1> PICK scope : scope = Scoped(a, customer, product)
    OBVIOUS
  <1>1. IsFiniteSet(scope) /\ scope \subseteq DOMAIN a
    <2>1. scope \subseteq DOMAIN a
      BY DEF Scoped, Executed
    <2> QED BY <2>1, FS_Subset DEF IsAnswer
  <1> DEFINE cell(row, k) == IF Customer[a[k].id] = row[1] /\ product \in {All, row[2]}
                             THEN Bills(a[k], row[2]) ELSE 0
             f == [row \in Customers \X Products |-> [k \in scope |-> cell(row, k)]]
             byRow == [row \in Customers \X Products |-> SumOver(f[row], scope)]
             column(k) == [row \in Customers \X Products |-> f[row][k]]
             byColumn == [k \in scope |-> SumOver(column(k), Customers \X Products)]
             byInvoice == [k \in scope |-> SumOver(Counted(a, k, product), Products)]
  <1>2. Sales(a, customer, product) = byRow
    BY DEF Sales
  <1>3. \A row \in Customers \X Products, k \in scope : f[row][k] \in Int
    BY <1>1, BillsNat
  <1>4. SumOver(byRow, Customers \X Products) = SumOver(byColumn, scope)
    <2> DEFINE cells == Customers \X Products
               g == [k \in scope |-> column(k)]
    <2>1. \A row \in cells : byRow[row] = SumOver(f[row], scope)
      OBVIOUS
    <2>2. \A k \in scope : byColumn[k] = SumOver(g[k], cells)
      OBVIOUS
    <2>3. \A row \in cells, k \in scope : f[row][k] \in Int /\ g[k][row] = f[row][k]
      BY <1>3
    <2>4. IsFiniteSet(cells)
      BY FiniteCustomers
    <2> HIDE DEF cells, f, g, byRow, byColumn, column, cell
    <2>5. IsTable(f, g, byRow, byColumn, cells, scope)
      BY <2>1, <2>2, <2>3 DEF IsTable
    <2>6. SumOver(byRow, cells) = SumOver(byColumn, scope)
      BY <1>1, <2>4, <2>5, RowsAndColumns
    <2> QED BY <2>6 DEF cells
  <1>5. ASSUME NEW k \in scope
        PROVE  byColumn[k] \in Int /\ byColumn[k] = byInvoice[k]
    <2> PICK cu : cu = Customer[a[k].id]
      OBVIOUS
    <2>1. cu \in Customers /\ k \in DOMAIN a
      BY <1>1, <1>5 DEF IsAnswer, Customers
    <2> PICK w : w = Counted(a, k, product)
      OBVIOUS
    <2>2. (\A p \in Products : w[p] \in Int) /\ SumOver(w, Products) \in Int
      BY <2>1, CountedInt
    <2>3. \A other \in Customers, p \in Products :
            column(k)[<<other, p>>] = IF cu = other THEN w[p] ELSE 0
      BY <1>5 DEF Counted
    <2>4. byColumn[k] = SumOver(column(k), Customers \X Products) /\ byInvoice[k] = SumOver(w, Products)
      BY <1>5
    <2> HIDE DEF column, byColumn, byInvoice
    <2>5. SumOver(column(k), Customers \X Products) = SumOver(w, Products)
      BY <2>1, <2>2, <2>3, OneCustomerCells
    <2> QED BY <2>2, <2>4, <2>5
  <1> HIDE DEF byColumn, byInvoice
  <1>6. SumOver(byColumn, scope) = SumOver(byInvoice, scope)
    BY <1>1, <1>5, SumSame
  <1>7. SalesTotal(a, customer, product) = SumOver(byInvoice, scope)
    BY <1>2, <1>4, <1>6 DEF SalesTotal
  <1> QED BY <1>7 DEF byInvoice

\* The supply view and the dashboard make the same total.
LEMMA ViewIsWindow ==
    ASSUME NEW a, IsAnswer(a)
    PROVE  SalesTotal(a, All, All) = WindowTotal(a)
  <1> PICK S : S = Executed(a)
    OBVIOUS
  <1>1. Scoped(a, All, All) = S
    BY DEF Scoped
  <1>2. S \subseteq DOMAIN a /\ IsFiniteSet(S)
    <2>1. S \subseteq DOMAIN a
      BY DEF Executed
    <2> QED BY <2>1, FS_Subset DEF IsAnswer
  <1> DEFINE bill == [line \in S \X Products |-> Bills(a[line[1]], line[2])]
             row(k) == [p \in Products |-> bill[<<k, p>>]]
             rows == [k \in S |-> SumOver(row(k), Products)]
             byInvoice == [k \in S |-> SumOver(Counted(a, k, All), Products)]
             shown == [line \in SaleLines(a) |-> Bills(a[line[1]], line[2])]
  <1>3. SalesTotal(a, All, All) = SumOver(byInvoice, S)
    BY <1>1, SalesByInvoice
  <1>4. \A k \in S, p \in Products : bill[<<k, p>>] \in Int
    BY <1>2, BillsNat
  <1>5. \A line \in S \X Products : bill[line] \in Int /\ bill[line] = Bills(a[line[1]], line[2])
    BY <1>2, BillsNat
  <1>6. \A k \in S : row(k) = Counted(a, k, All)
    BY DEF Counted
  <1>7. rows = byInvoice
    BY <1>6
  <1>8. SaleLines(a) \in SUBSET (S \X Products)
    BY DEF SaleLines, Known
  <1>9. \A line \in (S \X Products) \ SaleLines(a) : bill[line] = 0
    <2> SUFFICES ASSUME NEW line \in S \X Products, line \notin SaleLines(a) PROVE bill[line] = 0
      OBVIOUS
    <2>1. line[1] \in S /\ line[2] \in Products /\ line = <<line[1], line[2]>>
      OBVIOUS
    <2>2. Bills(a[line[1]], line[2]) \in Nat
      BY <1>2, <2>1, BillsNat
    <2>3. CASE line[1] \in Known(a)
      <3>1. ~(Bills(a[line[1]], line[2]) > 0)
        BY <2>1, <2>3 DEF SaleLines
      <3>2. Bills(a[line[1]], line[2]) = 0
        BY <2>2, <3>1
      <3> QED BY <1>5, <3>2
    <2>4. CASE line[1] \notin Known(a)
      <3>1. a[line[1]].seen = 0
        BY <2>1, <2>4 DEF Known
      <3>2. Bills(a[line[1]], line[2]) = 0
        BY <3>1 DEF Bills
      <3> QED BY <1>5, <3>2
    <2> QED BY <2>3, <2>4
  <1>10. \A line \in SaleLines(a) : shown[line] = Bills(a[line[1]], line[2])
    OBVIOUS
  <1>11. IsFiniteSet(S \X Products) /\ IsFiniteSet(SaleLines(a))
    BY <1>2, <1>8, FiniteCustomers, FS_Product, FS_Subset
  <1>12. WindowTotal(a) = SumOver(shown, SaleLines(a))
    BY DEF WindowTotal
  <1> HIDE DEF bill, shown
  <1>13. SumOver(bill, S \X Products) = SumOver(rows, S)
    BY <1>2, <1>4, FiniteCustomers, SumPairs
  <1> HIDE DEF rows, byInvoice
  <1>14. SumOver(bill, S \X Products) = SumOver(bill, SaleLines(a))
    BY <1>5, <1>8, <1>9, <1>11, SumSubset
  <1>15. \A line \in SaleLines(a) : bill[line] \in Int /\ bill[line] = shown[line]
    BY <1>5, <1>8, <1>10
  <1>16. SumOver(bill, SaleLines(a)) = SumOver(shown, SaleLines(a))
    BY <1>11, <1>15, SumSame
  <1> QED BY <1>3, <1>7, <1>12, <1>13, <1>14, <1>16

\* The totals of the products add up to the total of all.
LEMMA ProductsAddUp ==
    ASSUME NEW a, IsAnswer(a), NEW customer
    PROVE  SalesTotal(a, customer, All) = SumOver([p \in Products |-> SalesTotal(a, customer, p)], Products)
  <1> PICK S : S = Scoped(a, customer, All)
    OBVIOUS
  <1>1. S \subseteq DOMAIN a /\ IsFiniteSet(S)
    <2>1. S \subseteq DOMAIN a
      BY DEF Scoped, Executed
    <2> QED BY <2>1, FS_Subset DEF IsAnswer
  <1> DEFINE bill == [k \in S |-> [p \in Products |-> Bills(a[k], p)]]
             byInvoice == [k \in S |-> SumOver(bill[k], Products)]
             column(p) == [k \in S |-> bill[k][p]]
             byProduct == [p \in Products |-> SumOver(column(p), S)]
             totals == [p \in Products |-> SalesTotal(a, customer, p)]
  <1>2. \A k \in S, p \in Products : bill[k][p] \in Int /\ bill[k][p] = Bills(a[k], p) /\ Bills(a[k], p) \in Nat
    BY <1>1, BillsNat
  <1>3. byInvoice = [k \in S |-> SumOver(Counted(a, k, All), Products)]
    <2>1. \A k \in S : bill[k] = Counted(a, k, All)
      BY DEF Counted
    <2> QED BY <2>1
  <1>4. SalesTotal(a, customer, All) = SumOver(byInvoice, S)
    BY <1>3, SalesByInvoice
  <1>5. ASSUME NEW p \in Products
        PROVE  totals[p] = byProduct[p] /\ byProduct[p] \in Int
    <2> PICK T : T = Scoped(a, customer, p)
      OBVIOUS
    <2>1. p # All
      BY AllAssumption
    <2>2. T = {k \in S : Bills(a[k], p) > 0}
      BY <2>1 DEF Scoped
    <2>3. T \in SUBSET S /\ IsFiniteSet(T)
      BY <1>1, <2>2, FS_Subset
    <2> DEFINE byScoped == [k \in T |-> SumOver(Counted(a, k, p), Products)]
    <2>4. totals[p] = SumOver(byScoped, T)
      BY SalesByInvoice
    <2>5. ASSUME NEW k \in T
          PROVE  byScoped[k] \in Int /\ byScoped[k] = column(p)[k]
      <3>1. k \in S /\ k \in DOMAIN a
        BY <1>1, <2>3
      <3> PICK w : w = Counted(a, k, p)
        OBVIOUS
      <3>2. w[p] = Bills(a[k], p) /\ \A q \in Products \ {p} : w[q] = 0
        BY <2>1, AllAssumption DEF Counted
      <3>3. SumOver(w, Products) = w[p]
        BY <1>2, <3>1, <3>2, FiniteCustomers, SumOnly
      <3>4. byScoped[k] = SumOver(w, Products)
        OBVIOUS
      <3>5. column(p)[k] = Bills(a[k], p)
        BY <3>1
      <3> HIDE DEF byScoped, column
      <3> QED BY <1>2, <3>1, <3>2, <3>3, <3>4, <3>5
    <2>6. \A k \in S : column(p)[k] \in Int /\ column(p)[k] = Bills(a[k], p)
      BY <1>2
    <2>7. \A k \in S \ T : column(p)[k] = 0
      <3> SUFFICES ASSUME NEW k \in S, k \notin T PROVE column(p)[k] = 0
        OBVIOUS
      <3>1. Bills(a[k], p) \in Nat /\ ~(Bills(a[k], p) > 0)
        BY <1>2, <2>2
      <3>2. Bills(a[k], p) = 0
        BY <3>1
      <3> QED BY <2>6, <3>2
    <2>8. byProduct[p] = SumOver(column(p), S)
      OBVIOUS
    <2> HIDE DEF byScoped, column, byProduct, totals
    <2>9. SumOver(byScoped, T) = SumOver(column(p), T)
      BY <2>3, <2>5, SumSame
    <2>10. SumOver(column(p), S) = SumOver(column(p), T)
      BY <1>1, <2>3, <2>6, <2>7, SumSubset
    <2>11. SumOver(column(p), S) \in Int
      BY <1>1, <2>6, SumInt
    <2> QED BY <2>4, <2>8, <2>9, <2>10, <2>11
  <1>6. SumOver(byInvoice, S) = SumOver(byProduct, Products)
    <2> DEFINE columns == [p \in Products |-> column(p)]
    <2>1. \A k \in S, p \in Products : bill[k][p] \in Int
      BY <1>2
    <2>2. IsFiniteSet(S) /\ IsFiniteSet(Products)
      BY <1>1, FiniteCustomers
    <2> HIDE DEF bill
    <2>3. /\ \A k \in S : byInvoice[k] = SumOver(bill[k], Products)
          /\ \A p \in Products : byProduct[p] = SumOver(columns[p], S)
          /\ \A k \in S, p \in Products : columns[p][k] = bill[k][p]
      OBVIOUS
    <2> HIDE DEF byInvoice, byProduct, columns
    <2>4. IsTable(bill, columns, byInvoice, byProduct, S, Products)
      BY <2>1, <2>3 DEF IsTable
    <2> QED BY <2>2, <2>4, RowsAndColumns
  <1> HIDE DEF byProduct, totals, byInvoice
  <1>7. SumOver(byProduct, Products) = SumOver(totals, Products)
    BY <1>5, FiniteCustomers, SumSame
  <1>8. SalesTotal(a, customer, All) = SumOver(totals, Products)
    BY <1>4, <1>6, <1>7
  <1> QED BY <1>8 DEF totals

\* The answer of a refresh that is ready.
LEMMA ServedIsAnswer ==
    ASSUME FreshInv, NEW c \in Refreshes, Ready(c)
    PROVE  IsAnswer(Served(c))
  <1> PICK rows : rows = refresh[c].rows
    OBVIOUS
  <1>1. rows \in Seq(Rows) /\ detail \in [Invoices -> Details \cup {NoDetail}]
    BY ReqTypes DEF FreshInv, Ready, NoRefresh, InvoiceTypeOK
  <1>2. DOMAIN Served(c) = DOMAIN rows
    BY DEF Served
  <1>3. IsFiniteSet(DOMAIN rows)
    <2>1. DOMAIN rows = 1..Len(rows) /\ Len(rows) \in Int /\ 1 \in Int
      BY <1>1
    <2> QED BY <2>1, FS_Interval
  <1>4. ASSUME NEW k \in DOMAIN rows
        PROVE  Served(c)[k].id \in Invoices /\ Served(c)[k].seen \in 0..MaxVersion
    <2> PICK row : row = rows[k]
      OBVIOUS
    <2>1. row.id \in Invoices /\ row.modified # 0
      BY <1>1, RowTypes
    <2> PICK d : d = detail[row.id]
      OBVIOUS
    <2>2. d \in Details \cup {NoDetail}
      BY <1>1, <2>1
    <2>3. Served(c)[k].id = row.id /\ Served(c)[k].seen = IF d.modified = row.modified THEN d.seen ELSE 0
      BY DEF Served
    <2>4. d.modified # 0 => d.seen \in 1..MaxVersion
      BY <2>2 DEF Details, NoDetail, Versions
    <2>5. 0 \in 0..MaxVersion /\ 1..MaxVersion \subseteq 0..MaxVersion
      BY Bounds
    <2> QED BY <2>1, <2>3, <2>4, <2>5
  <1> QED BY <1>2, <1>3, <1>4 DEF IsAnswer

LEMMA FreshSalesAgree == FreshInv => SameSales
  BY ServedIsAnswer, ViewIsWindow, ProductsAddUp DEF SameSales

\* The supply view and the investor dashboard make the same sales of the same invoices.
THEOREM SalesAreTheSame == InvoiceSpec => []SameSales
  BY InitFresh, StepKeepsFresh, FreshSalesAgree, PTL DEF InvoiceSpec

-----------------------------------------------------------------------------
(* What an answer lacks is reported                                         *)

\* No invoice is listed twice.
ListedOnce == \A j, k \in DOMAIN listing : listing[j] = listing[k] => j = k

\* No invoice has two rows.
Apart(rows) == \A j, k \in DOMAIN rows : rows[j].id = rows[k].id => j = k

\* The pages that were read are the first of the list, while it does not move.
OnPages(r) ==
    r.op = "paging" /\ ~r.moved =>
        /\ Len(r.rows) = PageSize * (r.page - 1)
        /\ Len(r.rows) <= Len(listing)
        /\ \A k \in DOMAIN r.rows : r.rows[k].id = listing[k]

\* The rows without line items that a refresh does not read.
LeftOut(r) == {k \in Missing(r.rows) : r.got[k] = Left}

\* They are the pending ones; once the chunk has settled, what else is missing has failed.
Reported(r) ==
    Fetched(r) /\ ~r.crossed /\ ~r.moved =>
        /\ Cardinality(LeftOut(r)) <= r.pending
        /\ r.op # "reading" => \A k \in Missing(r.rows) : r.got[k] \in {Left, Failed}

Reporting(r) ==
    /\ r # NoRefresh /\ ~r.moved => Apart(r.rows)
    /\ OnPages(r)
    /\ Fetched(r) => loaded
    /\ Reported(r)

ReportInv ==
    /\ ListedOnce
    /\ ~listCache.moved => Apart(listCache.rows)
    /\ \A c \in Refreshes : Reporting(refresh[c])

LEMMA InitReports == InvoiceInit => ReportInv
  <1> SUFFICES ASSUME InvoiceInit PROVE ReportInv
    OBVIOUS
  <1>1. ListedOnce
    BY DEF InvoiceInit, ListedOnce
  <1>2. Apart(listCache.rows)
    BY DEF InvoiceInit, NoList, Apart
  <1>3. \A c \in Refreshes : refresh[c] = NoRefresh
    BY DEF InvoiceInit
  <1>4. Reporting(NoRefresh)
    BY DEF Reporting, OnPages, Reported, Fetched, NoRefresh
  <1> QED BY <1>1, <1>2, <1>3, <1>4 DEF ReportInv

\* A refresh that nothing touches goes on reporting.
LEMMA ReportingStays ==
    ASSUME NEW r, Reporting(r), detail' = detail, Fetched(r) => loaded',
           listing' = listing \/ r.op # "paging" \/ r.moved
    PROVE  Reporting(r)'
  <1>1. Missing(r.rows)' = Missing(r.rows)
    BY DEF Missing
  <1>2. LeftOut(r)' = LeftOut(r)
    BY <1>1 DEF LeftOut
  <1>3. Reported(r)'
    BY <1>1, <1>2 DEF Reporting, Reported
  <1>4. OnPages(r)'
    BY DEF Reporting, OnPages
  <1> QED BY <1>3, <1>4 DEF Reporting

\* One refresh moves on to `r`; the list cache may be the rows it has.
LEMMA OneReports ==
    ASSUME FreshInv, ReportInv, NEW c \in Refreshes, NEW r, refresh' = [refresh EXCEPT ![c] = r],
           Reporting(r),
           listCache' = listCache \/ listCache' = NoList
             \/ (r # NoRefresh /\ listCache' = [rows |-> r.rows, moved |-> r.moved]),
           listing' = listing, detail' = detail, loaded' = loaded
    PROVE  ReportInv'
  <1>1. refresh'[c] = r /\ \A d \in Refreshes : d # c => refresh'[d] = refresh[d]
    BY DEF FreshInv, InvoiceTypeOK
  <1>2. ListedOnce'
    BY DEF ReportInv, ListedOnce
  <1>3. (~listCache.moved => Apart(listCache.rows))'
    <2>1. CASE listCache' = listCache
      BY <2>1 DEF ReportInv, Apart
    <2>2. CASE listCache' = NoList
      BY <2>2 DEF NoList, Apart
    <2>3. CASE r # NoRefresh /\ listCache' = [rows |-> r.rows, moved |-> r.moved]
      BY <2>3 DEF Reporting, Apart
    <2> QED BY <2>1, <2>2, <2>3
  <1>4. ASSUME NEW d \in Refreshes PROVE Reporting(refresh[d])'
    <2> PICK q : q = refresh'[d]
      OBVIOUS
    <2>1. Reporting(q)
      BY <1>1 DEF ReportInv
    <2>2. Fetched(q) => loaded'
      BY <2>1 DEF Reporting
    <2>3. Reporting(q)'
      BY <2>1, <2>2, ReportingStays
    <2> QED BY <2>3
  <1> QED BY <1>2, <1>3, <1>4 DEF ReportInv

\* Zoho changes.
LEMMA ZohoReports ==
    ASSUME FreshInv, ReportInv, ListedOnce',
           (refresh' = refresh /\ listing' = listing) \/ PagesMove,
           UNCHANGED <<listCache, detail, loaded, stored>>
    PROVE  ReportInv'
  <1>1. listCache' = listCache /\ detail' = detail /\ loaded' = loaded
    OBVIOUS
  <1>2. (~listCache.moved => Apart(listCache.rows))'
    BY <1>1 DEF ReportInv, Apart
  <1>3. ASSUME NEW d \in Refreshes PROVE Reporting(refresh[d])'
    <2> PICK q : q = refresh'[d]
      OBVIOUS
    <2> PICK r : r = refresh[d]
      OBVIOUS
    <2>1. Reporting(r)
      BY DEF ReportInv
    <2>2. \/ q = r /\ listing' = listing
          \/ q = r /\ r.op # "paging"
          \/ r.op = "paging" /\ q = [r EXCEPT !.moved = TRUE]
      BY DEF PagesMove
    <2>3. CASE q = r /\ (listing' = listing \/ r.op # "paging")
      <3>1. Fetched(r) => loaded'
        BY <1>1, <2>1 DEF Reporting
      <3>2. Reporting(r)'
        BY <1>1, <2>1, <2>3, <3>1, ReportingStays
      <3> QED BY <2>3, <3>2
    <2>4. CASE r.op = "paging" /\ q = [r EXCEPT !.moved = TRUE]
      <3>1. r \in [op : {"paging"}, rows : Seq(Rows), page : 1..MaxPages, moved : BOOLEAN]
        <4>1. r \in RefreshStates
          BY ReqTypes DEF FreshInv
        <4> QED BY <2>4, <4>1, PagingType
      <3>2. q.op = "paging" /\ q.moved
        BY <2>4, <3>1
      <3>3. Reporting(q)'
        BY <3>2 DEF Reporting, OnPages, Reported, Fetched
      <3> QED BY <3>3
    <2> QED BY <2>2, <2>3, <2>4
  <1> QED BY <1>2, <1>3 DEF ReportInv

LEMMA ZohoKeepsReports ==
    ASSUME FreshInv, ReportInv, NEW i \in Invoices,
           ZohoCreate(i) \/ ZohoDelete(i) \/ ZohoEdit(i) \/ ZohoStatus(i)
    PROVE  ReportInv'
  <1>1. listing \in Seq(Invoices) /\ ListedOnce
    BY DEF FreshInv, InvoiceTypeOK, ReportInv
  <1>2. UNCHANGED <<listCache, detail, loaded, stored>>
    BY DEF ZohoCreate, ZohoDelete, ZohoEdit, ZohoStatus, program
  <1> PICK n : n = Len(listing)
    OBVIOUS
  <1>3. n \in Nat /\ DOMAIN listing = 1..n
    BY <1>1
  <1>4. CASE ZohoCreate(i)
    <2>1. PagesMove /\ version[i] = 0
      BY <1>4 DEF ZohoCreate
    <2>2. \A k \in 1..n : listing[k] # i
      BY <1>3, <2>1 DEF FreshInv, ListedExists
    <2>3. CASE listing' = <<i>> \o listing
      <3>1. /\ DOMAIN listing' = 1..(n + 1) /\ listing'[1] = i
            /\ \A k \in 2..(n + 1) : listing'[k] = listing[k - 1]
        BY <1>1, <1>3, <2>3
      <3>2. ASSUME NEW j \in 1..(n + 1), NEW k \in 1..(n + 1), listing'[j] = listing'[k], j < k
            PROVE  FALSE
        <4>1. k \in 2..(n + 1) /\ k - 1 \in 1..n
          BY <1>3, <3>2
        <4>2. CASE j = 1
          BY <2>2, <3>1, <3>2, <4>1, <4>2
        <4>3. CASE j # 1
          <5>1. j \in 2..(n + 1) /\ j - 1 \in 1..n /\ j - 1 # k - 1
            BY <1>3, <3>2, <4>3
          <5> QED BY <1>1, <1>3, <3>1, <3>2, <4>1, <5>1 DEF ListedOnce
        <4> QED BY <4>2, <4>3
      <3>3. ListedOnce'
        <4> SUFFICES ASSUME NEW j \in 1..(n + 1), NEW k \in 1..(n + 1), listing'[j] = listing'[k], j # k
                     PROVE  FALSE
          BY <3>1 DEF ListedOnce
        <4>1. j < k \/ k < j
          BY <1>3
        <4> QED BY <3>2, <4>1
      <3> QED BY <1>2, <2>1, <3>3, ZohoReports
    <2>4. CASE listing' = Append(listing, i)
      <3>1. /\ DOMAIN listing' = 1..(n + 1) /\ listing'[n + 1] = i
            /\ \A k \in 1..n : listing'[k] = listing[k]
        BY <1>1, <1>3, <2>4
      <3>2. \A k \in 1..(n + 1) : k = n + 1 \/ k \in 1..n
        BY <1>3
      <3>3. ListedOnce'
        BY <1>1, <1>3, <2>2, <3>1, <3>2 DEF ListedOnce
      <3> QED BY <1>2, <2>1, <3>3, ZohoReports
    <2> QED BY <1>4, <2>3, <2>4 DEF ZohoCreate
  <1>5. CASE ZohoDelete(i)
    <2>1. PagesMove
      BY <1>5 DEF ZohoDelete
    <2>2. PICK d \in 1..n : listing' = RemoveAt(listing, d)
      BY <1>3, <1>5 DEF ZohoDelete
    <2>3. /\ listing' \in Seq(Invoices) /\ Len(listing') = n - 1
          /\ \A m \in 1..(n - 1) : listing'[m] = IF m < d THEN listing[m] ELSE listing[m + 1]
      BY <1>1, <2>2, RemovedAt
    <2>4. ASSUME NEW j \in 1..(n - 1), NEW k \in 1..(n - 1), listing'[j] = listing'[k]
          PROVE  j = k
      <3>1. PICK u \in 1..n : listing'[j] = listing[u] /\ u = IF j < d THEN j ELSE j + 1
        BY <1>3, <2>3
      <3>2. PICK v \in 1..n : listing'[k] = listing[v] /\ v = IF k < d THEN k ELSE k + 1
        BY <1>3, <2>3
      <3>3. u = v
        BY <1>1, <1>3, <2>4, <3>1, <3>2 DEF ListedOnce
      <3> QED BY <1>3, <3>1, <3>2, <3>3
    <2>5. ListedOnce'
      BY <1>3, <2>3, <2>4 DEF ListedOnce
    <2> QED BY <1>2, <2>1, <2>5, ZohoReports
  <1>6. CASE ZohoEdit(i) \/ ZohoStatus(i)
    <2>1. refresh' = refresh /\ listing' = listing
      BY <1>6 DEF ZohoEdit, ZohoStatus, program
    <2>2. ListedOnce'
      BY <1>1, <2>1 DEF ListedOnce
    <2> QED BY <1>2, <2>1, <2>2, ZohoReports
  <1> QED BY <1>4, <1>5, <1>6

LEMMA NextPage ==
    ASSUME NEW size \in Nat, NEW k \in Nat, k >= 1
    PROVE  size * (k - 1) + size = size * k /\ size * (k - 1) \in Nat /\ size * ((k + 1) - 1) = size * k
  OBVIOUS

\* Rows that follow others.
LEMMA RowsAppended ==
    ASSUME NEW old \in Seq(Rows), NEW page \in Seq(Rows), NEW n, n = Len(old), NEW m, m = Len(page),
           NEW rows, rows = old \o page
    PROVE  /\ rows \in Seq(Rows) /\ Len(rows) = n + m /\ DOMAIN rows = 1..(n + m)
           /\ \A k \in 1..(n + m) : rows[k] = IF k <= n THEN old[k] ELSE page[k - n]
  <1>1. /\ old \o page \in Seq(Rows) /\ Len(old \o page) = Len(old) + Len(page)
        /\ \A k \in 1..(Len(old) + Len(page)) :
             (old \o page)[k] = IF k <= Len(old) THEN old[k] ELSE page[k - Len(old)]
    BY ConcatProperties
  <1>2. rows \in Seq(Rows) /\ Len(rows) = n + m
    BY <1>1
  <1>3. DOMAIN rows = 1..(n + m)
    BY <1>2
  <1> QED BY <1>1, <1>2, <1>3

\* The first of the list, and those that follow them.
LEMMA FirstAndNext ==
    ASSUME NEW list, NEW old \in Seq(Rows), \A k \in DOMAIN old : old[k].id = list[k],
           NEW page \in Seq(Rows), \A j \in DOMAIN page : page[j].id = list[Len(old) + j]
    PROVE  /\ old \o page \in Seq(Rows) /\ Len(old \o page) = Len(old) + Len(page)
           /\ \A k \in DOMAIN (old \o page) : (old \o page)[k].id = list[k]
  <1> PICK n : n = Len(old)
    OBVIOUS
  <1> PICK m : m = Len(page)
    OBVIOUS
  <1> PICK rows : rows = old \o page
    OBVIOUS
  <1>1. /\ rows \in Seq(Rows) /\ Len(rows) = n + m /\ DOMAIN rows = 1..(n + m)
        /\ \A k \in 1..(n + m) : rows[k] = IF k <= n THEN old[k] ELSE page[k - n]
    BY RowsAppended
  <1>2. n \in Nat /\ m \in Nat /\ DOMAIN old = 1..n /\ DOMAIN page = 1..m
    OBVIOUS
  <1>3. ASSUME NEW k \in 1..(n + m) PROVE rows[k].id = list[k]
    <2>1. CASE k <= n
      <3>1. k \in DOMAIN old
        BY <1>2, <2>1
      <3>2. rows[k] = old[k]
        BY <1>1, <2>1
      <3> QED BY <3>1, <3>2
    <2>2. CASE ~(k <= n)
      <3>1. k - n \in 1..m /\ n + (k - n) = k
        BY <1>2, <2>2
      <3>2. page[k - n].id = list[n + (k - n)]
        BY <1>2, <3>1
      <3> QED BY <1>1, <2>2, <3>1, <3>2
    <2> QED BY <2>1, <2>2
  <1> QED BY <1>1, <1>3

\* The rows of the pages up to the next one.
NextRows(r) == IF PageSize * (r.page - 1) < Len(listing) THEN Page(r.page) ELSE <<>>
UpToNext(r) == r.rows \o NextRows(r)

LEMMA NextRowsAre ==
    ASSUME FreshInv, NEW page \in 1..MaxPages, NEW r, r.page = page,
           NEW n, n = PageSize * (page - 1), n <= Len(listing)
    PROVE  /\ NextRows(r) \in Seq(Rows) /\ n \in Nat /\ n + Len(NextRows(r)) <= Len(listing)
           /\ \A j \in DOMAIN NextRows(r) : NextRows(r)[j].id = listing[n + j]
           /\ HasMore(page) => n + Len(NextRows(r)) = PageSize * page
  <1>1. page \in Nat /\ page >= 1 /\ PageSize \in Nat /\ Len(listing) \in Nat
    BY Bounds DEF FreshInv, InvoiceTypeOK
  <1>2. n \in Nat /\ n + PageSize = PageSize * page
    BY <1>1, NextPage
  <1>3. HasMore(page) <=> Len(listing) > n + PageSize
    BY <1>2 DEF HasMore
  <1>4. CASE n < Len(listing)
    <2>1. NextRows(r) = Page(page) /\ Page(page) \in Seq(Rows)
      BY <1>4, PageRows DEF NextRows
    <2> PICK left : left = Len(listing) - n
      OBVIOUS
    <2> PICK m : m = Smaller(PageSize, left)
      OBVIOUS
    <2>2. left \in Nat
      BY <1>1, <1>2, <1>4
    <2>3. m \in Nat /\ m <= left /\ (PageSize < left => m = PageSize)
      <3>1. PageSize < left => Smaller(PageSize, left) = PageSize
        BY DEF Smaller
      <3> QED BY <1>1, <2>2, <3>1, SmallerBounds
    <2> PICK rows : rows = Page(page)
      OBVIOUS
    <2>4. rows = [j \in 1..m |-> RowNow(listing[n + j])]
      BY DEF Page
    <2>5. DOMAIN rows = 1..m /\ \A j \in 1..m : rows[j].id = listing[n + j]
      BY <2>4 DEF RowNow
    <2>6. Len(rows) = m
      <3>1. rows \in Seq(Rows)
        BY <2>1
      <3>2. DOMAIN rows = 1..Len(rows) /\ Len(rows) \in Nat
        BY <3>1
      <3> QED BY <2>3, <2>5, <3>2
    <2>7. n + m <= Len(listing) /\ (Len(listing) > n + PageSize => m = PageSize)
      BY <1>1, <1>2, <2>2, <2>3
    <2> QED BY <1>2, <1>3, <2>1, <2>5, <2>6, <2>7
  <1>5. CASE ~(n < Len(listing))
    <2>1. NextRows(r) = <<>>
      BY <1>5 DEF NextRows
    <2>2. <<>> \in Seq(Rows) /\ Len(<<>>) = 0 /\ DOMAIN <<>> = {}
      OBVIOUS
    <2>3. ~HasMore(page)
      BY <1>1, <1>2, <1>3, <1>5
    <2> QED BY <1>2, <2>1, <2>2, <2>3
  <1> QED BY <1>4, <1>5

LEMMA PagesAreFirst ==
    ASSUME FreshInv, NEW r \in RefreshStates, r.op = "paging", ~r.moved, OnPages(r)
    PROVE  /\ UpToNext(r) \in Seq(Rows) /\ Len(UpToNext(r)) <= Len(listing)
           /\ \A k \in DOMAIN UpToNext(r) : UpToNext(r)[k].id = listing[k]
           /\ HasMore(r.page) => Len(UpToNext(r)) = PageSize * r.page
  <1>1. r \in [op : {"paging"}, rows : Seq(Rows), page : 1..MaxPages, moved : BOOLEAN]
    BY PagingType
  <1>2. r.page \in 1..MaxPages /\ r.rows \in Seq(Rows) /\ listing \in Seq(Invoices)
    BY <1>1 DEF FreshInv, InvoiceTypeOK
  <1> PICK n : n = PageSize * (r.page - 1)
    OBVIOUS
  <1>3. n = Len(r.rows) /\ n <= Len(listing) /\ \A k \in DOMAIN r.rows : r.rows[k].id = listing[k]
    BY DEF OnPages
  <1>4. /\ NextRows(r) \in Seq(Rows) /\ n + Len(NextRows(r)) <= Len(listing)
        /\ \A j \in DOMAIN NextRows(r) : NextRows(r)[j].id = listing[n + j]
        /\ HasMore(r.page) => n + Len(NextRows(r)) = PageSize * r.page
    BY <1>2, <1>3, NextRowsAre
  <1>5. /\ UpToNext(r) \in Seq(Rows) /\ Len(UpToNext(r)) = n + Len(NextRows(r))
        /\ \A k \in DOMAIN UpToNext(r) : UpToNext(r)[k].id = listing[k]
    <2> PICK page : page = NextRows(r)
      OBVIOUS
    <2> PICK old : old = r.rows
      OBVIOUS
    <2>1. old \in Seq(Rows) /\ n = Len(old) /\ \A k \in DOMAIN old : old[k].id = listing[k]
      BY <1>2, <1>3
    <2>2. page \in Seq(Rows) /\ \A j \in DOMAIN page : page[j].id = listing[Len(old) + j]
      BY <1>4, <2>1
    <2>3. /\ old \o page \in Seq(Rows) /\ Len(old \o page) = Len(old) + Len(page)
          /\ \A k \in DOMAIN (old \o page) : (old \o page)[k].id = listing[k]
      BY <2>1, <2>2, FirstAndNext
    <2>4. UpToNext(r) = old \o page
      BY DEF UpToNext
    <2> QED BY <2>1, <2>3, <2>4
  <1> QED BY <1>4, <1>5

\* Rows that are the first of the list are of different invoices.
LEMMA FirstRowsApart ==
    ASSUME FreshInv, ListedOnce, NEW rows \in Seq(Rows), Len(rows) <= Len(listing),
           \A k \in DOMAIN rows : rows[k].id = listing[k]
    PROVE  Apart(rows)
  <1>1. listing \in Seq(Invoices)
    BY DEF FreshInv, InvoiceTypeOK
  <1>2. DOMAIN rows \subseteq DOMAIN listing
    BY <1>1
  <1> QED BY <1>2 DEF ListedOnce, Apart

LEMMA ListKeepsReports ==
    ASSUME FreshInv, ReportInv, NEW c \in Refreshes, ListFromCache(c) \/ ListStart(c) \/ ReadPage(c)
    PROVE  ReportInv'
  <1>1. listing' = listing /\ detail' = detail /\ loaded' = loaded
    BY DEF ListFromCache, ListStart, ReadPage, zoho
  <1>2. CASE ListFromCache(c)
    <2> PICK r : r = [op |-> "listed", rows |-> listCache.rows, moved |-> listCache.moved]
      OBVIOUS
    <2>1. refresh' = [refresh EXCEPT ![c] = r] /\ listCache' = listCache
      BY <1>2 DEF ListFromCache
    <2>2. r.op = "listed" /\ (~r.moved => Apart(r.rows))
      BY DEF ReportInv
    <2>3. Reporting(r)
      BY <2>2 DEF Reporting, OnPages, Reported, Fetched
    <2> QED BY <1>1, <2>1, <2>3, OneReports
  <1>3. CASE ListStart(c)
    <2> PICK r : r = [op |-> "paging", rows |-> <<>>, page |-> 1, moved |-> FALSE]
      OBVIOUS
    <2>1. refresh' = [refresh EXCEPT ![c] = r] /\ listCache' = listCache
      BY <1>3 DEF ListStart
    <2>2. r.op = "paging" /\ r.rows = <<>> /\ r.page = 1
      OBVIOUS
    <2>3. Apart(<<>>)
      BY DEF Apart
    <2>4. OnPages(r)
      <3>1. Len(listing) \in Nat
        BY DEF FreshInv, InvoiceTypeOK
      <3>2. PageSize * (r.page - 1) = 0
        BY <2>2, Bounds
      <3> QED BY <2>2, <3>1, <3>2 DEF OnPages
    <2>5. Reporting(r)
      BY <2>2, <2>3, <2>4 DEF Reporting, Reported, Fetched
    <2> QED BY <1>1, <2>1, <2>5, OneReports
  <1>4. CASE ReadPage(c)
    <2> PICK r : r = refresh[c]
      OBVIOUS
    <2> PICK rows : rows = UpToNext(r)
      OBVIOUS
    <2>1. r.op = "paging" /\ r \in RefreshStates /\ Reporting(r) /\ ListedOnce
      BY <1>4, ReqTypes DEF ReadPage, FreshInv, ReportInv
    <2>2. r \in [op : {"paging"}, rows : Seq(Rows), page : 1..MaxPages, moved : BOOLEAN]
      BY <2>1, PagingType
    <2>3. ~r.moved => /\ rows \in Seq(Rows) /\ Len(rows) <= Len(listing)
                      /\ \A k \in DOMAIN rows : rows[k].id = listing[k]
                      /\ HasMore(r.page) => Len(rows) = PageSize * r.page
      BY <2>1, PagesAreFirst DEF Reporting
    <2>4. ~r.moved => Apart(rows)
      BY <2>1, <2>3, FirstRowsApart
    <2>5. CASE HasMore(r.page) /\ r.page < MaxPages
      <3> PICK q : q = [r EXCEPT !.rows = rows, !.page = @ + 1]
        OBVIOUS
      <3>1. listCache' = listCache /\ refresh' = [refresh EXCEPT ![c].rows = rows, ![c].page = @ + 1]
        BY <1>4, <2>5 DEF ReadPage, UpToNext, NextRows
      <3>2. refresh' = [refresh EXCEPT ![c] = q]
        BY <3>1 DEF FreshInv, InvoiceTypeOK
      <3>3. q.op = "paging" /\ q.rows = rows /\ q.page = r.page + 1 /\ q.moved = r.moved
        BY <2>2
      <3>4. PageSize * (q.page - 1) = PageSize * r.page
        <4> PICK k : k = r.page
          OBVIOUS
        <4>1. k \in Nat /\ k >= 1 /\ PageSize \in Nat
          BY <2>2, Bounds
        <4>2. PageSize * ((k + 1) - 1) = PageSize * k
          BY <4>1, NextPage
        <4> QED BY <3>3, <4>2
      <3>5. OnPages(q)
        BY <2>3, <2>5, <3>3, <3>4 DEF OnPages
      <3>6. Reporting(q)
        BY <2>4, <3>3, <3>5 DEF Reporting, Reported, Fetched
      <3> QED BY <1>1, <3>1, <3>2, <3>6, OneReports
    <2>6. CASE ~(HasMore(r.page) /\ r.page < MaxPages)
      <3> PICK q : q = [op |-> "listed", rows |-> rows, moved |-> r.moved]
        OBVIOUS
      <3>1. refresh' = [refresh EXCEPT ![c] = q] /\ listCache' = [rows |-> rows, moved |-> r.moved]
        BY <1>4, <2>6 DEF ReadPage, UpToNext, NextRows
      <3>2. q.op = "listed" /\ q.rows = rows /\ q.moved = r.moved /\ q # NoRefresh
        BY DEF NoRefresh
      <3>3. Reporting(q)
        BY <2>4, <3>2 DEF Reporting, OnPages, Reported, Fetched
      <3> QED BY <1>1, <3>1, <3>2, <3>3, OneReports
    <2> QED BY <2>5, <2>6
  <1> QED BY <1>2, <1>3, <1>4

LEMMA NothingReports == Reporting(NoRefresh)
  BY DEF Reporting, OnPages, Reported, Fetched, NoRefresh

LEMMA OfFetched ==
    ASSUME FreshInv, NEW c \in Refreshes
    PROVE  Fetched(refresh[c]) => ReadAfterListed(refresh[c])
  BY DEF FreshInv

\* What FreshInv and ReportInv say of one refresh.
LEMMA OfOneRefresh ==
    ASSUME FreshInv, ReportInv, NEW c \in Refreshes, NEW r, r = refresh[c], Fetched(r)
    PROVE  ReadAfterListed(r) /\ DOMAIN r.got = DOMAIN r.rows /\ Reporting(r) /\ r \in RefreshStates
  <1>1. Fetched(refresh[c]) => ReadAfterListed(refresh[c])
    BY OfFetched
  <1>2. ReadAfterListed(refresh[c])
    BY <1>1
  <1>3. Reporting(refresh[c])
    BY DEF ReportInv
  <1>4. refresh[c] \in RefreshStates
    BY ReqTypes DEF FreshInv
  <1> QED BY <1>2, <1>3, <1>4 DEF ReadAfterListed

\* Rows are finitely many.
LEMMA FewerRows ==
    ASSUME NEW rows \in Seq(Rows), NEW S, S \subseteq DOMAIN rows, NEW T, T \subseteq S
    PROVE  /\ IsFiniteSet(S) /\ IsFiniteSet(T)
           /\ Cardinality(S) \in Nat /\ Cardinality(T) \in Nat /\ Cardinality(T) <= Cardinality(S)
  <1>1. IsFiniteSet(DOMAIN rows)
    <2>1. DOMAIN rows = 1..Len(rows) /\ Len(rows) \in Int /\ 1 \in Int
      OBVIOUS
    <2> QED BY <2>1, FS_Interval
  <1>2. IsFiniteSet(S)
    BY <1>1, FS_Subset
  <1>3. IsFiniteSet(T) /\ Cardinality(T) <= Cardinality(S)
    BY <1>2, FS_Subset
  <1> QED BY <1>2, <1>3, FS_CardinalityType

LEMMA RequestKeepsReports ==
    ASSUME FreshInv, ReportInv, NEW c \in Refreshes,
           Choose(c) \/ FetchDetail(c) \/ Persist(c) \/ Answer(c) \/ Fails(c)
    PROVE  ReportInv'
  <1> PICK r : r = refresh[c]
    OBVIOUS
  <1>1. /\ listing' = listing /\ detail' = detail /\ loaded' = loaded /\ listCache' = listCache
    BY DEF Choose, FetchDetail, Persist, Answer, Fails, zoho
  <1>2. Reporting(r) /\ r \in RefreshStates
    BY ReqTypes DEF FreshInv, ReportInv
  <1>3. CASE Choose(c)
    <2> DEFINE batchOf(n) == FirstOf(Missing(r.rows), n)
               next(n) == [op |-> "reading", rows |-> r.rows, moved |-> r.moved,
                           got |-> [k \in DOMAIN r.rows |-> IF k \in batchOf(n) THEN Unread ELSE Left],
                           pending |-> Cardinality(Missing(r.rows) \ batchOf(n)), crossed |-> FALSE]
    <2>1. r.op = "listed" /\ loaded /\ \E n \in ReadLimits : refresh' = [refresh EXCEPT ![c] = next(n)]
      BY <1>3 DEF Choose
    <2>2. r.rows \in Seq(Rows) /\ r # NoRefresh
      BY <1>2, <2>1, ListedType DEF NoRefresh
    <2>3. PICK n \in ReadLimits : refresh' = [refresh EXCEPT ![c] = next(n)]
      BY <2>1
    <2> PICK q : q = next(n)
      OBVIOUS
    <2> PICK batch : batch = batchOf(n)
      OBVIOUS
    <2>4. /\ q.op = "reading" /\ q.rows = r.rows /\ q.moved = r.moved /\ q.crossed = FALSE
          /\ q.got = [k \in DOMAIN r.rows |-> IF k \in batch THEN Unread ELSE Left]
          /\ q.pending = Cardinality(Missing(r.rows) \ batch)
      OBVIOUS
    <2>5. refresh' = [refresh EXCEPT ![c] = q]
      BY <2>3
    <2> HIDE DEF next, batchOf
    <2>6. Missing(r.rows) \subseteq DOMAIN r.rows
      BY DEF Missing
    <2>7. LeftOut(q) = Missing(r.rows) \ batch
      BY <2>4, <2>6 DEF LeftOut, Unread, Left
    <2>8. Cardinality(LeftOut(q)) <= q.pending
      <3>1. Cardinality(Missing(r.rows) \ batch) \in Nat
        BY <2>2, <2>6, FewerRows
      <3> QED BY <2>4, <2>7, <3>1
    <2>9. Apart(q.rows) \/ q.moved
      BY <1>2, <2>2, <2>4 DEF Reporting
    <2>10. Reporting(q)
      BY <2>1, <2>4, <2>8, <2>9 DEF Reporting, OnPages, Reported
    <2> QED BY <1>1, <2>5, <2>10, OneReports
  <1>4. CASE FetchDetail(c)
    <2>1. r.op = "reading"
      BY <1>4 DEF FetchDetail
    <2>2. r \in [op : {"reading", "saving", "ready"}, rows : Seq(Rows), moved : BOOLEAN,
                 got : Seq(Reads), pending : Nat, crossed : BOOLEAN]
      BY <1>2, <2>1, FetchedType DEF Fetched
    <2>3. PICK k \in DOMAIN r.got :
            \E seen \in {Failed, version[r.rows[k].id]} : refresh' = [refresh EXCEPT ![c].got[k] = seen]
      BY <1>4 DEF FetchDetail
    <2>4. PICK seen \in {Failed, version[r.rows[k].id]} : refresh' = [refresh EXCEPT ![c].got[k] = seen]
      BY <2>3
    <2>5. DOMAIN r.got = DOMAIN r.rows
      <3>1. Fetched(r)
        BY <2>1 DEF Fetched
      <3> QED BY <3>1, OfOneRefresh
    <2>6. seen # Left
      <3>1. r.rows[k].id \in Invoices
        BY <2>2, <2>5, RowTypes
      <3>2. version[r.rows[k].id] \in Nat
        BY <3>1, Bounds DEF FreshInv, InvoiceTypeOK
      <3> QED BY <3>2 DEF Failed, Left
    <2> PICK q : q = [r EXCEPT !.got[k] = seen]
      OBVIOUS
    <2>7. refresh' = [refresh EXCEPT ![c] = q]
      BY <2>4 DEF FreshInv, InvoiceTypeOK
    <2>8. /\ q.op = r.op /\ q.rows = r.rows /\ q.moved = r.moved /\ q.pending = r.pending
          /\ q.crossed = r.crossed /\ q.got = [r.got EXCEPT ![k] = seen]
      BY <2>2
    <2>9. LeftOut(q) \subseteq LeftOut(r) /\ LeftOut(r) \subseteq DOMAIN r.rows
      <3>1. \A j \in DOMAIN r.rows : q.got[j] = Left => r.got[j] = Left
        BY <2>5, <2>6, <2>8
      <3>2. Missing(r.rows) \subseteq DOMAIN r.rows
        BY DEF Missing
      <3> QED BY <2>8, <3>1, <3>2 DEF LeftOut
    <2>10. /\ Cardinality(LeftOut(q)) <= Cardinality(LeftOut(r))
           /\ Cardinality(LeftOut(q)) \in Nat /\ Cardinality(LeftOut(r)) \in Nat
      BY <2>2, <2>9, FewerRows
    <2>11. Cardinality(LeftOut(r)) <= r.pending \/ r.crossed \/ r.moved
      BY <1>2, <2>1 DEF Reporting, Reported, Fetched
    <2>12. Cardinality(LeftOut(q)) <= q.pending \/ q.crossed \/ q.moved
      <3>1. r.pending \in Nat /\ q.pending = r.pending
        BY <2>2, <2>8
      <3>2. CASE Cardinality(LeftOut(r)) <= r.pending
        BY <2>10, <3>1, <3>2
      <3>3. CASE r.crossed \/ r.moved
        BY <2>8, <3>3
      <3> QED BY <2>11, <3>2, <3>3
    <2>13. (Apart(q.rows) \/ q.moved) /\ loaded
      BY <1>2, <2>1, <2>8 DEF Reporting, Fetched, NoRefresh
    <2>14. Reporting(q)
      BY <2>1, <2>8, <2>12, <2>13 DEF Reporting, OnPages, Reported
    <2> QED BY <1>1, <2>7, <2>14, OneReports
  <1>5. CASE Persist(c)
    <2>1. r.op = "saving" /\ Fetched(r) /\ refresh' = [refresh EXCEPT ![c].op = "ready"]
      BY <1>5 DEF Persist, Fetched
    <2>2. r \in [op : {"reading", "saving", "ready"}, rows : Seq(Rows), moved : BOOLEAN,
                 got : Seq(Reads), pending : Nat, crossed : BOOLEAN]
      BY <1>2, <2>1, FetchedType
    <2> PICK q : q = [r EXCEPT !.op = "ready"]
      OBVIOUS
    <2>3. refresh' = [refresh EXCEPT ![c] = q]
      BY <2>1 DEF FreshInv, InvoiceTypeOK
    <2>4. /\ q.op = "ready" /\ q.rows = r.rows /\ q.moved = r.moved /\ q.pending = r.pending
          /\ q.crossed = r.crossed /\ q.got = r.got
      BY <2>2
    <2>5. LeftOut(q) = LeftOut(r)
      BY <2>4 DEF LeftOut
    <2>6. Reported(q)
      BY <1>2, <2>1, <2>4, <2>5 DEF Reporting, Reported
    <2>7. (Apart(q.rows) \/ q.moved) /\ loaded
      BY <1>2, <2>1, <2>4 DEF Reporting, Fetched, NoRefresh
    <2>8. Reporting(q)
      BY <2>4, <2>6, <2>7 DEF Reporting, OnPages
    <2> QED BY <1>1, <2>3, <2>8, OneReports
  <1>6. CASE Answer(c) \/ Fails(c)
    <2>1. refresh' = [refresh EXCEPT ![c] = NoRefresh]
      BY <1>6 DEF Answer, Fails
    <2> QED BY <1>1, <2>1, NothingReports, OneReports
  <1> QED BY <1>3, <1>4, <1>5, <1>6

\* The steps that are of no refresh, or come before line items are read.
LEMMA CacheKeepsReports ==
    ASSUME FreshInv, ReportInv, ListExpires \/ Restart \/ \E c \in Refreshes : LoadDetails(c)
    PROVE  ReportInv'
  <1>1. listing' = listing
    BY DEF ListExpires, Restart, LoadDetails, zoho
  <1>2. ListedOnce'
    BY <1>1 DEF ReportInv, ListedOnce
  <1>3. (~listCache.moved => Apart(listCache.rows))'
    BY DEF ReportInv, ListExpires, Restart, LoadDetails, NoList, Apart
  <1>4. ASSUME NEW d \in Refreshes PROVE Reporting(refresh[d])'
    <2> PICK r : r = refresh[d]
      OBVIOUS
    <2>1. Reporting(r)
      BY DEF ReportInv
    <2>2. CASE ListExpires
      <3>1. detail' = detail /\ loaded' = loaded /\ refresh' = refresh
        BY <2>2 DEF ListExpires
      <3>2. Fetched(r) => loaded'
        BY <2>1, <3>1 DEF Reporting
      <3>3. Reporting(r)'
        BY <1>1, <2>1, <3>1, <3>2, ReportingStays
      <3> QED BY <3>1, <3>3
    <2>3. CASE Restart
      <3>1. refresh'[d] = NoRefresh
        BY <2>3 DEF Restart
      <3> QED BY <3>1 DEF Reporting, OnPages, Reported, Fetched, NoRefresh
    <2>4. CASE \E c \in Refreshes : LoadDetails(c)
      <3>1. ~loaded /\ refresh' = refresh
        BY <2>4 DEF LoadDetails
      <3>2. ~Fetched(r)
        BY <2>1, <3>1 DEF Reporting
      <3>3. Reporting(r)'
        BY <1>1, <2>1, <3>2 DEF Reporting, OnPages, Reported
      <3> QED BY <3>1, <3>3
    <2> QED BY <2>2, <2>3, <2>4
  <1> QED BY <1>2, <1>3, <1>4 DEF ReportInv

\* What a chunk has read is known from then on, and of other rows as much as before.
LEMMA SettledRows ==
    ASSUME NEW r, r.rows \in Seq(Rows), r.got \in Seq(Reads), DOMAIN r.got = DOMAIN r.rows, Apart(r.rows),
           detail' = [i \in Invoices |-> FreshDetail(r, i, detail[i])]
    PROVE  Missing(r.rows)' = Missing(r.rows) \ Read(r)
  <1>1. ASSUME NEW k \in DOMAIN r.rows
        PROVE  detail'[r.rows[k].id].modified
                 = IF k \in Read(r) THEN r.rows[k].modified ELSE detail[r.rows[k].id].modified
    <2> PICK i : i = r.rows[k].id
      OBVIOUS
    <2>1. i \in Invoices /\ detail'[i] = FreshDetail(r, i, detail[i])
      BY RowTypes
    <2>2. \A j \in ReadsOf(r, i) : j = k
      BY DEF ReadsOf, Read, Apart
    <2>3. CASE k \in Read(r)
      <3>1. ReadsOf(r, i) = {k}
        BY <2>2, <2>3 DEF ReadsOf
      <3>2. ReadsOf(r, i) \subseteq 1..Len(r.got) /\ Len(r.got) \in Nat
        BY DEF ReadsOf, Read
      <3>3. Max(ReadsOf(r, i)) = k
        BY <3>1, <3>2, MaxExists
      <3>4. FreshDetail(r, i, detail[i]) = [modified |-> r.rows[k].modified, seen |-> r.got[k]]
        BY <3>1, <3>3 DEF FreshDetail
      <3> QED BY <2>1, <2>3, <3>4
    <2>4. CASE k \notin Read(r)
      <3>1. ReadsOf(r, i) = {}
        BY <2>2, <2>4 DEF ReadsOf
      <3> QED BY <2>1, <2>4, <3>1 DEF FreshDetail
    <2> QED BY <2>3, <2>4
  <1>2. \A k \in DOMAIN r.rows :
          k \in Missing(r.rows)' <=> (~r.rows[k].void /\ detail'[r.rows[k].id].modified # r.rows[k].modified)
    BY DEF Missing
  <1>3. \A k \in DOMAIN r.rows :
          k \in Missing(r.rows) <=> (~r.rows[k].void /\ detail[r.rows[k].id].modified # r.rows[k].modified)
    BY DEF Missing
  <1>4. Missing(r.rows)' \subseteq DOMAIN r.rows /\ Missing(r.rows) \subseteq DOMAIN r.rows
    BY DEF Missing
  <1>5. \A k \in DOMAIN r.rows : k \in Missing(r.rows)' <=> (k \in Missing(r.rows) /\ k \notin Read(r))
    <2> SUFFICES ASSUME NEW k \in DOMAIN r.rows
                 PROVE  k \in Missing(r.rows)' <=> (k \in Missing(r.rows) /\ k \notin Read(r))
      OBVIOUS
    <2>1. CASE k \in Read(r)
      BY <1>1, <1>2, <2>1
    <2>2. CASE k \notin Read(r)
      BY <1>1, <1>2, <1>3, <2>2
    <2> QED BY <2>1, <2>2
  <1> QED BY <1>4, <1>5

\* A chunk in which nothing was read leaves the cache as it is.
LEMMA NothingSettled ==
    ASSUME detail \in [Invoices -> Details \cup {NoDetail}], NEW r, Read(r) = {},
           detail' = [i \in Invoices |-> FreshDetail(r, i, detail[i])]
    PROVE  detail' = detail
  <1>1. \A i \in Invoices : ReadsOf(r, i) = {}
    BY DEF ReadsOf
  <1>2. \A i \in Invoices : FreshDetail(r, i, detail[i]) = detail[i]
    BY <1>1 DEF FreshDetail
  <1> QED BY <1>2

LEMMA SettleKeepsReports ==
    ASSUME FreshInv, ReportInv, NEW c \in Refreshes, Settle(c)
    PROVE  ReportInv'
  <1> PICK r : r = refresh[c]
    OBVIOUS
  <1>1. /\ r.op = "reading" /\ Fetched(r)
        /\ \A k \in DOMAIN r.got : r.got[k] # Unread
        /\ detail' = [i \in Invoices |-> FreshDetail(r, i, detail[i])]
        /\ listing' = listing /\ loaded' = loaded /\ listCache' = listCache
    BY DEF Settle, zoho, Fetched
  <1>2. /\ Reporting(r) /\ r \in RefreshStates /\ ReadAfterListed(r)
        /\ detail \in [Invoices -> Details \cup {NoDetail}] /\ refresh \in [Refreshes -> RefreshStates]
    <2>1. Reporting(r) /\ r \in RefreshStates /\ ReadAfterListed(r)
      BY <1>1, OfOneRefresh
    <2> QED BY <2>1 DEF FreshInv, InvoiceTypeOK
  <1>3. r \in [op : {"reading", "saving", "ready"}, rows : Seq(Rows), moved : BOOLEAN,
               got : Seq(Reads), pending : Nat, crossed : BOOLEAN]
    BY <1>1, <1>2, FetchedType
  <1>4. ListedOnce' /\ (~listCache.moved => Apart(listCache.rows))'
    BY <1>1 DEF ReportInv, ListedOnce, Apart
  <1>5. Reporting(refresh[c])'
    <2> PICK op : op = IF Read(r) = {} THEN "ready" ELSE "saving"
      OBVIOUS
    <2>1. op \in {"saving", "ready"} /\ refresh'[c] = [r EXCEPT !.op = op]
      BY DEF Settle
    <2> PICK q : q = refresh'[c]
      OBVIOUS
    <2>2. /\ q.op = op /\ q.rows = r.rows /\ q.moved = r.moved /\ q.pending = r.pending
          /\ q.crossed = r.crossed /\ q.got = r.got
      BY <1>3, <2>1
    <2>3. loaded' /\ (Apart(q.rows) \/ q.moved)
      BY <1>1, <1>2, <2>2 DEF Reporting, NoRefresh
    <2>4. ASSUME ~q.crossed, ~q.moved
          PROVE  /\ Cardinality(LeftOut(q)') <= q.pending
                 /\ \A k \in Missing(q.rows)' : q.got[k] \in {Left, Failed}
      <3>1. Missing(r.rows)' = Missing(r.rows) \ Read(r)
        BY <1>1, <1>2, <1>3, <2>2, <2>3, <2>4, SettledRows DEF ReadAfterListed
      <3>2. Missing(q.rows)' = Missing(r.rows) \ Read(r)
        BY <2>2, <3>1
      <3>3. Missing(r.rows) \subseteq DOMAIN r.rows /\ DOMAIN r.rows = DOMAIN r.got
        BY <1>2 DEF Missing, ReadAfterListed
      <3>4. ASSUME NEW k \in Missing(r.rows) \ Read(r) PROVE q.got[k] \in {Left, Failed}
        <4>1. r.got[k] \in Reads /\ r.got[k] # Unread /\ r.got[k] \notin Versions
          BY <1>1, <1>3, <3>3 DEF Read
        <4> QED BY <2>2, <4>1 DEF Reads
      <3>5. LeftOut(q)' = {k \in Missing(q.rows)' : q.got[k] = Left}
        BY DEF LeftOut
      <3>6. LeftOut(q)' \subseteq LeftOut(r) /\ LeftOut(r) \subseteq DOMAIN r.rows
        BY <2>2, <3>2, <3>3, <3>5 DEF LeftOut
      <3>7. /\ Cardinality(LeftOut(q)') <= Cardinality(LeftOut(r))
            /\ Cardinality(LeftOut(q)') \in Nat /\ Cardinality(LeftOut(r)) \in Nat
        BY <1>3, <3>6, FewerRows
      <3>8. Cardinality(LeftOut(r)) <= r.pending /\ r.pending \in Nat
        BY <1>1, <1>2, <1>3, <2>2, <2>4 DEF Reporting, Reported
      <3>9. Cardinality(LeftOut(q)') <= q.pending
        BY <2>2, <3>7, <3>8
      <3> QED BY <3>2, <3>4, <3>9
    <2>5. Reported(q)'
      BY <2>4 DEF Reported
    <2>6. Reporting(q)'
      BY <2>1, <2>2, <2>3, <2>5 DEF Reporting, OnPages
    <2> QED BY <2>6
  <1>6. ASSUME NEW d \in Refreshes, d # c PROVE Reporting(refresh[d])'
    <2> PICK p : p = refresh[d]
      OBVIOUS
    <2> PICK q : q = refresh'[d]
      OBVIOUS
    <2>1. Reporting(p)
      BY DEF ReportInv
    <2>2. q = IF Fetched(p) /\ Read(r) # {} THEN [p EXCEPT !.crossed = TRUE] ELSE p
      BY <1>6 DEF Settle, Fetched
    <2>3. CASE Fetched(p) /\ Read(r) # {}
      <3>1. p \in [op : {"reading", "saving", "ready"}, rows : Seq(Rows), moved : BOOLEAN,
                   got : Seq(Reads), pending : Nat, crossed : BOOLEAN]
        BY <1>2, <2>3, FetchedType
      <3>2. q.op = p.op /\ q.rows = p.rows /\ q.moved = p.moved /\ q.crossed
        BY <2>2, <2>3, <3>1
      <3>3. loaded' /\ (Apart(q.rows) \/ q.moved) /\ q.op # "paging"
        BY <1>1, <2>1, <2>3, <3>2 DEF Reporting, Fetched, NoRefresh
      <3>4. Reporting(q)'
        BY <3>2, <3>3 DEF Reporting, OnPages, Reported
      <3> QED BY <3>4
    <2>4. CASE Fetched(p) /\ Read(r) = {}
      <3>1. detail' = detail
        BY <1>1, <1>2, <2>4, NothingSettled
      <3>2. loaded'
        BY <1>1, <2>1, <2>4 DEF Reporting
      <3>3. Reporting(p)'
        BY <1>1, <2>1, <3>1, <3>2, ReportingStays
      <3> QED BY <2>2, <2>4, <3>3
    <2>5. CASE ~Fetched(p)
      <3>1. Reporting(p)'
        BY <1>1, <2>1, <2>5 DEF Reporting, OnPages, Reported
      <3> QED BY <2>2, <2>5, <3>1
    <2> QED BY <2>3, <2>4, <2>5
  <1> QED BY <1>4, <1>5, <1>6 DEF ReportInv

LEMMA StepKeepsReports == FreshInv /\ ReportInv /\ [InvoiceNext]_invoiceVars => ReportInv'
  <1> SUFFICES ASSUME FreshInv, ReportInv, [InvoiceNext]_invoiceVars PROVE ReportInv'
    OBVIOUS
  <1>1. CASE UNCHANGED invoiceVars
    <2>1. listing' = listing /\ listCache' = listCache /\ detail' = detail /\ loaded' = loaded /\ refresh' = refresh
      BY <1>1 DEF invoiceVars
    <2> QED BY <2>1 DEF ReportInv, ListedOnce, Reporting, Apart, OnPages, Reported, LeftOut, Missing
  <1>2. CASE InvoiceNext
    BY <1>2, ZohoKeepsReports, ListKeepsReports, RequestKeepsReports, CacheKeepsReports, SettleKeepsReports
       DEF InvoiceNext
  <1> QED BY <1>1, <1>2

\* The invoices of an answer without line items were left out or their reads failed.
LEMMA ReportsMissing == FreshInv /\ ReportInv => MissingIsReported
  <1> SUFFICES ASSUME FreshInv, ReportInv, NEW c \in Refreshes, Ready(c), ~refresh[c].crossed, ~refresh[c].moved
               PROVE  Cardinality(Executed(Served(c)) \ Known(Served(c)))
                        <= refresh[c].pending + FailedReads(refresh[c])
    BY DEF MissingIsReported
  <1> PICK r : r = refresh[c]
    OBVIOUS
  <1>1. r.op = "ready" /\ Fetched(r) /\ Reporting(r) /\ ReadAfterListed(r) /\ r \in RefreshStates
    <2>1. r.op = "ready" /\ Fetched(r)
      BY DEF Ready, Fetched
    <2> QED BY <2>1, OfOneRefresh
  <1>2. r \in [op : {"reading", "saving", "ready"}, rows : Seq(Rows), moved : BOOLEAN,
               got : Seq(Reads), pending : Nat, crossed : BOOLEAN]
    BY <1>1, FetchedType
  <1> DEFINE lacking == Executed(Served(c)) \ Known(Served(c))
             failed == {k \in DOMAIN r.got : r.got[k] = Failed}
  <1>3. ASSUME NEW k \in lacking PROVE k \in Missing(r.rows)
    <2>1. DOMAIN Served(c) = DOMAIN r.rows
      BY DEF Served
    <2>2. k \in DOMAIN r.rows /\ Served(c)[k].seen = 0 /\ ~Served(c)[k].void
      BY <1>3, <2>1 DEF Executed, Known
    <2> PICK row : row = r.rows[k]
      OBVIOUS
    <2>3. row.id \in Invoices /\ row.modified # 0
      BY <1>2, <2>2, RowTypes
    <2> PICK d : d = detail[row.id]
      OBVIOUS
    <2>4. d \in Details \cup {NoDetail}
      BY <2>3 DEF FreshInv, InvoiceTypeOK
    <2>5. ~row.void /\ (IF d.modified = row.modified THEN d.seen ELSE 0) = 0
      BY <2>2 DEF Served
    <2>6. d.modified # row.modified
      BY <2>3, <2>4, <2>5 DEF Details, NoDetail, Versions
    <2> QED BY <2>2, <2>5, <2>6 DEF Missing
  <1>4. lacking \subseteq LeftOut(r) \cup failed
    <2>1. \A k \in Missing(r.rows) : r.got[k] = Left \/ r.got[k] = Failed
      BY <1>1 DEF Reporting, Reported
    <2>2. Missing(r.rows) \subseteq DOMAIN r.got
      BY <1>1 DEF Missing, ReadAfterListed
    <2> QED BY <1>3, <2>1, <2>2 DEF LeftOut
  <1>5. LeftOut(r) \subseteq DOMAIN r.rows /\ failed \subseteq DOMAIN r.rows
    BY <1>1 DEF LeftOut, Missing, ReadAfterListed
  <1>6. FailedReads(r) = Cardinality(failed)
    BY DEF FailedReads
  <1> HIDE DEF lacking, failed
  <1>7. /\ IsFiniteSet(LeftOut(r)) /\ Cardinality(LeftOut(r)) \in Nat
        /\ IsFiniteSet(failed) /\ Cardinality(failed) \in Nat
    BY <1>2, <1>5, FewerRows
  <1>8. LeftOut(r) \cup failed \subseteq DOMAIN r.rows
    BY <1>5
  <1>9. /\ Cardinality(lacking) <= Cardinality(LeftOut(r) \cup failed)
        /\ Cardinality(lacking) \in Nat /\ Cardinality(LeftOut(r) \cup failed) \in Nat
    BY <1>2, <1>4, <1>8, FewerRows
  <1>10. Cardinality(LeftOut(r) \cup failed) <= Cardinality(LeftOut(r)) + Cardinality(failed)
    <2> PICK both : both = LeftOut(r) \cap failed
      OBVIOUS
    <2>1. Cardinality(both) \in Nat
      <3>1. both \subseteq DOMAIN r.rows
        BY <1>5
      <3> QED BY <1>2, <3>1, FewerRows
    <2>2. Cardinality(LeftOut(r) \cup failed) = Cardinality(LeftOut(r)) + Cardinality(failed) - Cardinality(both)
      BY <1>7, FS_Union
    <2> QED BY <1>7, <1>9, <2>1, <2>2
  <1>11. Cardinality(LeftOut(r)) <= r.pending /\ r.pending \in Nat
    BY <1>1, <1>2 DEF Reporting, Reported
  <1>12. Cardinality(lacking) <= r.pending + Cardinality(failed)
    BY <1>7, <1>9, <1>10, <1>11
  <1> QED BY <1>6, <1>12 DEF lacking

\* What an answer lacks it reports as pending or failed, unless the list moved under its pages
\* or another refresh replaced items in between.
THEOREM MissingItemsAreReported == InvoiceSpec => []MissingIsReported
  <1>1. InvoiceInit => FreshInv /\ ReportInv
    BY InitFresh, InitReports
  <1>2. (FreshInv /\ ReportInv) /\ [InvoiceNext]_invoiceVars => (FreshInv /\ ReportInv)'
    BY StepKeepsFresh, StepKeepsReports
  <1> QED BY <1>1, <1>2, ReportsMissing, PTL DEF InvoiceSpec
=============================================================================
