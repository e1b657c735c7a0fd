----------------------- MODULE DocumentsVariantsProofs ----------------------
(***************************************************************************)
(* Proofs about ProductDocuments and FormulaVariants, the documents of a   *)
(* product and the formulas behind them.                                   *)
(*                                                                         *)
(* ProductDocuments: for any number of requests, edits and restarts, no    *)
(* announced change is lost by the queue, and no content is stored that    *)
(* was never published.                                                    *)
(*                                                                         *)
(* FormulaVariants: a company with an assignment has access, a list of the *)
(* library is one that the rows made, and only approved formulas are used. *)
(* None is inductive alone. The invariant adds that a request that assigns *)
(* has the row it read or a live formula, that what an unassignment        *)
(* counted is what is left, and that a formula being created is one that   *)
(* nobody else creates or assigns.                                         *)
(***************************************************************************)
EXTENDS ProductDocuments, FormulaVariants, SequenceTheorems, TLAPS

-----------------------------------------------------------------------------
(* Documents                                                                *)

(* The drain loop has a job. *)
Busy == {"get", "query", "set", "render", "remove"}

ClientPlaces == {"idle", "get", "query", "set", "checked", "committed", "deleted"}

(* A request that is under way is about a document, a transition that was  *)
(* checked has its status, and the drain loop reads the document of its    *)
(* job.  After the row was read there is a document at hand.               *)
Placed ==
  /\ \A c \in Clients : /\ pc[c] \in ClientPlaces
                        /\ pc[c] # "idle" => on[c] \in DocTypes
                        /\ pc[c] = "checked" => to[c] \in Statuses
  /\ pc[Drainer] \in Busy \cup {"idle", "sleep"}
  /\ pc[Drainer] \in Busy => job \in Stored /\ on[Drainer] = Source[job]
  /\ pc[Drainer] \notin Busy => job = None
  /\ \A p \in Procs : pc[p] \in {"set", "render", "remove"} => got[p] \in Document
  /\ pc[Drainer] = "remove" => got[Drainer].status = "published"

(* What says of itself that it is published has been: the row, the copy in *)
(* the cache, and the copies that were read.                               *)
Honest ==
  /\ \A t \in DocTypes : doc[t].status = "published" => doc[t].rev \in published[t]
  /\ \A t \in DocTypes : cache[t] # None /\ cache[t].status = "published"
                           => cache[t].rev \in published[t]
  /\ \A p \in Procs : pc[p] \in {"set", "render", "remove"} /\ got[p].status = "published"
                        => got[p].rev \in published[on[p]]

(* A stopped queue is empty. *)
StoppedIsEmpty == server = "stopped" => queue = <<>>

IInv == /\ TypeOK
        /\ Placed
        /\ Honest
        /\ QueueHasRunner
        /\ ChangeOnItsWay
        /\ StoredWasPublished
        /\ StoppedIsEmpty

-----------------------------------------------------------------------------
(* Lists without duplicates.                                               *)

LEMMA KeysOfConcat ==
  ASSUME NEW S, NEW a \in Seq(S), NEW b \in Seq(S)
  PROVE  /\ a \o b \in Seq(S)
         /\ Keys(a \o b) = Keys(a) \cup Keys(b)
<1>1. /\ a \o b \in Seq(S)
      /\ Len(a \o b) = Len(a) + Len(b)
      /\ \A i \in 1 .. Len(a) + Len(b) :
           (a \o b)[i] = IF i <= Len(a) THEN a[i] ELSE b[i - Len(a)]
  BY ConcatProperties
<1>2. /\ Len(a) \in Nat /\ Len(b) \in Nat
      /\ DOMAIN a = 1 .. Len(a) /\ DOMAIN b = 1 .. Len(b)
      /\ DOMAIN (a \o b) = 1 .. Len(a) + Len(b)
  BY <1>1, LenProperties
<1>3. ASSUME NEW x \in Keys(a \o b) PROVE x \in Keys(a) \cup Keys(b)
  <2>1. PICK i \in 1 .. Len(a) + Len(b) : x = (a \o b)[i]
    BY <1>2, <1>3 DEF Keys
  <2>2. CASE i <= Len(a)
    BY <1>1, <1>2, <2>1, <2>2 DEF Keys
  <2>3. CASE ~(i <= Len(a))
    <3>1. i - Len(a) \in DOMAIN b /\ x = b[i - Len(a)]
      BY <1>1, <1>2, <2>1, <2>3
    <3>2. QED
      BY <3>1 DEF Keys
  <2>4. QED
    BY <2>2, <2>3
<1>4. ASSUME NEW i \in DOMAIN a PROVE a[i] \in Keys(a \o b)
  <2>1. i \in DOMAIN (a \o b) /\ (a \o b)[i] = a[i]
    BY <1>1, <1>2, <1>4
  <2>2. QED
    BY <2>1 DEF Keys
<1>5. ASSUME NEW i \in DOMAIN b PROVE b[i] \in Keys(a \o b)
  <2>1. i + Len(a) \in DOMAIN (a \o b) /\ (a \o b)[i + Len(a)] = b[i]
    BY <1>1, <1>2, <1>5
  <2>2. QED
    BY <2>1 DEF Keys
<1>6. Keys(a) \cup Keys(b) \subseteq Keys(a \o b)
  BY <1>4, <1>5 DEF Keys
<1>7. QED
  BY <1>1, <1>3, <1>6

LEMMA DistinctConcat ==
  ASSUME NEW S, NEW a \in Seq(S), NEW b \in Seq(S),
         Distinct(a), Distinct(b), Keys(a) \cap Keys(b) = {}
  PROVE  Distinct(a \o b)
<1>1. /\ a \o b \in Seq(S)
      /\ Len(a \o b) = Len(a) + Len(b)
      /\ \A i \in 1 .. Len(a) + Len(b) :
           (a \o b)[i] = IF i <= Len(a) THEN a[i] ELSE b[i - Len(a)]
  BY ConcatProperties
<1>2. /\ Len(a) \in Nat /\ Len(b) \in Nat
      /\ DOMAIN a = 1 .. Len(a) /\ DOMAIN b = 1 .. Len(b)
      /\ DOMAIN (a \o b) = 1 .. Len(a) + Len(b)
  BY <1>1, LenProperties
<1>3. \A i \in DOMAIN a, j \in DOMAIN b : a[i] # b[j]
  BY DEF Keys
<1>4. SUFFICES ASSUME NEW i \in 1 .. Len(a) + Len(b), NEW j \in 1 .. Len(a) + Len(b),
                      (a \o b)[i] = (a \o b)[j]
               PROVE  i = j
  BY <1>2 DEF Distinct
<1>5. CASE i <= Len(a) /\ j <= Len(a)
  BY <1>1, <1>2, <1>4, <1>5 DEF Distinct
<1>6. CASE ~(i <= Len(a)) /\ ~(j <= Len(a))
  <2>1. /\ i - Len(a) \in DOMAIN b /\ j - Len(a) \in DOMAIN b
        /\ b[i - Len(a)] = b[j - Len(a)]
    BY <1>1, <1>2, <1>4, <1>6
  <2>2. i - Len(a) = j - Len(a)
    BY <2>1 DEF Distinct
  <2>3. QED
    BY <1>2, <2>2
<1>7. CASE i <= Len(a) /\ ~(j <= Len(a))
  <2>1. i \in DOMAIN a /\ j - Len(a) \in DOMAIN b /\ a[i] = b[j - Len(a)]
    BY <1>1, <1>2, <1>4, <1>7
  <2>2. QED
    BY <1>3, <2>1
<1>8. CASE ~(i <= Len(a)) /\ j <= Len(a)
  <2>1. j \in DOMAIN a /\ i - Len(a) \in DOMAIN b /\ a[j] = b[i - Len(a)]
    BY <1>1, <1>2, <1>4, <1>8
  <2>2. QED
    BY <1>3, <2>1
<1>9. QED
  BY <1>5, <1>6, <1>7, <1>8

LEMMA KeysOfTail ==
  ASSUME NEW S, NEW q \in Seq(S), q # <<>>, Distinct(q)
  PROVE  /\ Head(q) \in S
         /\ Tail(q) \in Seq(S)
         /\ Distinct(Tail(q))
         /\ Keys(Tail(q)) = Keys(q) \ {Head(q)}
<1>1. /\ Head(q) \in S /\ Tail(q) \in Seq(S)
      /\ Len(Tail(q)) = Len(q) - 1
      /\ \A i \in 1 .. Len(Tail(q)) : Tail(q)[i] = q[i + 1]
  BY HeadTailProperties
<1>2. /\ Len(q) \in Nat /\ Len(q) >= 1
      /\ DOMAIN q = 1 .. Len(q) /\ DOMAIN Tail(q) = 1 .. Len(q) - 1
      /\ Head(q) = q[1]
  BY <1>1, LenProperties, EmptySeq
<1>3. ASSUME NEW i \in DOMAIN Tail(q)
      PROVE  i + 1 \in DOMAIN q /\ Tail(q)[i] = q[i + 1] /\ q[i + 1] # q[1]
  BY <1>1, <1>2 DEF Distinct
<1>4. Distinct(Tail(q))
  <2>1. SUFFICES ASSUME NEW i \in DOMAIN Tail(q), NEW j \in DOMAIN Tail(q),
                        Tail(q)[i] = Tail(q)[j]
                 PROVE  i = j
    BY DEF Distinct
  <2>2. i + 1 = j + 1
    BY <1>3, <2>1 DEF Distinct
  <2>3. QED
    BY <1>2, <2>2
<1>5. ASSUME NEW i \in DOMAIN q, q[i] # q[1] PROVE q[i] \in Keys(Tail(q))
  <2>1. i - 1 \in DOMAIN Tail(q) /\ Tail(q)[i - 1] = q[i]
    BY <1>1, <1>2, <1>5
  <2>2. QED
    BY <2>1 DEF Keys
<1>6. \A i \in DOMAIN Tail(q) : Tail(q)[i] \in Keys(q) \ {Head(q)}
  BY <1>2, <1>3 DEF Keys
<1>7. QED
  BY <1>1, <1>2, <1>4, <1>5, <1>6 DEF Keys

LEMMA NoKeys ==
  ASSUME NEW S, NEW q \in Seq(S)
  PROVE  Keys(q) \subseteq S /\ (q = <<>> <=> Keys(q) = {})
<1>1. Len(q) \in Nat /\ DOMAIN q = 1 .. Len(q) /\ \A i \in 1 .. Len(q) : q[i] \in S
  BY LenProperties, ElementOfSeq
<1>2. q # <<>> => 1 \in DOMAIN q
  BY <1>1, EmptySeq
<1>3. q = <<>> => DOMAIN q = {}
  BY <1>1, EmptySeq
<1>4. QED
  BY <1>1, <1>2, <1>3 DEF Keys

-----------------------------------------------------------------------------
(* The queue.                                                              *)

LEMMA StoredTypes ==
  /\ Stored \subseteq {"tds", "msds", "brochure"}
  /\ \A s \in Stored : Source[s] \in DocTypes
  /\ None \notin Stored
  /\ Source["tds"] = "tds" /\ Source["brochure"] = "tds" /\ Source["msds"] = "msds"
BY NamesAssumption DEF Stored, Source

LEMMA FreshList ==
  ASSUME NEW s
  PROVE  /\ Fresh(s) \in Seq(Stored)
         /\ Distinct(Fresh(s))
         /\ Keys(Fresh(s)) = {s} \cap (Stored \ queued)
<1>1. CASE s \in Stored \ queued
  <2>1. Fresh(s) = <<s>>
    BY <1>1 DEF Fresh
  <2>2. <<s>> \in Seq(Stored) /\ DOMAIN <<s>> = {1} /\ <<s>>[1] = s
    BY <1>1
  <2>3. Keys(<<s>>) = {s} /\ Distinct(<<s>>)
    BY <2>2 DEF Keys, Distinct
  <2>4. QED
    BY <1>1, <2>1, <2>2, <2>3
<1>2. CASE s \notin Stored \ queued
  <2>1. Fresh(s) = <<>>
    BY <1>2 DEF Fresh
  <2>2. <<>> \in Seq(Stored) /\ DOMAIN <<>> = {}
    BY EmptySeq
  <2>3. Keys(<<>>) = {} /\ Distinct(<<>>)
    BY <2>2 DEF Keys, Distinct
  <2>4. QED
    BY <1>2, <2>1, <2>2, <2>3
<1>3. QED
  BY <1>1, <1>2

LEMMA AllList ==
  /\ All \in Seq(Stored) /\ Distinct(All)
  /\ Keys(All) = Stored \ queued
<1> DEFINE t == Fresh("tds")
           m == Fresh("msds")
           b == Fresh("brochure")
<1>1. /\ t \in Seq(Stored) /\ m \in Seq(Stored) /\ b \in Seq(Stored)
      /\ Distinct(t) /\ Distinct(m) /\ Distinct(b)
      /\ Keys(t) = {"tds"} \cap (Stored \ queued)
      /\ Keys(m) = {"msds"} \cap (Stored \ queued)
      /\ Keys(b) = {"brochure"} \cap (Stored \ queued)
  BY FreshList
<1> HIDE DEF t, m, b
<1>2. t \o m \in Seq(Stored) /\ Keys(t \o m) = Keys(t) \cup Keys(m)
  BY <1>1, KeysOfConcat
<1>3. Distinct(t \o m)
  BY <1>1, DistinctConcat
<1> DEFINE tm == t \o m
<1>a. tm \in Seq(Stored) /\ Keys(tm) = Keys(t) \cup Keys(m) /\ Distinct(tm)
  BY <1>2, <1>3
<1> HIDE DEF tm
<1>4. tm \o b \in Seq(Stored) /\ Keys(tm \o b) = Keys(t) \cup Keys(m) \cup Keys(b)
  BY <1>1, <1>a, KeysOfConcat
<1>5. Keys(tm) \cap Keys(b) = {}
  BY <1>1, <1>a
<1>6. Distinct(tm \o b)
  BY <1>1, <1>a, <1>5, DistinctConcat
<1>7. Keys(t) \cup Keys(m) \cup Keys(b) = Stored \ queued
  BY <1>1, StoredTypes
<1>8. QED
  BY <1>4, <1>6, <1>7 DEF All, tm, t, m, b

LEMMA AffectedList ==
  ASSUME NEW d \in DocTypes
  PROVE  /\ Affected(d) \in Seq(Stored) /\ Distinct(Affected(d))
         /\ Keys(Affected(d)) \cap queued = {}
         /\ \A s \in Stored : Source[s] = d => s \in Keys(Affected(d)) \cup queued
<1> DEFINE t == Fresh("tds")
           b == Fresh("brochure")
<1>1. /\ t \in Seq(Stored) /\ b \in Seq(Stored) /\ Fresh("msds") \in Seq(Stored)
      /\ Distinct(t) /\ Distinct(b) /\ Distinct(Fresh("msds"))
      /\ Keys(t) = {"tds"} \cap (Stored \ queued)
      /\ Keys(b) = {"brochure"} \cap (Stored \ queued)
      /\ Keys(Fresh("msds")) = {"msds"} \cap (Stored \ queued)
  BY FreshList
<1>2. CASE d = "tds"
  <2>1. Affected(d) = t \o b
    BY <1>2 DEF Affected
  <2> HIDE DEF t, b
  <2>2. t \o b \in Seq(Stored) /\ Keys(t \o b) = Keys(t) \cup Keys(b)
    BY <1>1, KeysOfConcat
  <2>3. Distinct(t \o b)
    BY <1>1, DistinctConcat
  <2>4. QED
    BY <1>1, <1>2, <2>1, <2>2, <2>3, StoredTypes
<1>3. CASE d # "tds"
  <2>1. Affected(d) = Fresh("msds") /\ d = "msds"
    BY <1>3, DocTypesAssumption DEF Affected
  <2>2. QED
    BY <1>1, <2>1, StoredTypes
<1>4. QED
  BY <1>2, <1>3

(* What the start of a job leaves of a list of PDFs, and of their keys.    *)
LEMMA BeginStep ==
  ASSUME NEW q \in Seq(Stored), q # <<>>, Distinct(q),
         NEW keys, keys = Keys(q),
         behind \in [Stored -> BOOLEAN],
         NEW places \in [Procs -> Places],
         Begin(q, keys, places)
  PROVE  /\ queue' \in Seq(Stored) /\ Distinct(queue')
         /\ queued' = Keys(queue') /\ queued' \in SUBSET Stored
         /\ job' \in Stored
         /\ pc' \in [Procs -> Places] /\ pc'[Drainer] = "get"
         /\ \A c \in Clients : pc'[c] = places[c]
         /\ behind' \in [Stored -> BOOLEAN]
         /\ \A s \in Stored : behind'[s] =>
              behind[s] /\ (s \in Keys(q) => s \in Keys(queue'))
<1>1. /\ queue' = Tail(q) /\ queued' = keys \ {Head(q)} /\ job' = Head(q)
      /\ behind' = [behind EXCEPT ![Head(q)] = FALSE]
      /\ pc' = [places EXCEPT ![Drainer] = "get"]
  BY DEF Begin, Without
<1>2. /\ Head(q) \in Stored /\ Tail(q) \in Seq(Stored) /\ Distinct(Tail(q))
      /\ Keys(Tail(q)) = Keys(q) \ {Head(q)}
  BY KeysOfTail
<1>3. Keys(Tail(q)) \subseteq Stored
  BY <1>2, NoKeys
<1>4. /\ pc' \in [Procs -> Places] /\ pc'[Drainer] = "get"
      /\ \A c \in Clients : pc'[c] = places[c]
  BY <1>1, NamesAssumption DEF Procs, Places
<1>5. QED
  BY <1>1, <1>2, <1>3, <1>4

(* What queueing a list of PDFs does.  `places` is where everybody is but  *)
(* for the drain loop, which a list may start.                             *)
LEMMA EnqueueStep ==
  ASSUME IInv,
         NEW fresh \in Seq(Stored), Distinct(fresh), Keys(fresh) \cap queued = {},
         NEW places \in [Procs -> Places], places[Drainer] = pc[Drainer],
         Enqueue(fresh, places)
  PROVE  /\ queue' \in Seq(Stored) /\ Distinct(queue')
         /\ queued' = Keys(queue') /\ queued' \in SUBSET Stored
         /\ queue' # <<>> => pc'[Drainer] # "idle"
         /\ pc' \in [Procs -> Places]
         /\ \A c \in Clients : pc'[c] = places[c]
         /\ \/ pc'[Drainer] = pc[Drainer] /\ job' = job
            \/ pc'[Drainer] = "get" /\ job' \in Stored
         /\ behind' \in [Stored -> BOOLEAN]
         /\ \A s \in Stored : behind'[s] =>
              /\ behind[s]
              /\ s \in Keys(queue) => s \in Keys(queue')
              /\ server # "stopped" /\ s \in Keys(fresh) => s \in Keys(queue')
         /\ server = "stopped" => queue' = queue
<1>1. /\ queue \in Seq(Stored) /\ Distinct(queue) /\ queued = Keys(queue)
      /\ queued \in SUBSET Stored /\ behind \in [Stored -> BOOLEAN]
      /\ queue # <<>> => pc[Drainer] # "idle"
  BY DEF IInv, TypeOK, QueueHasRunner
<1>2. /\ queue \o fresh \in Seq(Stored)
      /\ Keys(queue \o fresh) = queued \cup Keys(fresh)
  BY <1>1, KeysOfConcat
<1>3. Distinct(queue \o fresh)
  BY <1>1, DistinctConcat
<1>4. Keys(fresh) \subseteq Stored /\ (fresh = <<>> => Keys(fresh) = {})
  BY NoKeys
<1>5. Drainer \in Procs /\ \A c \in Clients : c \in Procs
  BY DEF Procs
<1>6. ASSUME server = "stopped" \/ fresh = <<>>, pc' = places,
             UNCHANGED <<pending, behind>>
      PROVE  /\ queue' = queue /\ queued' = queued /\ job' = job /\ behind' = behind
             /\ pc' = places /\ (server = "stopped" \/ Keys(fresh) = {})
  BY <1>4, <1>6 DEF pending
<1>7. ASSUME server # "stopped", fresh # <<>>, pc[Drainer] # "idle",
             queue' = queue \o fresh, queued' = queued \cup Keys(fresh),
             pc' = places, UNCHANGED <<job, behind>>
      PROVE  /\ queue' = queue \o fresh /\ queued' = Keys(queue')
             /\ Keys(queue) \subseteq Keys(queue') /\ Keys(fresh) \subseteq Keys(queue')
             /\ job' = job /\ behind' = behind /\ pc' = places
  BY <1>1, <1>2, <1>7
<1>8. ASSUME server # "stopped", fresh # <<>>, pc[Drainer] = "idle",
             Begin(queue \o fresh, queued \cup Keys(fresh), places)
      PROVE  /\ queue' \in Seq(Stored) /\ Distinct(queue')
             /\ queued' = Keys(queue') /\ queued' \in SUBSET Stored
             /\ job' \in Stored
             /\ pc' \in [Procs -> Places] /\ pc'[Drainer] = "get"
             /\ \A c \in Clients : pc'[c] = places[c]
             /\ behind' \in [Stored -> BOOLEAN]
             /\ \A s \in Stored : behind'[s] =>
                  behind[s] /\ (s \in queued \cup Keys(fresh) => s \in Keys(queue'))
  <2> DEFINE q == queue \o fresh
             keys == queued \cup Keys(fresh)
  <2>1. q # <<>>
    BY <1>1, <1>8, ConcatEqualIffEmpty
  <2>2. /\ q \in Seq(Stored) /\ Distinct(q) /\ keys = Keys(q)
        /\ behind \in [Stored -> BOOLEAN] /\ places \in [Procs -> Places]
        /\ Begin(q, keys, places)
    BY <1>1, <1>2, <1>3, <1>8
  <2> HIDE DEF q, keys
  <2>3. /\ queue' \in Seq(Stored) /\ Distinct(queue')
        /\ queued' = Keys(queue') /\ queued' \in SUBSET Stored
        /\ job' \in Stored
        /\ pc' \in [Procs -> Places] /\ pc'[Drainer] = "get"
        /\ \A c \in Clients : pc'[c] = places[c]
        /\ behind' \in [Stored -> BOOLEAN]
        /\ \A s \in Stored : behind'[s] =>
             behind[s] /\ (s \in Keys(q) => s \in Keys(queue'))
    BY <2>1, <2>2, BeginStep
  <2>4. QED
    BY <2>2, <2>3 DEF keys
<1>9. CASE server = "stopped" \/ fresh = <<>>
  <2>1. pc' = places /\ UNCHANGED <<pending, behind>>
    BY <1>9 DEF Enqueue
  <2>2. QED
    BY <1>1, <1>5, <1>6, <1>9, <2>1
<1>10. CASE server # "stopped" /\ fresh # <<>> /\ pc[Drainer] # "idle"
  <2>1. /\ queue' = queue \o fresh /\ queued' = queued \cup Keys(fresh)
        /\ pc' = places /\ UNCHANGED <<job, behind>>
    BY <1>10 DEF Enqueue
  <2>2. QED
    BY <1>1, <1>2, <1>3, <1>4, <1>5, <1>7, <1>10, <2>1
<1>11. CASE server # "stopped" /\ fresh # <<>> /\ pc[Drainer] = "idle"
  <2>1. Begin(queue \o fresh, queued \cup Keys(fresh), places)
    BY <1>11 DEF Enqueue
  <2>2. QED
    BY <1>1, <1>8, <1>11, <2>1
<1>12. QED
  BY <1>9, <1>10, <1>11

-----------------------------------------------------------------------------
(* Frames.                                                                 *)

(* One process moves and the queue does not: nothing is stranded, unless   *)
(* it is the drain loop that ends or a request that had news.              *)
LEMMA QueueKept ==
  ASSUME IInv, queue' = queue, queued' = queued, behind' = behind, server' = server,
         NEW p \in Procs, \A q \in Procs : q # p => pc'[q] = pc[q] /\ on'[q] = on[q],
         p = Drainer => pc'[p] # "idle" \/ pc[p] = "idle" \/ queue = <<>>,
         p # Drainer /\ pc[p] \in {"committed", "deleted"} =>
            pc'[p] \in {"committed", "deleted"} /\ on'[p] = on[p]
  PROVE  QueueHasRunner' /\ ChangeOnItsWay' /\ StoppedIsEmpty'
<1>1. QueueHasRunner' /\ StoppedIsEmpty'
  BY DEF IInv, QueueHasRunner, StoppedIsEmpty, Procs
<1>2. ASSUME NEW s \in Stored, behind'[s]
      PROVE  \/ s \in Keys(queue)
             \/ \E c \in Clients : on'[c] = Source[s] /\ pc'[c] \in {"committed", "deleted"}
             \/ server \in {"booting", "stopped"}
  <2>1. \/ s \in Keys(queue)
        \/ \E c \in Clients : on[c] = Source[s] /\ pc[c] \in {"committed", "deleted"}
        \/ server \in {"booting", "stopped"}
    BY <1>2 DEF IInv, ChangeOnItsWay
  <2>2. CASE \E c \in Clients : on[c] = Source[s] /\ pc[c] \in {"committed", "deleted"}
    <3>1. PICK c \in Clients : on[c] = Source[s] /\ pc[c] \in {"committed", "deleted"}
      BY <2>2
    <3>2. on'[c] = Source[s] /\ pc'[c] \in {"committed", "deleted"}
      BY <3>1, NamesAssumption DEF Procs
    <3>3. QED
      BY <3>2
  <2>3. QED
    BY <2>1, <2>2
<1>3. ChangeOnItsWay'
  BY <1>2 DEF ChangeOnItsWay
<1>4. QED
  BY <1>1, <1>3

LEMMA FilesKept ==
  ASSUME IInv, files' = files, \A t \in DocTypes : published[t] \subseteq published'[t]
  PROVE  StoredWasPublished'
BY StoredTypes DEF IInv, StoredWasPublished

LEMMA Members == /\ Drainer \in Procs /\ \A c \in Clients : c \in Procs /\ c # Drainer
                 /\ \A p \in Procs : p \in Clients \/ p = Drainer
BY NamesAssumption DEF Procs

-----------------------------------------------------------------------------
(* Readers.                                                                *)

LEMMA GetDocumentStep ==
  ASSUME IInv, NEW c \in Clients, NEW t \in DocTypes, GetDocument(c, t)
  PROVE  IInv'
<1>1. /\ pc[c] = "idle"
      /\ pc' = [pc EXCEPT ![c] = "get"] /\ on' = [on EXCEPT ![c] = t]
      /\ doc' = doc /\ edits' = edits /\ published' = published /\ cache' = cache
      /\ got' = got /\ to' = to /\ queue' = queue /\ queued' = queued /\ job' = job
      /\ files' = files /\ server' = server /\ restarts' = restarts /\ behind' = behind
  BY DEF GetDocument, At, rows, pending, process
<1>2. TypeOK'
  BY <1>1, Members DEF IInv, TypeOK, Places
<1>3. Placed'
  BY <1>1, Members DEF IInv, TypeOK, Placed, ClientPlaces
<1>4. Honest'
  BY <1>1, Members DEF IInv, TypeOK, Honest
<1>5. QueueHasRunner' /\ ChangeOnItsWay' /\ StoppedIsEmpty'
  BY <1>1, Members, QueueKept DEF IInv, TypeOK
<1>6. StoredWasPublished'
  BY <1>1, FilesKept
<1>7. QED
  BY <1>2, <1>3, <1>4, <1>5, <1>6 DEF IInv

(* A read of d returns, and leaves honest entries in the cache. *)
LEMMA ReturnStep ==
  ASSUME IInv, NEW p \in Procs, NEW d \in Document, pc[p] \in {"get", "set"},
         d.status = "published" => d.rev \in published[on[p]],
         Return(p, d),
         cache' \in [DocTypes -> Document \cup {None}],
         \A t \in DocTypes : cache'[t] # None /\ cache'[t].status = "published"
                               => cache'[t].rev \in published[t],
         doc' = doc, edits' = edits, published' = published, to' = to,
         queue' = queue, queued' = queued, job' = job, files' = files,
         server' = server, restarts' = restarts, behind' = behind
  PROVE  IInv'
<1>1. CASE p = Drainer
  <2>1. /\ pc' = [pc EXCEPT ![Drainer] = "render"]
        /\ got' = [got EXCEPT ![Drainer] = d]
        /\ on' = on
    BY <1>1, Members DEF Return, At, IInv, TypeOK
  <2>2. pc[Drainer] \in Busy
    BY <1>1 DEF Busy
  <2>3. TypeOK'
    BY <2>1, Members DEF IInv, TypeOK, Places
  <2>4. Placed'
    BY <1>1, <2>1, <2>2, Members DEF IInv, TypeOK, Placed, Busy
  <2>5. Honest'
    BY <1>1, <2>1, Members DEF IInv, TypeOK, Honest
  <2>6. QueueHasRunner' /\ ChangeOnItsWay' /\ StoppedIsEmpty'
    BY <1>1, <2>1, Members, QueueKept DEF IInv, TypeOK
  <2>7. QED
    BY <2>3, <2>4, <2>5, <2>6, FilesKept DEF IInv
<1>2. CASE p \in Clients
  <2>1. /\ pc' = [pc EXCEPT ![p] = "idle"]
        /\ got' = [got EXCEPT ![p] = None]
        /\ on' = [on EXCEPT ![p] = None]
    BY <1>2, Members DEF Return, At
  <2>3. TypeOK'
    BY <2>1, Members DEF IInv, TypeOK, Places
  <2>4. Placed'
    BY <1>2, <2>1, Members DEF IInv, TypeOK, Placed, ClientPlaces
  <2>5. Honest'
    BY <1>2, <2>1, Members DEF IInv, TypeOK, Honest
  <2>6. QueueHasRunner' /\ ChangeOnItsWay' /\ StoppedIsEmpty'
    BY <1>2, <2>1, Members, QueueKept DEF IInv, TypeOK
  <2>7. QED
    BY <2>3, <2>4, <2>5, <2>6, FilesKept DEF IInv
<1>3. QED
  BY <1>1, <1>2, Members

(* Whoever is reading has a document to read. *)
LEMMA ReaderOn ==
  ASSUME IInv, NEW p \in Procs, pc[p] \in {"get", "query", "set"}
  PROVE  on[p] \in DocTypes
BY Members, StoredTypes DEF IInv, Placed, Busy

LEMMA CacheHitStep ==
  ASSUME IInv, NEW p \in Procs, CacheHit(p)
  PROVE  IInv'
<1>1. /\ pc[p] = "get" /\ cache[on[p]] # None /\ Return(p, cache[on[p]])
      /\ doc' = doc /\ edits' = edits /\ published' = published /\ cache' = cache
      /\ to' = to /\ queue' = queue /\ queued' = queued /\ job' = job
      /\ files' = files /\ server' = server /\ restarts' = restarts /\ behind' = behind
  BY DEF CacheHit, rows, pending, process
<1> DEFINE d == cache[on[p]]
<1>2. d \in Document /\ (d.status = "published" => d.rev \in published[on[p]])
  BY <1>1, ReaderOn DEF IInv, TypeOK, Honest
<1>3. /\ cache' \in [DocTypes -> Document \cup {None}]
      /\ \A t \in DocTypes : cache'[t] # None /\ cache'[t].status = "published"
                               => cache'[t].rev \in published[t]
  BY <1>1 DEF IInv, TypeOK, Honest
<1>4. Return(p, d)
  BY <1>1
<1> HIDE DEF d
<1>5. QED
  BY <1>1, <1>2, <1>3, <1>4, ReturnStep

LEMMA CacheMissStep ==
  ASSUME IInv, NEW p \in Procs, CacheMiss(p)
  PROVE  IInv'
<1>1. /\ pc[p] = "get" /\ pc' = [pc EXCEPT ![p] = "query"]
      /\ doc' = doc /\ edits' = edits /\ published' = published /\ cache' = cache
      /\ on' = on /\ got' = got /\ to' = to
      /\ queue' = queue /\ queued' = queued /\ job' = job
      /\ files' = files /\ server' = server /\ restarts' = restarts /\ behind' = behind
  BY DEF CacheMiss, At, rows, readers, pending, process
<1>2. TypeOK'
  BY <1>1 DEF IInv, TypeOK, Places
<1>3. Placed'
  BY <1>1, Members DEF IInv, TypeOK, Placed, ClientPlaces, Busy
<1>4. Honest'
  BY <1>1 DEF IInv, TypeOK, Honest
<1>5. QueueHasRunner' /\ ChangeOnItsWay' /\ StoppedIsEmpty'
  BY <1>1, QueueKept DEF IInv, TypeOK
<1>6. QED
  BY <1>1, <1>2, <1>3, <1>4, <1>5, FilesKept DEF IInv

LEMMA QueryRowStep ==
  ASSUME IInv, NEW p \in Procs, QueryRow(p)
  PROVE  IInv'
<1>1. /\ pc[p] = "query" /\ pc' = [pc EXCEPT ![p] = "set"]
      /\ got' = [got EXCEPT ![p] = doc[on[p]]]
      /\ doc' = doc /\ edits' = edits /\ published' = published /\ cache' = cache
      /\ on' = on /\ to' = to /\ queue' = queue /\ queued' = queued /\ job' = job
      /\ files' = files /\ server' = server /\ restarts' = restarts /\ behind' = behind
  BY DEF QueryRow, At, rows, pending, process
<1>2. /\ on[p] \in DocTypes /\ doc[on[p]] \in Document
      /\ doc[on[p]].status = "published" => doc[on[p]].rev \in published[on[p]]
  BY <1>1, ReaderOn DEF IInv, TypeOK, Honest
<1>3. TypeOK'
  BY <1>1, <1>2 DEF IInv, TypeOK, Places
<1>4. Placed'
  BY <1>1, <1>2, Members DEF IInv, TypeOK, Placed, ClientPlaces, Busy
<1>5. Honest'
  BY <1>1, <1>2 DEF IInv, TypeOK, Honest
<1>6. QueueHasRunner' /\ ChangeOnItsWay' /\ StoppedIsEmpty'
  BY <1>1, QueueKept DEF IInv, TypeOK
<1>7. QED
  BY <1>1, <1>3, <1>4, <1>5, <1>6, FilesKept DEF IInv

LEMMA CacheSetStep ==
  ASSUME IInv, NEW p \in Procs, CacheSet(p)
  PROVE  IInv'
<1>1. /\ pc[p] = "set" /\ Return(p, got[p])
      /\ cache' = [cache EXCEPT ![on[p]] = got[p]] \/ cache' = cache
      /\ doc' = doc /\ edits' = edits /\ published' = published
      /\ to' = to /\ queue' = queue /\ queued' = queued /\ job' = job
      /\ files' = files /\ server' = server /\ restarts' = restarts /\ behind' = behind
  BY DEF CacheSet, rows, pending, process
<1> DEFINE d == got[p]
<1>2. d \in Document /\ (d.status = "published" => d.rev \in published[on[p]])
  BY <1>1 DEF IInv, Placed, Honest
<1>3. on[p] \in DocTypes
  BY <1>1, ReaderOn
<1>4. cache' \in [DocTypes -> Document \cup {None}]
  BY <1>1, <1>2, <1>3 DEF IInv, TypeOK
<1>5. \A t \in DocTypes : cache'[t] # None /\ cache'[t].status = "published"
                            => cache'[t].rev \in published[t]
  BY <1>1, <1>2, <1>3 DEF IInv, TypeOK, Honest
<1>6. Return(p, d)
  BY <1>1
<1> HIDE DEF d
<1>7. QED
  BY <1>1, <1>2, <1>4, <1>5, <1>6, ReturnStep

LEMMA ExpireStep ==
  ASSUME IInv, NEW t \in DocTypes, Expire(t)
  PROVE  IInv'
<1>1. /\ cache' = [cache EXCEPT ![t] = None]
      /\ doc' = doc /\ edits' = edits /\ published' = published
      /\ pc' = pc /\ on' = on /\ got' = got /\ to' = to
      /\ queue' = queue /\ queued' = queued /\ job' = job
      /\ files' = files /\ server' = server /\ restarts' = restarts /\ behind' = behind
  BY DEF Expire, rows, readers, pending, process
<1>2. TypeOK' /\ Placed' /\ Honest'
  BY <1>1 DEF IInv, TypeOK, Placed, Honest
<1>3. QED
  BY <1>1, <1>2
  DEF IInv, QueueHasRunner, ChangeOnItsWay, StoredWasPublished, StoppedIsEmpty

-----------------------------------------------------------------------------
(* Changing a document.                                                    *)

(* A commit by a request that goes on to announce it.                      *)
LEMMA CommitStep ==
  ASSUME IInv, NEW c \in Clients, NEW t \in DocTypes, NEW d \in Document,
         pc[c] \in {"idle", "checked"},
         Commit(t, d), pc' = [pc EXCEPT ![c] = "committed"],
         on' = [on EXCEPT ![c] = t],
         to' \in [Clients -> Statuses \cup {None}],
         \A x \in Clients : x # c => to'[x] = to[x],
         edits' \in 0..MaxEdits,
         cache' = cache, got' = got, queue' = queue, queued' = queued, job' = job,
         files' = files, server' = server, restarts' = restarts
  PROVE  IInv'
<1>1. /\ doc' = [doc EXCEPT ![t] = d]
      /\ published' = [published EXCEPT ![t] =
                         IF d.status = "published" THEN @ \cup {d.rev} ELSE @]
      /\ behind' = [s \in Stored |-> Source[s] = t \/ behind[s]]
  BY DEF Commit
<1>2. d.rev \in 0..MaxEdits
  BY DEF Document
<1>3. published' \in [DocTypes -> SUBSET (0..MaxEdits)]
  BY <1>1, <1>2 DEF IInv, TypeOK
<1>4. \A x \in DocTypes : published[x] \subseteq published'[x]
  BY <1>1 DEF IInv, TypeOK
<1>5. behind' \in [Stored -> BOOLEAN]
  BY <1>1 DEF IInv, TypeOK
<1>6. TypeOK'
  BY <1>1, <1>3, <1>5, Members DEF IInv, TypeOK, Places
<1>7. Placed'
  BY Members DEF IInv, TypeOK, Placed, ClientPlaces
<1>8. Honest'
  <2>1. \A x \in DocTypes : doc'[x].status = "published" => doc'[x].rev \in published'[x]
    BY <1>1 DEF IInv, TypeOK, Honest
  <2>2. \A x \in DocTypes : cache'[x] # None /\ cache'[x].status = "published"
                              => cache'[x].rev \in published'[x]
    BY <1>4 DEF IInv, Honest
  <2>3. ASSUME NEW p \in Procs, pc'[p] \in {"set", "render", "remove"},
               got'[p].status = "published"
        PROVE  got'[p].rev \in published'[on'[p]]
    <3>1. p # c /\ pc[p] \in {"set", "render", "remove"} /\ on'[p] = on[p]
      BY <2>3, Members DEF IInv, TypeOK
    <3>2. on[p] \in DocTypes
      BY <3>1, Members, StoredTypes DEF IInv, Placed, ClientPlaces, Busy
    <3>3. QED
      BY <1>4, <2>3, <3>1, <3>2 DEF IInv, Honest
  <2>4. QED
    BY <2>1, <2>2, <2>3 DEF Honest
<1>9. QueueHasRunner' /\ StoppedIsEmpty'
  BY Members DEF IInv, TypeOK, QueueHasRunner, StoppedIsEmpty
<1>10. ChangeOnItsWay'
  <2>1. SUFFICES ASSUME NEW s \in Stored, behind'[s]
                 PROVE  \/ s \in Keys(queue')
                        \/ \E x \in Clients :
                             on'[x] = Source[s] /\ pc'[x] \in {"committed", "deleted"}
                        \/ server' \in {"booting", "stopped"}
    BY DEF ChangeOnItsWay
  <2>2. pc'[c] = "committed" /\ on'[c] = t
    BY Members DEF IInv, TypeOK
  <2>3. CASE Source[s] = t
    BY <2>2, <2>3
  <2>4. CASE Source[s] # t
    <3>1. behind[s]
      BY <1>1, <2>1, <2>4
    <3>2. CASE \E x \in Clients : on[x] = Source[s] /\ pc[x] \in {"committed", "deleted"}
      <4>1. PICK x \in Clients : on[x] = Source[s] /\ pc[x] \in {"committed", "deleted"}
        BY <3>2
      <4>2. CASE x = c
        BY <4>1, <4>2
      <4>3. CASE x # c
        BY <4>1, <4>3, Members DEF IInv, TypeOK
      <4>4. QED
        BY <4>2, <4>3
    <3>3. QED
      BY <3>1, <3>2 DEF IInv, ChangeOnItsWay
  <2>5. QED
    BY <2>3, <2>4
<1>11. QED
  BY <1>4, <1>6, <1>7, <1>8, <1>9, <1>10, FilesKept DEF IInv

LEMMA UpdateDocumentStep ==
  ASSUME IInv, NEW c \in Clients, NEW t \in DocTypes, UpdateDocument(c, t)
  PROVE  IInv'
<1> DEFINE d == [status |-> doc[t].status, rev |-> edits + 1]
<1>1. /\ pc[c] = "idle" /\ edits < MaxEdits /\ edits' = edits + 1
      /\ Commit(t, d)
      /\ pc' = [pc EXCEPT ![c] = "committed"] /\ on' = [on EXCEPT ![c] = t]
      /\ cache' = cache /\ got' = got /\ to' = to
      /\ queue' = queue /\ queued' = queued /\ job' = job
      /\ files' = files /\ server' = server /\ restarts' = restarts
  BY DEF UpdateDocument, At, pending, process
<1>2. /\ edits' \in 0..MaxEdits /\ doc[t].status \in Statuses
      /\ to' \in [Clients -> Statuses \cup {None}]
  BY <1>1, BoundsAssumption DEF IInv, TypeOK, Document
<1>3. d \in Document
  BY <1>1, <1>2 DEF Document
<1> HIDE DEF d
<1>4. QED
  BY <1>1, <1>2, <1>3, CommitStep

LEMMA TransitionCheckStep ==
  ASSUME IInv, NEW c \in Clients, NEW t \in DocTypes, NEW s \in Statuses,
         TransitionCheck(c, t, s)
  PROVE  IInv'
<1>1. /\ pc[c] = "idle" /\ edits < MaxEdits /\ edits' = edits + 1
      /\ pc' = [pc EXCEPT ![c] = "checked"] /\ on' = [on EXCEPT ![c] = t]
      /\ to' = [to EXCEPT ![c] = s]
      /\ doc' = doc /\ published' = published /\ cache' = cache /\ got' = got
      /\ queue' = queue /\ queued' = queued /\ job' = job
      /\ files' = files /\ server' = server /\ restarts' = restarts /\ behind' = behind
  BY DEF TransitionCheck, At, pending, process
<1>2. edits' \in 0..MaxEdits
  BY <1>1, BoundsAssumption DEF IInv, TypeOK
<1>3. TypeOK'
  BY <1>1, <1>2, Members DEF IInv, TypeOK, Places
<1>4. Placed'
  BY <1>1, Members DEF IInv, TypeOK, Placed, ClientPlaces
<1>5. Honest'
  BY <1>1, Members DEF IInv, TypeOK, Honest
<1>6. QueueHasRunner' /\ ChangeOnItsWay' /\ StoppedIsEmpty'
  BY <1>1, Members, QueueKept DEF IInv, TypeOK
<1>7. QED
  BY <1>1, <1>3, <1>4, <1>5, <1>6, FilesKept DEF IInv

LEMMA TransitionCommitStep ==
  ASSUME IInv, NEW c \in Clients, TransitionCommit(c)
  PROVE  IInv'
<1> DEFINE t == on[c]
           d == [status |-> to[c], rev |-> doc[t].rev]
<1>1. /\ pc[c] = "checked" /\ Commit(t, d)
      /\ pc' = [pc EXCEPT ![c] = "committed"] /\ to' = [to EXCEPT ![c] = None]
      /\ edits' = edits /\ cache' = cache /\ on' = on /\ got' = got
      /\ queue' = queue /\ queued' = queued /\ job' = job
      /\ files' = files /\ server' = server /\ restarts' = restarts
  BY DEF TransitionCommit, At, pending, process
<1>2. t \in DocTypes /\ to[c] \in Statuses
  BY <1>1 DEF IInv, Placed
<1>3. d \in Document
  BY <1>2 DEF IInv, TypeOK, Document
<1>4. /\ on' = [on EXCEPT ![c] = t] /\ edits' \in 0..MaxEdits
      /\ to' \in [Clients -> Statuses \cup {None}]
      /\ \A x \in Clients : x # c => to'[x] = to[x]
  BY <1>1, Members DEF IInv, TypeOK
<1> HIDE DEF t, d
<1>5. QED
  BY <1>1, <1>2, <1>3, <1>4, CommitStep

LEMMA CacheDelStep ==
  ASSUME IInv, NEW c \in Clients, CacheDel(c)
  PROVE  IInv'
<1>1. /\ pc[c] = "committed" /\ pc' = [pc EXCEPT ![c] = "deleted"]
      /\ cache' = [cache EXCEPT ![on[c]] = None] \/ cache' = cache
      /\ doc' = doc /\ edits' = edits /\ published' = published
      /\ on' = on /\ got' = got /\ to' = to
      /\ queue' = queue /\ queued' = queued /\ job' = job
      /\ files' = files /\ server' = server /\ restarts' = restarts /\ behind' = behind
  BY DEF CacheDel, At, rows, readers, pending, process
<1>2. TypeOK'
  BY <1>1 DEF IInv, TypeOK, Places
<1>3. Placed'
  BY <1>1, Members DEF IInv, TypeOK, Placed, ClientPlaces
<1>4. Honest'
  BY <1>1 DEF IInv, TypeOK, Honest
<1>5. QueueHasRunner' /\ ChangeOnItsWay' /\ StoppedIsEmpty'
  BY <1>1, Members, QueueKept DEF IInv, TypeOK
<1>6. QED
  BY <1>1, <1>2, <1>3, <1>4, <1>5, FilesKept DEF IInv

-----------------------------------------------------------------------------
(* The drain loop.                                                         *)

(* The drain loop's side of Placed, once a list was queued or a job taken. *)
LEMMA AimStep ==
  ASSUME IInv, on' = Aim(on),
         \/ pc'[Drainer] = pc[Drainer] /\ job' = job
         \/ pc'[Drainer] = "get" /\ job' \in Stored
  PROVE  /\ on' \in [Procs -> DocTypes \cup {None}]
         /\ \A c \in Clients : on'[c] = on[c]
         /\ job' \in Stored \cup {None}
         /\ pc'[Drainer] \in Busy \cup {"idle", "sleep"}
         /\ pc'[Drainer] \in Busy => job' \in Stored /\ on'[Drainer] = Source[job']
         /\ pc'[Drainer] \notin Busy => job' = None
         /\ pc'[Drainer] \in {"set", "render", "remove"} =>
              pc'[Drainer] = pc[Drainer] /\ on'[Drainer] = on[Drainer]
<1>1. /\ on' = [on EXCEPT ![Drainer] = IF job' = None THEN None ELSE Source[job']]
      /\ on \in [Procs -> DocTypes \cup {None}]
  BY DEF Aim, IInv, TypeOK
<1>2. job' \in Stored \cup {None}
  BY DEF IInv, TypeOK
<1>3. (IF job' = None THEN None ELSE Source[job']) \in DocTypes \cup {None}
  BY <1>2, StoredTypes
<1>4. /\ on' \in [Procs -> DocTypes \cup {None}]
      /\ on'[Drainer] = IF job' = None THEN None ELSE Source[job']
      /\ \A c \in Clients : on'[c] = on[c]
  BY <1>1, <1>3, Members
<1>5. QED
  BY <1>2, <1>4, StoredTypes DEF IInv, Placed, Busy

(* What queueing or taking PDFs keeps, when client c, or nobody, moves on  *)
(* from announcing a change.                                               *)
LEMMA QueueMoved ==
  ASSUME IInv, on' = Aim(on),
         \/ pc'[Drainer] = pc[Drainer] /\ job' = job
         \/ pc'[Drainer] = "get" /\ job' \in Stored,
         queue' \in Seq(Stored), Distinct(queue'), queued' \in SUBSET Stored,
         pc' \in [Procs -> Places], behind' \in [Stored -> BOOLEAN],
         \A c \in Clients : pc'[c] = pc[c] \/ (pc[c] = "deleted" /\ pc'[c] = "get"),
         doc' = doc, edits' = edits, published' = published, cache' = cache,
         got' = got, to' = to, files' = files, restarts' = restarts,
         server' \in {"booting", "running", "stopped"}
  PROVE  TypeOK' /\ Placed' /\ Honest' /\ StoredWasPublished'
<1>1. /\ on' \in [Procs -> DocTypes \cup {None}]
      /\ \A c \in Clients : on'[c] = on[c]
      /\ job' \in Stored \cup {None}
      /\ pc'[Drainer] \in Busy \cup {"idle", "sleep"}
      /\ pc'[Drainer] \in Busy => job' \in Stored /\ on'[Drainer] = Source[job']
      /\ pc'[Drainer] \notin Busy => job' = None
      /\ pc'[Drainer] \in {"set", "render", "remove"} =>
           pc'[Drainer] = pc[Drainer] /\ on'[Drainer] = on[Drainer]
  BY AimStep
<1>2. TypeOK'
  BY <1>1 DEF IInv, TypeOK
<1>3. \A p \in Procs : pc'[p] \in {"set", "render", "remove"} =>
         pc'[p] = pc[p] /\ on'[p] = on[p]
  BY <1>1, Members
<1>4. Placed'
  BY <1>1, <1>3, Members DEF IInv, Placed, ClientPlaces
<1>5. Honest'
  BY <1>3 DEF IInv, Honest
<1>6. QED
  BY <1>2, <1>4, <1>5, FilesKept

LEMMA EmitChangedStep ==
  ASSUME IInv, NEW c \in Clients, EmitChanged(c)
  PROVE  IInv'
<1> DEFINE fresh  == Affected(on[c])
           places == [pc EXCEPT ![c] = "get"]
<1>1. /\ pc[c] = "deleted" /\ Enqueue(fresh, places) /\ on' = Aim(on)
      /\ doc' = doc /\ edits' = edits /\ published' = published /\ cache' = cache
      /\ got' = got /\ to' = to
      /\ files' = files /\ server' = server /\ restarts' = restarts
  BY DEF EmitChanged, rows, process
<1>2. on[c] \in DocTypes
  BY <1>1 DEF IInv, Placed
<1>3. /\ fresh \in Seq(Stored) /\ Distinct(fresh) /\ Keys(fresh) \cap queued = {}
      /\ \A s \in Stored : Source[s] = on[c] => s \in Keys(fresh) \cup Keys(queue)
  BY <1>2, AffectedList DEF IInv, QueueHasRunner
<1>4. /\ places \in [Procs -> Places] /\ places[Drainer] = pc[Drainer]
      /\ places[c] = "get" /\ \A x \in Clients : x # c => places[x] = pc[x]
  BY Members DEF IInv, TypeOK, Places
<1> HIDE DEF fresh, places
<1>5. /\ queue' \in Seq(Stored) /\ Distinct(queue')
      /\ queued' = Keys(queue') /\ queued' \in SUBSET Stored
      /\ queue' # <<>> => pc'[Drainer] # "idle"
      /\ pc' \in [Procs -> Places]
      /\ \A x \in Clients : pc'[x] = places[x]
      /\ \/ pc'[Drainer] = pc[Drainer] /\ job' = job
         \/ pc'[Drainer] = "get" /\ job' \in Stored
      /\ behind' \in [Stored -> BOOLEAN]
      /\ \A s \in Stored : behind'[s] =>
           /\ behind[s]
           /\ s \in Keys(queue) => s \in Keys(queue')
           /\ server # "stopped" /\ s \in Keys(fresh) => s \in Keys(queue')
      /\ server = "stopped" => queue' = queue
  BY <1>1, <1>3, <1>4, EnqueueStep
<1>6. \A x \in Clients : pc'[x] = pc[x] \/ (pc[x] = "deleted" /\ pc'[x] = "get")
  BY <1>1, <1>4, <1>5
<1>7. server' \in {"booting", "running", "stopped"}
  BY <1>1 DEF IInv, TypeOK
<1>8. TypeOK' /\ Placed' /\ Honest' /\ StoredWasPublished'
  BY <1>1, <1>5, <1>6, <1>7, QueueMoved
<1>9. QueueHasRunner' /\ StoppedIsEmpty'
  BY <1>1, <1>5 DEF IInv, QueueHasRunner, StoppedIsEmpty
<1>10. \A x \in Clients : on'[x] = on[x]
  BY <1>1, <1>5, AimStep
<1>11. ASSUME NEW s \in Stored, behind'[s]
       PROVE  \/ s \in Keys(queue')
              \/ \E x \in Clients : on'[x] = Source[s] /\ pc'[x] \in {"committed", "deleted"}
              \/ server' \in {"booting", "stopped"}
  <2>1. \/ s \in Keys(queue)
        \/ \E x \in Clients : on[x] = Source[s] /\ pc[x] \in {"committed", "deleted"}
        \/ server \in {"booting", "stopped"}
    BY <1>5, <1>11 DEF IInv, ChangeOnItsWay
  <2>2. CASE s \in Keys(queue) \/ server \in {"booting", "stopped"}
    BY <1>1, <1>5, <1>11, <2>2
  <2>3. CASE server \notin {"booting", "stopped"} /\ Source[s] = on[c]
    BY <1>3, <1>5, <1>11, <2>3
  <2>4. ASSUME NEW x \in Clients, on[x] = Source[s], pc[x] \in {"committed", "deleted"},
               Source[s] # on[c]
        PROVE  on'[x] = Source[s] /\ pc'[x] \in {"committed", "deleted"}
    BY <1>4, <1>5, <1>10, <2>4
  <2>5. QED
    BY <2>1, <2>2, <2>3, <2>4
<1>12. ChangeOnItsWay'
  BY <1>11 DEF ChangeOnItsWay
<1>13. QED
  BY <1>8, <1>9, <1>12 DEF IInv

LEMMA EnqueueAllStep ==
  ASSUME IInv, EnqueueAll
  PROVE  IInv'
<1>1. /\ server = "booting" /\ server' = "running" /\ Enqueue(All, pc) /\ on' = Aim(on)
      /\ doc' = doc /\ edits' = edits /\ published' = published /\ cache' = cache
      /\ got' = got /\ to' = to /\ files' = files /\ restarts' = restarts
  BY DEF EnqueueAll, rows
<1>2. /\ All \in Seq(Stored) /\ Distinct(All) /\ Keys(All) \cap queued = {}
      /\ \A s \in Stored : s \in Keys(All) \cup Keys(queue)
  BY AllList DEF IInv, QueueHasRunner
<1>3. pc \in [Procs -> Places]
  BY DEF IInv, TypeOK
<1>4. /\ queue' \in Seq(Stored) /\ Distinct(queue')
      /\ queued' = Keys(queue') /\ queued' \in SUBSET Stored
      /\ queue' # <<>> => pc'[Drainer] # "idle"
      /\ pc' \in [Procs -> Places]
      /\ \A x \in Clients : pc'[x] = pc[x]
      /\ \/ pc'[Drainer] = pc[Drainer] /\ job' = job
         \/ pc'[Drainer] = "get" /\ job' \in Stored
      /\ behind' \in [Stored -> BOOLEAN]
      /\ \A s \in Stored : behind'[s] =>
           /\ behind[s]
           /\ s \in Keys(queue) => s \in Keys(queue')
           /\ server # "stopped" /\ s \in Keys(All) => s \in Keys(queue')
  BY <1>1, <1>2, <1>3, EnqueueStep
<1>5. TypeOK' /\ Placed' /\ Honest' /\ StoredWasPublished'
  BY <1>1, <1>4, QueueMoved
<1>6. QueueHasRunner' /\ StoppedIsEmpty'
  BY <1>1, <1>4 DEF QueueHasRunner, StoppedIsEmpty
<1>7. ChangeOnItsWay'
  BY <1>1, <1>2, <1>4 DEF ChangeOnItsWay
<1>8. QED
  BY <1>5, <1>6, <1>7 DEF IInv

LEMMA NextJobStep ==
  ASSUME IInv, NextJob
  PROVE  IInv'
<1>1. /\ pc[Drainer] = "sleep" /\ queue # <<>> /\ Begin(queue, queued, pc) /\ on' = Aim(on)
      /\ doc' = doc /\ edits' = edits /\ published' = published /\ cache' = cache
      /\ got' = got /\ to' = to
      /\ files' = files /\ server' = server /\ restarts' = restarts
  BY DEF NextJob, rows, process
<1>2. /\ queue \in Seq(Stored) /\ Distinct(queue) /\ queued = Keys(queue)
      /\ behind \in [Stored -> BOOLEAN] /\ pc \in [Procs -> Places]
      /\ server' \in {"booting", "running", "stopped"}
  BY <1>1 DEF IInv, TypeOK, QueueHasRunner
<1>3. /\ queue' \in Seq(Stored) /\ Distinct(queue')
      /\ queued' = Keys(queue') /\ queued' \in SUBSET Stored
      /\ job' \in Stored
      /\ pc' \in [Procs -> Places] /\ pc'[Drainer] = "get"
      /\ \A c \in Clients : pc'[c] = pc[c]
      /\ behind' \in [Stored -> BOOLEAN]
      /\ \A s \in Stored : behind'[s] =>
           behind[s] /\ (s \in Keys(queue) => s \in Keys(queue'))
  BY <1>1, <1>2, BeginStep
<1>4. TypeOK' /\ Placed' /\ Honest' /\ StoredWasPublished'
  BY <1>1, <1>2, <1>3, QueueMoved
<1>5. QueueHasRunner' /\ StoppedIsEmpty'
  BY <1>1, <1>3 DEF IInv, QueueHasRunner, StoppedIsEmpty
<1>6. \A c \in Clients : on'[c] = on[c]
  BY <1>1, <1>3, AimStep
<1>7. ChangeOnItsWay'
  BY <1>1, <1>3, <1>6 DEF IInv, ChangeOnItsWay
<1>8. QED
  BY <1>4, <1>5, <1>7 DEF IInv

LEMMA StopDrainingStep ==
  ASSUME IInv, StopDraining
  PROVE  IInv'
<1>1. /\ pc[Drainer] = "sleep" /\ queue = <<>> /\ pc' = [pc EXCEPT ![Drainer] = "idle"]
      /\ doc' = doc /\ edits' = edits /\ published' = published /\ cache' = cache
      /\ on' = on /\ got' = got /\ to' = to
      /\ queue' = queue /\ queued' = queued /\ job' = job
      /\ files' = files /\ server' = server /\ restarts' = restarts /\ behind' = behind
  BY DEF StopDraining, At, rows, readers, pending, process
<1>2. TypeOK'
  BY <1>1 DEF IInv, TypeOK, Places
<1>3. Placed'
  BY <1>1, Members DEF IInv, TypeOK, Placed, Busy
<1>4. Honest'
  BY <1>1 DEF IInv, TypeOK, Honest
<1>5. QueueHasRunner' /\ ChangeOnItsWay' /\ StoppedIsEmpty'
  BY <1>1, Members, QueueKept DEF IInv, TypeOK
<1>6. QED
  BY <1>1, <1>2, <1>3, <1>4, <1>5, FilesKept DEF IInv

(* The end of a job, whatever it did to the files. *)
LEMMA FinishJobStep ==
  ASSUME IInv, FinishJob, pc[Drainer] \in {"render", "remove"},
         files' \in [Stored -> SUBSET (0..MaxEdits)],
         \A s \in Stored : files'[s] \subseteq published[Source[s]]
  PROVE  IInv'
<1>1. /\ job' = None /\ pc' = [pc EXCEPT ![Drainer] = AfterJob]
      /\ on' = [on EXCEPT ![Drainer] = None] /\ got' = [got EXCEPT ![Drainer] = None]
      /\ doc' = doc /\ edits' = edits /\ published' = published /\ cache' = cache
      /\ to' = to /\ queue' = queue /\ queued' = queued
      /\ server' = server /\ restarts' = restarts /\ behind' = behind
  BY DEF FinishJob, At, rows, process
<1>2. TypeOK'
  BY <1>1, Members DEF IInv, TypeOK, Places, AfterJob
<1>3. Placed'
  BY <1>1, Members DEF IInv, TypeOK, Placed, Busy, AfterJob
<1>4. Honest'
  BY <1>1, Members DEF IInv, TypeOK, Honest, AfterJob
<1>5. QueueHasRunner' /\ ChangeOnItsWay' /\ StoppedIsEmpty'
  <2>1. CASE server = "stopped"
    BY <1>1, <2>1, Members
    DEF IInv, TypeOK, QueueHasRunner, ChangeOnItsWay, StoppedIsEmpty
  <2>2. CASE server # "stopped"
    BY <1>1, <2>2, Members, QueueKept DEF IInv, TypeOK, AfterJob
  <2>3. QED
    BY <2>1, <2>2
<1>6. StoredWasPublished'
  BY <1>1 DEF StoredWasPublished
<1>7. QED
  BY <1>2, <1>3, <1>4, <1>5, <1>6 DEF IInv

LEMMA RenderSkippedStep ==
  ASSUME IInv, RenderSkipped
  PROVE  IInv'
<1>1. /\ pc[Drainer] = "render" /\ FinishJob
      /\ files' = [files EXCEPT ![job] = {}]
  BY DEF RenderSkipped
<1>2. /\ files' \in [Stored -> SUBSET (0..MaxEdits)]
      /\ \A s \in Stored : files'[s] \subseteq published[Source[s]]
  BY <1>1 DEF IInv, TypeOK, StoredWasPublished
<1>3. QED
  BY <1>1, <1>2, FinishJobStep

LEMMA RenderFailsStep ==
  ASSUME IInv, RenderFails
  PROVE  IInv'
<1>1. pc[Drainer] = "render" /\ FinishJob /\ files' = files
  BY DEF RenderFails
<1>2. /\ files' \in [Stored -> SUBSET (0..MaxEdits)]
      /\ \A s \in Stored : files'[s] \subseteq published[Source[s]]
  BY <1>1 DEF IInv, TypeOK, StoredWasPublished
<1>3. QED
  BY <1>1, <1>2, FinishJobStep

(* What the drain loop has at hand when it stores a PDF. *)
LEMMA AtHand ==
  ASSUME IInv, pc[Drainer] \in {"render", "remove"}, got[Drainer].status = "published"
  PROVE  /\ job \in Stored /\ got[Drainer] \in Document
         /\ got[Drainer].rev \in 0..MaxEdits
         /\ got[Drainer].rev \in published[Source[job]]
<1>1. job \in Stored /\ on[Drainer] = Source[job] /\ got[Drainer] \in Document
  BY Members DEF IInv, Placed, Busy
<1>2. got[Drainer].rev \in published[on[Drainer]]
  BY Members DEF IInv, Honest
<1>3. QED
  BY <1>1, <1>2 DEF Document

LEMMA RenameStep ==
  ASSUME IInv, Rename
  PROVE  IInv'
<1>1. /\ pc[Drainer] = "render" /\ got[Drainer].status = "published"
      /\ files' = [files EXCEPT ![job] = @ \cup {got[Drainer].rev}]
      /\ pc' = [pc EXCEPT ![Drainer] = "remove"]
      /\ doc' = doc /\ edits' = edits /\ published' = published /\ cache' = cache
      /\ on' = on /\ got' = got /\ to' = to
      /\ queue' = queue /\ queued' = queued /\ job' = job
      /\ server' = server /\ restarts' = restarts /\ behind' = behind
  BY DEF Rename, Storable, At, rows, readers, pending, process
<1>2. /\ job \in Stored /\ got[Drainer] \in Document
      /\ got[Drainer].rev \in 0..MaxEdits
      /\ got[Drainer].rev \in published[Source[job]]
  BY <1>1, AtHand
<1>3. /\ files' \in [Stored -> SUBSET (0..MaxEdits)]
      /\ \A s \in Stored : files'[s] \subseteq published[Source[s]]
  BY <1>1, <1>2 DEF IInv, TypeOK, StoredWasPublished
<1>4. TypeOK'
  BY <1>1, <1>3 DEF IInv, TypeOK, Places
<1>5. Placed'
  BY <1>1, Members DEF IInv, TypeOK, Placed, Busy
<1>6. Honest'
  BY <1>1, Members DEF IInv, TypeOK, Honest
<1>7. QueueHasRunner' /\ ChangeOnItsWay' /\ StoppedIsEmpty'
  BY <1>1, Members, QueueKept DEF IInv, TypeOK
<1>8. StoredWasPublished'
  BY <1>1, <1>3 DEF StoredWasPublished
<1>9. QED
  BY <1>4, <1>5, <1>6, <1>7, <1>8 DEF IInv

LEMMA RemoveOlderStep ==
  ASSUME IInv, RemoveOlder
  PROVE  IInv'
<1>1. /\ pc[Drainer] = "remove" /\ FinishJob
      /\ files' = [files EXCEPT ![job] = {got[Drainer].rev}]
  BY DEF RemoveOlder
<1>2. got[Drainer].status = "published"
  BY <1>1 DEF IInv, Placed
<1>3. /\ job \in Stored /\ got[Drainer].rev \in 0..MaxEdits
      /\ got[Drainer].rev \in published[Source[job]]
  BY <1>1, <1>2, AtHand
<1>4. /\ files' \in [Stored -> SUBSET (0..MaxEdits)]
      /\ \A s \in Stored : files'[s] \subseteq published[Source[s]]
  BY <1>1, <1>3 DEF IInv, TypeOK, StoredWasPublished
<1>5. QED
  BY <1>1, <1>4, FinishJobStep

-----------------------------------------------------------------------------
(* The process.                                                            *)

LEMMA StopQueueStep ==
  ASSUME IInv, StopQueue
  PROVE  IInv'
<1>1. /\ restarts < MaxRestarts /\ restarts' = restarts + 1
      /\ server' = "stopped" /\ queue' = <<>> /\ queued' = {}
      /\ doc' = doc /\ edits' = edits /\ published' = published /\ cache' = cache
      /\ pc' = pc /\ on' = on /\ got' = got /\ to' = to /\ job' = job
      /\ files' = files /\ behind' = behind
  BY DEF StopQueue, rows, readers
<1>2. /\ queue' \in Seq(Stored) /\ Keys(queue') = {} /\ Distinct(queue')
      /\ restarts' \in 0..MaxRestarts
  BY <1>1, BoundsAssumption, EmptySeq DEF IInv, TypeOK, Keys, Distinct
<1>3. TypeOK'
  BY <1>1, <1>2 DEF IInv, TypeOK
<1>4. Placed' /\ Honest'
  BY <1>1 DEF IInv, Placed, Honest
<1>5. QueueHasRunner' /\ ChangeOnItsWay' /\ StoppedIsEmpty'
  BY <1>1, <1>2 DEF QueueHasRunner, ChangeOnItsWay, StoppedIsEmpty
<1>6. QED
  BY <1>1, <1>3, <1>4, <1>5, FilesKept DEF IInv

LEMMA RebootStep ==
  ASSUME IInv, Reboot, restarts' \in 0..MaxRestarts
  PROVE  IInv'
<1>1. /\ server' = "booting" /\ queue' = <<>> /\ queued' = {} /\ job' = None
      /\ pc' = [p \in Procs |-> "idle"]
      /\ on' = [p \in Procs |-> None] /\ got' = [p \in Procs |-> None]
      /\ to' = [c \in Clients |-> None]
      /\ doc' = doc /\ edits' = edits /\ published' = published /\ cache' = cache
      /\ files' = files /\ behind' = behind
  BY DEF Reboot, rows
<1>2. queue' \in Seq(Stored) /\ Keys(queue') = {} /\ Distinct(queue')
  BY <1>1, EmptySeq DEF Keys, Distinct
<1>3. TypeOK'
  BY <1>1, <1>2 DEF IInv, TypeOK, Places
<1>4. Placed'
  BY <1>1, Members DEF Placed, ClientPlaces, Busy
<1>5. Honest'
  BY <1>1 DEF IInv, Honest
<1>6. QueueHasRunner' /\ ChangeOnItsWay' /\ StoppedIsEmpty'
  BY <1>1, <1>2 DEF QueueHasRunner, ChangeOnItsWay, StoppedIsEmpty
<1>7. QED
  BY <1>1, <1>3, <1>4, <1>5, <1>6, FilesKept DEF IInv

LEMMA RestartStep ==
  ASSUME IInv, Exit \/ Crash
  PROVE  IInv'
<1>1. Reboot
  BY DEF Exit, Crash
<1>2. restarts' \in 0..MaxRestarts
  BY BoundsAssumption DEF Exit, Crash, IInv, TypeOK
<1>3. QED
  BY <1>1, <1>2, RebootStep

-----------------------------------------------------------------------------
(* The theorems.                                                           *)

LEMMA InvInit == Init => IInv
<1> SUFFICES ASSUME Init PROVE IInv
  OBVIOUS
<1>1. /\ doc \in [DocTypes -> [status : FirstStatuses, rev : {0}]]
      /\ published = [t \in DocTypes |-> IF doc[t].status = "published" THEN {0} ELSE {}]
      /\ cache = [t \in DocTypes |-> None]
      /\ pc = [p \in Procs |-> "idle"]
      /\ on = [p \in Procs |-> None] /\ got = [p \in Procs |-> None]
      /\ to = [c \in Clients |-> None]
      /\ queue = <<>> /\ queued = {} /\ job = None
      /\ files = [s \in Stored |-> {}] /\ behind = [s \in Stored |-> FALSE]
      /\ server = "booting" /\ edits = 0 /\ restarts = 0
  BY DEF Init
<1>2. queue \in Seq(Stored) /\ Keys(queue) = {} /\ Distinct(queue)
  BY <1>1, EmptySeq DEF Keys, Distinct
<1>3. 0 \in 0..MaxEdits /\ 0 \in 0..MaxRestarts
  BY BoundsAssumption
<1>4. /\ doc \in [DocTypes -> Document]
      /\ \A t \in DocTypes : doc[t].rev = 0
  BY <1>1, <1>3, StatusesAssumption DEF Document
<1>5. /\ published \in [DocTypes -> SUBSET (0..MaxEdits)]
      /\ \A t \in DocTypes : doc[t].status = "published" => doc[t].rev \in published[t]
  BY <1>1, <1>3, <1>4
<1>6. TypeOK
  BY <1>1, <1>2, <1>3, <1>4, <1>5 DEF TypeOK, Places
<1>7. Placed
  BY <1>1, Members DEF Placed, ClientPlaces, Busy
<1>8. Honest
  BY <1>1, <1>5 DEF Honest
<1>9. QueueHasRunner /\ ChangeOnItsWay /\ StoppedIsEmpty /\ StoredWasPublished
  BY <1>1, <1>2 DEF QueueHasRunner, ChangeOnItsWay, StoppedIsEmpty, StoredWasPublished
<1>10. QED
  BY <1>6, <1>7, <1>8, <1>9 DEF IInv

LEMMA InvNext == IInv /\ [Next]_vars => IInv'
<1> SUFFICES ASSUME IInv, [Next]_vars PROVE IInv'
  OBVIOUS
<1>1. ASSUME NEW c \in Clients, NEW t \in DocTypes,
             \/ GetDocument(c, t)
             \/ UpdateDocument(c, t)
             \/ \E s \in Statuses : TransitionCheck(c, t, s)
      PROVE  IInv'
  BY <1>1, GetDocumentStep, UpdateDocumentStep, TransitionCheckStep
<1>2. ASSUME NEW c \in Clients, TransitionCommit(c) \/ CacheDel(c) \/ EmitChanged(c)
      PROVE  IInv'
  BY <1>2, TransitionCommitStep, CacheDelStep, EmitChangedStep
<1>3. ASSUME NEW p \in Procs, CacheHit(p) \/ CacheMiss(p) \/ QueryRow(p) \/ CacheSet(p)
      PROVE  IInv'
  BY <1>3, CacheHitStep, CacheMissStep, QueryRowStep, CacheSetStep
<1>4. ASSUME NEW t \in DocTypes, Expire(t) PROVE IInv'
  BY <1>4, ExpireStep
<1>5. CASE EnqueueAll \/ NextJob \/ StopDraining
  BY <1>5, EnqueueAllStep, NextJobStep, StopDrainingStep
<1>6. CASE RenderSkipped \/ RenderFails \/ Rename \/ RemoveOlder
  BY <1>6, RenderSkippedStep, RenderFailsStep, RenameStep, RemoveOlderStep
<1>7. CASE StopQueue \/ Exit \/ Crash
  BY <1>7, StopQueueStep, RestartStep
<1>8. CASE UNCHANGED vars
  <2>1. /\ doc' = doc /\ edits' = edits /\ published' = published /\ cache' = cache
        /\ pc' = pc /\ on' = on /\ got' = got /\ to' = to
        /\ queue' = queue /\ queued' = queued /\ job' = job
        /\ files' = files /\ server' = server /\ restarts' = restarts /\ behind' = behind
    BY <1>8 DEF vars, rows, readers, pending, process
  <2>2. TypeOK' /\ Placed' /\ Honest'
    BY <2>1 DEF IInv, TypeOK, Placed, Honest
  <2>3. QED
    BY <2>1, <2>2
    DEF IInv, QueueHasRunner, ChangeOnItsWay, StoredWasPublished, StoppedIsEmpty
<1>9. QED
  BY <1>1, <1>2, <1>3, <1>4, <1>5, <1>6, <1>7, <1>8 DEF Next

(* What holds throughout: the strengthening that the steps preserve.       *)
THEOREM Invariance == Spec => []IInv
<1>1. QED
  BY InvInit, InvNext, PTL DEF Spec

(* Rows, requests and the queue keep their shape; the queue never holds a  *)
(* PDF twice (enqueueStoredPdf).                                           *)
THEOREM TypeCorrect == Spec => []TypeOK
<1>1. IInv => TypeOK
  BY DEF IInv
<1>2. QED
  BY <1>1, Invariance, PTL

(* No PDF is stranded in the queue by a drain loop that has ended, and no  *)
(* key is left behind that would lock one out of it.                       *)
THEOREM NoneStranded == Spec => []QueueHasRunner
<1>1. IInv => QueueHasRunner
  BY DEF IInv
<1>2. QED
  BY <1>1, Invariance, PTL

(* A committed change is never lost between its commit and a new try at    *)
(* its PDFs, for any number of requests, crashes and shutdowns.            *)
THEOREM NoChangeLost == Spec => []ChangeOnItsWay
<1>1. IInv => ChangeOnItsWay
  BY DEF IInv
<1>2. QED
  BY <1>1, Invariance, PTL

(* No content is stored that was never published, whatever copies the      *)
(* cache and the requests hold.                                            *)
THEOREM OnlyPublishedStored == Spec => []StoredWasPublished
<1>1. IInv => StoredWasPublished
  BY DEF IInv
<1>2. QED
  BY <1>1, Invariance, PTL

-----------------------------------------------------------------------------
(* Requests about formulas                                                  *)

Listings == [op : {"list"}, seen : {"fresh", "stale"}]
Creates == [op : {"create"}, v : Variants]
Moves == [op : {"transition"}, v : Variants, to : VariantStatuses]
Replaces == [op : {"replace"}, v : Variants, sees : SUBSET Lists]
Deletes == [op : {"delete", "batch"}, v : Variants]
Assigns == [op : {"assign", "mark"}, v : Variants, co : Companies, mark : {"plain", "default"}, row : Rows]
Unassigns == [op : {"unassign"}, v : Variants, co : Companies, row : Rows]
Counts == [op : {"counted"}, v : Variants, co : Companies, row : Rows, last : BOOLEAN]

LEMMA RequestKinds ==
    ASSUME NEW r \in Requests
    PROVE  /\ r.op = "list" => r \in Listings
           /\ r.op = "create" => r \in Creates
           /\ r.op = "transition" => r \in Moves
           /\ r.op = "replace" => r \in Replaces
           /\ r.op \in {"delete", "batch"} => r \in Deletes
           /\ r.op \in {"assign", "mark"} => r \in Assigns
           /\ r.op = "unassign" => r \in Unassigns
           /\ r.op = "counted" => r \in Counts
  <1>1. \/ r = [op |-> "idle"] \/ r = [op |-> "evict"] \/ r \in Listings \/ r \in Creates \/ r \in Moves
        \/ r \in Replaces \/ r \in Deletes \/ r \in Assigns \/ r \in Unassigns \/ r \in Counts
    BY DEF Requests, Idle, Listings, Creates, Moves, Replaces, Deletes, Assigns, Unassigns, Counts
  <1>2. /\ r \in Listings => r.op = "list"
        /\ r \in Creates => r.op = "create"
        /\ r \in Moves => r.op = "transition"
        /\ r \in Replaces => r.op = "replace"
        /\ r \in Deletes => r.op \in {"delete", "batch"}
        /\ r \in Assigns => r.op \in {"assign", "mark"}
        /\ r \in Unassigns => r.op = "unassign"
        /\ r \in Counts => r.op = "counted"
    BY DEF Listings, Creates, Moves, Replaces, Deletes, Assigns, Unassigns, Counts
  <1>3. /\ r = [op |-> "idle"] => r.op = "idle"
        /\ r = [op |-> "evict"] => r.op = "evict"
    OBVIOUS
  <1> QED BY <1>1, <1>2, <1>3

LEMMA KindsAreRequests ==
    /\ Idle \in Requests /\ [op |-> "evict"] \in Requests
    /\ Listings \subseteq Requests /\ Creates \subseteq Requests /\ Moves \subseteq Requests
    /\ Replaces \subseteq Requests /\ Deletes \subseteq Requests /\ Assigns \subseteq Requests
    /\ Unassigns \subseteq Requests /\ Counts \subseteq Requests
  BY DEF Requests, Idle, Listings, Creates, Moves, Replaces, Deletes, Assigns, Unassigns, Counts

\* What a change does to a request at hand.
LEMMA AgedRequest ==
    ASSUME NEW r \in Requests, NEW lost
    PROVE  /\ Aged(r, lost) \in Requests
           /\ Aged(r, lost).op = r.op
           /\ r.op # "list" => \/ Aged(r, lost) = r
                               \/ /\ r.op \in {"assign", "mark", "unassign"}
                                  /\ Aged(r, lost).row = "gone"
           /\ r.op = "mark" /\ Aged(r, lost).row = "there" =>
                Aged(r, lost) = r /\ <<r.co, r.v>> \notin lost
  <1>1. PICK a : a = Aged(r, lost)
    OBVIOUS
  <1>2. CASE r.op = "list"
    <2>1. a = [r EXCEPT !.seen = "stale"] /\ r \in Listings
      BY <1>1, <1>2, RequestKinds DEF Aged
    <2>2. a \in Listings /\ a.op = "list"
      BY <2>1 DEF Listings
    <2> QED BY <1>1, <1>2, <2>2, KindsAreRequests
  <1>3. CASE r.op \in {"assign", "mark"} /\ r.row = "there" /\ <<r.co, r.v>> \in lost
    <2>1. a = [r EXCEPT !.row = "gone"] /\ r \in Assigns
      BY <1>1, <1>3, RequestKinds DEF Aged
    <2>2. a \in Assigns /\ a.op = r.op /\ a.row = "gone"
      BY <2>1 DEF Assigns, Rows
    <2> QED BY <1>1, <1>3, <2>2, KindsAreRequests
  <1>4. CASE r.op = "unassign" /\ r.row = "there" /\ <<r.co, r.v>> \in lost
    <2>1. a = [r EXCEPT !.row = "gone"] /\ r \in Unassigns
      BY <1>1, <1>4, RequestKinds DEF Aged
    <2>2. a \in Unassigns /\ a.op = r.op /\ a.row = "gone"
      BY <2>1 DEF Unassigns, Rows
    <2> QED BY <1>1, <1>4, <2>2, KindsAreRequests
  <1>5. CASE /\ r.op # "list"
             /\ ~(r.op \in {"assign", "mark", "unassign"} /\ r.row = "there" /\ <<r.co, r.v>> \in lost)
    <2>1. a = r
      BY <1>1, <1>5 DEF Aged
    <2> QED BY <1>1, <1>5, <2>1
  <1> QED BY <1>2, <1>3, <1>4, <1>5

-----------------------------------------------------------------------------
(* The invariant                                                            *)

\* What was approved, or may be soon, was approved before.
ApprovedFirst(r) ==
    /\ r.op = "transition" /\ r.to = "production" => r.v \in approved
    /\ r.op = "batch" => r.v \in approved

\* A mark is put on an assignment that is there, and after the last assignment was counted
\* away none is left, unless the company is excused.
AssignmentsFit(r) ==
    /\ r.op = "mark" /\ r.row = "there" => assigned[r.co][r.v] # "no"
    /\ r.op = "counted" /\ r.last /\ r.co \notin excused =>
         \A w \in Variants : assigned[r.co][w] # "no" => w = r.v /\ r.row = "there"

UsableApproved == {v \in Variants : status[v] \in Usable} \cup made \subseteq approved
RequestsFit == \A d \in Users : ApprovedFirst(req[d]) /\ AssignmentsFit(req[d])

VariantInv ==
    /\ VariantTypeOK
    /\ UsableApproved
    /\ RequestsFit
    /\ AssignedHasAccess
    /\ LibraryCurrent

LEMMA VariantInitInv == VariantInit => VariantInv
  <1> SUFFICES ASSUME VariantInit PROVE VariantInv
    OBVIOUS
  <1>1. VariantTypeOK
    <2>1. status \in [Variants -> VariantStatuses \cup {"absent", "deleted"}]
      BY DEF VariantInit, VariantStatuses
    <2>2. recipe \in [Variants -> SUBSET Lists]
      BY DEF VariantInit
    <2>3. req \in [Users -> Requests]
      BY KindsAreRequests DEF VariantInit
    <2> QED BY <2>1, <2>2, <2>3 DEF VariantInit, VariantTypeOK, Marks
  <1>2. UsableApproved
    BY DEF VariantInit, UsableApproved, Usable
  <1>3. RequestsFit
    BY DEF VariantInit, RequestsFit, ApprovedFirst, AssignmentsFit, Idle
  <1>4. AssignedHasAccess /\ LibraryCurrent
    BY DEF VariantInit, AssignedHasAccess, LibraryCurrent
  <1> QED BY <1>1, <1>2, <1>3, <1>4 DEF VariantInv

-----------------------------------------------------------------------------
(* Steps                                                                    *)

\* Assignments but the lost ones stay.
KeptBut(lost) ==
    \A co \in Companies, v \in Variants :
        <<co, v>> \notin lost /\ assigned[co][v] # "no" => assigned'[co][v] # "no"

NoneGained(co) == \A w \in Variants : assigned'[co][w] # "no" => assigned[co][w] # "no"

\* A company whose access was counted away gets no assignment, or is excused.
GainsFit ==
    \A co \in Companies : Counting(co) /\ co \notin excused' => co \notin excused /\ NoneGained(co)

\* A company keeps its access with its assignments.
AccessFits ==
    \A co \in Companies \ excused' :
        \/ co \in access'
        \/ \A w \in Variants : assigned'[co][w] = "no"
        \/ co \notin excused /\ co \notin access /\ NoneGained(co)

LEMMA AccessStep ==
    ASSUME AssignedHasAccess, AccessFits
    PROVE  AssignedHasAccess'
  BY DEF AssignedHasAccess, AccessFits, NoneGained

\* Requests that a change finds.
LEMMA RequestStep ==
    ASSUME VariantInv, NEW d \in Users, NEW lost, approved \subseteq approved', KeptBut(lost), GainsFit,
           req'[d] = Aged(req[d], lost) \/ (req'[d] = req[d] /\ lost = {})
    PROVE  (ApprovedFirst(req[d]) /\ AssignmentsFit(req[d]))'
  <1>1. PICK r \in Requests : r = req[d]
    BY DEF VariantInv, VariantTypeOK
  <1>2. PICK a : a = req'[d]
    OBVIOUS
  <1>3. /\ a \in Requests /\ a.op = r.op
        /\ r.op # "list" => \/ a = r
                            \/ /\ r.op \in {"assign", "mark", "unassign"}
                               /\ a.row = "gone"
        /\ r.op = "mark" /\ a.row = "there" => a = r /\ <<r.co, r.v>> \notin lost
    BY <1>1, <1>2, AgedRequest
  <1>4. ApprovedFirst(r) /\ AssignmentsFit(r)
    BY <1>1 DEF VariantInv, RequestsFit
  <1>5. a.op = "transition" \/ a.op = "batch" \/ a.op = "counted" => a = r
    BY <1>3
  <1>6. ApprovedFirst(req[d])'
    BY <1>2, <1>4, <1>5 DEF ApprovedFirst
  <1>7. ASSUME a.op = "mark", a.row = "there"
        PROVE  assigned'[a.co][a.v] # "no"
    <2>1. a = r /\ <<r.co, r.v>> \notin lost
      BY <1>3, <1>7
    <2>2. r \in Assigns
      BY <1>7, <2>1, RequestKinds
    <2>3. r.co \in Companies /\ r.v \in Variants
      BY <2>2 DEF Assigns
    <2>4. assigned[r.co][r.v] # "no"
      BY <1>4, <1>7, <2>1 DEF AssignmentsFit
    <2> QED BY <2>1, <2>3, <2>4 DEF KeptBut
  <1>8. ASSUME a.op = "counted", a.last, a.co \notin excused'
        PROVE  \A w \in Variants : assigned'[a.co][w] # "no" => w = a.v /\ a.row = "there"
    <2>1. a = r /\ r \in Counts
      BY <1>3, <1>5, <1>8, RequestKinds
    <2>2. r.co \in Companies
      BY <2>1 DEF Counts
    <2>3. Counting(r.co)
      BY <1>1, <1>8, <2>1 DEF Counting
    <2>4. r.co \notin excused /\ NoneGained(r.co)
      BY <1>8, <2>1, <2>2, <2>3 DEF GainsFit
    <2> QED BY <1>4, <1>8, <2>1, <2>4 DEF AssignmentsFit, NoneGained
  <1>9. AssignmentsFit(req[d])'
    BY <1>2, <1>7, <1>8 DEF AssignmentsFit
  <1> QED BY <1>6, <1>9

\* A request reads, is refused or ends; rows stay as they are.
LEMMA RowsUntouched ==
    ASSUME VariantInv, NEW c \in Users, NEW r \in Requests, req' = [req EXCEPT ![c] = r],
           ApprovedFirst(r), AssignmentsFit(r), made' \subseteq Variants, UsableApproved',
           library' \in {"none", "fresh", "stale"}, raced' \in BOOLEAN, LibraryCurrent',
           UNCHANGED <<status, recipe, companies, assigned, access, approved, excused>>
    PROVE  VariantInv'
  <1>1. VariantTypeOK'
    BY DEF VariantInv, VariantTypeOK
  <1>2. AssignedHasAccess'
    BY DEF VariantInv, AssignedHasAccess
  <1>3. req \in [Users -> Requests]
    BY DEF VariantInv, VariantTypeOK
  <1>4. KeptBut({}) /\ GainsFit
    BY DEF KeptBut, GainsFit, NoneGained
  <1>5. ASSUME NEW d \in Users
        PROVE  (ApprovedFirst(req[d]) /\ AssignmentsFit(req[d]))'
    <2>1. CASE d = c
      <3>1. req'[d] = r
        BY <1>3, <2>1
      <3> QED BY <3>1 DEF ApprovedFirst, AssignmentsFit
    <2>2. CASE d # c
      <3>1. req'[d] = req[d]
        BY <1>3, <2>2
      <3> QED BY <1>4, <3>1, RequestStep
    <2> QED BY <2>1, <2>2
  <1>6. RequestsFit'
    BY <1>5 DEF RequestsFit
  <1> QED BY <1>1, <1>2, <1>6 DEF VariantInv

\* The same, if what is cached stays as well and no eviction ends.
LEMMA OnlyRequest ==
    ASSUME VariantInv, NEW c \in Users, NEW r \in Requests, req' = [req EXCEPT ![c] = r],
           ApprovedFirst(r), AssignmentsFit(r), req[c].op # "evict",
           UNCHANGED <<status, recipe, companies, assigned, access, library, made, approved, excused, raced>>
    PROVE  VariantInv'
  <1>1. /\ made' \subseteq Variants /\ UsableApproved'
        /\ library' \in {"none", "fresh", "stale"} /\ raced' \in BOOLEAN
    BY DEF VariantInv, VariantTypeOK, UsableApproved
  <1>2. LibraryCurrent'
    BY DEF VariantInv, VariantTypeOK, LibraryCurrent
  <1> QED BY <1>1, <1>2, RowsUntouched

\* A change of rows commits and the library is old, until the one who changed it evicts it.
LEMMA ChangeKeeps ==
    ASSUME VariantInv, NEW c \in Users, NEW r, NEW lost, Changed(c, r, lost),
           \/ r = [op |-> "evict"] /\ raced' = raced
           \/ r = Idle /\ raced' = (raced \/ library = "fresh"),
           req[c].op # "evict",
           status' \in [Variants -> VariantStatuses \cup {"absent", "deleted"}],
           recipe' \in [Variants -> SUBSET Lists], companies' \subseteq Companies,
           assigned' \in [Companies -> [Variants -> Marks]], access' \subseteq Companies,
           made' = made, approved' \subseteq Variants, excused' \subseteq Companies,
           approved \subseteq approved', UsableApproved', KeptBut(lost), GainsFit, AccessFits
    PROVE  VariantInv'
  <1>1. /\ req \in [Users -> Requests] /\ library \in {"none", "fresh", "stale"} /\ raced \in BOOLEAN
        /\ library = "stale" => raced \/ \E d \in Users : req[d].op = "evict"
    BY DEF VariantInv, VariantTypeOK, LibraryCurrent
  <1>2. /\ library' = IF library = "fresh" THEN "stale" ELSE library
        /\ req' = [d \in Users |-> IF d = c THEN r ELSE Aged(req[d], lost)]
    BY DEF Changed
  <1>3. r \in Requests
    BY KindsAreRequests
  <1>4. req' \in [Users -> Requests]
    BY <1>1, <1>2, <1>3, AgedRequest
  <1>5. VariantTypeOK'
    <2>1. library' \in {"none", "fresh", "stale"} /\ raced' \in BOOLEAN
      BY <1>1, <1>2
    <2> QED BY <1>4, <2>1 DEF VariantInv, VariantTypeOK
  <1>6. AssignedHasAccess'
    BY AccessStep DEF VariantInv
  <1>7. ASSUME NEW d \in Users
        PROVE  (ApprovedFirst(req[d]) /\ AssignmentsFit(req[d]))'
    <2>1. CASE d = c
      <3>1. req'[d] = r
        BY <1>2, <2>1
      <3>2. r.op \in {"idle", "evict"}
        BY DEF Idle
      <3> QED BY <3>1, <3>2 DEF ApprovedFirst, AssignmentsFit
    <2>2. CASE d # c
      <3>1. req'[d] = Aged(req[d], lost)
        BY <1>2, <2>2
      <3> QED BY <3>1, RequestStep
    <2> QED BY <2>1, <2>2
  <1>8. RequestsFit'
    BY <1>7 DEF RequestsFit
  <1>9. \A d \in Users \ {c} : req'[d].op = req[d].op
    BY <1>1, <1>2, AgedRequest
  <1>10. LibraryCurrent'
    <2>1. CASE r = [op |-> "evict"]
      <3>1. req'[c].op = "evict"
        BY <1>2, <2>1
      <3> QED BY <3>1 DEF LibraryCurrent
    <2>2. CASE r = Idle /\ raced' = (raced \/ library = "fresh")
      <3> SUFFICES ASSUME library' = "stale", ~raced'
                   PROVE  \E d \in Users : req'[d].op = "evict"
        BY DEF LibraryCurrent
      <3>1. library = "stale" /\ ~raced
        BY <1>2, <2>2
      <3>2. PICK d \in Users : req[d].op = "evict"
        BY <1>1, <3>1
      <3> QED BY <1>9, <3>2
    <2> QED BY <2>1, <2>2
  <1> QED BY <1>5, <1>6, <1>8, <1>10 DEF VariantInv

-----------------------------------------------------------------------------
(* Operations                                                               *)

\* A request ends, or begins to hold what no invariant is about.
LEMMA PlainRequests ==
    ASSUME VariantInv, NEW c \in Users, NEW r \in Requests,
           r.op \in {"idle", "list", "create", "replace", "delete", "assign", "unassign"}
    PROVE  ApprovedFirst(r) /\ AssignmentsFit(r)
  BY DEF ApprovedFirst, AssignmentsFit

LEMMA IdleOrNot ==
    ASSUME NEW c, req[c] = Idle
    PROVE  req[c].op = "idle"
  BY DEF Idle

LEMMA ListKeeps ==
    ASSUME VariantInv, NEW c \in Users, ListMiss(c) \/ ListFill(c)
    PROVE  VariantInv'
  <1>0. req \in [Users -> Requests] /\ made \subseteq Variants /\ UsableApproved
        /\ raced \in BOOLEAN /\ library \in {"none", "fresh", "stale"}
    BY DEF VariantInv, VariantTypeOK
  <1>1. CASE ListMiss(c)
    <2>1. PICK r : r = [op |-> "list", seen |-> "fresh"]
      OBVIOUS
    <2>2. r \in Requests /\ r.op = "list"
      BY <2>1, KindsAreRequests DEF Listings
    <2>3. req' = [req EXCEPT ![c] = r] /\ req[c].op # "evict"
      BY <1>1, <2>1, IdleOrNot DEF ListMiss
    <2> QED BY <1>1, <2>2, <2>3, PlainRequests, OnlyRequest DEF ListMiss
  <1>2. CASE ListFill(c)
    <2>1. Idle \in Requests /\ Idle.op = "idle"
      BY KindsAreRequests DEF Idle
    <2>2. req' = [req EXCEPT ![c] = Idle] /\ req[c].op = "list"
          /\ library' = req[c].seen /\ raced' = (req[c].seen = "stale")
          /\ UNCHANGED <<status, recipe, companies, assigned, access, made, approved, excused>>
      BY <1>2 DEF ListFill
    <2>3. req[c].seen \in {"fresh", "stale"}
      BY <1>0, <2>2, RequestKinds DEF Listings
    <2>4. library' \in {"none", "fresh", "stale"} /\ raced' \in BOOLEAN /\ LibraryCurrent'
      BY <2>2, <2>3 DEF LibraryCurrent
    <2>5. made' \subseteq Variants /\ UsableApproved'
      BY <1>0, <2>2 DEF UsableApproved
    <2>6. ApprovedFirst(Idle) /\ AssignmentsFit(Idle)
      BY <2>1, PlainRequests
    <2> QED BY <2>1, <2>2, <2>4, <2>5, <2>6, RowsUntouched
  <1> QED BY <1>1, <1>2

\* The cached copy goes, or Redis fails.
LEMMA EvictKeeps ==
    ASSUME VariantInv, NEW c \in Users,
           Evict(c) \/ EvictFails(c) \/ \E v \in Variants : CreateEvict(c, v)
    PROVE  VariantInv'
  <1>1. /\ library \in {"none", "fresh", "stale"} /\ raced \in BOOLEAN
        /\ made \subseteq Variants /\ UsableApproved /\ LibraryCurrent
    BY DEF VariantInv, VariantTypeOK
  <1>2. UNCHANGED <<status, recipe, companies, assigned, access, made, approved, excused>>
    BY DEF Evict, EvictFails, CreateEvict
  <1>3. library' \in {"none", "fresh", "stale"} /\ raced' \in BOOLEAN
    BY <1>1 DEF Evict, EvictFails, CreateEvict
  <1>4. library' = "none" \/ (library' = library /\ (library = "stale" => raced'))
    BY <1>1 DEF Evict, EvictFails, CreateEvict
  <1>5. LibraryCurrent'
    BY <1>4 DEF LibraryCurrent
  <1>6. made' \subseteq Variants /\ UsableApproved'
    BY <1>1, <1>2 DEF UsableApproved
  <1>7. ASSUME NEW r \in Requests, r.op \in {"idle", "create"}, req' = [req EXCEPT ![c] = r]
        PROVE  VariantInv'
    <2>1. ApprovedFirst(r) /\ AssignmentsFit(r)
      BY <1>7, PlainRequests
    <2> QED BY <1>2, <1>3, <1>5, <1>6, <1>7, <2>1, RowsUntouched
  <1>8. CASE Evict(c) \/ EvictFails(c)
    <2>1. Idle \in Requests /\ Idle.op = "idle"
      BY KindsAreRequests DEF Idle
    <2> QED BY <1>7, <1>8, <2>1 DEF Evict, EvictFails
  <1>9. ASSUME NEW v \in Variants, CreateEvict(c, v)
        PROVE  VariantInv'
    <2>1. PICK r : r = [op |-> "create", v |-> v]
      OBVIOUS
    <2>2. r \in Requests /\ r.op = "create"
      BY <2>1, KindsAreRequests DEF Creates
    <2>3. req' = [req EXCEPT ![c] = r]
      BY <1>9, <2>1 DEF CreateEvict
    <2> QED BY <1>7, <2>2, <2>3
  <1> QED BY <1>8, <1>9

LEMMA ExpiryKeeps ==
    ASSUME VariantInv, CacheExpires
    PROVE  VariantInv'
  <1>1. UNCHANGED <<status, recipe, companies, assigned, access, req, made, approved, excused>>
        /\ library' = "none" /\ raced' = FALSE
    BY DEF CacheExpires
  <1>2. VariantTypeOK'
    BY <1>1 DEF VariantInv, VariantTypeOK
  <1>3. UsableApproved' /\ RequestsFit' /\ AssignedHasAccess' /\ LibraryCurrent'
    BY <1>1 DEF VariantInv, UsableApproved, RequestsFit, ApprovedFirst, AssignmentsFit,
                AssignedHasAccess, LibraryCurrent
  <1> QED BY <1>2, <1>3 DEF VariantInv

\* Requests that are refused, find nothing or give up.
LEMMA EndsKeeps ==
    ASSUME VariantInv, NEW c \in Users,
           \/ CreateFails(c) \/ VariantGone(c) \/ DeleteFindsNone(c)
           \/ AssignRefused(c) \/ MarkAborted(c)
    PROVE  VariantInv'
  <1>1. /\ req' = [req EXCEPT ![c] = Idle] /\ req[c].op # "evict"
        /\ UNCHANGED <<status, recipe, companies, assigned, access, library, made, approved, excused, raced>>
    BY DEF CreateFails, VariantGone, DeleteFindsNone, AssignRefused, MarkAborted
  <1>2. Idle \in Requests /\ Idle.op = "idle"
    BY KindsAreRequests DEF Idle
  <1> QED BY <1>1, <1>2, PlainRequests, OnlyRequest

\* Requests that read a formula.
LEMMA VariantReadKeeps ==
    ASSUME VariantInv, NEW c \in Users, NEW v \in Variants,
           \/ \E s \in VariantStatuses : VariantTransitionCheck(c, v, s)
           \/ ReplaceDelete(c, v) \/ DeleteCheck(c, v) \/ BatchCheck(c, v)
    PROVE  VariantInv'
  <1>0. /\ req[c] = Idle
        /\ UNCHANGED <<status, recipe, companies, assigned, access, library, made, approved, excused, raced>>
    BY DEF VariantTransitionCheck, ReplaceDelete, DeleteCheck, BatchCheck
  <1>1. req[c].op # "evict"
    BY <1>0, IdleOrNot
  <1>2. /\ recipe \in [Variants -> SUBSET Lists]
        /\ UsableApproved
    BY DEF VariantInv, VariantTypeOK
  <1>3. ASSUME NEW r \in Requests, ApprovedFirst(r), AssignmentsFit(r), req' = [req EXCEPT ![c] = r]
        PROVE  VariantInv'
    BY <1>0, <1>1, <1>3, OnlyRequest
  <1>4. ASSUME NEW s \in VariantStatuses, VariantTransitionCheck(c, v, s)
        PROVE  VariantInv'
    <2>1. PICK r : r = [op |-> "transition", v |-> v, to |-> s]
      OBVIOUS
    <2>2. r \in Requests /\ r.op = "transition" /\ r.v = v /\ r.to = s
      BY <2>1, KindsAreRequests DEF Moves
    <2>3. Live(v) /\ s \in Transitions[status[v]] /\ req' = [req EXCEPT ![c] = r]
      BY <1>4, <2>1 DEF VariantTransitionCheck
    <2>4. s = "production" => status[v] = "approved"
      BY <2>3 DEF Live, VariantStatuses, Transitions
    <2>5. s = "production" => v \in approved
      BY <1>2, <2>4 DEF UsableApproved, Usable
    <2> QED BY <1>3, <2>2, <2>3, <2>5 DEF ApprovedFirst, AssignmentsFit
  <1>5. CASE ReplaceDelete(c, v)
    <2>1. PICK r : r = [op |-> "replace", v |-> v, sees |-> recipe[v]]
      OBVIOUS
    <2>2. r \in Replaces /\ r.op = "replace"
      BY <1>2, <2>1 DEF Replaces
    <2>3. r \in Requests
      BY <2>2, KindsAreRequests
    <2> QED BY <1>3, <1>5, <2>1, <2>2, <2>3, PlainRequests DEF ReplaceDelete
  <1>6. CASE DeleteCheck(c, v)
    <2>1. PICK r : r = [op |-> "delete", v |-> v]
      OBVIOUS
    <2>2. r \in Requests /\ r.op = "delete"
      BY <2>1, KindsAreRequests DEF Deletes
    <2> QED BY <1>3, <1>6, <2>1, <2>2, PlainRequests DEF DeleteCheck
  <1>7. CASE BatchCheck(c, v)
    <2>1. PICK r : r = [op |-> "batch", v |-> v]
      OBVIOUS
    <2>2. r \in Requests /\ r.op = "batch" /\ r.v = v
      BY <2>1, KindsAreRequests DEF Deletes
    <2>3. v \in approved /\ req' = [req EXCEPT ![c] = r]
      BY <1>2, <1>7, <2>1 DEF BatchCheck, UsableApproved
    <2> QED BY <1>3, <2>2, <2>3 DEF ApprovedFirst, AssignmentsFit
  <1> QED BY <1>4, <1>5, <1>6, <1>7

\* Requests that read an assignment.
LEMMA AssignmentReadKeeps ==
    ASSUME VariantInv, NEW c \in Users, NEW co \in Companies, NEW v \in Variants,
           \/ UnassignCheck(c, co, v)
           \/ \E mark \in {"plain", "default"} : AssignCheck(c, co, v, mark) \/ MarkCheck(c, co, v, mark)
    PROVE  VariantInv'
  <1>0. /\ req[c] = Idle
        /\ UNCHANGED <<status, recipe, companies, assigned, access, library, made, approved, excused, raced>>
    BY DEF UnassignCheck, AssignCheck, MarkCheck
  <1>1. req[c].op # "evict"
    BY <1>0, IdleOrNot
  <1>2. ASSUME NEW r \in Requests, ApprovedFirst(r), AssignmentsFit(r), req' = [req EXCEPT ![c] = r]
        PROVE  VariantInv'
    BY <1>0, <1>1, <1>2, OnlyRequest
  <1>3. CASE UnassignCheck(c, co, v)
    <2>1. PICK r : r = [op |-> "unassign", v |-> v, co |-> co, row |-> "there"]
      OBVIOUS
    <2>2. r \in Requests /\ r.op = "unassign"
      BY <2>1, KindsAreRequests DEF Unassigns, Rows
    <2> QED BY <1>2, <1>3, <2>1, <2>2, PlainRequests DEF UnassignCheck
  <1>4. ASSUME NEW mark \in {"plain", "default"}, AssignCheck(c, co, v, mark)
        PROVE  VariantInv'
    <2>1. PICK row : row = IF assigned[co][v] = "no" THEN "none" ELSE "there"
      OBVIOUS
    <2>2. row \in Rows
      BY <2>1 DEF Rows
    <2>3. PICK r : r = [op |-> "assign", v |-> v, co |-> co, mark |-> mark, row |-> row]
      OBVIOUS
    <2>4. r \in Assigns /\ r.op = "assign"
      BY <2>2, <2>3 DEF Assigns
    <2>5. r \in Requests /\ req' = [req EXCEPT ![c] = r]
      BY <1>4, <2>1, <2>3, <2>4, KindsAreRequests DEF AssignCheck
    <2> QED BY <1>2, <2>4, <2>5, PlainRequests
  <1>5. ASSUME NEW mark \in {"plain", "default"}, MarkCheck(c, co, v, mark)
        PROVE  VariantInv'
    <2>1. PICK r : r = [op |-> "mark", v |-> v, co |-> co, mark |-> mark, row |-> "there"]
      OBVIOUS
    <2>2. r \in Assigns /\ r.op = "mark" /\ r.co = co /\ r.v = v
      BY <2>1 DEF Assigns, Rows
    <2>3. r \in Requests /\ req' = [req EXCEPT ![c] = r] /\ assigned[co][v] # "no"
      BY <1>5, <2>1, <2>2, KindsAreRequests DEF MarkCheck
    <2> QED BY <1>2, <2>2, <2>3 DEF ApprovedFirst, AssignmentsFit
  <1> QED BY <1>3, <1>4, <1>5

\* An unassignment counts what remains.
LEMMA CountKeeps ==
    ASSUME VariantInv, NEW c \in Users, UnassignCount(c)
    PROVE  VariantInv'
  <1>1. PICK q \in Requests : q = req[c]
    BY DEF VariantInv, VariantTypeOK
  <1>2. q.op = "unassign"
    BY <1>1 DEF UnassignCount
  <1>3. q \in Unassigns
    BY <1>2, RequestKinds
  <1>4. PICK r : r = [op |-> "counted", v |-> q.v, co |-> q.co, row |-> q.row, last |-> Remaining(q) = {}]
    OBVIOUS
  <1>5. req' = [req EXCEPT ![c] = r]
        /\ UNCHANGED <<status, recipe, companies, assigned, access, library, made, approved, excused, raced>>
    BY <1>1, <1>4 DEF UnassignCount
  <1>6. r \in Counts /\ r.op = "counted" /\ r.co = q.co /\ r.v = q.v /\ r.row = q.row
        /\ r.last = (Remaining(q) = {})
    BY <1>3, <1>4 DEF Counts, Unassigns
  <1>7. r \in Requests
    BY <1>6, KindsAreRequests
  <1>8. r.last => \A w \in Variants : assigned[r.co][w] # "no" => w = r.v /\ r.row = "there"
    BY <1>6 DEF Remaining
  <1>9. ApprovedFirst(r) /\ AssignmentsFit(r)
    BY <1>6, <1>8 DEF ApprovedFirst, AssignmentsFit
  <1> QED BY <1>1, <1>2, <1>5, <1>7, <1>9, OnlyRequest
-----------------------------------------------------------------------------
(* Variants that are being created                                          *)

\* A variant that is being created has no row yet, nobody else creates it, and only a row
\* that is there is assigned.
NewFits ==
    /\ \A d \in Users : req[d].op = "create" => status[req[d].v] = "absent"
    /\ \A d, e \in Users : req[d].op = "create" /\ req[e].op = "create" /\ req[d].v = req[e].v => d = e
    /\ \A co \in Companies, v \in Variants : assigned[co][v] # "no" => Live(v)

\* No creation begins.
NoneBegins ==
    \A d \in Users : req'[d].op = "create" => req[d].op = "create" /\ req'[d].v = req[d].v

LEMMA NewStep ==
    ASSUME NewFits, NoneBegins,
           \A d \in Users : req'[d].op = "create" => status'[req'[d].v] = status[req'[d].v],
           \A co \in Companies, v \in Variants : assigned'[co][v] # "no" => Live(v)'
    PROVE  NewFits'
  BY DEF NewFits, NoneBegins

\* A step that leaves statuses alone and assigns nothing new.
LEMMA NewKept ==
    ASSUME NewFits, NoneBegins, status' = status,
           \A co \in Companies : NoneGained(co)
    PROVE  NewFits'
  <1>1. \A co \in Companies, v \in Variants : assigned'[co][v] # "no" => Live(v)'
    BY DEF NewFits, NoneGained, Live
  <1> QED BY <1>1, NewStep

LEMMA OneBegins ==
    ASSUME VariantTypeOK, NEW c \in Users, NEW r, req' = [req EXCEPT ![c] = r], r.op # "create"
    PROVE  NoneBegins
  BY DEF VariantTypeOK, NoneBegins

LEMMA AgedBegin ==
    ASSUME VariantTypeOK, NEW lost,
           \A d \in Users : req'[d].op = "create" => req'[d] = Aged(req[d], lost)
    PROVE  NoneBegins
  <1> SUFFICES ASSUME NEW d \in Users, req'[d].op = "create"
               PROVE  req[d].op = "create" /\ req'[d].v = req[d].v
    BY DEF NoneBegins
  <1>1. PICK r \in Requests : r = req[d]
    BY DEF VariantTypeOK
  <1>2. Aged(r, lost).op = r.op /\ (r.op # "list" => Aged(r, lost) = r \/ r.op \in {"assign", "mark", "unassign"})
    BY <1>1, AgedRequest
  <1>3. req'[d] = Aged(r, lost)
    BY <1>1
  <1>4. r.op = "create" /\ Aged(r, lost) = r
    BY <1>2, <1>3
  <1> QED BY <1>1, <1>3, <1>4

LEMMA ChangeBegins ==
    ASSUME VariantTypeOK, NEW c \in Users, NEW r, NEW lost, Changed(c, r, lost), r.op # "create"
    PROVE  NoneBegins
  <1>1. \A d \in Users : req'[d] = IF d = c THEN r ELSE Aged(req[d], lost)
    BY DEF Changed
  <1>2. \A d \in Users : req'[d].op = "create" => req'[d] = Aged(req[d], lost)
    BY <1>1
  <1> QED BY <1>2, AgedBegin

\* Who does nothing, or deletes the cached library, creates nothing.
LEMMA OpNotCreate ==
    Idle.op # "create" /\ [op |-> "evict"].op # "create"
  BY DEF Idle

-----------------------------------------------------------------------------
(* Commits                                                                  *)

\* A batch is made from a formula that was approved when it was checked.
LEMMA BatchKeeps ==
    ASSUME VariantInv, NEW c \in Users, BatchCommit(c)
    PROVE  VariantInv'
  <1>1. PICK q \in Requests : q = req[c]
    BY DEF VariantInv, VariantTypeOK
  <1>2. q.op = "batch" /\ made' = made \cup {q.v} /\ req' = [req EXCEPT ![c] = Idle]
        /\ UNCHANGED <<status, recipe, companies, assigned, access, library, approved, excused, raced>>
    BY <1>1 DEF BatchCommit
  <1>3. q \in Deletes /\ q.v \in approved
    BY <1>1, <1>2, RequestKinds DEF VariantInv, RequestsFit, ApprovedFirst
  <1>4. q.v \in Variants
    BY <1>3 DEF Deletes
  <1>5. made' \subseteq Variants /\ UsableApproved'
    BY <1>2, <1>3, <1>4 DEF VariantInv, VariantTypeOK, UsableApproved
  <1>6. library' \in {"none", "fresh", "stale"} /\ raced' \in BOOLEAN
    BY <1>2 DEF VariantInv, VariantTypeOK
  <1>7. LibraryCurrent'
    BY <1>1, <1>2 DEF VariantInv, VariantTypeOK, LibraryCurrent
  <1>8. Idle \in Requests /\ Idle.op = "idle"
    BY KindsAreRequests DEF Idle
  <1>9. ApprovedFirst(Idle) /\ AssignmentsFit(Idle)
    BY <1>8, PlainRequests
  <1> QED BY <1>2, <1>5, <1>6, <1>7, <1>8, <1>9, RowsUntouched

\* What a company is granted together with its assignments.
LEMMA GrantFits ==
    ASSUME VariantInv, NEW cs, cs \subseteq Companies, Granted(cs),
           \A co \in Companies \ cs : NoneGained(co)
    PROVE  /\ access' \subseteq Companies /\ excused' \subseteq Companies
           /\ GainsFit /\ AccessFits
  <1>1. access' = access \cup cs /\ excused' = (excused \ cs) \cup {co \in cs : Counting(co)}
    BY DEF Granted
  <1>2. access \subseteq Companies /\ excused \subseteq Companies
    BY DEF VariantInv, VariantTypeOK
  <1>3. GainsFit
    BY <1>1 DEF GainsFit
  <1>4. AccessFits
    BY <1>1 DEF AccessFits
  <1> QED BY <1>1, <1>2, <1>3, <1>4

\* Assignments that only change to another mark, or go.
LEMMA KeptFits ==
    ASSUME VariantInv, access' = access, excused' = excused,
           \A co \in Companies : NoneGained(co)
    PROVE  /\ access' \subseteq Companies /\ excused' \subseteq Companies
           /\ GainsFit /\ AccessFits
  BY DEF VariantInv, VariantTypeOK, GainsFit, AccessFits

LEMMA CreateKeeps ==
    ASSUME VariantInv, NewFits, NEW c \in Users, NEW s \in Creatable, NEW cs \in SUBSET Companies, NEW dflt,
           NEW l \in Lists, CreateCommit(c, s, cs, dflt, l)
    PROVE  VariantInv' /\ NewFits'
  <1>0. /\ status \in [Variants -> VariantStatuses \cup {"absent", "deleted"}]
        /\ recipe \in [Variants -> SUBSET Lists]
        /\ companies \subseteq Companies /\ assigned \in [Companies -> [Variants -> Marks]]
        /\ made \subseteq Variants /\ approved \subseteq Variants /\ UsableApproved /\ VariantTypeOK
    BY DEF VariantInv, VariantTypeOK
  <1>1. PICK q \in Requests : q = req[c]
    BY DEF VariantInv, VariantTypeOK
  <1>2. q.op = "create" /\ q \in Creates
    BY <1>1, RequestKinds DEF CreateCommit
  <1>3. PICK v \in Variants : v = q.v
    BY <1>2 DEF Creates
  <1>4. status[v] = "absent" /\ \A co \in Companies : assigned[co][v] = "no"
    BY <1>1, <1>2, <1>3 DEF NewFits, Live, VariantStatuses
  <1> DEFINE mark(co) == IF co \notin cs THEN "no"
                         ELSE IF co \notin dflt THEN "plain"
                         ELSE IF HasDefault(co) THEN "no" ELSE "default"
  <1>5. /\ status' = [status EXCEPT ![v] = s]
        /\ recipe' = [recipe EXCEPT ![v] = {l}]
        /\ assigned' = [co \in Companies |-> [assigned[co] EXCEPT ![v] = mark(co)]]
        /\ approved' = IF s \in Usable THEN approved \cup {v} ELSE approved
        /\ Granted(cs) /\ Changed(c, Idle, {}) /\ raced' = (raced \/ library = "fresh")
        /\ companies' = companies /\ made' = made
    BY <1>1, <1>3 DEF CreateCommit
  <1>6. \A co \in Companies : mark(co) \in Marks /\ (co \notin cs => mark(co) = "no")
    BY DEF Marks
  <1> HIDE DEF mark
  <1>7. \A co \in Companies, w \in Variants : assigned'[co][w] = IF w = v THEN mark(co) ELSE assigned[co][w]
    BY <1>0, <1>5
  <1>8. /\ status' \in [Variants -> VariantStatuses \cup {"absent", "deleted"}]
        /\ recipe' \in [Variants -> SUBSET Lists]
        /\ companies' \subseteq Companies
        /\ approved' \subseteq Variants /\ approved \subseteq approved'
    BY <1>0, <1>5 DEF Creatable
  <1>9. assigned' \in [Companies -> [Variants -> Marks]]
    BY <1>0, <1>5, <1>6
  <1>10. UsableApproved'
    BY <1>0, <1>5 DEF UsableApproved
  <1>11. KeptBut({})
    BY <1>4, <1>7 DEF KeptBut
  <1>12. \A co \in Companies \ cs : NoneGained(co)
    BY <1>6, <1>7 DEF NoneGained
  <1>13. /\ access' \subseteq Companies /\ excused' \subseteq Companies
         /\ GainsFit /\ AccessFits
    BY <1>5, <1>12, GrantFits
  <1>14. q.op # "evict"
    BY <1>2
  <1>15. VariantInv'
    BY <1>1, <1>5, <1>8, <1>9, <1>10, <1>11, <1>13, <1>14, ChangeKeeps
  <1>16. NoneBegins
    BY <1>0, <1>5, OpNotCreate, ChangeBegins
  <1>17. ASSUME NEW d \in Users, req'[d].op = "create"
         PROVE  status'[req'[d].v] = status[req'[d].v]
    <2>1. req[d].op = "create" /\ req'[d].v = req[d].v
      BY <1>16, <1>17 DEF NoneBegins
    <2>2. req'[c] = Idle
      BY <1>5 DEF Changed
    <2>3. d # c
      BY <1>17, <2>2, OpNotCreate
    <2>4. req[d].v # v
      BY <1>1, <1>2, <1>3, <2>1, <2>3 DEF NewFits
    <2> QED BY <1>0, <1>5, <2>1, <2>4
  <1>18. ASSUME NEW co \in Companies, NEW w \in Variants, assigned'[co][w] # "no"
         PROVE  Live(w)'
    <2>1. CASE w = v
      BY <1>0, <1>5, <2>1 DEF Live, Creatable
    <2>2. CASE w # v
      <3>1. assigned[co][w] # "no" /\ status'[w] = status[w]
        BY <1>0, <1>5, <1>7, <1>18, <2>2
      <3> QED BY <3>1 DEF NewFits, Live
    <2> QED BY <2>1, <2>2
  <1> QED BY <1>15, <1>16, <1>17, <1>18, NewStep

\* Writes that leave every assignment alone.
LEMMA RecipeOrStatusKeeps ==
    ASSUME VariantInv, NewFits, NEW c \in Users,
           \/ \E v \in Variants : UpdateVariant(c, v)
           \/ TransitionWrite(c)
           \/ \E l \in Lists : ReplaceCommit(c, l)
    PROVE  VariantInv' /\ NewFits'
  <1>0. /\ status \in [Variants -> VariantStatuses \cup {"absent", "deleted"}]
        /\ recipe \in [Variants -> SUBSET Lists]
        /\ companies \subseteq Companies /\ assigned \in [Companies -> [Variants -> Marks]]
        /\ made \subseteq Variants /\ approved \subseteq Variants /\ UsableApproved /\ VariantTypeOK
    BY DEF VariantInv, VariantTypeOK
  <1>1. /\ Changed(c, [op |-> "evict"], {}) /\ raced' = raced
        /\ UNCHANGED <<companies, assigned, access, made, excused>>
    BY DEF UpdateVariant, TransitionWrite, ReplaceCommit, CommitThenEvict
  <1>2. \A co \in Companies : NoneGained(co)
    BY <1>1 DEF NoneGained
  <1>3. /\ access' \subseteq Companies /\ excused' \subseteq Companies
        /\ GainsFit /\ AccessFits
    BY <1>1, <1>2, KeptFits
  <1>4. KeptBut({})
    BY <1>1 DEF KeptBut
  <1>5. NoneBegins
    BY <1>0, <1>1, OpNotCreate, ChangeBegins
  <1>6. PICK q \in Requests : q = req[c]
    BY DEF VariantInv, VariantTypeOK
  <1>7. ASSUME q.op # "evict", recipe' \in [Variants -> SUBSET Lists], status' = status, approved' = approved
        PROVE  VariantInv' /\ NewFits'
    <2>1. UsableApproved'
      BY <1>0, <1>1, <1>7 DEF UsableApproved
    <2>2. VariantInv'
      BY <1>0, <1>1, <1>3, <1>4, <1>6, <1>7, <2>1, ChangeKeeps
    <2> QED BY <1>2, <1>5, <1>7, <2>2, NewKept
  <1>8. ASSUME NEW v \in Variants, UpdateVariant(c, v)
        PROVE  VariantInv' /\ NewFits'
    BY <1>0, <1>6, <1>7, <1>8, IdleOrNot DEF UpdateVariant
  <1>9. ASSUME NEW l \in Lists, ReplaceCommit(c, l)
        PROVE  VariantInv' /\ NewFits'
    <2>1. q \in Replaces /\ q.op = "replace"
      BY <1>6, <1>9, RequestKinds DEF ReplaceCommit
    <2>2. q.v \in Variants
      BY <2>1 DEF Replaces
    <2>3. /\ recipe' = [recipe EXCEPT ![q.v] = (recipe[q.v] \ q.sees) \cup {l}]
          /\ status' = status /\ approved' = approved
      BY <1>0, <1>6, <1>9 DEF ReplaceCommit
    <2>4. recipe' \in [Variants -> SUBSET Lists]
      BY <1>0, <2>2, <2>3
    <2> QED BY <1>7, <2>1, <2>3, <2>4
  <1>10. CASE TransitionWrite(c)
    <2>1. q \in Moves /\ q.op = "transition"
      BY <1>6, <1>10, RequestKinds DEF TransitionWrite
    <2>2. q.v \in Variants /\ q.to \in VariantStatuses
      BY <2>1 DEF Moves
    <2>3. /\ status' = IF Live(q.v) THEN [status EXCEPT ![q.v] = q.to] ELSE status
          /\ approved' = IF Live(q.v) /\ q.to = "approved" THEN approved \cup {q.v} ELSE approved
          /\ recipe' = recipe
      BY <1>6, <1>10 DEF TransitionWrite
    <2>4. /\ status' \in [Variants -> VariantStatuses \cup {"absent", "deleted"}]
          /\ recipe' \in [Variants -> SUBSET Lists] /\ companies' \subseteq Companies
          /\ assigned' \in [Companies -> [Variants -> Marks]]
          /\ approved' \subseteq Variants /\ approved \subseteq approved'
      BY <1>0, <1>1, <2>2, <2>3
    <2>5. q.to = "production" => q.v \in approved
      BY <1>6, <2>1 DEF VariantInv, RequestsFit, ApprovedFirst
    <2>6. UsableApproved'
      <3>1. made' \subseteq approved'
        BY <1>0, <1>1, <2>4 DEF UsableApproved
      <3>2. ASSUME NEW w \in Variants, status'[w] \in Usable
            PROVE  w \in approved'
        <4>1. CASE w = q.v /\ Live(q.v)
          <5>1. status'[w] = q.to
            BY <1>0, <2>3, <4>1
          <5>2. q.to = "approved" \/ q.to = "production"
            BY <3>2, <5>1 DEF Usable
          <5> QED BY <2>3, <2>4, <2>5, <4>1, <5>2
        <4>2. CASE ~(w = q.v /\ Live(q.v))
          <5>1. status'[w] = status[w]
            BY <1>0, <2>3, <4>2
          <5> QED BY <1>0, <2>4, <3>2, <5>1 DEF UsableApproved
        <4> QED BY <4>1, <4>2
      <3> QED BY <3>1, <3>2 DEF UsableApproved
    <2>7. VariantInv'
      <3>1. req[c].op # "evict"
        BY <1>6, <2>1
      <3> QED BY <1>1, <1>3, <1>4, <2>4, <2>6, <3>1, ChangeKeeps
    <2>8. \A d \in Users : req'[d].op = "create" => status'[req'[d].v] = status[req'[d].v]
      <3> SUFFICES ASSUME NEW d \in Users, req'[d].op = "create"
                   PROVE  status'[req'[d].v] = status[req'[d].v]
        OBVIOUS
      <3>1. status[req'[d].v] = "absent"
        BY <1>5 DEF NoneBegins, NewFits
      <3>2. ~(req'[d].v = q.v /\ Live(q.v))
        BY <3>1 DEF Live, VariantStatuses
      <3> QED BY <2>3, <3>2, <1>0
    <2>9. \A co \in Companies, v \in Variants : assigned'[co][v] # "no" => Live(v)'
      <3> SUFFICES ASSUME NEW co \in Companies, NEW v \in Variants, assigned'[co][v] # "no"
                   PROVE  Live(v)'
        OBVIOUS
      <3>1. Live(v)
        BY <1>1 DEF NewFits
      <3> QED BY <1>0, <2>2, <2>3, <3>1 DEF Live
    <2> QED BY <1>5, <2>7, <2>8, <2>9, NewStep
  <1> QED BY <1>8, <1>9, <1>10

\* A formula is deleted with its assignments.
LEMMA DeleteKeeps ==
    ASSUME VariantInv, NewFits, NEW c \in Users, DeleteCommit(c)
    PROVE  VariantInv' /\ NewFits'
  <1>0. /\ status \in [Variants -> VariantStatuses \cup {"absent", "deleted"}]
        /\ recipe \in [Variants -> SUBSET Lists]
        /\ companies \subseteq Companies /\ assigned \in [Companies -> [Variants -> Marks]]
        /\ made \subseteq Variants /\ approved \subseteq Variants /\ UsableApproved /\ VariantTypeOK
    BY DEF VariantInv, VariantTypeOK
  <1>1. PICK q \in Requests : q = req[c]
    BY DEF VariantInv, VariantTypeOK
  <1>2. q \in Deletes /\ q.op = "delete"
    BY <1>1, RequestKinds DEF DeleteCommit
  <1>3. PICK v \in Variants : v = q.v
    BY <1>2 DEF Deletes
  <1>4. PICK lost : lost = Companies \X {v}
    OBVIOUS
  <1>5. /\ Live(v)
        /\ status' = [status EXCEPT ![v] = "deleted"]
        /\ recipe' = [recipe EXCEPT ![v] = {}]
        /\ assigned' = [co \in Companies |-> [assigned[co] EXCEPT ![v] = "no"]]
        /\ Changed(c, [op |-> "evict"], lost) /\ raced' = raced
        /\ UNCHANGED <<companies, access, made, approved, excused>>
    BY <1>1, <1>3, <1>4 DEF DeleteCommit, CommitThenEvict
  <1>6. \A co \in Companies, w \in Variants : assigned'[co][w] = IF w = v THEN "no" ELSE assigned[co][w]
    BY <1>0, <1>5
  <1>7. \A co \in Companies : NoneGained(co)
    BY <1>6 DEF NoneGained
  <1>8. /\ access' \subseteq Companies /\ excused' \subseteq Companies
        /\ GainsFit /\ AccessFits
    BY <1>5, <1>7, KeptFits
  <1>9. KeptBut(lost)
    BY <1>4, <1>6 DEF KeptBut
  <1>10. /\ status' \in [Variants -> VariantStatuses \cup {"absent", "deleted"}]
         /\ recipe' \in [Variants -> SUBSET Lists] /\ companies' \subseteq Companies
         /\ approved' \subseteq Variants /\ approved \subseteq approved'
    BY <1>0, <1>5
  <1>11. assigned' \in [Companies -> [Variants -> Marks]]
    BY <1>0, <1>5 DEF Marks
  <1>12. UsableApproved'
    BY <1>0, <1>5 DEF UsableApproved, Usable
  <1>13. VariantInv'
    <2>1. req[c].op # "evict"
      BY <1>1, <1>2
    <2> QED BY <1>5, <1>8, <1>9, <1>10, <1>11, <1>12, <2>1, ChangeKeeps
  <1>14. NoneBegins
    BY <1>0, <1>5, OpNotCreate, ChangeBegins
  <1>15. \A d \in Users : req'[d].op = "create" => status'[req'[d].v] = status[req'[d].v]
    <2> SUFFICES ASSUME NEW d \in Users, req'[d].op = "create"
                 PROVE  status'[req'[d].v] = status[req'[d].v]
      OBVIOUS
    <2>1. status[req'[d].v] = "absent"
      BY <1>14 DEF NoneBegins, NewFits
    <2>2. req'[d].v # v
      BY <1>5, <2>1 DEF Live, VariantStatuses
    <2> QED BY <1>0, <1>5, <2>2
  <1>16. \A co \in Companies, w \in Variants : assigned'[co][w] # "no" => Live(w)'
    <2> SUFFICES ASSUME NEW co \in Companies, NEW w \in Variants, assigned'[co][w] # "no"
                 PROVE  Live(w)'
      OBVIOUS
    <2>1. w # v /\ assigned[co][w] # "no"
      BY <1>6
    <2>2. status'[w] = status[w] /\ Live(w)
      BY <1>0, <1>5, <2>1 DEF NewFits
    <2> QED BY <2>2 DEF Live
  <1> QED BY <1>13, <1>14, <1>15, <1>16, NewStep

\* An assignment, with the access that goes with it.
LEMMA AssignKeeps ==
    ASSUME VariantInv, NewFits, NEW c \in Users, AssignCommit(c)
    PROVE  VariantInv' /\ NewFits'
  <1>0. /\ status \in [Variants -> VariantStatuses \cup {"absent", "deleted"}]
        /\ recipe \in [Variants -> SUBSET Lists]
        /\ companies \subseteq Companies /\ assigned \in [Companies -> [Variants -> Marks]]
        /\ made \subseteq Variants /\ approved \subseteq Variants /\ UsableApproved /\ VariantTypeOK
    BY DEF VariantInv, VariantTypeOK
  <1>1. PICK q \in Requests : q = req[c]
    BY DEF VariantInv, VariantTypeOK
  <1>2. q \in Assigns /\ q.op = "assign"
    BY <1>1, RequestKinds DEF AssignCommit
  <1>3. PICK v \in Variants, co \in Companies, mark \in {"plain", "default"} :
            v = q.v /\ co = q.co /\ mark = q.mark
    BY <1>2 DEF Assigns
  <1>4. /\ Live(v)
        /\ assigned' = IF q.row = "gone" THEN assigned ELSE [assigned EXCEPT ![co][v] = mark]
        /\ Granted({co}) /\ Changed(c, [op |-> "evict"], {}) /\ raced' = raced
        /\ UNCHANGED <<status, recipe, companies, made, approved>>
    BY <1>1, <1>3 DEF AssignCommit, CommitThenEvict
  <1>5. mark \in Marks /\ mark # "no"
    BY DEF Marks
  <1>6. /\ assigned' \in [Companies -> [Variants -> Marks]]
        /\ \A co1 \in Companies, w \in Variants :
             assigned'[co1][w] = IF q.row # "gone" /\ co1 = co /\ w = v THEN mark ELSE assigned[co1][w]
    <2>1. CASE q.row = "gone"
      BY <1>0, <1>4, <2>1
    <2>2. CASE q.row # "gone"
      <3>1. assigned' = [assigned EXCEPT ![co] = [assigned[co] EXCEPT ![v] = mark]]
        BY <1>0, <1>4, <2>2
      <3> QED BY <1>0, <1>5, <2>2, <3>1
    <2> QED BY <2>1, <2>2
  <1>7. \A co1 \in Companies \ {co} : NoneGained(co1)
    BY <1>6 DEF NoneGained
  <1>8. /\ access' \subseteq Companies /\ excused' \subseteq Companies
        /\ GainsFit /\ AccessFits
    <2>1. {co} \subseteq Companies
      OBVIOUS
    <2> QED BY <1>4, <1>7, <2>1, GrantFits
  <1>9. KeptBut({})
    BY <1>5, <1>6 DEF KeptBut
  <1>10. UsableApproved'
    BY <1>0, <1>4 DEF UsableApproved
  <1>11. VariantInv'
    <2>1. req[c].op # "evict"
      BY <1>1, <1>2
    <2> QED BY <1>0, <1>4, <1>6, <1>8, <1>9, <1>10, <2>1, ChangeKeeps
  <1>12. NoneBegins
    BY <1>0, <1>4, OpNotCreate, ChangeBegins
  <1>13. \A co1 \in Companies, w \in Variants : assigned'[co1][w] # "no" => Live(w)'
    <2> SUFFICES ASSUME NEW co1 \in Companies, NEW w \in Variants, assigned'[co1][w] # "no"
                 PROVE  Live(w)'
      OBVIOUS
    <2>1. w = v \/ assigned[co1][w] # "no"
      BY <1>6
    <2>2. Live(w)
      BY <1>4, <2>1 DEF NewFits
    <2> QED BY <1>4, <2>2 DEF Live
  <1> QED BY <1>4, <1>11, <1>12, <1>13, NewStep

\* An assignment gets another mark, and the company's other defaults with it.
LEMMA MarkKeeps ==
    ASSUME VariantInv, NewFits, NEW c \in Users, MarkCommit(c)
    PROVE  VariantInv' /\ NewFits'
  <1>0. /\ status \in [Variants -> VariantStatuses \cup {"absent", "deleted"}]
        /\ recipe \in [Variants -> SUBSET Lists]
        /\ companies \subseteq Companies /\ assigned \in [Companies -> [Variants -> Marks]]
        /\ made \subseteq Variants /\ approved \subseteq Variants /\ UsableApproved /\ VariantTypeOK
    BY DEF VariantInv, VariantTypeOK
  <1>1. PICK q \in Requests : q = req[c]
    BY DEF VariantInv, VariantTypeOK
  <1>2. q \in Assigns /\ q.op = "mark"
    BY <1>1, RequestKinds DEF MarkCommit
  <1>3. PICK v \in Variants, co \in Companies, mark \in {"plain", "default"} :
            v = q.v /\ co = q.co /\ mark = q.mark
    BY <1>2 DEF Assigns
  <1>4. PICK row \in Rows : row = q.row
    BY <1>2 DEF Assigns
  <1>5. /\ assigned' = [assigned EXCEPT ![co] = [w \in Variants |->
                          IF w = v /\ row = "there" THEN mark
                          ELSE IF mark = "default" /\ assigned[co][w] = "default" THEN "plain"
                          ELSE assigned[co][w]]]
        /\ Changed(c, [op |-> "evict"], {}) /\ raced' = raced
        /\ UNCHANGED <<status, recipe, companies, access, made, approved, excused>>
    BY <1>0, <1>1, <1>3, <1>4 DEF MarkCommit, CommitThenEvict
  <1>6. mark \in Marks /\ mark # "no" /\ "plain" \in Marks
    BY DEF Marks
  <1>7. row = "there" => assigned[co][v] # "no"
    BY <1>1, <1>2, <1>3, <1>4 DEF VariantInv, RequestsFit, AssignmentsFit
  <1>8. assigned' \in [Companies -> [Variants -> Marks]]
    BY <1>0, <1>5, <1>6
  <1>9. \A co1 \in Companies, w \in Variants : (assigned'[co1][w] = "no") <=> (assigned[co1][w] = "no")
    BY <1>0, <1>5, <1>6, <1>7
  <1>10. \A co1 \in Companies : NoneGained(co1)
    BY <1>9 DEF NoneGained
  <1>11. KeptBut({})
    BY <1>9 DEF KeptBut
  <1>12. /\ access' \subseteq Companies /\ excused' \subseteq Companies
         /\ GainsFit /\ AccessFits
    BY <1>5, <1>10, KeptFits
  <1>13. UsableApproved'
    BY <1>0, <1>5 DEF UsableApproved
  <1>14. VariantInv'
    <2>1. req[c].op # "evict"
      BY <1>1, <1>2
    <2> QED BY <1>0, <1>5, <1>8, <1>11, <1>12, <1>13, <2>1, ChangeKeeps
  <1>15. NoneBegins
    BY <1>0, <1>5, OpNotCreate, ChangeBegins
  <1> QED BY <1>5, <1>10, <1>14, <1>15, NewKept

\* The last assignment goes, with the access.
LEMMA UnassignKeeps ==
    ASSUME VariantInv, NewFits, NEW c \in Users, UnassignCommit(c)
    PROVE  VariantInv' /\ NewFits'
  <1>0. /\ status \in [Variants -> VariantStatuses \cup {"absent", "deleted"}]
        /\ recipe \in [Variants -> SUBSET Lists]
        /\ companies \subseteq Companies /\ assigned \in [Companies -> [Variants -> Marks]]
        /\ access \subseteq Companies /\ excused \subseteq Companies
        /\ made \subseteq Variants /\ approved \subseteq Variants /\ UsableApproved /\ VariantTypeOK
    BY DEF VariantInv, VariantTypeOK
  <1>1. PICK q \in Requests : q = req[c]
    BY DEF VariantInv, VariantTypeOK
  <1>2. q \in Counts /\ q.op = "counted"
    BY <1>1, RequestKinds DEF UnassignCommit
  <1>3. PICK v \in Variants, co \in Companies : v = q.v /\ co = q.co
    BY <1>2 DEF Counts
  <1>4. PICK gone : gone = IF q.row = "there" THEN {<<co, v>>} ELSE {}
    OBVIOUS
  <1>5. /\ assigned' = [co1 \in Companies |-> [w \in Variants |->
                          IF <<co1, w>> \in gone THEN "no" ELSE assigned[co1][w]]]
        /\ access' = IF q.last THEN access \ {co} ELSE access
        /\ Changed(c, [op |-> "evict"], gone) /\ raced' = raced
        /\ UNCHANGED <<status, recipe, companies, made, approved, excused>>
    BY <1>1, <1>3, <1>4 DEF UnassignCommit, CommitThenEvict
  <1>6. assigned' \in [Companies -> [Variants -> Marks]]
    BY <1>0, <1>5 DEF Marks
  <1>7. \A co1 \in Companies, w \in Variants :
            assigned'[co1][w] = IF <<co1, w>> \in gone THEN "no" ELSE assigned[co1][w]
    BY <1>5
  <1>8. KeptBut(gone)
    BY <1>7 DEF KeptBut
  <1>9. \A co1 \in Companies : NoneGained(co1)
    BY <1>7 DEF NoneGained
  <1>10. GainsFit
    BY <1>5, <1>9 DEF GainsFit
  <1>11. ASSUME q.last, co \notin excused, NEW w \in Variants
         PROVE  assigned'[co][w] = "no"
    <2>1. assigned[co][w] # "no" => w = v /\ q.row = "there"
      BY <1>1, <1>2, <1>3, <1>11 DEF VariantInv, RequestsFit, AssignmentsFit
    <2>2. assigned'[co][w] = IF <<co, w>> \in gone THEN "no" ELSE assigned[co][w]
      BY <1>7
    <2>3. w = v /\ q.row = "there" => <<co, w>> \in gone
      BY <1>4
    <2> QED BY <2>1, <2>2, <2>3
  <1>12. AccessFits
    <2> SUFFICES ASSUME NEW co1 \in Companies, co1 \notin excused', co1 \notin access'
                 PROVE  \/ \A w \in Variants : assigned'[co1][w] = "no"
                        \/ co1 \notin excused /\ co1 \notin access /\ NoneGained(co1)
      BY DEF AccessFits
    <2>1. CASE q.last /\ co1 = co
      BY <1>5, <1>11, <2>1
    <2>2. CASE ~(q.last /\ co1 = co)
      BY <1>5, <1>9, <2>2
    <2> QED BY <2>1, <2>2
  <1>13. UsableApproved'
    BY <1>0, <1>5 DEF UsableApproved
  <1>14. access' \subseteq Companies /\ excused' \subseteq Companies
    BY <1>0, <1>5
  <1>15. VariantInv'
    <2>1. req[c].op # "evict"
      BY <1>1, <1>2
    <2> QED BY <1>0, <1>5, <1>6, <1>8, <1>10, <1>12, <1>13, <1>14, <2>1, ChangeKeeps
  <1>16. NoneBegins
    BY <1>0, <1>5, OpNotCreate, ChangeBegins
  <1> QED BY <1>5, <1>9, <1>15, <1>16, NewKept

\* updateCompany excuses a company whose access it takes away.
LEMMA UpdateCompanyKeeps ==
    ASSUME VariantInv, NewFits, NEW co \in Companies, NEW a \in BOOLEAN, UpdateCompany(co, a)
    PROVE  VariantInv' /\ NewFits'
  <1>0. /\ access \subseteq Companies /\ excused \subseteq Companies /\ VariantTypeOK
        /\ UsableApproved /\ LibraryCurrent /\ AssignedHasAccess
    BY DEF VariantInv, VariantTypeOK
  <1>1. /\ access' = IF a THEN access \cup {co} ELSE access \ {co}
        /\ excused' = IF a THEN excused ELSE excused \cup {co}
        /\ UNCHANGED <<status, recipe, companies, assigned, library, req, made, approved, raced>>
    BY DEF UpdateCompany
  <1>2. \A co1 \in Companies : NoneGained(co1)
    BY <1>1 DEF NoneGained
  <1>3. excused \subseteq excused' /\ \A co1 \in Companies \ excused' : co1 \in access => co1 \in access'
    BY <1>1
  <1>4. KeptBut({}) /\ GainsFit /\ AccessFits
    BY <1>1, <1>2, <1>3 DEF KeptBut, GainsFit, AccessFits
  <1>5. VariantTypeOK'
    <2>1. access' \subseteq Companies /\ excused' \subseteq Companies
      BY <1>0, <1>1
    <2> QED BY <1>0, <1>1, <2>1 DEF VariantTypeOK
  <1>6. AssignedHasAccess'
    BY <1>0, <1>4, AccessStep
  <1>7. UsableApproved' /\ LibraryCurrent'
    BY <1>0, <1>1 DEF UsableApproved, LibraryCurrent
  <1>8. ASSUME NEW d \in Users
        PROVE  (ApprovedFirst(req[d]) /\ AssignmentsFit(req[d]))'
    <2>1. req'[d] = req[d] /\ approved \subseteq approved'
      BY <1>1
    <2> QED BY <1>4, <2>1, RequestStep
  <1>9. RequestsFit'
    BY <1>8 DEF RequestsFit
  <1>10. NoneBegins
    BY <1>1 DEF NoneBegins
  <1>11. NewFits'
    BY <1>1, <1>2, <1>10, NewKept
  <1> QED BY <1>5, <1>6, <1>7, <1>9, <1>11 DEF VariantInv

\* A company goes with its assignments and its access; the library is not evicted.
LEMMA DeleteCompanyKeeps ==
    ASSUME VariantInv, NewFits, NEW co \in Companies, DeleteCompany(co)
    PROVE  VariantInv' /\ NewFits'
  <1>0. /\ companies \subseteq Companies /\ assigned \in [Companies -> [Variants -> Marks]]
        /\ library \in {"none", "fresh", "stale"} /\ raced \in BOOLEAN
        /\ access \subseteq Companies /\ excused \subseteq Companies /\ VariantTypeOK
        /\ UsableApproved /\ LibraryCurrent /\ AssignedHasAccess /\ req \in [Users -> Requests]
    BY DEF VariantInv, VariantTypeOK
  <1>1. PICK lost : lost = {co} \X Variants
    OBVIOUS
  <1>2. /\ companies' = companies \ {co}
        /\ assigned' = [assigned EXCEPT ![co] = [v \in Variants |-> "no"]]
        /\ access' = access \ {co}
        /\ library' = IF library = "fresh" THEN "stale" ELSE library
        /\ raced' = (raced \/ library = "fresh")
        /\ req' = [d \in Users |-> Aged(req[d], lost)]
        /\ UNCHANGED <<status, recipe, made, approved, excused>>
    BY <1>1 DEF DeleteCompany
  <1>3. \A co1 \in Companies, w \in Variants : assigned'[co1][w] = IF co1 = co THEN "no" ELSE assigned[co1][w]
    BY <1>0, <1>2
  <1>4. \A co1 \in Companies : NoneGained(co1)
    BY <1>3 DEF NoneGained
  <1>5. KeptBut(lost)
    BY <1>1, <1>3 DEF KeptBut
  <1>6. GainsFit
    BY <1>2, <1>4 DEF GainsFit
  <1>7. AccessFits
    BY <1>2, <1>3, <1>4 DEF AccessFits
  <1>8. VariantTypeOK'
    <2>1. req' \in [Users -> Requests]
      BY <1>0, <1>2, AgedRequest
    <2>2. assigned' \in [Companies -> [Variants -> Marks]]
      BY <1>0, <1>2 DEF Marks
    <2>3. library' \in {"none", "fresh", "stale"} /\ raced' \in BOOLEAN
      BY <1>0, <1>2
    <2>4. companies' \subseteq Companies /\ access' \subseteq Companies
      BY <1>0, <1>2
    <2> QED BY <1>0, <1>2, <2>1, <2>2, <2>3, <2>4 DEF VariantTypeOK
  <1>9. AssignedHasAccess'
    BY <1>0, <1>7, AccessStep
  <1>10. UsableApproved'
    BY <1>0, <1>2 DEF UsableApproved
  <1>11. LibraryCurrent'
    <2>1. \A d \in Users : req'[d].op = req[d].op
      BY <1>0, <1>2, AgedRequest
    <2> QED BY <1>0, <1>2, <2>1 DEF LibraryCurrent
  <1>12. ASSUME NEW d \in Users
         PROVE  (ApprovedFirst(req[d]) /\ AssignmentsFit(req[d]))'
    <2>1. req'[d] = Aged(req[d], lost) /\ approved \subseteq approved'
      BY <1>2
    <2> QED BY <1>5, <1>6, <2>1, RequestStep
  <1>13. RequestsFit'
    BY <1>12 DEF RequestsFit
  <1>14. NoneBegins
    BY <1>0, <1>2, AgedBegin
  <1>15. NewFits'
    BY <1>2, <1>4, <1>14, NewKept
  <1> QED BY <1>8, <1>9, <1>10, <1>11, <1>13, <1>15 DEF VariantInv

\* Requests that read, are refused or end, and the cache.
LEMMA QuietKeepsNew ==
    ASSUME VariantInv, NewFits, UNCHANGED <<status, assigned>>, NEW c \in Users, NEW r,
           req' = [req EXCEPT ![c] = r], r.op # "create"
    PROVE  NewFits'
  <1>1. NoneBegins
    BY OneBegins DEF VariantInv
  <1>2. \A co \in Companies : NoneGained(co)
    BY DEF NoneGained
  <1> QED BY <1>1, <1>2, NewKept

LEMMA IdleKeepsNew ==
    ASSUME VariantInv, NewFits, NEW c \in Users,
           \/ ListFill(c) \/ Evict(c) \/ EvictFails(c) \/ BatchCommit(c)
           \/ CreateFails(c) \/ VariantGone(c) \/ DeleteFindsNone(c) \/ AssignRefused(c) \/ MarkAborted(c)
    PROVE  NewFits'
  <1>1. UNCHANGED <<status, assigned>> /\ req' = [req EXCEPT ![c] = Idle]
    BY DEF ListFill, Evict, EvictFails, BatchCommit, CreateFails, VariantGone, DeleteFindsNone,
           AssignRefused, MarkAborted
  <1> QED BY <1>1, OpNotCreate, QuietKeepsNew

LEMMA ReadKeepsNew ==
    ASSUME VariantInv, NewFits, NEW c \in Users,
           \/ ListMiss(c) \/ UnassignCount(c)
           \/ \E v \in Variants : \/ ReplaceDelete(c, v) \/ DeleteCheck(c, v) \/ BatchCheck(c, v)
                                  \/ \E s \in VariantStatuses : VariantTransitionCheck(c, v, s)
                                  \/ \E co \in Companies :
                                       \/ UnassignCheck(c, co, v)
                                       \/ \E mark \in {"plain", "default"} :
                                            AssignCheck(c, co, v, mark) \/ MarkCheck(c, co, v, mark)
    PROVE  NewFits'
  <1>1. UNCHANGED <<status, assigned>>
    BY DEF ListMiss, UnassignCount, ReplaceDelete, DeleteCheck, BatchCheck, VariantTransitionCheck,
           UnassignCheck, AssignCheck, MarkCheck
  <1>2. req \in [Users -> Requests]
    BY DEF VariantInv, VariantTypeOK
  <1>3. /\ req'[c].op # "create"
        /\ \A d \in Users \ {c} : req'[d] = req[d]
    <2>1. CASE ListMiss(c)
      BY <1>2, <2>1 DEF ListMiss
    <2>2. CASE UnassignCount(c)
      BY <1>2, <2>2 DEF UnassignCount
    <2>3. ASSUME NEW v \in Variants,
                 \/ ReplaceDelete(c, v) \/ DeleteCheck(c, v) \/ BatchCheck(c, v)
                 \/ \E s \in VariantStatuses : VariantTransitionCheck(c, v, s)
          PROVE  req'[c].op # "create" /\ \A d \in Users \ {c} : req'[d] = req[d]
      BY <1>2, <2>3 DEF ReplaceDelete, DeleteCheck, BatchCheck, VariantTransitionCheck
    <2>4. ASSUME NEW v \in Variants, NEW co \in Companies,
                 \/ UnassignCheck(c, co, v)
                 \/ \E mark \in {"plain", "default"} : AssignCheck(c, co, v, mark) \/ MarkCheck(c, co, v, mark)
          PROVE  req'[c].op # "create" /\ \A d \in Users \ {c} : req'[d] = req[d]
      BY <1>2, <2>4 DEF UnassignCheck, AssignCheck, MarkCheck
    <2> QED BY <2>1, <2>2, <2>3, <2>4
  <1>4. NoneBegins
    BY <1>3 DEF NoneBegins
  <1>5. \A co \in Companies : NoneGained(co)
    BY <1>1 DEF NoneGained
  <1> QED BY <1>1, <1>4, <1>5, NewKept

\* One creates a variant that nobody else creates.
LEMMA BeginKeepsNew ==
    ASSUME VariantInv, NewFits, NEW c \in Users, NEW v \in Variants, CreateEvict(c, v)
    PROVE  NewFits'
  <1>0. req \in [Users -> Requests]
    BY DEF VariantInv, VariantTypeOK
  <1>1. /\ status[v] = "absent"
        /\ \A d \in Users : req[d].op = "create" => req[d].v # v
        /\ req' = [req EXCEPT ![c] = [op |-> "create", v |-> v]]
        /\ UNCHANGED <<status, assigned>>
    BY DEF CreateEvict
  <1>2. req'[c].op = "create" /\ req'[c].v = v /\ \A d \in Users \ {c} : req'[d] = req[d]
    BY <1>0, <1>1
  <1>3. \A co \in Companies, w \in Variants : assigned'[co][w] # "no" => Live(w)'
    BY <1>1 DEF NewFits, Live
  <1>4. \A d \in Users : req'[d].op = "create" => status'[req'[d].v] = "absent"
    <2> SUFFICES ASSUME NEW d \in Users, req'[d].op = "create"
                 PROVE  status'[req'[d].v] = "absent"
      OBVIOUS
    <2> QED BY <1>1, <1>2 DEF NewFits
  <1>5. \A d, e \in Users : req'[d].op = "create" /\ req'[e].op = "create" /\ req'[d].v = req'[e].v => d = e
    <2> SUFFICES ASSUME NEW d \in Users, NEW e \in Users,
                        req'[d].op = "create", req'[e].op = "create", req'[d].v = req'[e].v
                 PROVE  d = e
      OBVIOUS
    <2> QED BY <1>1, <1>2 DEF NewFits
  <1> QED BY <1>3, <1>4, <1>5 DEF NewFits

-----------------------------------------------------------------------------
(* Theorems                                                                 *)

LEMMA VariantStepInv == VariantInv /\ NewFits /\ [VariantNext]_variantVars => VariantInv' /\ NewFits'
  <1> SUFFICES ASSUME VariantInv, NewFits, [VariantNext]_variantVars
               PROVE  VariantInv' /\ NewFits'
    OBVIOUS
  <1>1. CASE UNCHANGED variantVars
    <2>1. VariantTypeOK' /\ UsableApproved' /\ AssignedHasAccess' /\ LibraryCurrent'
      BY <1>1 DEF variantVars, VariantInv, VariantTypeOK, UsableApproved, AssignedHasAccess, LibraryCurrent
    <2>2. RequestsFit'
      BY <1>1 DEF variantVars, VariantInv, RequestsFit, ApprovedFirst, AssignmentsFit
    <2>3. NewFits'
      BY <1>1 DEF variantVars, NewFits, Live
    <2> QED BY <2>1, <2>2, <2>3 DEF VariantInv
  <1>2. CASE CacheExpires
    <2>1. NewFits'
      BY <1>2 DEF CacheExpires, NewFits, Live
    <2> QED BY <1>2, <2>1, ExpiryKeeps
  <1>3. ASSUME NEW co \in Companies, DeleteCompany(co) \/ \E a \in BOOLEAN : UpdateCompany(co, a)
        PROVE  VariantInv' /\ NewFits'
    BY <1>3, DeleteCompanyKeeps, UpdateCompanyKeeps
  <1>4. ASSUME NEW c \in Users,
               \/ ListMiss(c) \/ ListFill(c) \/ Evict(c) \/ EvictFails(c)
               \/ CreateFails(c) \/ VariantGone(c) \/ DeleteFindsNone(c) \/ BatchCommit(c)
               \/ AssignRefused(c) \/ MarkAborted(c) \/ UnassignCount(c)
        PROVE  VariantInv' /\ NewFits'
    <2>1. NewFits'
      BY <1>4, IdleKeepsNew, ReadKeepsNew
    <2> QED BY <1>4, <2>1, ListKeeps, EvictKeeps, EndsKeeps, BatchKeeps, CountKeeps
  <1>5. ASSUME NEW c \in Users,
               \/ TransitionWrite(c) \/ DeleteCommit(c) \/ AssignCommit(c)
               \/ MarkCommit(c) \/ UnassignCommit(c)
        PROVE  VariantInv' /\ NewFits'
    BY <1>5, RecipeOrStatusKeeps, DeleteKeeps, AssignKeeps, MarkKeeps, UnassignKeeps
  <1>6. ASSUME NEW c \in Users, NEW v \in Variants,
               CreateEvict(c, v) \/ UpdateVariant(c, v)
        PROVE  VariantInv' /\ NewFits'
    BY <1>6, EvictKeeps, BeginKeepsNew, RecipeOrStatusKeeps
  <1>7. ASSUME NEW c \in Users, NEW v \in Variants,
               \/ ReplaceDelete(c, v) \/ DeleteCheck(c, v) \/ BatchCheck(c, v)
               \/ \E s \in VariantStatuses : VariantTransitionCheck(c, v, s)
        PROVE  VariantInv' /\ NewFits'
    <2>1. NewFits'
      BY <1>7, ReadKeepsNew
    <2> QED BY <1>7, <2>1, VariantReadKeeps
  <1>8. ASSUME NEW c \in Users, NEW v \in Variants, NEW co \in Companies,
               \/ UnassignCheck(c, co, v)
               \/ \E mark \in {"plain", "default"} : AssignCheck(c, co, v, mark) \/ MarkCheck(c, co, v, mark)
        PROVE  VariantInv' /\ NewFits'
    <2>1. NewFits'
      BY <1>8, ReadKeepsNew
    <2> QED BY <1>8, <2>1, AssignmentReadKeeps
  <1>9. ASSUME NEW c \in Users, NEW l \in Lists, ReplaceCommit(c, l)
        PROVE  VariantInv' /\ NewFits'
    BY <1>9, RecipeOrStatusKeeps
  <1>10. ASSUME NEW c \in Users, NEW l \in Lists, NEW s \in Creatable, NEW cs \in SUBSET Companies, NEW dflt,
                CreateCommit(c, s, cs, dflt, l)
         PROVE  VariantInv' /\ NewFits'
    BY <1>10, CreateKeeps
  <1> QED
    BY <1>1, <1>2, <1>3, <1>4, <1>5, <1>6, <1>7, <1>8, <1>9, <1>10 DEF VariantNext

LEMMA NewAtFirst == VariantInit => NewFits
  BY DEF VariantInit, NewFits, Idle

LEMMA VariantInvariance == VariantSpec => [](VariantInv /\ NewFits)
  <1>1. VariantInit => VariantInv /\ NewFits
    BY VariantInitInv, NewAtFirst
  <1> QED BY <1>1, VariantStepInv, PTL DEF VariantSpec

\* A company that a formula is assigned to keeps its access to the product, whatever overlaps,
\* but for the two ways that are excused: updateCompany, and an unassignment that counted before.
THEOREM AssignmentsKeepAccess == VariantSpec => []AssignedHasAccess
  <1>1. VariantInv => AssignedHasAccess
    BY DEF VariantInv
  <1> QED BY <1>1, VariantInvariance, PTL

\* Rows, requests and cache keep their shape, and an old cached library is there only while its
\* writer still has to delete it, or when it was filled or kept behind a change.
THEOREM LibraryStaysConsistent == VariantSpec => []LibraryConsistent
  <1>1. VariantInv => LibraryConsistent
    BY DEF VariantInv, LibraryConsistent
  <1> QED BY <1>1, VariantInvariance, PTL

\* What is in production, or went into a batch, was approved before, although transitions and
\* createBatch check the status without a lock.
THEOREM UseNeedsApproval == VariantSpec => []OnlyApprovedUsed
  <1>1. VariantInv => OnlyApprovedUsed
    BY DEF VariantInv, VariantTypeOK, UsableApproved, OnlyApprovedUsed, Usable
  <1> QED BY <1>1, VariantInvariance, PTL
=============================================================================
