--------------------------- MODULE ProductDocuments ---------------------------
(***************************************************************************)
(* A product's documents, their Redis cache and their stored PDFs          *)
(* (products.service.ts, plugins/redis.ts, pdf-store.service.ts).          *)
(*                                                                         *)
(* A document is read through a cache.  An edit or a change of status      *)
(* commits, deletes the cache entry, tells the PDF store and reads the     *)
(* document back: each is an await, so others run in between.  The store   *)
(* renders its PDFs again one at a time, from the document that the cache  *)
(* gives it.  The drain loop is one more reader here: `Drainer`.           *)
(*                                                                         *)
(* A restart loses the queue and every request, and keeps the rows, the    *)
(* cache and the files; ten seconds after it everything is queued again.   *)
(***************************************************************************)
EXTENDS Naturals, Sequences

CONSTANTS
  DocTypes,      \* those of "tds" and "msds" that the product has
  Clients,       \* requests being served at the same time
  FirstStatuses, \* bounds the statuses that documents begin in
  RedisMayFail,  \* whether a call to Redis may fail
  MaxEdits,      \* bounds the edits and the transitions that are asked for
  MaxRestarts,   \* bounds crashes and shutdowns
  Drainer,       \* the drain loop of the PDF queue
  None           \* no document, no job

ASSUME DocTypesAssumption == DocTypes \subseteq {"tds", "msds"} /\ "tds" \in DocTypes
ASSUME BoundsAssumption   == MaxEdits \in Nat /\ MaxRestarts \in Nat
ASSUME RedisAssumption    == RedisMayFail \in BOOLEAN
ASSUME NamesAssumption    == Drainer \notin Clients /\ None \notin {"tds", "msds", "brochure"}

VARIABLES
  doc,        \* the rows of product_documents: status and content
  cache,      \* Redis
  pc,         \* where each request, and the drain loop, is
  on,         \* the document it is about
  got,        \* the document it has read
  to,         \* the status a transition was asked for
  queue,      \* PDFs waiting to be rendered
  queued,     \* their keys
  job,        \* the PDF being rendered
  files,      \* the contents whose PDF is on disk
  server,     \* the process
  behind,     \* history: PDFs not tried since their document changed
  published,  \* history: the contents that have been published
  edits, restarts

rows    == <<doc, edits, published>>
readers == <<on, got, to>>
pending == <<queue, queued, job>>
process == <<server, restarts>>
vars    == <<rows, cache, pc, readers, pending, files, process, behind>>

Procs == Clients \cup {Drainer}

Places == {"idle", "get", "query", "set", "checked", "committed", "deleted",
           "sleep", "render", "remove"}

Statuses == {"draft", "pending_review", "qa_review", "published", "archived"}

ASSUME StatusesAssumption == FirstStatuses \subseteq Statuses

STATUS_TRANSITIONS ==
  [draft          |-> {"pending_review"},
   pending_review |-> {"qa_review", "draft"},
   qa_review      |-> {"published", "pending_review"},
   published      |-> {"archived"},
   archived       |-> {"draft"}]

(* A content is the number of the edit that wrote it.                      *)
Document == [status : Statuses, rev : 0..MaxEdits]

(* The PDFs stored, and the document each is made from. *)
Source == [tds |-> "tds", brochure |-> "tds", msds |-> "msds"]
Stored == {s \in DOMAIN Source : Source[s] \in DocTypes}

Init ==
  /\ doc \in [DocTypes -> [status : FirstStatuses, rev : {0}]]
  /\ published = [t \in DocTypes |-> IF doc[t].status = "published" THEN {0} ELSE {}]
  /\ cache = [t \in DocTypes |-> None]
  /\ pc = [p \in Procs |-> "idle"]
  /\ on = [p \in Procs |-> None]
  /\ got = [p \in Procs |-> None]
  /\ to = [c \in Clients |-> None]
  /\ queue = <<>> /\ queued = {} /\ job = None
  /\ files = [s \in Stored |-> {}]
  /\ behind = [s \in Stored |-> FALSE]
  /\ server = "booting"
  /\ edits = 0 /\ restarts = 0

-----------------------------------------------------------------------------
(* Reading a document through the cache.                                   *)

At(p, place) == pc' = [pc EXCEPT ![p] = place]

(* What a read returns goes to the job; the answer to a client is the end  *)
(* of its request.                                                         *)
Return(p, d) ==
  /\ At(p, IF p = Drainer THEN "render" ELSE "idle")
  /\ got' = [got EXCEPT ![p] = IF p = Drainer THEN d ELSE None]
  /\ on' = [on EXCEPT ![p] = IF p = Drainer THEN @ ELSE None]

GetDocument(c, t) ==
  /\ pc[c] = "idle" /\ server # "stopped"
  /\ At(c, "get")
  /\ on' = [on EXCEPT ![c] = t]
  /\ UNCHANGED <<rows, cache, got, to, pending, files, process, behind>>

CacheHit(p) ==
  /\ pc[p] = "get" /\ cache[on[p]] # None
  /\ Return(p, cache[on[p]])
  /\ UNCHANGED <<rows, cache, to, pending, files, process, behind>>

CacheMiss(p) ==
  /\ pc[p] = "get" /\ (cache[on[p]] = None \/ RedisMayFail)
  /\ At(p, "query")
  /\ UNCHANGED <<rows, cache, readers, pending, files, process, behind>>

QueryRow(p) ==
  /\ pc[p] = "query"
  /\ At(p, "set")
  /\ got' = [got EXCEPT ![p] = doc[on[p]]]
  /\ UNCHANGED <<rows, cache, on, to, pending, files, process, behind>>

CacheSet(p) ==
  /\ pc[p] = "set"
  /\ \/ cache' = [cache EXCEPT ![on[p]] = got[p]]
     \/ RedisMayFail /\ UNCHANGED cache
  /\ Return(p, got[p])
  /\ UNCHANGED <<rows, to, pending, files, process, behind>>

(* Mutant: SET instead of SETEX. *)
ExpireNever(t) == FALSE

(* The entry's time to live passes. *)
Expire(t) ==
  /\ cache[t] # None
  /\ cache' = [cache EXCEPT ![t] = None]
  /\ UNCHANGED <<rows, pc, readers, pending, files, process, behind>>

-----------------------------------------------------------------------------
(* Changing a document.                                                    *)

Commit(t, d) ==
  /\ doc' = [doc EXCEPT ![t] = d]
  /\ published' = [published EXCEPT ![t] =
                     IF d.status = "published" THEN @ \cup {d.rev} ELSE @]
  /\ behind' = [s \in Stored |-> Source[s] = t \/ behind[s]]

UpdateDocument(c, t) ==
  /\ pc[c] = "idle" /\ server # "stopped" /\ edits < MaxEdits
  /\ edits' = edits + 1
  /\ Commit(t, [status |-> doc[t].status, rev |-> edits + 1])
  /\ At(c, "committed")
  /\ on' = [on EXCEPT ![c] = t]
  /\ UNCHANGED <<cache, got, to, pending, files, process>>

(* The status is read and checked, and then written whatever it is by now. *)
TransitionCheck(c, t, s) ==
  /\ pc[c] = "idle" /\ server # "stopped" /\ edits < MaxEdits
  /\ edits' = edits + 1
  /\ s \in STATUS_TRANSITIONS[doc[t].status]
  /\ At(c, "checked")
  /\ on' = [on EXCEPT ![c] = t]
  /\ to' = [to EXCEPT ![c] = s]
  /\ UNCHANGED <<doc, published, cache, got, pending, files, process, behind>>

TransitionCommit(c) ==
  /\ pc[c] = "checked"
  /\ Commit(on[c], [status |-> to[c], rev |-> doc[on[c]].rev])
  /\ At(c, "committed")
  /\ to' = [to EXCEPT ![c] = None]
  /\ UNCHANGED <<edits, cache, on, got, pending, files, process>>

CacheDel(c) ==
  /\ pc[c] = "committed"
  /\ \/ cache' = [cache EXCEPT ![on[c]] = None]
     \/ RedisMayFail /\ UNCHANGED cache
  /\ At(c, "deleted")
  /\ UNCHANGED <<rows, readers, pending, files, process, behind>>

-----------------------------------------------------------------------------
(* The queue of stored PDFs.                                               *)

(* Mutants: a PDF is queued again while it waits; its key stays queued. *)

WithoutForgotten(keys, s) == keys

(* What queueing one PDF adds: duplicates of what waits are dropped. *)
Fresh(s) == IF s \in Stored \ queued THEN <<s>> ELSE <<>>

(* Mutant: the brochure is forgotten. *)
AffectedItself(t) == Fresh(t)

Affected(t) == IF t = "tds" THEN Fresh("tds") \o Fresh("brochure") ELSE Fresh("msds")

All == Fresh("tds") \o Fresh("msds") \o Fresh("brochure")

Without(keys, s) == keys \ {s}

Keys(list) == {list[i] : i \in DOMAIN list}

(* The loop takes the first of what waits and starts to read its document. *)
(* `places` is where everybody else is by then.                            *)
Begin(waiting, keys, places) ==
  LET s == Head(waiting) IN
  /\ queue' = Tail(waiting)
  /\ queued' = Without(keys, s)
  /\ job' = s
  /\ behind' = [behind EXCEPT ![s] = FALSE]
  /\ pc' = [places EXCEPT ![Drainer] = "get"]

(* An idle drain loop starts at once with the first; a stopped queue takes *)
(* nothing.                                                                *)
Enqueue(fresh, places) ==
  \/ /\ server = "stopped" \/ fresh = <<>>
     /\ pc' = places
     /\ UNCHANGED <<pending, behind>>
  \/ /\ server # "stopped" /\ fresh # <<>> /\ pc[Drainer] # "idle"
     /\ queue' = queue \o fresh
     /\ queued' = queued \cup Keys(fresh)
     /\ pc' = places
     /\ UNCHANGED <<job, behind>>
  \/ /\ server # "stopped" /\ fresh # <<>> /\ pc[Drainer] = "idle"
     /\ Begin(queue \o fresh, queued \cup Keys(fresh), places)

(* What the drain loop is about, once it may have taken a job. *)
Aim(clients) ==
  [clients EXCEPT ![Drainer] = IF job' = None THEN None ELSE Source[job']]

(* The event reaches the PDF store, and the document is read back. *)
EmitChanged(c) ==
  /\ pc[c] = "deleted"
  /\ Enqueue(Affected(on[c]), [pc EXCEPT ![c] = "get"])
  /\ on' = Aim(on)
  /\ UNCHANGED <<rows, cache, got, to, files, process>>

(* Ten seconds after the start; its query of the products succeeds.        *)
EnqueueAll ==
  /\ server = "booting"
  /\ server' = "running"
  /\ Enqueue(All, pc)
  /\ on' = Aim(on)
  /\ UNCHANGED <<rows, cache, got, to, files, restarts>>

(* Mutant: one job per loop. *)
AfterJobOnce == "idle"

(* A job is over: the loop ends, or sleeps before the next one. *)
AfterJob == IF queue = <<>> \/ server = "stopped" THEN "idle" ELSE "sleep"

FinishJob ==
  /\ job' = None
  /\ At(Drainer, AfterJob)
  /\ on' = [on EXCEPT ![Drainer] = None]
  /\ got' = [got EXCEPT ![Drainer] = None]
  /\ UNCHANGED <<rows, cache, to, queue, queued, process, behind>>

NextJob ==
  /\ pc[Drainer] = "sleep" /\ queue # <<>>
  /\ Begin(queue, queued, pc)
  /\ on' = Aim(on)
  /\ UNCHANGED <<rows, cache, got, to, files, process>>

StopDraining ==
  /\ pc[Drainer] = "sleep" /\ queue = <<>>
  /\ At(Drainer, "idle")
  /\ UNCHANGED <<rows, cache, readers, pending, files, process, behind>>

(* Mutant: drafts are stored too. *)
StorableAnyStatus(d) == TRUE

Storable(d) == d.status = "published"

RenderSkipped ==
  /\ pc[Drainer] = "render" /\ ~Storable(got[Drainer])
  /\ files' = [files EXCEPT ![job] = {}]
  /\ FinishJob

(* The payload does not validate, or the browser fails: logged, not        *)
(* retried, and the older files stay.                                      *)
RenderFails ==
  /\ pc[Drainer] = "render" /\ Storable(got[Drainer])
  /\ FinishJob
  /\ UNCHANGED files

Rename ==
  /\ pc[Drainer] = "render" /\ Storable(got[Drainer])
  /\ files' = [files EXCEPT ![job] = @ \cup {got[Drainer].rev}]
  /\ At(Drainer, "remove")
  /\ UNCHANGED <<rows, cache, readers, pending, process, behind>>

RemoveOlder ==
  /\ pc[Drainer] = "remove"
  /\ files' = [files EXCEPT ![job] = {got[Drainer].rev}]
  /\ FinishJob

-----------------------------------------------------------------------------
(* The process.                                                            *)

(* It accepts no more requests, waits for those it has, stops the queue    *)
(* and exits; a job in progress may or may not get to its end.             *)
StopQueue ==
  /\ server # "stopped" /\ restarts < MaxRestarts
  /\ \A c \in Clients : pc[c] = "idle"
  /\ server' = "stopped"
  /\ restarts' = restarts + 1
  /\ queue' = <<>> /\ queued' = {}
  /\ UNCHANGED <<rows, cache, pc, readers, job, files, behind>>

Reboot ==
  /\ server' = "booting"
  /\ pc' = [p \in Procs |-> "idle"]
  /\ on' = [p \in Procs |-> None]
  /\ got' = [p \in Procs |-> None]
  /\ to' = [c \in Clients |-> None]
  /\ queue' = <<>> /\ queued' = {} /\ job' = None
  /\ UNCHANGED <<rows, cache, files, behind>>

Exit  == server = "stopped" /\ Reboot /\ UNCHANGED restarts
Crash == server # "stopped" /\ restarts < MaxRestarts /\ Reboot /\ restarts' = restarts + 1

Next ==
  \/ \E c \in Clients, t \in DocTypes :
       \/ GetDocument(c, t)
       \/ UpdateDocument(c, t)
       \/ \E s \in Statuses : TransitionCheck(c, t, s)
  \/ \E c \in Clients : TransitionCommit(c) \/ CacheDel(c) \/ EmitChanged(c)
  \/ \E p \in Procs : CacheHit(p) \/ CacheMiss(p) \/ QueryRow(p) \/ CacheSet(p)
  \/ \E t \in DocTypes : Expire(t)
  \/ EnqueueAll \/ NextJob \/ StopDraining
  \/ RenderSkipped \/ RenderFails \/ Rename \/ RemoveOlder
  \/ StopQueue \/ Exit \/ Crash

(* A request that was started, the drain loop, the boot timer, Redis's     *)
(* clock and the restart of an exited process do not wait for ever.        *)
Fairness ==
  /\ \A c \in Clients : WF_vars(TransitionCommit(c) \/ CacheDel(c) \/ EmitChanged(c))
  /\ \A p \in Procs : WF_vars(CacheHit(p) \/ CacheMiss(p) \/ QueryRow(p) \/ CacheSet(p))
  /\ WF_vars(NextJob \/ StopDraining)
  /\ WF_vars(RenderSkipped \/ RenderFails \/ Rename \/ RemoveOlder)
  /\ WF_vars(EnqueueAll) /\ WF_vars(Exit)
  /\ \A t \in DocTypes : WF_vars(Expire(t))

Spec     == Init /\ [][Next]_vars
FairSpec == Spec /\ Fairness

-----------------------------------------------------------------------------
(* Properties.                                                             *)

Distinct(list) == \A i, j \in DOMAIN list : list[i] = list[j] => i = j

(* Rows, requests and the queue have the shape the code gives them: the    *)
(* queue holds a PDF at most once, whatever the number of edits.           *)
TypeOK ==
  /\ doc \in [DocTypes -> Document]
  /\ cache \in [DocTypes -> Document \cup {None}]
  /\ pc \in [Procs -> Places]
  /\ on \in [Procs -> DocTypes \cup {None}]
  /\ got \in [Procs -> Document \cup {None}]
  /\ to \in [Clients -> Statuses \cup {None}]
  /\ queue \in Seq(Stored)
  /\ Distinct(queue)
  /\ queued \in SUBSET Stored
  /\ job \in Stored \cup {None}
  /\ files \in [Stored -> SUBSET (0..MaxEdits)]
  /\ server \in {"booting", "running", "stopped"}
  /\ behind \in [Stored -> BOOLEAN]
  /\ published \in [DocTypes -> SUBSET (0..MaxEdits)]
  /\ edits \in 0..MaxEdits /\ restarts \in 0..MaxRestarts

(* A PDF that waits is waited for by a drain loop: none is stranded by a   *)
(* loop that has ended, and each pending key is that of a PDF that waits,  *)
(* so none is locked out of the queue (drain, drainLoop, enqueueStoredPdf).*)
QueueHasRunner ==
  /\ queue # <<>> => pc[Drainer] # "idle"
  /\ queued = Keys(queue)

(* A committed change whose PDFs have not been tried since is on its way:  *)
(* in the queue, in a request that has yet to announce it, or in the       *)
(* regeneration that a restart begins with.                                *)
ChangeOnItsWay ==
  \A s \in Stored : behind[s] =>
    \/ s \in Keys(queue)
    \/ \E c \in Clients : on[c] = Source[s] /\ pc[c] \in {"committed", "deleted"}
    \/ server \in {"booting", "stopped"}

(* "Drafts are never written to disk": no content is stored that was never *)
(* published, however stale the copy that the cache gave the job.          *)
StoredWasPublished ==
  \A s \in Stored : files[s] \subseteq published[Source[s]]

(* Every change is followed by a new try at each of its PDFs, across       *)
(* failing renders, crashes and shutdowns.                                 *)
ChangeIsTried == \A s \in Stored : behind[s] ~> ~behind[s]

(* "A skipped delete leaves a stale entry for at most its TTL": once the   *)
(* edits end, so do stale entries, those of late writers included.         *)
CacheRecovers == <>[](\A t \in DocTypes : cache[t] \in {None, doc[t]})

=============================================================================
