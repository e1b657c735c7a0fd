------------------------------ MODULE PdfPool ------------------------------
(***************************************************************************)
(* Rendering of PDFs: the pool of Chromium browsers (PDFService of         *)
(* pdf.service.ts) and the sharing of brochure renders (generateBrochure   *)
(* of pdf.routes.ts).                                                      *)
(*                                                                         *)
(* Node runs one step at a time; an action is what runs between two        *)
(* awaits. A caller of generatePDF awaits its HTML, then perhaps the       *)
(* launch of a browser, then the printing.                                 *)
(*                                                                         *)
(* acquireBrowser also has a branch that waits and gives up when the pool  *)
(* is full. It is taken only after the pool was reduced to its usable      *)
(* browsers, of which there was none a moment before: with a pool size of  *)
(* one or more the branch is never reached, and no action stands for it.   *)
(***************************************************************************)
EXTENDS Naturals, FiniteSets

CONSTANTS
    Browsers,    \* browser processes that may be launched, each once
    Callers,     \* concurrent callers of generatePDF or generateBrochure
    Queue,       \* the caller that is the queue of stored PDFs, not a request
    Payloads,    \* brochure payloads
    CacheSize,   \* BROCHURE_CACHE_MAX_ENTRIES
    None

ASSUME SizeAssumption  == CacheSize \in Nat
ASSUME QueueAssumption == Queue \in Callers
ASSUME NoneAssumption  == None \notin Browsers \cup Callers \cup Payloads
ASSUME FiniteAssumption == IsFiniteSet(Callers)

VARIABLES
    browser,    \* of each browser: "none" before its launch, "up", or "down"
    young,      \* browsers launched less than BROWSER_MAX_AGE_MS ago
    inUse,      \* the count in the entry of each browser
    pool,       \* the entries of the pool
    step,       \* what each caller awaits
    on,         \* the browser a caller prints with
    what,       \* the brochure payload a caller wants, None for other documents
    flight,     \* brochureRenders: the caller whose render of a payload is pending
    cached,     \* payloads in brochureCache
    lapsed,     \* those whose entry has expired
    server      \* "running", "closing" while shutdown closes browsers, "closed"

pdfVars == <<browser, young, inUse, pool, step, on, what, flight, cached, lapsed, server>>
poolVars == <<browser, young, inUse, pool>>
brochureVars == <<flight, cached, lapsed>>

\* The type of the state.
PdfTypeOK ==
    /\ browser \in [Browsers -> {"none", "up", "down"}]
    /\ young \subseteq Browsers
    /\ inUse \in [Browsers -> Nat]
    /\ pool \subseteq Browsers
    /\ step \in [Callers -> {"idle", "html", "launch", "print", "wait"}]
    /\ on \in [Callers -> Browsers \cup {None}]
    /\ what \in [Callers -> Payloads \cup {None}]
    /\ flight \in [Payloads -> Callers \cup {None}]
    /\ cached \subseteq Payloads
    /\ lapsed \subseteq cached
    /\ server \in {"running", "closing", "closed"}

PdfInit ==
    /\ browser = [b \in Browsers |-> "none"]
    /\ young = {}
    /\ inUse = [b \in Browsers |-> 0]
    /\ pool = {}
    /\ step = [r \in Callers |-> "idle"]
    /\ on = [r \in Callers |-> None]
    /\ what = [r \in Callers |-> None]
    /\ flight = [p \in Payloads |-> None]
    /\ cached = {}
    /\ lapsed = {}
    /\ server = "running"

-----------------------------------------------------------------------------
(* Callers                                                                  *)

\* A document other than a brochure, or a job of the queue: generatePDF at once.
AskDocument(r) ==
    /\ server = "running"
    /\ step[r] = "idle"
    /\ step' = [step EXCEPT ![r] = "html"]
    /\ UNCHANGED <<poolVars, on, what, brochureVars, server>>

\* A slip: the request does not look for a render that is pending.
AskUnshared(r, p) ==
    /\ server = "running"
    /\ r # Queue
    /\ step[r] = "idle"
    /\ p \notin cached \ lapsed
    /\ cached' = cached \ {p}
    /\ lapsed' = lapsed \ {p}
    /\ what' = [what EXCEPT ![r] = p]
    /\ step' = [step EXCEPT ![r] = "html"]
    /\ flight' = [flight EXCEPT ![p] = r]
    /\ UNCHANGED <<poolVars, on, server>>

\* generateBrochure without a cached copy: an expired one is deleted, and the request awaits
\* the render that is pending or starts it.
AskBrochure(r, p) ==
    /\ server = "running"
    /\ r # Queue
    /\ step[r] = "idle"
    /\ p \notin cached \ lapsed
    /\ cached' = cached \ {p}
    /\ lapsed' = lapsed \ {p}
    /\ what' = [what EXCEPT ![r] = p]
    /\ IF flight[p] # None
       THEN /\ step' = [step EXCEPT ![r] = "wait"]
            /\ UNCHANGED flight
       ELSE /\ step' = [step EXCEPT ![r] = "html"]
            /\ flight' = [flight EXCEPT ![p] = r]
    /\ UNCHANGED <<poolVars, on, server>>

Rendering(p) == {r \in Callers : what[r] = p /\ step[r] \in {"html", "launch", "print"}}

\* A slip: only the caller itself learns that its render has settled.
EndsAlone(r) == {r}

\* The requests whose promise settles with r's: those that await it share its outcome.
EndsWith(r) ==
    {r} \cup {w \in Callers : step[w] = "wait" /\ flight[what[w]] = r}

\* r's render settles: the pending entry of its payload is deleted, and all who share it go.
Settled(r) ==
    /\ step' = [w \in Callers |-> IF w \in EndsWith(r) THEN "idle" ELSE step[w]]
    /\ what' = [w \in Callers |-> IF w \in EndsWith(r) THEN None ELSE what[w]]
    /\ flight' = [p \in Payloads |-> IF flight[p] = r THEN None ELSE flight[p]]

\* A result is cached, its age counted from before the render; the oldest entry makes room.
\* The model lets any other entry be the oldest.
CacheResult(r) ==
    IF what[r] = None THEN UNCHANGED <<cached, lapsed>>
    ELSE \E full \in SUBSET cached :
           /\ cached' = (cached \ full) \cup {what[r]}
           /\ IF Cardinality(cached \cup {what[r]}) > CacheSize
              THEN Cardinality(cached') = CacheSize
              ELSE full = {}
           /\ lapsed' \in {lapsed \cap cached', (lapsed \cap cached') \cup {what[r]}}

\* renderHTML fails.
HtmlFails(r) ==
    /\ step[r] = "html"
    /\ Settled(r)
    /\ UNCHANGED <<poolVars, on, cached, lapsed, server>>

-----------------------------------------------------------------------------
(* Browsers                                                                 *)

\* The candidates of acquireBrowser: connected entries that are young enough.
Usable == {b \in pool : browser[b] = "up" /\ b \in young}

\* acquireBrowser takes a candidate with the least use ...
AcquireWarm(r, b) ==
    /\ step[r] = "html"
    /\ b \in Usable
    /\ \A o \in Usable : inUse[b] <= inUse[o]
    /\ inUse' = [inUse EXCEPT ![b] = @ + 1]
    /\ on' = [on EXCEPT ![r] = b]
    /\ step' = [step EXCEPT ![r] = "print"]
    /\ UNCHANGED <<browser, young, pool, what, brochureVars, server>>

\* ... or, without one, drops the entries that are old or dead and launches another.
AcquireCold(r) ==
    /\ step[r] = "html"
    /\ Usable = {}
    /\ pool' = Usable
    /\ step' = [step EXCEPT ![r] = "launch"]
    /\ UNCHANGED <<browser, young, inUse, on, what, brochureVars, server>>

\* A slip: the pool becomes what it was before the launch, and the new entry.
LaunchedStale(r, b) ==
    /\ step[r] = "launch"
    /\ browser[b] = "none"
    /\ browser' = [browser EXCEPT ![b] = "up"]
    /\ young' = young \cup {b}
    /\ inUse' = [inUse EXCEPT ![b] = 1]
    /\ pool' = {b}
    /\ on' = [on EXCEPT ![r] = b]
    /\ step' = [step EXCEPT ![r] = "print"]
    /\ UNCHANGED <<what, brochureVars, server>>

\* The launch is done: its entry joins whatever the pool is by now.
Launched(r, b) ==
    /\ step[r] = "launch"
    /\ browser[b] = "none"
    /\ browser' = [browser EXCEPT ![b] = "up"]
    /\ young' = young \cup {b}
    /\ inUse' = [inUse EXCEPT ![b] = 1]
    /\ pool' = pool \cup {b}
    /\ on' = [on EXCEPT ![r] = b]
    /\ step' = [step EXCEPT ![r] = "print"]
    /\ UNCHANGED <<what, brochureVars, server>>

LaunchFails(r) ==
    /\ step[r] = "launch"
    /\ Settled(r)
    /\ UNCHANGED <<poolVars, on, cached, lapsed, server>>

\* releaseBrowser of the finally block.
Release(r) ==
    /\ inUse' = [inUse EXCEPT ![on[r]] = IF @ = 0 THEN 0 ELSE @ - 1]
    /\ on' = [on EXCEPT ![r] = None]

\* A slip: a failure does not release.
PrintFailsHolding(r) ==
    /\ step[r] = "print"
    /\ on' = [on EXCEPT ![r] = None]
    /\ Settled(r)
    /\ UNCHANGED <<browser, young, inUse, pool, cached, lapsed, server>>

\* The printing fails: the browser has crashed, a page or a timeout did not keep up.
PrintFails(r) ==
    /\ step[r] = "print"
    /\ Release(r)
    /\ Settled(r)
    /\ UNCHANGED <<browser, young, pool, cached, lapsed, server>>

Printed(r) ==
    /\ step[r] = "print"
    /\ browser[on[r]] = "up"
    /\ Release(r)
    /\ CacheResult(r)
    /\ Settled(r)
    /\ UNCHANGED <<browser, young, pool, server>>

\* Chromium ends, with whatever it was printing.
Crash(b) ==
    /\ browser[b] = "up"
    /\ browser' = [browser EXCEPT ![b] = "down"]
    /\ UNCHANGED <<young, inUse, pool, step, on, what, brochureVars, server>>

\* Thirty minutes after its launch a browser is not given out again, and not closed either.
Ages(b) ==
    /\ b \in young
    /\ young' = young \ {b}
    /\ UNCHANGED <<browser, inUse, pool, step, on, what, brochureVars, server>>

CacheLapses(p) ==
    /\ p \in cached \ lapsed
    /\ lapsed' = lapsed \cup {p}
    /\ UNCHANGED <<poolVars, step, on, what, flight, cached, server>>

\* shutdown, after app.close() has waited for the requests, closes the browsers of the pool ...
CloseBrowsers ==
    /\ server = "running"
    /\ \A r \in Callers \ {Queue} : step[r] = "idle"
    /\ server' = "closing"
    /\ browser' = [b \in Browsers |-> IF b \in pool THEN "down" ELSE browser[b]]
    /\ UNCHANGED <<young, inUse, pool, step, on, what, brochureVars>>

\* ... and empties it, of a browser that the queue has launched meanwhile as well.
EmptyPool ==
    /\ server = "closing"
    /\ server' = "closed"
    /\ pool' = {}
    /\ UNCHANGED <<browser, young, inUse, step, on, what, brochureVars>>

-----------------------------------------------------------------------------
PdfNext ==
    \/ CloseBrowsers \/ EmptyPool
    \/ \E b \in Browsers : Crash(b) \/ Ages(b)
    \/ \E p \in Payloads : CacheLapses(p)
    \/ \E r \in Callers :
         \/ AskDocument(r) \/ HtmlFails(r) \/ AcquireCold(r) \/ LaunchFails(r)
         \/ PrintFails(r) \/ Printed(r)
         \/ \E p \in Payloads : AskBrochure(r, p)
         \/ \E b \in Browsers : AcquireWarm(r, b) \/ Launched(r, b)

PdfSpec == PdfInit /\ [][PdfNext]_pdfVars

\* Templates, launches and pages end: Puppeteer bounds each by a timeout.
Fairness ==
    \A r \in Callers :
        /\ WF_pdfVars(HtmlFails(r) \/ AcquireCold(r) \/ \E b \in Browsers : AcquireWarm(r, b))
        /\ WF_pdfVars(LaunchFails(r) \/ \E b \in Browsers : Launched(r, b))
        /\ WF_pdfVars(PrintFails(r) \/ Printed(r))

FairSpec == PdfSpec /\ Fairness

-----------------------------------------------------------------------------
(* Properties                                                               *)

\* An entry's count is the number of callers that print with its browser, whatever fails or
\* crashes: a caller that forgot to release would keep its browser from being chosen again.
InUseCounts ==
    \A b \in Browsers : inUse[b] = Cardinality({r \in Callers : on[r] = b})

\* Entries and callers keep their shape, and the counts are right.
PoolConsistent == PdfTypeOK /\ InUseCounts

\* A brochure is rendered once however many ask for it together, and whoever waits does so for
\* a render that is under way.
OneRenderPerPayload ==
    /\ \A p \in Payloads : Rendering(p) = {flight[p]} \ {None}
    /\ \A w \in Callers : step[w] = "wait" => flight[what[w]] # None

\* While the server runs, a browser that can be used is in the pool: overlapping cold starts,
\* each of which rebuilds the pool before it awaits its launch, do not drop one another's.
NoUsableBrowserLost ==
    server = "running" => {b \in young : browser[b] = "up"} \subseteq pool

\* Every caller gets its document or an error, also those that wait for another's render.
EveryCallerIsAnswered ==
    \A r \in Callers : step[r] # "idle" ~> step[r] = "idle"
=============================================================================
