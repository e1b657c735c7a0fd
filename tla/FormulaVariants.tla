-------------------------- MODULE FormulaVariants --------------------------
(***************************************************************************)
(* The formulas (variants) of one product: their approval status, their    *)
(* component lists, the companies they are assigned to, the product access *)
(* of those companies, and the cached library in front of them             *)
(* (formulation-variants.service.ts, updateCompany and deleteCompany of    *)
(* companies.service.ts, and the approval gate of createBatch).            *)
(*                                                                         *)
(* A handler reads without locks, writes in a transaction or a single      *)
(* statement, and then deletes the cache key; each of these is an action.  *)
(* createVariant deletes the key before its transaction commits.           *)
(***************************************************************************)
EXTENDS Naturals, FiniteSets

CONSTANTS
    Variants,   \* ids a formula may get
    Companies,
    Users,    \* concurrent requests
    Lists       \* component lists that may be saved, each once

\* Where one save is expected to replace another there must be two of them.
ASSUME ListsFinite == IsFiniteSet(Lists)

VARIABLES
    status,     \* of each variant row; "absent" before, "deleted" after its life
    recipe,     \* the saved lists whose component rows the table holds
    companies,  \* company rows
    assigned,   \* company_formula_assignments: "no", "plain" or "default"
    access,     \* companies with a company_product_access row of the product
    library,      \* variants:<product> in Redis: "none", "fresh" or "stale"
    req,        \* what each request has read and will do
    made,       \* variants a batch was created from
    approved,   \* variants that were approved, or created usable, at some time
    excused,    \* companies whose access was replaced, or counted, behind an assignment
    raced       \* the cached library was filled, or kept, behind a change

variantVars == <<status, recipe, companies, assigned, access, library, req, made, approved, excused, raced>>

-----------------------------------------------------------------------------
VariantStatuses == {"draft", "ai_suggested", "reviewed", "approved", "production"}
Creatable == VariantStatuses \ {"ai_suggested"}
Usable == {"approved", "production"}

\* A slip of the table: a reviewed variant goes to production at once.
TransitionsShortcut ==
    [draft |-> {"reviewed"}, ai_suggested |-> {"reviewed", "draft"},
     reviewed |-> {"approved", "draft", "production"}, approved |-> {"production", "reviewed"},
     production |-> {"approved"}]

\* VARIANT_STATUS_TRANSITIONS
Transitions ==
    [draft |-> {"reviewed"}, ai_suggested |-> {"reviewed", "draft"},
     reviewed |-> {"approved", "draft"}, approved |-> {"production", "reviewed"},
     production |-> {"approved"}]

Live(v) == status[v] \in VariantStatuses
Marks == {"no", "plain", "default"}

\* The assignment row a request has read: none, one that is there, or one that is gone since.
\* Rows are addressed by id: a later assignment of the same formula is another row.
Rows == {"none", "there", "gone"}

Idle == [op |-> "idle"]
Requests ==
    {Idle, [op |-> "evict"]}
    \cup [op : {"list"}, seen : {"fresh", "stale"}]
    \cup [op : {"create"}, v : Variants]
    \cup [op : {"transition"}, v : Variants, to : VariantStatuses]
    \cup [op : {"replace"}, v : Variants, sees : SUBSET Lists]
    \cup [op : {"delete", "batch"}, v : Variants]
    \cup [op : {"assign", "mark"}, v : Variants, co : Companies, mark : {"plain", "default"}, row : Rows]
    \cup [op : {"unassign"}, v : Variants, co : Companies, row : Rows]
    \cup [op : {"counted"}, v : Variants, co : Companies, row : Rows, last : BOOLEAN]

\* The type of the state.
VariantTypeOK ==
    /\ status \in [Variants -> VariantStatuses \cup {"absent", "deleted"}]
    /\ recipe \in [Variants -> SUBSET Lists]
    /\ companies \subseteq Companies
    /\ assigned \in [Companies -> [Variants -> Marks]]
    /\ access \subseteq Companies
    /\ library \in {"none", "fresh", "stale"}
    /\ req \in [Users -> Requests]
    /\ made \subseteq Variants /\ approved \subseteq Variants
    /\ excused \subseteq Companies
    /\ raced \in BOOLEAN

VariantInit ==
    /\ status \in [Variants -> {"absent", "ai_suggested", "approved"}]
    /\ recipe \in [Variants -> {r \in SUBSET Lists : Cardinality(r) <= 1}]
    /\ \A v \in Variants : (recipe[v] = {}) <=> (status[v] = "absent")
    /\ \A v, w \in Variants : v # w => recipe[v] \cap recipe[w] = {}
    /\ companies = Companies
    /\ assigned = [co \in Companies |-> [v \in Variants |-> "no"]]
    /\ access \in SUBSET Companies
    /\ library = "none"
    /\ req = [c \in Users |-> Idle]
    /\ made = {}
    /\ approved = {v \in Variants : status[v] = "approved"}
    /\ excused = {}
    /\ raced = FALSE

-----------------------------------------------------------------------------
(* The cached library (listFormulaLibrary as the superadmin calls it)       *)

\* The list that is read when nothing is cached. An empty library is not cached.
ListMiss(c) ==
    /\ req[c] = Idle
    /\ library = "none"
    /\ \E v \in Variants : Live(v)
    /\ req' = [req EXCEPT ![c] = [op |-> "list", seen |-> "fresh"]]
    /\ UNCHANGED <<status, recipe, companies, assigned, access, library, made, approved, excused, raced>>

\* cacheSet of what was read, however old it is by now.
ListFill(c) ==
    /\ req[c].op = "list"
    /\ library' = req[c].seen
    /\ raced' = (req[c].seen = "stale")
    /\ req' = [req EXCEPT ![c] = Idle]
    /\ UNCHANGED <<status, recipe, companies, assigned, access, made, approved, excused>>

CacheExpires ==
    /\ library # "none"
    /\ library' = "none"
    /\ raced' = FALSE
    /\ UNCHANGED <<status, recipe, companies, assigned, access, req, made, approved, excused>>

\* The cacheDel that follows a write ...
Evict(c) ==
    /\ req[c].op = "evict"
    /\ library' = "none"
    /\ raced' = FALSE
    /\ req' = [req EXCEPT ![c] = Idle]
    /\ UNCHANGED <<status, recipe, companies, assigned, access, made, approved, excused>>

\* ... and the one that Redis does not answer: the old entry stays.
EvictFails(c) ==
    /\ req[c].op = "evict"
    /\ raced' = (raced \/ library = "stale")
    /\ req' = [req EXCEPT ![c] = Idle]
    /\ UNCHANGED <<status, recipe, companies, assigned, access, library, made, approved, excused>>

\* What a request has at hand once the assignments `lost` are deleted and the library changed.
Aged(r, lost) ==
    IF r.op = "list" THEN [r EXCEPT !.seen = "stale"]
    ELSE IF r.op \in {"assign", "mark", "unassign"} /\ r.row = "there" /\ <<r.co, r.v>> \in lost
         THEN [r EXCEPT !.row = "gone"]
    ELSE r

\* A change of the library commits: what is cached or was read is now old, and c goes on as r.
Changed(c, r, lost) ==
    /\ library' = IF library = "fresh" THEN "stale" ELSE library
    /\ req' = [d \in Users |-> IF d = c THEN r ELSE Aged(req[d], lost)]

\* A slip: the write without its cacheDel.
CommitNoEvict(c, lost) == Changed(c, Idle, lost) /\ raced' = raced

\* A write that c commits before it deletes the key.
CommitThenEvict(c, lost) == Changed(c, [op |-> "evict"], lost) /\ raced' = raced

-----------------------------------------------------------------------------
(* Variants                                                                 *)

\* createVariant deletes the key inside its transaction ...
CreateEvict(c, v) ==
    /\ req[c] = Idle
    /\ status[v] = "absent"
    /\ \A d \in Users : req[d].op = "create" => req[d].v # v
    /\ library' = "none"
    /\ raced' = FALSE
    /\ req' = [req EXCEPT ![c] = [op |-> "create", v |-> v]]
    /\ UNCHANGED <<status, recipe, companies, assigned, access, made, approved, excused>>

HasDefault(co) == \E v \in Variants : assigned[co][v] = "default"

\* The default that a new one of v would meet, and the partial unique index that forbids it.
DefaultMet(co, v, mark) ==
    mark = "default" /\ \E w \in Variants \ {v} : assigned[co][w] = "default"
NoOtherDefault(co, v, mark) == ~DefaultMet(co, v, mark)

\* The component lists that are not in the table, nor were.
Unsaved(l) == \A v \in Variants : l \notin recipe[v]

\* The row of a company's access was counted away by an unassignment that has not committed.
Counting(co) == \E d \in Users : req[d].op = "counted" /\ req[d].co = co /\ req[d].last

\* A slip: the assignment without its access row.
GrantedNot(cs) == access' = access /\ excused' = excused

\* A company gets access (ON CONFLICT DO NOTHING), unless it is about to be removed again.
Granted(cs) ==
    /\ access' = access \cup cs
    /\ excused' = (excused \ cs) \cup {co \in cs : Counting(co)}

\* ... and commits the variant, its assignments, the access and the components. A default
\* assignment that meets another default of the company is dropped without an error.
CreateCommit(c, s, cs, dflt, l) ==
    /\ req[c].op = "create"
    /\ cs \subseteq companies
    /\ Unsaved(l)
    /\ LET v == req[c].v
           mark(co) == IF co \notin cs THEN "no"
                       ELSE IF co \notin dflt THEN "plain"
                       ELSE IF HasDefault(co) THEN "no" ELSE "default"
       IN /\ status' = [status EXCEPT ![v] = s]
          /\ recipe' = [recipe EXCEPT ![v] = {l}]
          /\ assigned' = [co \in Companies |-> [assigned[co] EXCEPT ![v] = mark(co)]]
          /\ approved' = IF s \in Usable THEN approved \cup {v} ELSE approved
    /\ Granted(cs)
    /\ Changed(c, Idle, {})
    /\ raced' = (raced \/ library = "fresh")
    /\ UNCHANGED <<companies, made>>

\* createVariant that fails, with its key already deleted.
CreateFails(c) ==
    /\ req[c].op = "create"
    /\ req' = [req EXCEPT ![c] = Idle]
    /\ UNCHANGED <<status, recipe, companies, assigned, access, library, made, approved, excused, raced>>

\* updateVariant: one UPDATE of what the library shows.
UpdateVariant(c, v) ==
    /\ req[c] = Idle
    /\ Live(v)
    /\ CommitThenEvict(c, {})
    /\ UNCHANGED <<status, recipe, companies, assigned, access, made, approved, excused>>

\* transitionVariantStatus reads the status, ...
VariantTransitionCheck(c, v, s) ==
    /\ req[c] = Idle
    /\ Live(v)
    /\ s \in Transitions[status[v]]
    /\ req' = [req EXCEPT ![c] = [op |-> "transition", v |-> v, to |-> s]]
    /\ UNCHANGED <<status, recipe, companies, assigned, access, library, made, approved, excused, raced>>

\* ... and writes by id, whatever the status is by now.
TransitionWrite(c) ==
    /\ req[c].op = "transition"
    /\ LET v == req[c].v
           s == req[c].to
       IN /\ status' = IF Live(v) THEN [status EXCEPT ![v] = s] ELSE status
          /\ approved' = IF Live(v) /\ s = "approved" THEN approved \cup {v} ELSE approved
    /\ CommitThenEvict(c, {})
    /\ UNCHANGED <<recipe, companies, assigned, access, made, excused>>

\* replaceComponents: its DELETE sees the committed rows ...
ReplaceDelete(c, v) ==
    /\ req[c] = Idle
    /\ Live(v)
    /\ req' = [req EXCEPT ![c] = [op |-> "replace", v |-> v, sees |-> recipe[v]]]
    /\ UNCHANGED <<status, recipe, companies, assigned, access, library, made, approved, excused, raced>>

\* ... and removes those, and no row that came since; the new list is inserted.
ReplaceCommit(c, l) ==
    /\ req[c].op = "replace"
    /\ Live(req[c].v)
    /\ Unsaved(l)
    /\ recipe' = [recipe EXCEPT ![req[c].v] = (@ \ req[c].sees) \cup {l}]
    /\ CommitThenEvict(c, {})
    /\ UNCHANGED <<status, companies, assigned, access, made, approved, excused>>

\* The variant of a replacement, of a batch or of an assignment is gone: a foreign key refuses.
VariantGone(c) ==
    /\ req[c].op \in {"replace", "batch", "assign"}
    /\ ~Live(req[c].v)
    /\ req' = [req EXCEPT ![c] = Idle]
    /\ UNCHANGED <<status, recipe, companies, assigned, access, library, made, approved, excused, raced>>

\* deleteVariant reads that the variant is not of production and not assigned, ...
DeleteCheck(c, v) ==
    /\ req[c] = Idle
    /\ Live(v)
    /\ status[v] # "production"
    /\ \A co \in Companies : assigned[co][v] = "no"
    /\ req' = [req EXCEPT ![c] = [op |-> "delete", v |-> v]]
    /\ UNCHANGED <<status, recipe, companies, assigned, access, library, made, approved, excused, raced>>

\* The row of an assignment that an unassignment has deleted and not committed.
RowLocked(co, v) ==
    \E d \in Users : /\ req[d].op = "counted" /\ req[d].row = "there"
                     /\ req[d].co = co /\ req[d].v = v

\* ... and deletes by id; components and assignments go with the row.
DeleteCommit(c) ==
    /\ req[c].op = "delete"
    /\ Live(req[c].v)
    /\ \A co \in Companies : ~RowLocked(co, req[c].v)
    /\ status' = [status EXCEPT ![req[c].v] = "deleted"]
    /\ recipe' = [recipe EXCEPT ![req[c].v] = {}]
    /\ assigned' = [co \in Companies |-> [assigned[co] EXCEPT ![req[c].v] = "no"]]
    /\ CommitThenEvict(c, Companies \X {req[c].v})
    /\ UNCHANGED <<companies, access, made, approved, excused>>

DeleteFindsNone(c) ==
    /\ req[c].op = "delete"
    /\ ~Live(req[c].v)
    /\ req' = [req EXCEPT ![c] = Idle]
    /\ UNCHANGED <<status, recipe, companies, assigned, access, library, made, approved, excused, raced>>

\* createBatch reads the approval before its transaction, ...
BatchCheck(c, v) ==
    /\ req[c] = Idle
    /\ status[v] \in Usable
    /\ req' = [req EXCEPT ![c] = [op |-> "batch", v |-> v]]
    /\ UNCHANGED <<status, recipe, companies, assigned, access, library, made, approved, excused, raced>>

\* ... whose insert asks only that the variant exists.
BatchCommit(c) ==
    /\ req[c].op = "batch"
    /\ Live(req[c].v)
    /\ made' = made \cup {req[c].v}
    /\ req' = [req EXCEPT ![c] = Idle]
    /\ UNCHANGED <<status, recipe, companies, assigned, access, library, approved, excused, raced>>

-----------------------------------------------------------------------------
(* Assignments and product access                                           *)

\* assignFormulaToCompany reads the company, the variant, the assignment and the default.
AssignCheck(c, co, v, mark) ==
    /\ req[c] = Idle
    /\ co \in companies
    /\ Live(v)
    /\ NoOtherDefault(co, v, mark)
    /\ req' = [req EXCEPT ![c] = [op |-> "assign", v |-> v, co |-> co, mark |-> mark,
                                  row |-> IF assigned[co][v] = "no" THEN "none" ELSE "there"]]
    /\ UNCHANGED <<status, recipe, companies, assigned, access, library, made, approved, excused, raced>>

\* It may write: to the row it read, unless that is gone, or a new one. The unique indexes
\* (company and formula; one default per company and product) wait for deleted rows.
AssignCommit(c) ==
    /\ req[c].op = "assign"
    /\ LET v == req[c].v
           co == req[c].co
       IN /\ co \in companies /\ Live(v)
          /\ ~RowLocked(co, v)
          /\ req[c].row = "none" => assigned[co][v] = "no"
          /\ req[c].row # "gone" => NoOtherDefault(co, v, req[c].mark)
          /\ assigned' = IF req[c].row = "gone" THEN assigned
                         ELSE [assigned EXCEPT ![co][v] = req[c].mark]
          /\ Granted({co})
    /\ CommitThenEvict(c, {})
    /\ UNCHANGED <<status, recipe, companies, made, approved>>

\* A unique index or a foreign key refuses the write.
AssignRefused(c) ==
    /\ req[c].op = "assign"
    /\ LET v == req[c].v
           co == req[c].co
       IN \/ co \notin companies
          \/ req[c].row = "none" /\ assigned[co][v] # "no" /\ ~RowLocked(co, v)
          \/ req[c].row # "gone" /\ DefaultMet(co, v, req[c].mark)
    /\ req' = [req EXCEPT ![c] = Idle]
    /\ UNCHANGED <<status, recipe, companies, assigned, access, library, made, approved, excused, raced>>

\* updateCompanyFormulaAssignment reads the assignment, ...
MarkCheck(c, co, v, mark) ==
    /\ req[c] = Idle
    /\ assigned[co][v] # "no"
    /\ req' = [req EXCEPT ![c] = [op |-> "mark", v |-> v, co |-> co, mark |-> mark, row |-> "there"]]
    /\ UNCHANGED <<status, recipe, companies, assigned, access, library, made, approved, excused, raced>>

\* ... clears the company's other defaults and marks this one, if it is still there.
MarkCommit(c) ==
    /\ req[c].op = "mark"
    /\ LET v == req[c].v
           co == req[c].co
           mark == req[c].mark
       IN /\ \A w \in Variants : w = v \/ mark = "default" => ~RowLocked(co, w)
          /\ assigned' = [assigned EXCEPT ![co] = [w \in Variants |->
                            IF w = v /\ req[c].row = "there" THEN mark
                            ELSE IF mark = "default" /\ @[w] = "default" THEN "plain" ELSE @[w]]]
    /\ CommitThenEvict(c, {})
    /\ UNCHANGED <<status, recipe, companies, access, made, approved, excused>>

\* Two requests that make a default at once: the unique index, or a deadlock, aborts one.
MarkAborted(c) ==
    /\ req[c].op = "mark" /\ req[c].mark = "default"
    /\ \E d \in Users \ {c} : /\ req[d].op \in {"assign", "mark"} /\ req[d].mark = "default"
                              /\ req[d].co = req[c].co
    /\ req' = [req EXCEPT ![c] = Idle]
    /\ UNCHANGED <<status, recipe, companies, assigned, access, library, made, approved, excused, raced>>

\* unassignFormulaFromCompany reads the assignment, ...
UnassignCheck(c, co, v) ==
    /\ req[c] = Idle
    /\ assigned[co][v] # "no"
    /\ req' = [req EXCEPT ![c] = [op |-> "unassign", v |-> v, co |-> co, row |-> "there"]]
    /\ UNCHANGED <<status, recipe, companies, assigned, access, library, made, approved, excused, raced>>

\* What an unassignment counts: the committed assignments of the company but the one it deleted.
Remaining(r) == {w \in Variants : assigned[r.co][w] # "no" /\ ~(w = r.v /\ r.row = "there")}

\* ... deletes it in a transaction and counts those that remain, ...
UnassignCount(c) ==
    /\ req[c].op = "unassign"
    /\ req[c].row = "there" => ~RowLocked(req[c].co, req[c].v)
    /\ req' = [req EXCEPT ![c] = [op |-> "counted", v |-> @.v, co |-> @.co, row |-> @.row,
                                  last |-> Remaining(@) = {}]]
    /\ UNCHANGED <<status, recipe, companies, assigned, access, library, made, approved, excused, raced>>

\* ... and removes the product access if none was counted.
UnassignCommit(c) ==
    /\ req[c].op = "counted"
    /\ LET gone == IF req[c].row = "there" THEN {<<req[c].co, req[c].v>>} ELSE {}
       IN /\ assigned' = [co \in Companies |-> [v \in Variants |->
                            IF <<co, v>> \in gone THEN "no" ELSE assigned[co][v]]]
          /\ access' = IF req[c].last THEN access \ {req[c].co} ELSE access
          /\ CommitThenEvict(c, gone)
    /\ UNCHANGED <<status, recipe, companies, made, approved, excused>>

\* updateCompany replaces the product access of a company, assignments or not.
UpdateCompany(co, allowed) ==
    /\ co \in companies
    /\ access' = IF allowed THEN access \cup {co} ELSE access \ {co}
    /\ excused' = IF allowed THEN excused ELSE excused \cup {co}
    /\ UNCHANGED <<status, recipe, companies, assigned, library, req, made, approved, raced>>

\* deleteCompany takes assignments and access along, and leaves the cached library as it is.
DeleteCompany(co) ==
    /\ co \in companies
    /\ \A v \in Variants : ~RowLocked(co, v)
    /\ companies' = companies \ {co}
    /\ assigned' = [assigned EXCEPT ![co] = [v \in Variants |-> "no"]]
    /\ access' = access \ {co}
    /\ library' = IF library = "fresh" THEN "stale" ELSE library
    /\ raced' = (raced \/ library = "fresh")
    /\ req' = [d \in Users |-> Aged(req[d], {co} \X Variants)]
    /\ UNCHANGED <<status, recipe, made, approved, excused>>

-----------------------------------------------------------------------------
VariantNext ==
    \/ CacheExpires
    \/ \E co \in Companies : DeleteCompany(co) \/ \E a \in BOOLEAN : UpdateCompany(co, a)
    \/ \E c \in Users :
         \/ ListMiss(c) \/ ListFill(c) \/ Evict(c) \/ EvictFails(c)
         \/ CreateFails(c) \/ TransitionWrite(c) \/ VariantGone(c)
         \/ DeleteCommit(c) \/ DeleteFindsNone(c) \/ BatchCommit(c)
         \/ AssignCommit(c) \/ AssignRefused(c) \/ MarkCommit(c) \/ MarkAborted(c)
         \/ UnassignCount(c) \/ UnassignCommit(c)
         \/ \E v \in Variants :
              \/ CreateEvict(c, v) \/ UpdateVariant(c, v) \/ ReplaceDelete(c, v)
              \/ DeleteCheck(c, v) \/ BatchCheck(c, v)
              \/ \E s \in VariantStatuses : VariantTransitionCheck(c, v, s)
              \/ \E co \in Companies :
                   \/ UnassignCheck(c, co, v)
                   \/ \E mark \in {"plain", "default"} :
                        AssignCheck(c, co, v, mark) \/ MarkCheck(c, co, v, mark)
         \/ \E l \in Lists :
              \/ ReplaceCommit(c, l)
              \/ \E s \in Creatable, cs \in SUBSET Companies :
                   \E dflt \in {{}} \cup {{co} : co \in cs} : CreateCommit(c, s, cs, dflt, l)

VariantSpec == VariantInit /\ [][VariantNext]_variantVars

-----------------------------------------------------------------------------
(* Properties                                                               *)

\* A company that a formula is assigned to can see the formula's product: the assignment and
\* the access are written together and removed together (createVariant, assignFormulaToCompany,
\* unassignFormulaFromCompany). Excused are the companies whose access updateCompany replaced,
\* and those that got an assignment between the count of an unassignment and its commit.
AssignedHasAccess ==
    \A co \in Companies \ excused :
        (\E v \in Variants : assigned[co][v] # "no") => co \in access

\* Every write of the library deletes the cached copy: an old one is in Redis only while the
\* writer is about to delete it, or when it was filled or kept behind a change (a reader that
\* was late, createVariant's early delete, deleteCompany, a failing Redis).
LibraryCurrent ==
    library = "stale" => raced \/ \E c \in Users : req[c].op = "evict"

\* Rows, cache and requests keep their shape, and the library is current.
LibraryConsistent == VariantTypeOK /\ LibraryCurrent

\* A formula that is in production, or that a batch was made from, was approved before,
\* however the unlocked checks of transitions and of createBatch interleave.
OnlyApprovedUsed ==
    made \cup {v \in Variants : status[v] = "production"} \subseteq approved
=============================================================================
