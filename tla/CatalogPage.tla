---------------------------- MODULE CatalogPage -----------------------------
(***************************************************************************)
(* The catalog: frontend/src/catalog/CatalogPage.tsx against GET           *)
(* /api/catalog.  Every change of a filter starts a load of its own; the   *)
(* loads before it are not aborted, only marked cancelled, and their       *)
(* answers come in any order or not at all.                                *)
(***************************************************************************)
EXTENDS AgeGrid

CONSTANTS
  Items,     \* the rows of catalog_items; nothing writes it at run time
  Filters,   \* bound: the filters the visitor tries
  Loads      \* bound: loads in flight at the same time

VARIABLES
  mounted,   \* CatalogPage is on display
  filter,    \* ageRange and category
  items,     \* items, as the set of them: the answer is ordered by id
  error,     \* error is not null
  loading,
  loads      \* the runs of the effect whose getCatalog has not settled

vars == <<mounted, filter, items, error, loading, loads>>

\* AGE_GROUPS: the options of the Select.
AGE_GROUPS == <<
  {"0m", "1m", "2m", "3m", "4m", "5m"}, {"6m", "9m", "12m", "15m"},
  {"18m", "24m", "30m"},
  {"3y", "4y", "5y", "6y", "7y", "8y", "9y", "10y", "11y"}, {"12y+"} >>

\* CATEGORY_OPTIONS: those of the Segmented.  In both "" is for no filter.
CATEGORY_OPTIONS == {"", "clothes", "toys", "books", "sport"}

Options ==
  [age : {""} \cup UNION {AGE_GROUPS[n] : n \in 1..5}, category : CATEGORY_OPTIONS]

All == [age |-> "", category |-> ""]

ASSUME FiltersAssumption == Filters \subseteq Options /\ All \in Filters

\* pc: its request is on the way, or has been answered with 200 or another
\* status, or has failed on the way.
Load == [pc : {"idle", "sent", "ok", "bad_request", "failed"}, filter : Filters,
         cancelled : BOOLEAN]

NoLoad == [pc |-> "idle", filter |-> All, cancelled |-> TRUE]

At(l, step) == loads[l].pc = step

-----------------------------------------------------------------------------
(* GET /api/catalog                                                        *)

\* listCatalogItems: the WHERE clause grows with the filters that are not "".
Listing(f) ==
  {i \in Items : /\ f.age # "" => i.age_range_code = f.age
                 /\ f.category # "" => i.category = f.category}

validCategories == {"clothes", "toys", "books", "sport"}

\* Handler.List: an unknown value is refused, not ignored.
Accepted(f) ==
  /\ f.age # "" => IsValid(f.age)
  /\ f.category # "" => f.category \in validCategories

List(l) ==
  /\ At(l, "sent")
  /\ loads' = [loads EXCEPT ![l].pc =
       IF Accepted(loads[l].filter) THEN "ok" ELSE "bad_request"]
  /\ UNCHANGED <<mounted, filter, items, error, loading>>

\* The SELECT fails, or the request or its answer is lost.
Failure(l) ==
  /\ At(l, "sent")
  /\ loads' = [loads EXCEPT ![l].pc = "failed"]
  /\ UNCHANGED <<mounted, filter, items, error, loading>>

-----------------------------------------------------------------------------
(* CatalogPage                                                             *)

\* The mutants of this module, named <definition>_<what is wrong>, are bugs the
\* code might have had; nothing else uses them.

\* No cleanup.
Effect_NotCancelled(ls, f, l) ==
  [k \in Loads |-> IF k = l THEN [pc |-> "sent", filter |-> f, cancelled |-> FALSE] ELSE ls[k]]

\* The effect: the cleanup of the run before it cancels that run, the others
\* having been cancelled already; then a load for the filter f.
Effect(ls, f, l) ==
  [k \in Loads |-> IF k = l THEN [pc |-> "sent", filter |-> f, cancelled |-> FALSE]
                            ELSE [ls[k] EXCEPT !.cancelled = TRUE]]

\* What the loads are after mounting: the effect has run once, or twice as
\* React's StrictMode has it in development.
AfterMount(ls) ==
  LET free == {l \in Loads : ls[l].pc = "idle"}
  IN {Effect(ls, All, l) : l \in free}
       \cup {Effect(Effect(ls, All, p[1]), All, p[2]) : p \in {p \in free \X free : p[1] # p[2]}}

Init ==
  /\ mounted = TRUE
  /\ filter = All /\ items = {} /\ error = FALSE /\ loading = TRUE
  /\ loads \in AfterMount([l \in Loads |-> NoLoad])

\* setAgeRange or setCategory, from an input event: React renders, runs the
\* cleanup and the effect before it handles anything else.
Choose(f) ==
  /\ mounted /\ f # filter
  /\ f.age = filter.age \/ f.category = filter.category
  /\ filter' = f
  /\ loading' = TRUE /\ error' = FALSE
  /\ \E l \in Loads : At(l, "idle") /\ loads' = Effect(loads, f, l)
  /\ UNCHANGED <<mounted, items>>

\* To /login: the cleanup runs, the state is gone.
Leave ==
  /\ mounted
  /\ mounted' = FALSE
  /\ filter' = All /\ items' = {} /\ error' = FALSE /\ loading' = FALSE
  /\ loads' = [l \in Loads |-> [loads[l] EXCEPT !.cancelled = TRUE]]

Return ==
  /\ ~mounted
  /\ mounted' = TRUE /\ loading' = TRUE
  /\ loads' \in AfterMount(loads)
  /\ UNCHANGED <<filter, items, error>>

\* .then without "if (!cancelled)".
Settle_Unguarded(l) ==
  /\ ~At(l, "idle") /\ ~At(l, "sent")
  /\ items' = IF mounted /\ At(l, "ok") THEN Listing(loads[l].filter) ELSE items
  /\ error' = (error \/ (~loads[l].cancelled /\ ~At(l, "ok")))
  /\ loading' = (loading /\ loads[l].cancelled)
  /\ loads' = [loads EXCEPT ![l] = NoLoad]
  /\ UNCHANGED <<mounted, filter>>

\* setLoading(false) in .then instead of .finally.
Settle_NoFinally(l) ==
  /\ ~At(l, "idle") /\ ~At(l, "sent")
  /\ items' = IF ~loads[l].cancelled /\ At(l, "ok") THEN Listing(loads[l].filter) ELSE items
  /\ error' = (error \/ (~loads[l].cancelled /\ ~At(l, "ok")))
  /\ loading' = (loading /\ (loads[l].cancelled \/ ~At(l, "ok")))
  /\ loads' = [loads EXCEPT ![l] = NoLoad]
  /\ UNCHANGED <<mounted, filter>>

\* getCatalog settles: .then or .catch, and .finally, in one turn of the event
\* loop.  The catalog does not change, so the answer is that of any moment.
\* An error leaves the items of an earlier filter in place.
Settle(l) ==
  /\ ~At(l, "idle") /\ ~At(l, "sent")
  /\ items' = IF ~loads[l].cancelled /\ At(l, "ok") THEN Listing(loads[l].filter) ELSE items
  /\ error' = (error \/ (~loads[l].cancelled /\ ~At(l, "ok")))
  /\ loading' = (loading /\ loads[l].cancelled)
  /\ loads' = [loads EXCEPT ![l] = NoLoad]
  /\ UNCHANGED <<mounted, filter>>

Next ==
  \/ \E f \in Filters : Choose(f)
  \/ Leave \/ Return
  \/ \E l \in Loads : List(l) \/ Failure(l) \/ Settle(l)

Spec == Init /\ [][Next]_vars

\* The server answers unless the network fails, and fetch settles; nothing
\* makes the visitor do anything.
FairSpec == Spec /\ \A l \in Loads : WF_vars(List(l)) /\ WF_vars(Settle(l))

-----------------------------------------------------------------------------
(* Properties                                                              *)

\* Types; and the page is loading exactly as long as one load is not
\* cancelled, which is for the filter displayed.
TypeOK ==
  /\ mounted \in BOOLEAN /\ error \in BOOLEAN /\ loading \in BOOLEAN
  /\ filter \in Filters
  /\ items \subseteq Items
  /\ loads \in [Loads -> Load]
  /\ \A l \in Loads : ~loads[l].cancelled => ~At(l, "idle") /\ loads[l].filter = filter
  /\ \A l, k \in Loads : ~loads[l].cancelled /\ ~loads[k].cancelled => l = k
  /\ loading <=> \E l \in Loads : ~loads[l].cancelled

\* Every option the page offers is one the server knows: an age group or a
\* category that drifts apart on the two sides would be answered with 400.
NoBadRequest == \A l \in Loads : ~At(l, "bad_request")

\* How the page looks to its visitor.  The items on display while it loads or
\* has failed are leftovers, presented as nothing.
View == INSTANCE CatalogView WITH
  listing <- [f \in Filters |-> Listing(f)],
  state <- IF ~mounted THEN "away" ELSE IF loading THEN "loading"
           ELSE IF error THEN "failed" ELSE "shown",
  rows <- IF mounted /\ ~loading /\ ~error THEN items ELSE {}

\* Whatever the order in which the answers come, and those of cancelled loads
\* among them, what the page presents is the listing of its filter; "no ideas
\* for this age and category yet" is said only where there are none.
ViewSpec == View!Spec

\* Once the visitor stays with a filter the page ends loading, by an answer or
\* by an error.
ReloadEnds ==
  <>[][filter' = filter /\ mounted' = mounted]_vars => <>[]~loading
=============================================================================
