---------------------------- MODULE CatalogView -----------------------------
(***************************************************************************)
(* What the catalog page promises its visitor, as if every reload were one *)
(* step: the page is loading, or says that it failed, or shows the listing *)
(* of the filter it displays, and never that of another one.  CatalogPage  *)
(* implements this module.                                                 *)
(***************************************************************************)

CONSTANTS Filters, All, listing

VARIABLES
  state,    \* "away", the page is not mounted, "loading", "failed" or "shown"
  filter,   \* the filter displayed
  rows      \* the rows presented as the listing of the filter

vars == <<state, filter, rows>>

Init == state = "loading" /\ filter = All /\ rows = {}

Choose(f) ==
  /\ state # "away"
  /\ state' = "loading" /\ filter' = f /\ rows' = {}

Show ==
  /\ state = "loading"
  /\ state' = "shown" /\ rows' = listing[filter]
  /\ UNCHANGED filter

Fail ==
  /\ state = "loading"
  /\ state' = "failed"
  /\ UNCHANGED <<filter, rows>>

Leave == state' = "away" /\ filter' = All /\ rows' = {}

Return == state = "away" /\ state' = "loading" /\ UNCHANGED <<filter, rows>>

Next == (\E f \in Filters : Choose(f)) \/ Show \/ Fail \/ Leave \/ Return

Spec == Init /\ [][Next]_vars
=============================================================================
