------------------------- MODULE CatalogPageProofs --------------------------
(***************************************************************************)
(* Proofs about CatalogPage, for every catalog, any set of filters among   *)
(* the options and any number of loads in flight.                          *)
(***************************************************************************)
EXTENDS CatalogPage, TLAPS

-----------------------------------------------------------------------------
(* Types                                                                   *)

\* The filter without restrictions.
LEMMA Filtered == All \in Filters /\ Filters \subseteq Options
BY FiltersAssumption

LEMMA NoLoadFits == NoLoad \in Load /\ NoLoad.cancelled /\ NoLoad.pc = "idle"
BY Filtered DEF NoLoad, Load

\* The conjuncts of TypeOK about loads, of loads ls under the filter f of a page
\* that is loading or not.
LoadsOK(ls, f, waiting) ==
  /\ ls \in [Loads -> Load]
  /\ \A l \in Loads : ~ls[l].cancelled => ls[l].pc # "idle" /\ ls[l].filter = f
  /\ \A l, k \in Loads : ~ls[l].cancelled /\ ~ls[k].cancelled => l = k
  /\ waiting <=> \E l \in Loads : ~ls[l].cancelled

LEMMA TypesAre ==
  TypeOK <=> /\ mounted \in BOOLEAN /\ error \in BOOLEAN /\ loading \in BOOLEAN
             /\ filter \in Filters /\ items \subseteq Items
             /\ LoadsOK(loads, filter, loading)
BY DEF TypeOK, LoadsOK, At

\* After the effect one load is not cancelled, and it is for the new filter.
LEMMA EffectFits ==
  ASSUME NEW ls \in [Loads -> Load], NEW f \in Filters, NEW l \in Loads
  PROVE  LoadsOK(Effect(ls, f, l), f, TRUE)
<1> DEFINE new == [pc |-> "sent", filter |-> f, cancelled |-> FALSE]
<1>1. new \in Load /\ ~new.cancelled /\ new.pc # "idle" /\ new.filter = f
  BY DEF Load
<1>2. \A k \in Loads : /\ [ls[k] EXCEPT !.cancelled = TRUE] \in Load
                       /\ [ls[k] EXCEPT !.cancelled = TRUE].cancelled
  BY DEF Load
<1>3. Effect(ls, f, l) =
        [k \in Loads |-> IF k = l THEN new ELSE [ls[k] EXCEPT !.cancelled = TRUE]]
  BY DEF Effect
<1> HIDE DEF new
<1>. QED
  BY <1>1, <1>2, <1>3 DEF LoadsOK

\* So it is after mounting, whether the effect runs once or twice.
LEMMA MountFits ==
  ASSUME NEW ls \in [Loads -> Load], NEW new \in AfterMount(ls)
  PROVE  LoadsOK(new, All, TRUE)
<1> DEFINE free == {l \in Loads : ls[l].pc = "idle"}
<1>1. CASE \E l \in free : new = Effect(ls, All, l)
  BY <1>1, EffectFits, Filtered
<1>2. CASE \E p \in free \X free : new = Effect(Effect(ls, All, p[1]), All, p[2])
  <2>1. PICK p \in free \X free : new = Effect(Effect(ls, All, p[1]), All, p[2])
    BY <1>2
  <2>2. p[1] \in Loads /\ p[2] \in Loads
    BY <2>1
  <2>3. Effect(ls, All, p[1]) \in [Loads -> Load]
    BY <2>2, EffectFits, Filtered DEF LoadsOK
  <2>. QED
    BY <2>1, <2>2, <2>3, EffectFits, Filtered
<1>. QED
  BY <1>1, <1>2 DEF AfterMount

\* The state of a page: nothing of it is left while it is not mounted, and
\* there is no error while it loads.
PageOK ==
  /\ loading => mounted /\ ~error
  /\ ~mounted => filter = All /\ items = {} /\ ~error

IInv == TypeOK /\ PageOK

LEMMA InitInv == Init => IInv
<1> SUFFICES ASSUME Init PROVE IInv
  OBVIOUS
<1>1. [l \in Loads |-> NoLoad] \in [Loads -> Load]
  BY NoLoadFits
<1>2. LoadsOK(loads, All, TRUE)
  BY <1>1, MountFits DEF Init
<1>. QED
  BY <1>2, TypesAre, Filtered DEF Init, IInv, PageOK

\* A load that moves on but is not settled changes nothing else.
LEMMA ProgressFits ==
  ASSUME IInv, NEW l \in Loads, At(l, "sent"),
         NEW pc \in {"ok", "bad_request", "failed"},
         loads' = [loads EXCEPT ![l].pc = pc],
         UNCHANGED <<mounted, filter, items, error, loading>>
  PROVE  IInv'
<1>1. LoadsOK(loads, filter, loading)
  BY TypesAre DEF IInv
<1>2. /\ loads' \in [Loads -> Load]
      /\ \A k \in Loads : /\ loads'[k].cancelled = loads[k].cancelled
                          /\ loads'[k].filter = loads[k].filter
                          /\ loads[k].pc # "idle" => loads'[k].pc # "idle"
  BY <1>1 DEF LoadsOK, Load
<1>3. LoadsOK(loads', filter', loading')
  BY <1>1, <1>2 DEF LoadsOK
<1>. QED
  BY <1>3, TypesAre DEF IInv, PageOK, TypeOK, LoadsOK, At

LEMMA ListingFits == \A f : Listing(f) \subseteq Items
BY DEF Listing

\* Settling leaves the others as they are.
LEMMA SettleFits ==
  ASSUME IInv, NEW l \in Loads, Settle(l)
  PROVE  /\ IInv'
         /\ loads[l].cancelled => UNCHANGED <<mounted, filter, items, error, loading>>
         /\ ~loads[l].cancelled => /\ mounted /\ loading /\ ~error /\ ~loading'
                                   /\ loads[l].filter = filter
                                   /\ UNCHANGED <<mounted, filter>>
<1>1. LoadsOK(loads, filter, loading) /\ error \in BOOLEAN /\ loading \in BOOLEAN
  BY TypesAre DEF IInv
<1>2. /\ loads' \in [Loads -> Load]
      /\ \A k \in Loads : loads'[k] = IF k = l THEN NoLoad ELSE loads[k]
  BY <1>1, NoLoadFits DEF LoadsOK, Settle
<1>3. CASE loads[l].cancelled
  <2>1. UNCHANGED <<mounted, filter, items, error, loading>>
    BY <1>1, <1>3 DEF Settle
  <2>2. LoadsOK(loads', filter', loading')
    BY <1>1, <1>2, <1>3, <2>1, NoLoadFits DEF LoadsOK
  <2>. QED
    BY <1>3, <2>1, <2>2, TypesAre DEF IInv, PageOK, TypeOK, LoadsOK, At
<1>4. CASE ~loads[l].cancelled
  <2>1. loading /\ loads[l].filter = filter /\ mounted /\ ~error
    BY <1>1, <1>4 DEF LoadsOK, IInv, PageOK
  <2>2. ~loading' /\ UNCHANGED <<mounted, filter>> /\ error' \in BOOLEAN /\ items' \subseteq Items
    BY <1>1, <1>4, ListingFits DEF Settle, IInv, TypeOK
  <2>3. \A k \in Loads : loads'[k].cancelled
    BY <1>1, <1>2, <1>4, NoLoadFits DEF LoadsOK
  <2>4. LoadsOK(loads', filter', FALSE)
    BY <1>2, <2>3 DEF LoadsOK
  <2>5. loading' = FALSE
    BY <1>1, <1>4 DEF Settle
  <2>. QED
    BY <1>4, <2>1, <2>2, <2>4, <2>5, TypesAre DEF IInv, PageOK, TypeOK, LoadsOK, At
<1>. QED
  BY <1>1, <1>3, <1>4 DEF LoadsOK, Load

\* A step of one load.
LEMMA LoadSteps ==
  ASSUME IInv, NEW l \in Loads, List(l) \/ Failure(l)
  PROVE  IInv' /\ UNCHANGED <<mounted, filter, items, error, loading>>
<1>1. CASE List(l)
  BY <1>1, ProgressFits DEF List
<1>2. CASE Failure(l)
  BY <1>2, ProgressFits DEF Failure
<1>. QED
  BY <1>1, <1>2

LEMMA NextInv == IInv /\ [Next]_vars => IInv'
<1> SUFFICES ASSUME IInv, [Next]_vars PROVE IInv'
  OBVIOUS
<1>1. LoadsOK(loads, filter, loading)
  BY TypesAre DEF IInv
<1>2. ASSUME NEW f \in Filters, Choose(f) PROVE IInv'
  <2>1. PICK l \in Loads : loads' = Effect(loads, f, l)
    BY <1>2 DEF Choose
  <2>2. LoadsOK(loads', f, TRUE)
    BY <1>1, <2>1, EffectFits DEF LoadsOK
  <2>. QED
    BY <1>2, <2>2, TypesAre DEF Choose, IInv, PageOK, TypeOK, LoadsOK, At
<1>3. CASE Leave
  <2>1. loads' = [l \in Loads |-> [loads[l] EXCEPT !.cancelled = TRUE]]
    BY <1>3 DEF Leave
  <2>2. \A l \in Loads : /\ [loads[l] EXCEPT !.cancelled = TRUE] \in Load
                         /\ [loads[l] EXCEPT !.cancelled = TRUE].cancelled
    BY <1>1 DEF LoadsOK, Load
  <2>3. LoadsOK(loads', All, FALSE)
    BY <2>1, <2>2 DEF LoadsOK
  <2>. QED
    BY <1>3, <2>3, Filtered, TypesAre DEF Leave, IInv, PageOK, TypeOK, LoadsOK, At
<1>4. CASE Return
  <2>1. LoadsOK(loads', All, TRUE)
    BY <1>1, <1>4, MountFits DEF Return, LoadsOK
  <2>2. filter = All /\ items = {} /\ ~error
    BY <1>4 DEF Return, IInv, PageOK
  <2>. QED
    BY <1>4, <2>1, <2>2, TypesAre DEF Return, IInv, PageOK, TypeOK, LoadsOK, At
<1>5. ASSUME NEW l \in Loads, List(l) \/ Failure(l) \/ Settle(l) PROVE IInv'
  BY <1>5, LoadSteps, SettleFits
<1>6. CASE UNCHANGED vars
  BY <1>6, <1>1 DEF vars, IInv, PageOK, TypeOK, At
<1>. QED
  BY <1>2, <1>3, <1>4, <1>5, <1>6 DEF Next

\* The types, and that the page is loading exactly as long as one load, for the
\* filter displayed, is not cancelled (CatalogPage.tsx).
THEOREM TypesHold == Spec => []TypeOK
<1>1. IInv => TypeOK
  BY DEF IInv
<1>. QED
  BY <1>1, InitInv, NextInv, PTL DEF Spec

-----------------------------------------------------------------------------
(* The options of the page and the values the server knows                 *)

\* The code of every option for the age is one of the grid's.
LEMMA AgesValid == \A n \in 1..5 : \A code \in AGE_GROUPS[n] : IsValid(code)
<1>1. Grid = 1..23
  BY DEF Grid, boundaries
<1> DEFINE known(code) == \E n \in 1..23 : boundaries[n].code = code
<1>2. /\ boundaries[1].code = "0m" /\ boundaries[2].code = "1m" /\ boundaries[3].code = "2m"
      /\ boundaries[4].code = "3m" /\ boundaries[5].code = "4m" /\ boundaries[6].code = "5m"
  BY DEF boundaries, Boundary
<1>3. /\ boundaries[7].code = "6m" /\ boundaries[8].code = "9m"
      /\ boundaries[9].code = "12m" /\ boundaries[10].code = "15m"
      /\ boundaries[11].code = "18m" /\ boundaries[12].code = "24m"
      /\ boundaries[13].code = "30m"
  BY DEF boundaries, Boundary
<1>4. /\ boundaries[14].code = "3y" /\ boundaries[15].code = "4y" /\ boundaries[16].code = "5y"
      /\ boundaries[17].code = "6y" /\ boundaries[18].code = "7y" /\ boundaries[19].code = "8y"
      /\ boundaries[20].code = "9y" /\ boundaries[21].code = "10y"
      /\ boundaries[22].code = "11y" /\ boundaries[23].code = "12y+"
  BY DEF boundaries, Boundary
<1>5. \A code \in AGE_GROUPS[1] : known(code)
  <2>1. AGE_GROUPS[1] = {"0m", "1m", "2m", "3m", "4m", "5m"}
    BY DEF AGE_GROUPS
  <2>. QED
    BY <1>2, <2>1
<1>6. \A code \in AGE_GROUPS[2] \cup AGE_GROUPS[3] : known(code)
  <2>1. AGE_GROUPS[2] = {"6m", "9m", "12m", "15m"} /\ AGE_GROUPS[3] = {"18m", "24m", "30m"}
    BY DEF AGE_GROUPS
  <2>. QED
    BY <1>3, <2>1
<1>7. \A code \in AGE_GROUPS[4] \cup AGE_GROUPS[5] : known(code)
  <2>1. /\ AGE_GROUPS[4] = {"3y", "4y", "5y", "6y", "7y", "8y", "9y", "10y", "11y"}
        /\ AGE_GROUPS[5] = {"12y+"}
    BY DEF AGE_GROUPS
  <2>. QED
    BY <1>4, <2>1
<1>8. ASSUME NEW n \in 1..5, NEW code \in AGE_GROUPS[n] PROVE known(code)
  <2>1. n = 1 \/ n = 2 \/ n = 3 \/ n = 4 \/ n = 5
    OBVIOUS
  <2> HIDE DEF known
  <2>. QED
    BY <1>5, <1>6, <1>7, <1>8, <2>1
<1>. QED
  BY <1>1, <1>8 DEF IsValid

\* No option is refused.
LEMMA OptionsAccepted == \A f \in Options : Accepted(f)
<1> SUFFICES ASSUME NEW f \in Options PROVE Accepted(f)
  OBVIOUS
<1>1. f.age # "" => IsValid(f.age)
  <2>1. f.age = "" \/ \E n \in 1..5 : f.age \in AGE_GROUPS[n]
    BY DEF Options
  <2>. QED
    BY <2>1, AgesValid
<1>2. f.category # "" => f.category \in validCategories
  BY DEF Options, CATEGORY_OPTIONS, validCategories
<1>. QED
  BY <1>1, <1>2 DEF Accepted

\* None of the loads ls has been refused.
Welcome(ls) == \A l \in Loads : ls[l].pc # "bad_request"

LEMMA EffectWelcome ==
  ASSUME NEW ls \in [Loads -> Load], Welcome(ls), NEW f \in Filters, NEW l \in Loads
  PROVE  Welcome(Effect(ls, f, l))
<1> SUFFICES ASSUME NEW k \in Loads PROVE Effect(ls, f, l)[k].pc # "bad_request"
  BY DEF Welcome
<1>1. CASE k = l
  BY <1>1 DEF Effect
<1>2. CASE k # l
  <2>1. Effect(ls, f, l)[k].pc = ls[k].pc
    BY <1>2 DEF Effect, Load
  <2>. QED
    BY <2>1 DEF Welcome
<1>. QED
  BY <1>1, <1>2

LEMMA MountWelcome ==
  ASSUME NEW ls \in [Loads -> Load], Welcome(ls), NEW new \in AfterMount(ls)
  PROVE  Welcome(new)
<1> DEFINE free == {l \in Loads : ls[l].pc = "idle"}
<1>1. CASE \E l \in free : new = Effect(ls, All, l)
  BY <1>1, EffectWelcome, Filtered
<1>2. CASE \E p \in free \X free : new = Effect(Effect(ls, All, p[1]), All, p[2])
  <2>1. PICK p \in free \X free : new = Effect(Effect(ls, All, p[1]), All, p[2])
    BY <1>2
  <2>2. p[1] \in Loads /\ p[2] \in Loads
    BY <2>1
  <2>3. Effect(ls, All, p[1]) \in [Loads -> Load] /\ Welcome(Effect(ls, All, p[1]))
    BY <2>2, EffectFits, EffectWelcome, Filtered DEF LoadsOK
  <2>. QED
    BY <2>1, <2>2, <2>3, EffectWelcome, Filtered
<1>. QED
  BY <1>1, <1>2 DEF AfterMount

\* Whatever the visitor selects of AGE_GROUPS and CATEGORY_OPTIONS is valid for
\* agerange.IsValid and validCategories on the server.
THEOREM NoneRefused == Spec => []NoBadRequest
<1>1. Init => Welcome(loads)
  <2> SUFFICES ASSUME Init PROVE Welcome(loads)
    OBVIOUS
  <2> DEFINE none == [l \in Loads |-> NoLoad]
  <2>1. none \in [Loads -> Load] /\ Welcome(none)
    BY NoLoadFits DEF Welcome
  <2>. QED
    BY <2>1, MountWelcome DEF Init
<1>2. TypeOK /\ Welcome(loads) /\ [Next]_vars => Welcome(loads)'
  <2> SUFFICES ASSUME TypeOK, Welcome(loads), [Next]_vars PROVE Welcome(loads')
    OBVIOUS
  <2>1. loads \in [Loads -> Load]
    BY DEF TypeOK
  <2>2. ASSUME NEW f \in Filters, Choose(f) PROVE Welcome(loads')
    BY <2>1, <2>2, EffectWelcome DEF Choose
  <2>3. CASE Leave
    <3>1. \A l \in Loads : [loads[l] EXCEPT !.cancelled = TRUE].pc = loads[l].pc
      BY <2>1 DEF Load
    <3>. QED
      BY <2>3, <3>1 DEF Leave, Welcome
  <2>4. CASE Return
    BY <2>1, <2>4, MountWelcome DEF Return
  <2>5. ASSUME NEW l \in Loads, List(l) PROVE Welcome(loads')
    <3>1. loads[l].filter \in Options
      BY <2>1, Filtered DEF Load
    <3>2. Accepted(loads[l].filter)
      BY <3>1, OptionsAccepted
    <3>3. loads' = [loads EXCEPT ![l].pc = "ok"]
      BY <2>5, <3>2 DEF List
    <3>4. \A k \in Loads : loads'[k].pc = IF k = l THEN "ok" ELSE loads[k].pc
      BY <2>1, <3>3 DEF Load
    <3>. QED
      BY <3>4 DEF Welcome
  <2>6. ASSUME NEW l \in Loads, Failure(l) PROVE Welcome(loads')
    <3>1. \A k \in Loads : loads'[k].pc = IF k = l THEN "failed" ELSE loads[k].pc
      BY <2>1, <2>6 DEF Failure, Load
    <3>. QED
      BY <3>1 DEF Welcome
  <2>7. ASSUME NEW l \in Loads, Settle(l) PROVE Welcome(loads')
    BY <2>1, <2>7, NoLoadFits DEF Settle, Welcome
  <2>8. CASE UNCHANGED vars
    BY <2>8 DEF vars
  <2>. QED
    BY <2>2, <2>3, <2>4, <2>5, <2>6, <2>7, <2>8 DEF Next
<1>3. Welcome(loads) => NoBadRequest
  BY DEF Welcome, NoBadRequest, At
<1>. QED
  BY <1>1, <1>2, <1>3, TypesHold, PTL DEF Spec

-----------------------------------------------------------------------------
(* Refinement                                                              *)

\* Initial states map to initial states.
LEMMA ViewInit == Init => View!Init
BY DEF Init, View!Init

\* Every step maps to a step of CatalogView or a stutter.
LEMMA ViewStep == IInv /\ IInv' /\ [Next]_vars => [View!Next]_View!vars
<1> SUFFICES ASSUME IInv, IInv', [Next]_vars PROVE [View!Next]_View!vars
  OBVIOUS
<1>1. ASSUME NEW f \in Filters, Choose(f) PROVE View!Choose(f)
  BY <1>1 DEF Choose, View!Choose
<1>2. CASE Leave
  <2>1. View!Leave
    BY <1>2 DEF Leave, View!Leave
  <2>. QED
    BY <2>1 DEF View!Next
<1>3. CASE Return
  <2>1. View!Return
    BY <1>3 DEF Return, View!Return
  <2>. QED
    BY <2>1 DEF View!Next
<1>4. ASSUME UNCHANGED <<mounted, filter, items, error, loading>> PROVE UNCHANGED View!vars
  BY <1>4 DEF View!vars
<1>5. ASSUME NEW l \in Loads, Settle(l), ~loads[l].cancelled PROVE View!Show \/ View!Fail
  <2>1. /\ mounted /\ loading /\ ~error /\ ~loading' /\ loads[l].filter = filter
        /\ UNCHANGED <<mounted, filter>> /\ filter \in Filters
    BY <1>5, SettleFits DEF IInv, TypeOK
  <2>2. CASE loads[l].pc = "ok"
    <3>1. items' = Listing(filter) /\ ~error'
      BY <1>5, <2>1, <2>2 DEF Settle, At
    <3>2. View!Show
      BY <2>1, <3>1 DEF View!Show
    <3>. QED
      BY <3>2
  <2>3. CASE loads[l].pc # "ok"
    <3>1. error'
      BY <1>5, <2>1, <2>3 DEF Settle, At
    <3>2. View!Fail
      BY <2>1, <3>1 DEF View!Fail
    <3>. QED
      BY <3>2
  <2>. QED
    BY <2>2, <2>3
<1>6. ASSUME NEW l \in Loads, Settle(l) PROVE [View!Next]_View!vars
  BY <1>4, <1>5, <1>6, SettleFits DEF View!Next
<1>7. ASSUME NEW l \in Loads, List(l) \/ Failure(l) PROVE UNCHANGED View!vars
  BY <1>4, <1>7, LoadSteps
<1>8. CASE UNCHANGED vars
  BY <1>4, <1>8 DEF vars
<1>. QED
  BY <1>1, <1>2, <1>3, <1>6, <1>7, <1>8 DEF Next, View!Next

\* Whatever the order in which answers come, what the page presents is the
\* listing of the filter it displays: CatalogPage implements CatalogView.
THEOREM PageImplementsView == Spec => ViewSpec
<1>1. Spec => []IInv
  BY InitInv, NextInv, PTL DEF Spec
<1>. QED
  BY <1>1, ViewInit, ViewStep, PTL DEF Spec, ViewSpec, View!Spec
=============================================================================
