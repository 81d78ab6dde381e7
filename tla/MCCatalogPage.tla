--------------------------- MODULE MCCatalogPage ----------------------------
(***************************************************************************)
(* A small instance of CatalogPage for TLC.                                *)
(***************************************************************************)
EXTENDS CatalogPage

\* The rows migration 000005 inserts.
Seed == <<
  <<"0m", "clothes">>, <<"3m", "clothes">>, <<"6m", "toys">>, <<"9m", "toys">>,
  <<"12m", "books">>, <<"18m", "toys">>, <<"18m", "clothes">>, <<"24m", "sport">>,
  <<"24m", "books">>, <<"30m", "toys">>, <<"3y", "clothes">>, <<"4y", "books">>,
  <<"5y", "sport">>, <<"6y", "toys">>, <<"7y", "books">>, <<"9y", "sport">>,
  <<"11y", "clothes">>, <<"12y+", "sport">> >>

MCItems ==
  {[id |-> n, age_range_code |-> Seed[n][1], category |-> Seed[n][2]] : n \in 1..Len(Seed)}

\* Among them filters without any item, with the same one and with several.
MCFilters == [age : {"", "0m", "18m"}, category : {"", "toys"}]
=============================================================================
