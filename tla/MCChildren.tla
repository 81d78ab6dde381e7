----------------------------- MODULE MCChildren -----------------------------
(***************************************************************************)
(* A small instance of Children for TLC.                                   *)
(***************************************************************************)
EXTENDS Children, TLC

CONSTANT tim

\* A name, and one validateName rejects (empty, or of 101 characters).
MCRawNames == {" Tim ", "   "}
MCValidateName ==
  [n \in MCRawNames \cup {None} |-> IF n = " Tim " THEN tim ELSE None]

\* Nothing in Children tells two session ids, users or requests apart.
Symmetry ==
  Permutations(SessionIds) \cup Permutations(UserIds) \cup Permutations(Requests)
=============================================================================
