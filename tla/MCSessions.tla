----------------------------- MODULE MCSessions -----------------------------
(***************************************************************************)
(* Small instances of Sessions for TLC.                                    *)
(***************************************************************************)
EXTENDS Sessions, TLC

\* Nothing in Sessions tells two ids, users or requests apart.
Symmetry ==
  Permutations(SessionIds) \cup Permutations(UserIds) \cup Permutations(Requests)
=============================================================================
