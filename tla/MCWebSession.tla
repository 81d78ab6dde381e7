---------------------------- MODULE MCWebSession ----------------------------
(***************************************************************************)
(* Small instances of WebSession for TLC.                                  *)
(***************************************************************************)
EXTENDS WebSession, TLC

\* Nothing in WebSession tells two ids, emails or requests apart.
Symmetry ==
  Permutations(SessionIds) \cup Permutations(Emails) \cup Permutations(Requests)
=============================================================================
