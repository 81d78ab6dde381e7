------------------------------ MODULE AgeGrid -------------------------------
(***************************************************************************)
(* The fixed grid of age buckets: the boundaries of package                *)
(* backend/internal/agerange and the codes it accepts.                     *)
(***************************************************************************)
EXTENDS Integers, Sequences

Boundary(code, years, months) == [code |-> code, years |-> years, months |-> months]

boundaries == <<
  Boundary("0m", 0, 0), Boundary("1m", 0, 1), Boundary("2m", 0, 2),
  Boundary("3m", 0, 3), Boundary("4m", 0, 4), Boundary("5m", 0, 5),
  Boundary("6m", 0, 6), Boundary("9m", 0, 9), Boundary("12m", 1, 0),
  Boundary("15m", 1, 3), Boundary("18m", 1, 6), Boundary("24m", 2, 0),
  Boundary("30m", 2, 6), Boundary("3y", 3, 0), Boundary("4y", 4, 0),
  Boundary("5y", 5, 0), Boundary("6y", 6, 0), Boundary("7y", 7, 0),
  Boundary("8y", 8, 0), Boundary("9y", 9, 0), Boundary("10y", 10, 0),
  Boundary("11y", 11, 0), Boundary("12y+", 12, 0) >>

Grid == 1..Len(boundaries)

-----------------------------------------------------------------------------
\* The mutants of this module, named <definition>_<what is wrong>, are bugs the
\* code might have had; nothing else uses them.

\* The loop starts behind the first boundary.
IsValid_FromSecond(code) == \E n \in Grid \ {1} : boundaries[n].code = code

IsValid(code) == \E n \in Grid : boundaries[n].code = code
=============================================================================
