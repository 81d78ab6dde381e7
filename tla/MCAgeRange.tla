----------------------------- MODULE MCAgeRange -----------------------------
(***************************************************************************)
(* Birth dates for TLC.                                                    *)
(***************************************************************************)
EXTENDS AgeRange

Date(year, month, day) == [month |-> 12 * year + month - 1, day |-> day]

\* First and last days of months of a common year and of the leap year after it,
\* and a leap day whose twelve years span the common year 2100.
MCBirths ==
  {b \in {Date(y, m, d) : y \in {2023, 2024}, m \in {1, 2, 8, 12}, d \in {1, 28, 29, 30, 31}} :
     b.day <= FirstOf(b.month + 1) - FirstOf(b.month)}
  \cup {Date(2096, 2, 29)}

\* Twelve years and a month.
MCMaxAge == 12 * 366 + 31
=============================================================================
