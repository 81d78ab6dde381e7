------------------------------ MODULE AgeRange ------------------------------
(***************************************************************************)
(* The age bucket of a child: package backend/internal/agerange, asked     *)
(* anew for every answer that shows the child (child/response.go).  Dates  *)
(* are numbers of days and months are numbers of months, both counted from *)
(* the year 0, so that the calendar is one function, FirstOf.              *)
(***************************************************************************)
EXTENDS AgeGrid, FiniteSetsExt

CONSTANTS
  Births,    \* the birth dates to consider: a month and a day of it
  MaxAge     \* bound: age in days

IsLeap(y) == y % 4 = 0 /\ (y % 100 # 0 \/ y % 400 = 0)

\* The leap years before year y.
Leaps(y) == (y + 3) \div 4 - (y + 99) \div 100 + (y + 399) \div 400

\* The days before a month in its year, without the leap day.
DaysBefore == <<0, 31, 59, 90, 120, 151, 181, 212, 243, 273, 304, 334>>

\* time.Date: the first day of a month, counted through the years.
FirstOf(month) ==
  LET y == month \div 12
      m == month % 12
  IN 365 * y + Leaps(y) + DaysBefore[m + 1] + (IF m >= 2 /\ IsLeap(y) THEN 1 ELSE 0)

DayOf(date) == FirstOf(date.month) + date.day - 1

ASSUME BirthsAssumption ==
  \A b \in Births :
    /\ b = [month |-> b.month, day |-> b.day]
    /\ b.month \in Nat
    /\ b.day \in 1..(FirstOf(b.month + 1) - FirstOf(b.month))

ASSUME MaxAgeAssumption == MaxAge \in Nat

VARIABLES
  birth,    \* the child's birth date
  today     \* the day of the answer, time.Now() without its time

vars == <<birth, today>>

-----------------------------------------------------------------------------
\* The mutants of this module, named <definition>_<what is wrong>, are bugs the
\* code might have had; nothing else uses them.

\* Months of 30 days.
AddDate_MonthsAsDays(date, b) ==
  FirstOf(date.month + 12 * b.years) + 30 * b.months + date.day - 1

\* The months are left out.
AddDate_YearsOnly(date, b) == FirstOf(date.month + 12 * b.years) + date.day - 1

\* birthDate.AddDate(b.years, b.months, 0): the day is kept, and where the
\* month does not have it, it counts on into the next one.
AddDate(date, b) == FirstOf(date.month + 12 * b.years + b.months) + date.day - 1

\* CodeFor's walk: the last boundary before the first one that is after asOf,
\* and the first one of all whatever its date.
Bucket(date, asOf) ==
  LET after == {n \in Grid : AddDate(date, boundaries[n]) > asOf}
  IN IF after = {} THEN Len(boundaries) ELSE Max({1, Min(after) - 1})

CodeFor(date, asOf) == boundaries[Bucket(date, asOf)].code

-----------------------------------------------------------------------------
Init ==
  /\ birth \in Births
  /\ today = DayOf(birth)

NextDay ==
  /\ today < DayOf(birth) + MaxAge
  /\ today' = today + 1
  /\ UNCHANGED birth

Next == NextDay

Spec == Init /\ [][Next]_vars

-----------------------------------------------------------------------------
(* Properties                                                              *)

\* Every answer carries a code the catalog's filter accepts (IsValid is what
\* GET /api/catalog asks).
TypeOK ==
  /\ birth \in Births
  /\ today \in DayOf(birth)..(DayOf(birth) + MaxAge)
  /\ IsValid(CodeFor(birth, today))

\* "The implicit upper bound of any bucket is simply the next boundary's
\* date": no bucket is empty for any child, and none comes back.  From a day to
\* the next a child stays in its bucket or enters the one after.
NoBucketSkipped ==
  [][Bucket(birth, today') \in {Bucket(birth, today), Bucket(birth, today) + 1}]_vars

\* The day a boundary falls on by the calendar: the day of birth in its month,
\* or the first day of the month after where the month does not have it.
Due(date, b) ==
  LET month == date.month + 12 * b.years + b.months
  IN Min({FirstOf(month) + date.day - 1, FirstOf(month + 1)})

\* The bucket by the calendar.
BucketDue(date, asOf) ==
  LET due == {n \in Grid : Due(date, boundaries[n]) <= asOf}
  IN IF due = {} THEN 1 ELSE Max(due)

\* A bucket is never entered early, and at most two days late.
AtMostTwoDaysLate ==
  /\ Bucket(birth, today) <= BucketDue(birth, today)
  /\ BucketDue(birth, today - 2) <= Bucket(birth, today)
=============================================================================
