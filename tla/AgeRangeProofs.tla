--------------------------- MODULE AgeRangeProofs ---------------------------
(***************************************************************************)
(* Proofs about AgeRange, for every birth date from the year 0 on.         *)
(***************************************************************************)
EXTENDS AgeRange, TLAPS

-----------------------------------------------------------------------------
(* The calendar                                                            *)

\* Leaps counts one more year for each leap year.
LEMMA LeapsStep ==
  ASSUME NEW y \in Nat
  PROVE  /\ Leaps(y) \in Int
         /\ Leaps(y + 1) = Leaps(y) + (IF IsLeap(y) THEN 1 ELSE 0)
<1>1. (y + 4) \div 4 = (y + 3) \div 4 + (IF y % 4 = 0 THEN 1 ELSE 0)
  OBVIOUS
<1>2. (y + 100) \div 100 = (y + 99) \div 100 + (IF y % 100 = 0 THEN 1 ELSE 0)
  OBVIOUS
<1>3. (y + 400) \div 400 = (y + 399) \div 400 + (IF y % 400 = 0 THEN 1 ELSE 0)
  OBVIOUS
<1>4. (y % 400 = 0 => y % 100 = 0) /\ (y % 100 = 0 => y % 4 = 0)
  OBVIOUS
<1> QED
  BY <1>1, <1>2, <1>3, <1>4 DEF Leaps, IsLeap

\* A month has 28 to 31 days.
LEMMA MonthLength ==
  ASSUME NEW month \in Nat
  PROVE  FirstOf(month) \in Int /\ FirstOf(month + 1) - FirstOf(month) \in 28..31
<1> DEFINE y == month \div 12
           m == month % 12
           leap(x) == IF IsLeap(x) THEN 1 ELSE 0
           length == IF m = 1 THEN 28 ELSE IF m \in {3, 5, 8, 10} THEN 30 ELSE 31
<1>1. y \in Nat /\ m \in 0..11
  OBVIOUS
<1>2. FirstOf(month) =
        365 * y + Leaps(y) + DaysBefore[m + 1] + (IF m >= 2 /\ IsLeap(y) THEN 1 ELSE 0)
  BY DEF FirstOf
<1>3. Leaps(y) \in Int /\ Leaps(y + 1) = Leaps(y) + leap(y)
  BY <1>1, LeapsStep
<1>4. DaysBefore[m + 1] \in Int
  BY <1>1 DEF DaysBefore
<1>5. CASE m < 11
  <2>1. (month + 1) \div 12 = y /\ (month + 1) % 12 = m + 1
    BY <1>5
  <2>2. FirstOf(month + 1) =
          365 * y + Leaps(y) + DaysBefore[m + 2] + (IF m + 1 >= 2 /\ IsLeap(y) THEN 1 ELSE 0)
    <3>1. (m + 1) + 1 = m + 2
      BY <1>1
    <3> HIDE DEF y, m
    <3> QED
      BY <2>1, <3>1 DEF FirstOf
  <2>3. DaysBefore[m + 2] = DaysBefore[m + 1] + length
    BY <1>1, <1>5 DEF DaysBefore
  <2>4. length \in {28, 30, 31} /\ (length = 28 <=> m = 1)
    OBVIOUS
  <2> HIDE DEF y, m, length
  <2> QED
    BY <1>1, <1>2, <1>3, <1>4, <1>5, <2>2, <2>3, <2>4
<1>6. CASE m = 11
  <2>1. (month + 1) \div 12 = y + 1 /\ (month + 1) % 12 = 0
    BY <1>6
  <2>2. FirstOf(month + 1) = 365 * (y + 1) + Leaps(y + 1) + DaysBefore[1]
    <3> HIDE DEF y, m
    <3> QED
      BY <1>1, <1>3, <2>1 DEF FirstOf, DaysBefore
  <2>3. DaysBefore[1] = 0 /\ DaysBefore[m + 1] = 334
    BY <1>6 DEF DaysBefore
  <2> HIDE DEF y, m
  <2> QED
    BY <1>1, <1>2, <1>3, <1>6, <2>2, <2>3
<1> QED
  BY <1>1, <1>5, <1>6

\* Months follow each other, up to a year apart.
LEMMA LaterMonth ==
  ASSUME NEW month \in Nat, NEW k \in 1..12
  PROVE  FirstOf(month) < FirstOf(month + k)
<1> DEFINE F(n) == FirstOf(month + n)
<1>1. \A n \in 0..12 : F(n) \in Int /\ F(n + 1) > F(n)
  <2> SUFFICES ASSUME NEW n \in 0..12
               PROVE  F(n) \in Int /\ F(n + 1) > F(n)
    OBVIOUS
  <2>1. month + n \in Nat /\ (month + n) + 1 = month + (n + 1) /\ FirstOf(month + (n + 1)) \in Int
    BY MonthLength
  <2> QED
    BY <2>1, MonthLength
<1>2. F(0) = FirstOf(month)
  OBVIOUS
<1> HIDE DEF F
<1>3. /\ F(0) < F(1) /\ F(0) < F(2) /\ F(0) < F(3) /\ F(0) < F(4)
  BY <1>1
<1>4. /\ F(0) < F(5) /\ F(0) < F(6) /\ F(0) < F(7) /\ F(0) < F(8)
  BY <1>1, <1>3
<1>5. /\ F(0) < F(9) /\ F(0) < F(10) /\ F(0) < F(11) /\ F(0) < F(12)
  BY <1>1, <1>4
<1>6. F(0) < F(k)
  BY <1>3, <1>4, <1>5
<1> QED
  BY <1>2, <1>6 DEF F

-----------------------------------------------------------------------------
(* The grid                                                                *)

\* The grid has 23 boundaries, 1 to 12 months apart.
LEMMA GridFacts ==
  /\ Grid = 1..23 /\ Len(boundaries) = 23
  /\ \A n \in 1..23 : boundaries[n].years \in Nat /\ boundaries[n].months \in Nat
  /\ \A n \in 1..22 :
       (12 * boundaries[n + 1].years + boundaries[n + 1].months)
         - (12 * boundaries[n].years + boundaries[n].months) \in 1..12
  /\ boundaries[1].years = 0 /\ boundaries[1].months = 0
<1>1. Grid = 1..23 /\ Len(boundaries) = 23
  BY DEF Grid, boundaries
<1>2. \A n \in 1..23 : boundaries[n].years \in Nat /\ boundaries[n].months \in Nat
  BY DEF boundaries, Boundary
<1>3. \A n \in 1..22 :
        (12 * boundaries[n + 1].years + boundaries[n + 1].months)
          - (12 * boundaries[n].years + boundaries[n].months) \in 1..12
  BY DEF boundaries, Boundary
<1>4. boundaries[1].years = 0 /\ boundaries[1].months = 0
  BY DEF boundaries, Boundary
<1> QED
  BY <1>1, <1>2, <1>3, <1>4

\* What holds of the first boundary and, with one, of the next holds of all.
LEMMA GridInduction ==
  ASSUME NEW S, 1 \in S, \A k \in 1..22 : k \in S => k + 1 \in S
  PROVE  \A k \in 1..23 : k \in S
<1>1. 2 \in S /\ 3 \in S /\ 4 \in S /\ 5 \in S /\ 6 \in S /\ 7 \in S /\ 8 \in S
  OBVIOUS
<1>2. 9 \in S /\ 10 \in S /\ 11 \in S /\ 12 \in S /\ 13 \in S /\ 14 \in S /\ 15 \in S
  BY <1>1
<1>3. /\ 16 \in S /\ 17 \in S /\ 18 \in S /\ 19 \in S /\ 20 \in S /\ 21 \in S
      /\ 22 \in S /\ 23 \in S
  BY <1>2
<1> QED
  BY <1>1, <1>2, <1>3

\* A set of boundaries that is not empty has a first and a last one.
LEMMA FirstAndLast ==
  ASSUME NEW T \in SUBSET (1..23), T # {}
  PROVE  /\ Min(T) \in T /\ \A n \in T : Min(T) <= n
         /\ Max(T) \in T /\ \A n \in T : n <= Max(T)
<1> DEFINE HasMin == \E x \in T : \A y \in T : x <= y
           HasMax == \E x \in T : \A y \in T : x >= y
           Low == {k \in 1..23 : (\E x \in T : x <= k) => HasMin}
           High == {k \in 1..23 : (\E x \in T : x >= 24 - k) => HasMax}
<1>1. 1 \in Low /\ 1 \in High
  OBVIOUS
<1>2. ASSUME NEW k \in 1..22, k \in Low
      PROVE  k + 1 \in Low
  <2>1. SUFFICES ASSUME NEW x \in T, x <= k + 1, ~(\E z \in T : z <= k)
                 PROVE  HasMin
    BY <1>2
  <2>2. \A z \in T : z >= k + 1
    BY <2>1
  <2>3. x = k + 1
    BY <2>1, <2>2
  <2> QED
    BY <2>2, <2>3
<1>3. ASSUME NEW k \in 1..22, k \in High
      PROVE  k + 1 \in High
  <2>1. SUFFICES ASSUME NEW x \in T, x >= 24 - (k + 1), ~(\E z \in T : z >= 24 - k)
                 PROVE  HasMax
    BY <1>3
  <2>2. \A z \in T : z <= 24 - (k + 1)
    BY <2>1
  <2>3. x = 24 - (k + 1)
    BY <2>1, <2>2
  <2> QED
    BY <2>2, <2>3
<1>4. 23 \in Low /\ 23 \in High
  <2> HIDE DEF Low, High
  <2>1. \A k \in 1..23 : k \in Low
    BY <1>1, <1>2, GridInduction
  <2>2. \A k \in 1..23 : k \in High
    BY <1>1, <1>3, GridInduction
  <2> QED
    BY <2>1, <2>2
<1>5. PICK t \in T : t \in 1..23
  OBVIOUS
<1>6. HasMin
  <2>1. t <= 23
    BY <1>5
  <2> QED
    BY <1>4, <1>5, <2>1
<1>7. HasMax
  <2>1. t >= 24 - 23
    BY <1>5
  <2> QED
    BY <1>4, <1>5, <2>1
<1>8. Min(T) \in T /\ \A n \in T : Min(T) <= n
  BY <1>6, Zenon DEF Min
<1>9. Max(T) \in T /\ \A n \in T : Max(T) >= n
  BY <1>7, Zenon DEF Max
<1>10. \A n \in T : n <= Max(T)
  BY <1>9
<1> QED
  BY <1>8, <1>9, <1>10

-----------------------------------------------------------------------------
(* The buckets                                                             *)

\* The days of the boundaries of one child, and the days they are due.
LEMMA Days ==
  ASSUME NEW date \in Births, NEW n \in 1..23
  PROVE  /\ AddDate(date, boundaries[n]) \in Int
         /\ Due(date, boundaries[n]) \in Int
         /\ Due(date, boundaries[n]) <= AddDate(date, boundaries[n])
         /\ AddDate(date, boundaries[n]) <= Due(date, boundaries[n]) + 2
<1> DEFINE month == date.month + 12 * boundaries[n].years + boundaries[n].months
           a == FirstOf(month) + date.day - 1
           f == FirstOf(month + 1)
<1>1. date.month \in Nat /\ date.day \in 1..(FirstOf(date.month + 1) - FirstOf(date.month))
  BY BirthsAssumption
<1>2. date.day \in 1..31
  <2>1. FirstOf(date.month + 1) - FirstOf(date.month) \in 28..31
    BY <1>1, MonthLength
  <2> QED
    BY <1>1, <2>1
<1>3. month \in Nat
  BY <1>1, GridFacts
<1>4. FirstOf(month) \in Int /\ f - FirstOf(month) \in 28..31 /\ f \in Int
  BY <1>3, MonthLength
<1> HIDE DEF month
<1>5. a \in Int /\ a <= f + 2
  BY <1>2, <1>4
<1>6. Min({a, f}) = IF a <= f THEN a ELSE f
  <2> HIDE DEF a, f
  <2> QED
    BY <1>4, <1>5 DEF Min
<1>7. AddDate(date, boundaries[n]) = a /\ Due(date, boundaries[n]) = Min({a, f})
  BY DEF AddDate, Due, month
<1> HIDE DEF a, f
<1> QED
  BY <1>4, <1>5, <1>6, <1>7

\* No two boundaries of a child fall on the same day, or in another order.
LEMMA Ordered ==
  ASSUME NEW date \in Births
  PROVE  \A n \in 1..22 : AddDate(date, boundaries[n]) < AddDate(date, boundaries[n + 1])
<1> SUFFICES ASSUME NEW n \in 1..22
             PROVE  AddDate(date, boundaries[n]) < AddDate(date, boundaries[n + 1])
  OBVIOUS
<1> DEFINE offset(i) == 12 * boundaries[i].years + boundaries[i].months
           k == offset(n + 1) - offset(n)
           month == date.month + 12 * boundaries[n].years + boundaries[n].months
<1>1. date.month \in Nat /\ date.day \in Int
  <2>1. date.month \in Nat /\ date.day \in 1..(FirstOf(date.month + 1) - FirstOf(date.month))
    BY BirthsAssumption
  <2> QED
    BY <2>1, MonthLength
<1>2. n \in 1..23 /\ n + 1 \in 1..23
  OBVIOUS
<1>3. /\ boundaries[n].years \in Nat /\ boundaries[n].months \in Nat
      /\ boundaries[n + 1].years \in Nat /\ boundaries[n + 1].months \in Nat
  BY <1>2, GridFacts
<1>4. k \in 1..12
  BY GridFacts
<1>5. month \in Nat
  BY <1>1, <1>3
<1>6. date.month + 12 * boundaries[n + 1].years + boundaries[n + 1].months = month + k
  BY <1>1, <1>3
<1> HIDE DEF month, k
<1>7. FirstOf(month) < FirstOf(month + k)
  BY <1>4, <1>5, LaterMonth
<1>8. FirstOf(month) \in Int /\ FirstOf(month + k) \in Int
  BY <1>4, <1>5, MonthLength
<1>9. /\ AddDate(date, boundaries[n]) = FirstOf(month) + date.day - 1
      /\ AddDate(date, boundaries[n + 1]) = FirstOf(month + k) + date.day - 1
  BY <1>6 DEF AddDate, month
<1> QED
  BY <1>1, <1>7, <1>8, <1>9

\* A child that has reached a boundary has reached those before it.
LEMMA EarlierReached ==
  ASSUME NEW date \in Births, NEW n \in 1..23, NEW k \in 1..n
  PROVE  AddDate(date, boundaries[k]) <= AddDate(date, boundaries[n])
<1> DEFINE day(i) == AddDate(date, boundaries[i])
           S == {i \in 1..23 : \A j \in 1..i : day(j) <= day(i)}
<1>1. \A i \in 1..23 : day(i) \in Int
  BY Days
<1>2. \A i \in 1..22 : day(i) < day(i + 1)
  BY Ordered
<1> HIDE DEF day
<1>3. 1 \in S
  BY <1>1
<1>4. ASSUME NEW i \in 1..22, i \in S
      PROVE  i + 1 \in S
  <2> SUFFICES ASSUME NEW j \in 1..(i + 1)
               PROVE  day(j) <= day(i + 1)
    OBVIOUS
  <2>1. j = i + 1 \/ j \in 1..i
    OBVIOUS
  <2>2. day(i) \in Int /\ day(i + 1) \in Int /\ day(j) \in Int
    BY <1>1
  <2> QED
    BY <1>2, <1>4, <2>1, <2>2
<1>5. n \in S
  <2> HIDE DEF S
  <2> QED
    BY <1>3, <1>4, GridInduction
<1>6. day(k) <= day(n)
  BY <1>5
<1> QED
  BY <1>6 DEF day

\* What Bucket is: a boundary of the grid, reached unless it is the first,
\* and the next one is not reached.
LEMMA BucketIs ==
  ASSUME NEW date \in Births, NEW t \in Int
  PROVE  /\ Bucket(date, t) \in 1..23
         /\ Bucket(date, t) = 1 \/ AddDate(date, boundaries[Bucket(date, t)]) <= t
         /\ Bucket(date, t) = 23 \/ AddDate(date, boundaries[Bucket(date, t) + 1]) > t
            \/ AddDate(date, boundaries[1]) > t
<1> DEFINE after == {n \in Grid : AddDate(date, boundaries[n]) > t}
           first == Min(after)
<1>1. Bucket(date, t) = IF after = {} THEN 23 ELSE Max({1, first - 1})
  BY GridFacts DEF Bucket
<1>2. after \in SUBSET (1..23)
  BY GridFacts
<1>3. \A n \in 1..23 : AddDate(date, boundaries[n]) \in Int
  BY Days
<1>4. CASE after = {}
  <2>1. 23 \notin after
    BY <1>4
  <2>2. AddDate(date, boundaries[23]) <= t
    BY <1>3, <2>1, GridFacts
  <2> QED
    BY <1>1, <1>4, <2>2
<1>5. CASE after # {}
  <2>1. first \in after /\ \A n \in after : first <= n
    BY <1>2, <1>5, FirstAndLast
  <2>2. first \in 1..23 /\ AddDate(date, boundaries[first]) > t
    BY <1>2, <2>1
  <2>3. first # 1 => first - 1 \in 1..23 /\ first - 1 \notin after
    BY <2>1, <2>2
  <2>4. first # 1 => AddDate(date, boundaries[first - 1]) <= t
    <3>1. \A n \in 1..23 : n \notin after => ~(AddDate(date, boundaries[n]) > t)
      BY GridFacts
    <3> HIDE DEF first, after
    <3> QED
      BY <1>3, <2>3, <3>1
  <2>5. Bucket(date, t) = IF first = 1 THEN 1 ELSE first - 1
    <3> HIDE DEF first, after
    <3>1. Max({1, first - 1}) = IF first = 1 THEN 1 ELSE first - 1
      BY <2>2 DEF Max
    <3> QED
      BY <1>1, <1>5, <3>1
  <2> HIDE DEF first, after
  <2> QED
    BY <2>2, <2>3, <2>4, <2>5
<1> QED
  BY <1>4, <1>5

-----------------------------------------------------------------------------
(* The properties                                                          *)

\* A child of Births, and a day from its birth to the bound.
Inv == birth \in Births /\ today \in DayOf(birth)..(DayOf(birth) + MaxAge)

\* The days of a birth date are numbers.
LEMMA DayOfInt == \A b \in Births : DayOf(b) \in Int
<1> SUFFICES ASSUME NEW b \in Births PROVE DayOf(b) \in Int
  OBVIOUS
<1>1. b.month \in Nat /\ b.day \in 1..(FirstOf(b.month + 1) - FirstOf(b.month))
  BY BirthsAssumption
<1> QED
  BY <1>1, MonthLength DEF DayOf

\* Inv is an invariant.
LEMMA InvHolds == Spec => []Inv
<1>1. Init => Inv
  BY DayOfInt, MaxAgeAssumption DEF Init, Inv
<1>2. Inv /\ [Next]_vars => Inv'
  <2> SUFFICES ASSUME Inv, [Next]_vars PROVE Inv'
    OBVIOUS
  <2>1. CASE NextDay
    BY <2>1, DayOfInt, MaxAgeAssumption DEF Inv, NextDay
  <2>2. CASE UNCHANGED vars
    BY <2>2 DEF Inv, vars
  <2> QED
    BY <2>1, <2>2 DEF Next
<1> QED
  BY <1>1, <1>2, PTL DEF Spec

\* Every answer of package agerange, for any child of any age, carries one of
\* its codes.
THEOREM TypesHold == Spec => []TypeOK
<1>1. Inv => TypeOK
  <2> SUFFICES ASSUME Inv PROVE IsValid(CodeFor(birth, today))
    BY DEF Inv, TypeOK
  <2>1. birth \in Births /\ today \in Int
    BY DayOfInt DEF Inv
  <2>2. Bucket(birth, today) \in Grid
    BY <2>1, BucketIs, GridFacts
  <2> QED
    BY <2>2 DEF IsValid, CodeFor
<1> QED
  BY <1>1, InvHolds, PTL

\* CodeFor on one day and on the next: no child ever skips a bucket or goes
\* back to one.
THEOREM NoneSkipped == Spec => NoBucketSkipped
<1>1. ASSUME Inv, [Next]_vars
      PROVE  [Bucket(birth, today') \in {Bucket(birth, today), Bucket(birth, today) + 1}]_vars
  <2> SUFFICES ASSUME NextDay
               PROVE  Bucket(birth, today') \in {Bucket(birth, today), Bucket(birth, today) + 1}
    BY <1>1 DEF Next
  <2> DEFINE day(n) == AddDate(birth, boundaries[n])
             b == Bucket(birth, today)
             c == Bucket(birth, today + 1)
  <2>1. birth \in Births /\ today \in Int /\ today' = today + 1 /\ DayOf(birth) <= today
    BY <1>1, DayOfInt DEF Inv, NextDay
  <2>2. day(1) <= today
    <3>1. day(1) = DayOf(birth)
      <4>1. birth.month \in Nat
        BY <2>1, BirthsAssumption
      <4>2. birth.month + 12 * boundaries[1].years + boundaries[1].months = birth.month
        BY <4>1, GridFacts
      <4> QED
        BY <4>2 DEF AddDate, DayOf
    <3> QED
      BY <2>1, <3>1
  <2>3. \A n \in 1..23 : day(n) \in Int
    BY <2>1, Days
  <2>4. \A n \in 1..22 : day(n) < day(n + 1)
    BY <2>1, Ordered
  <2>5. \A n \in 1..23 : \A k \in 1..n : day(k) <= day(n)
    BY <2>1, EarlierReached
  <2>6. /\ b \in 1..23 /\ (b = 1 \/ day(b) <= today)
        /\ b = 23 \/ day(b + 1) > today \/ day(1) > today
    BY <2>1, BucketIs
  <2>7. /\ c \in 1..23 /\ (c = 1 \/ day(c) <= today + 1)
        /\ c = 23 \/ day(c + 1) > today + 1 \/ day(1) > today + 1
    BY <2>1, BucketIs
  <2> HIDE DEF day, b, c
  <2>8. c >= b
    <3> SUFFICES ASSUME c < b PROVE FALSE
      BY <2>6, <2>7
    <3>1. c + 1 \in 1..b /\ c + 1 \in 1..23 /\ day(c + 1) \in Int /\ day(b) \in Int /\ day(1) \in Int
      BY <2>3, <2>6, <2>7
    <3>2. day(c + 1) <= day(b)
      BY <2>5, <2>6, <3>1
    <3> QED
      BY <2>1, <2>2, <2>6, <2>7, <3>1, <3>2
  <2>9. c <= b + 1
    <3> SUFFICES ASSUME c > b + 1 PROVE FALSE
      BY <2>6, <2>7
    <3>1. b + 1 \in 1..22 /\ b + 2 \in 1..c /\ b + 2 \in 1..23 /\ (b + 1) + 1 = b + 2
      BY <2>6, <2>7
    <3>2. /\ day(b + 1) \in Int /\ day(b + 2) \in Int /\ day(c) \in Int /\ day(1) \in Int
          /\ day(b + 1) < day(b + 2) /\ day(b + 2) <= day(c)
      BY <2>3, <2>4, <2>5, <2>7, <3>1
    <3> QED
      BY <2>1, <2>2, <2>6, <2>7, <3>1, <3>2
  <2>10. c = b \/ c = b + 1
    BY <2>6, <2>7, <2>8, <2>9
  <2> QED
    BY <2>1, <2>10 DEF b, c
<1> QED
  BY <1>1, InvHolds, PTL DEF Spec, NoBucketSkipped

\* What CodeFor answers differs from the calendar only where a month lacks the
\* day of birth, and then by at most two days.
THEOREM NeverEarlyHardlyLate == Spec => []AtMostTwoDaysLate
<1>1. ASSUME NEW date \in Births, NEW t \in Int
      PROVE  LET due == {n \in Grid : Due(date, boundaries[n]) <= t}
             IN /\ BucketDue(date, t) \in 1..23
                /\ \A n \in due : n <= BucketDue(date, t)
                /\ BucketDue(date, t) = 1 \/ BucketDue(date, t) \in due
  <2> DEFINE due == {n \in Grid : Due(date, boundaries[n]) <= t}
  <2>1. due \in SUBSET (1..23)
    BY GridFacts
  <2>2. BucketDue(date, t) = IF due = {} THEN 1 ELSE Max(due)
    BY DEF BucketDue
  <2> HIDE DEF due
  <2>3. due # {} => Max(due) \in due /\ \A n \in due : n <= Max(due)
    BY <2>1, FirstAndLast
  <2>4. /\ BucketDue(date, t) \in 1..23
        /\ \A n \in due : n <= BucketDue(date, t)
        /\ BucketDue(date, t) = 1 \/ BucketDue(date, t) \in due
    <3>1. CASE due = {}
      <4>1. BucketDue(date, t) = 1 /\ 1 \in 1..23
        BY <2>2, <3>1
      <4> QED
        BY <3>1, <4>1
    <3>2. CASE due # {}
      <4>1. BucketDue(date, t) = Max(due)
        BY <2>2, <3>2
      <4>2. Max(due) \in due /\ \A n \in due : n <= Max(due)
        BY <2>3, <3>2
      <4>3. BucketDue(date, t) \in due /\ BucketDue(date, t) \in 1..23
        BY <2>1, <4>1, <4>2
      <4> QED
        BY <4>1, <4>2, <4>3
    <3> QED
      BY <3>1, <3>2
  <2> QED
    BY <2>4 DEF due
<1>2. ASSUME NEW date \in Births, NEW t \in Int
      PROVE  Bucket(date, t) <= BucketDue(date, t)
  <2> DEFINE b == Bucket(date, t)
  <2>1. b \in 1..23 /\ (b = 1 \/ AddDate(date, boundaries[b]) <= t)
    BY BucketIs
  <2>2. BucketDue(date, t) \in 1..23
    BY <1>1
  <2>3. CASE AddDate(date, boundaries[b]) <= t
    <3>1. Due(date, boundaries[b]) <= t
      BY <2>1, <2>3, Days
    <3> QED
      BY <1>1, <2>1, <3>1, GridFacts
  <2> QED
    BY <2>1, <2>2, <2>3
<1>3. ASSUME NEW date \in Births, NEW t \in Int
      PROVE  BucketDue(date, t - 2) <= Bucket(date, t)
  <2> DEFINE d == BucketDue(date, t - 2)
             b == Bucket(date, t)
             day(n) == AddDate(date, boundaries[n])
  <2>1. t - 2 \in Int
    OBVIOUS
  <2>2. d \in 1..23 /\ (d = 1 \/ Due(date, boundaries[d]) <= t - 2)
    BY <1>1, <2>1
  <2>3. /\ b \in 1..23
        /\ b = 23 \/ day(b + 1) > t \/ day(1) > t
    BY BucketIs
  <2>4. d = 1 \/ day(d) <= t
    BY <2>2, Days
  <2>5. \A n \in 1..23 : day(n) \in Int /\ \A k \in 1..n : day(k) <= day(n)
    BY Days, EarlierReached
  <2> HIDE DEF d, b, day
  <2>6. SUFFICES ASSUME d > b PROVE FALSE
    BY <2>2, <2>3 DEF d, b
  <2>7. b + 1 \in 1..d /\ 1 \in 1..d /\ b + 1 \in 1..23
    BY <2>2, <2>3, <2>6
  <2>8. day(b + 1) <= day(d) /\ day(1) <= day(d) /\ day(b + 1) \in Int /\ day(1) \in Int
        /\ day(d) \in Int
    BY <2>2, <2>5, <2>7
  <2> QED
    BY <2>2, <2>3, <2>4, <2>6, <2>8
<1>4. Inv => AtMostTwoDaysLate
  <2> SUFFICES ASSUME Inv PROVE AtMostTwoDaysLate
    OBVIOUS
  <2>1. birth \in Births /\ today \in Int
    BY DayOfInt DEF Inv
  <2> QED
    BY <1>2, <1>3, <2>1 DEF AtMostTwoDaysLate
<1> QED
  BY <1>4, InvHolds, PTL
=============================================================================
