--------------------------- MODULE CalendarProofs ---------------------------
(***************************************************************************)
(* The two calendars of the code are inverse to each other, and a month is *)
(* as long as it should be, in every year.  The argument splits a day into *)
(* an era of 400 years, a century b of it, a cycle q of four years in the  *)
(* century, a year i of the cycle and a day r of that year, which starts   *)
(* in March so that a leap day comes last.                                 *)
(***************************************************************************)
EXTENDS Calendar, TLAPS

Dates ==
  {d \in [year : Nat \ {0}, month : 1..12, day : 1..31] : d.day <= DaysInMonth(d.year, d.month)}

\* The year that starts in March, and the number of the month in it.
MarchYear(y, m) == y - (IF m <= 2 THEN 1 ELSE 0)
MarchMonth(m) == m + (IF m > 2 THEN -3 ELSE 9)
DayOfMarchYear(m, d) == (153 * MarchMonth(m) + 2) \div 5 + d - 1

\* Days of the years before the March year n.
DaysBefore(n) == 365 * n + n \div 4 - n \div 100 + n \div 400

\* A date, and the parts of a year n and of a day e of an era.
IsDate(y, m, d) ==
  /\ y \in Nat \ {0}
  /\ m \in Int /\ 1 <= m /\ m <= 12
  /\ d \in Int /\ 1 <= d /\ d <= DaysInMonth(y, m)

YearIn(b, q, i) == 100 * b + 4 * q + i

InEra(b, q, i) ==
  /\ b \in Int /\ 0 <= b /\ b <= 3
  /\ q \in Int /\ 0 <= q /\ q <= 24
  /\ i \in Int /\ 0 <= i /\ i <= 3

IsYear(n, a, b, q, i) ==
  /\ InEra(b, q, i)
  /\ a \in Int /\ 0 <= a
  /\ n = 400 * a + YearIn(b, q, i)

\* The years that end with a leap day.
EndsWithLeapDay(b, q, i) == i = 3 /\ (q <= 23 \/ b = 3)

IsDay(e, b, q, i, r) ==
  /\ InEra(b, q, i)
  /\ r \in Int /\ 0 <= r /\ r <= 365
  /\ r = 365 => EndsWithLeapDay(b, q, i)
  /\ e = 36524 * b + 1461 * q + (365 * i + r)

-----------------------------------------------------------------------------
(* The day of the year.                                                    *)

\* A date lies within its March year, and is its 366th day only on a leap day.
LEMMA DayOfYearRange ==
  ASSUME NEW y \in Nat, NEW m \in Int, 1 <= m, m <= 12,
         NEW d \in Int, 1 <= d, d <= DaysInMonth(y, m)
  PROVE  /\ DayOfMarchYear(m, d) \in Int
         /\ 0 <= DayOfMarchYear(m, d)
         /\ DayOfMarchYear(m, d) <= 365
         /\ DayOfMarchYear(m, d) = 365 => m = 2 /\ IsLeapYear(y)
<1>1. m = 1 \/ m = 2 \/ m = 3 \/ m = 4 \/ m = 5 \/ m = 6 \/ m = 7 \/ m = 8 \/ m = 9 \/ m = 10
        \/ m = 11 \/ m = 12
  OBVIOUS
<1> QED BY <1>1, SMTT(60) DEF DayOfMarchYear, MarchMonth, DaysInMonth

\* civil_from_days finds the month of a day of the year: every length of a
\* month but the last is in (153 * m + 2) / 5.
LEMMA MonthOfDay ==
  ASSUME NEW y \in Nat, NEW m \in Int, 1 <= m, m <= 12,
         NEW d \in Int, 1 <= d, d <= DaysInMonth(y, m)
  PROVE  (5 * DayOfMarchYear(m, d) + 2) \div 153 = MarchMonth(m)
<1>1. m = 1 \/ m = 2 \/ m = 3 \/ m = 4 \/ m = 5 \/ m = 6 \/ m = 7 \/ m = 8 \/ m = 9 \/ m = 10
        \/ m = 11 \/ m = 12
  OBVIOUS
<1> QED BY <1>1, SMTT(60) DEF DayOfMarchYear, MarchMonth, DaysInMonth

-----------------------------------------------------------------------------
(* The year of the era.                                                    *)

LEMMA CycleOfDay ==
  ASSUME NEW b \in Int, 0 <= b, b <= 3, NEW q \in Int, 0 <= q, q <= 24,
         NEW w \in Int, 0 <= w, w <= 1460, w = 1460 => q <= 23
  PROVE  LET e == 36524 * b + 1461 * q + w
             x == IF 24 * b + q + w >= 1460 THEN 1 ELSE 0
         IN  /\ e \div 1460 = 25 * b + q + x
             /\ e \div 36524 = b
             /\ e \div 146096 = 0
             /\ x = 1 => w >= 1364
<1>1. (36524 * b + 1461 * q + w) \div 1460 = 25 * b + q + (24 * b + q + w) \div 1460
  OBVIOUS
<1>2. (24 * b + q + w) \div 1460 = IF 24 * b + q + w >= 1460 THEN 1 ELSE 0
  OBVIOUS
<1>3. 0 <= 1461 * q + w /\ 1461 * q + w <= 36523
  OBVIOUS
<1>4. \A t \in Int : 0 <= t /\ t <= 36523 => (36524 * b + t) \div 36524 = b
  OBVIOUS
<1>5. \A t \in Int : 0 <= t /\ t <= 36523 => (36524 * b + t) \div 146096 = 0
  OBVIOUS
<1> QED BY <1>1, <1>2, <1>3, <1>4, <1>5

\* The year of a day, but for the last day of the era.
LEMMA YearOfOtherDay ==
  ASSUME NEW e, NEW b, NEW q, NEW i, NEW r, IsDay(e, b, q, i, r), ~(r = 365 /\ q = 24)
  PROVE  YearOfEra(e) = YearIn(b, q, i)
<1> USE DEF IsDay, InEra, YearIn, EndsWithLeapDay
<1>1. PICK w \in Int : w = 365 * i + r
  OBVIOUS
<1>2. 0 <= w /\ w <= 1460 /\ (w = 1460 => q <= 23)
  BY <1>1
<1>3. PICK x \in Int : x = IF 24 * b + q + w >= 1460 THEN 1 ELSE 0
  OBVIOUS
<1>4. e \in Int /\ e = 36524 * b + 1461 * q + w
  BY <1>1
<1>5. /\ e \div 1460 = 25 * b + q + x
      /\ e \div 36524 = b
      /\ e \div 146096 = 0
      /\ x = 1 => w >= 1364
  BY <1>2, <1>3, <1>4, CycleOfDay
<1>6. 365 * i <= w - x /\ w - x <= 365 * i + 364
  BY <1>1, <1>2, <1>3, <1>5
<1>7. e - e \div 1460 + e \div 36524 - e \div 146096 = 365 * (100 * b + 4 * q + i) + (w - x - 365 * i)
  BY <1>4, <1>5
<1>8. \A k, s \in Int : 0 <= s /\ s <= 364 => (365 * k + s) \div 365 = k
  OBVIOUS
<1>9. (365 * (100 * b + 4 * q + i) + (w - x - 365 * i)) \div 365 = 100 * b + 4 * q + i
  BY <1>6, <1>8
<1> QED BY <1>1, <1>4, <1>7, <1>9 DEF YearOfEra

\* civil_from_days finds the year of a day of the era: the term of 146_096 is
\* for its last day.
LEMMA YearOfDay ==
  ASSUME NEW e, NEW b, NEW q, NEW i, NEW r, IsDay(e, b, q, i, r)
  PROVE  YearOfEra(e) = YearIn(b, q, i)
<1>1. CASE r = 365 /\ q = 24
  <2>1. e = 146096 /\ YearIn(b, q, i) = 399
    BY <1>1 DEF IsDay, InEra, YearIn, EndsWithLeapDay
  <2>2. YearOfEra(146096) = 399
    BY DEF YearOfEra
  <2> QED BY <2>1, <2>2
<1>2. CASE ~(r = 365 /\ q = 24)
  BY <1>2, YearOfOtherDay
<1> QED BY <1>1, <1>2

LEMMA DayInEra ==
  ASSUME NEW e, NEW b, NEW q, NEW i, NEW r, IsDay(e, b, q, i, r)
  PROVE  e \in Int /\ 0 <= e /\ e <= 146096
BY DEF IsDay, InEra

\* Every year has its parts.
LEMMA YearParts ==
  ASSUME NEW n \in Nat
  PROVE  \E a, b, q, i \in Int : IsYear(n, a, b, q, i)
<1>1. PICK a, u \in Int : 0 <= a /\ 0 <= u /\ u <= 399 /\ n = 400 * a + u
  <2>1. 0 <= n \div 400 /\ 0 <= n - 400 * (n \div 400) /\ n - 400 * (n \div 400) <= 399
    OBVIOUS
  <2> QED BY <2>1
<1>2. PICK b, v \in Int : 0 <= b /\ b <= 3 /\ 0 <= v /\ v <= 99 /\ u = 100 * b + v
  <2>1. /\ 0 <= u \div 100 /\ u \div 100 <= 3
        /\ 0 <= u - 100 * (u \div 100) /\ u - 100 * (u \div 100) <= 99
    BY <1>1
  <2> QED BY <1>1, <2>1
<1>3. PICK q, i \in Int : 0 <= q /\ q <= 24 /\ 0 <= i /\ i <= 3 /\ v = 4 * q + i
  <2>1. /\ 0 <= v \div 4 /\ v \div 4 <= 24
        /\ 0 <= v - 4 * (v \div 4) /\ v - 4 * (v \div 4) <= 3
    BY <1>2
  <2> QED BY <1>2, <2>1
<1>4. IsYear(n, a, b, q, i)
  BY <1>1, <1>2, <1>3 DEF IsYear, InEra, YearIn
<1> QED BY <1>4

-----------------------------------------------------------------------------
(* days_from_civil.                                                        *)

\* The leap years of an era.
LEMMA YearDivided ==
  ASSUME NEW b, NEW q, NEW i, InEra(b, q, i)
  PROVE  /\ YearIn(b, q, i) \in Int
         /\ YearIn(b, q, i) \div 4 = 25 * b + q
         /\ YearIn(b, q, i) \div 100 = b
         /\ 0 <= YearIn(b, q, i) /\ YearIn(b, q, i) <= 399
<1> USE DEF InEra
<1>1. PICK v \in Int : v = 4 * q + i /\ 0 <= v /\ v <= 99
  OBVIOUS
<1>2. YearIn(b, q, i) = 100 * b + v
  BY <1>1 DEF YearIn
<1> QED BY <1>1, <1>2

LEMMA EraOfYear ==
  ASSUME NEW n, NEW a, NEW b, NEW q, NEW i, IsYear(n, a, b, q, i)
  PROVE  n \div 400 = a
BY YearDivided DEF IsYear

\* The days before a year, as the code counts them.
LEMMA EraDays ==
  ASSUME NEW n, NEW a, NEW b, NEW q, NEW i, IsYear(n, a, b, q, i)
  PROVE  DaysBefore(n) = a * 146097 + (36524 * b + 1461 * q + 365 * i)
<1>1. n \div 400 = a
  BY EraOfYear
<1> USE DEF IsYear, InEra
<1>2. PICK v \in Int : v = 4 * q + i /\ 0 <= v /\ v <= 99
  OBVIOUS
<1>3. n = 400 * a + 100 * b + v
  BY <1>2 DEF YearIn
<1>4. n \div 100 = 4 * a + b
  BY <1>2, <1>3
<1>5. n \div 4 = 100 * a + 25 * b + q
  BY <1>2, <1>3
<1> QED BY <1>1, <1>2, <1>3, <1>4, <1>5 DEF DaysBefore

LEMMA DaysOfDate ==
  ASSUME NEW y \in Nat \ {0}, NEW m \in Int, 1 <= m, m <= 12, NEW d \in Int
  PROVE  /\ MarchYear(y, m) \in Nat
         /\ DaysBefore(MarchYear(y, m)) \in Int
         /\ DaysFromCivil(y, m, d) = DaysBefore(MarchYear(y, m)) + DayOfMarchYear(m, d) - 719468
<1>1. PICK n \in Nat : n = MarchYear(y, m)
  BY DEF MarchYear
<1>2. PICK a, b, q, i \in Int : IsYear(n, a, b, q, i)
  BY YearParts
<1>3. PICK u \in Int : u = YearIn(b, q, i) /\ u \div 4 = 25 * b + q /\ u \div 100 = b
  BY <1>2, YearDivided DEF IsYear
<1>4. Quotient(n, 400) = a
  BY <1>2, EraOfYear DEF Quotient
<1>5. n - a * 400 = u
  BY <1>2, <1>3 DEF IsYear
<1>6. DaysBefore(n) = a * 146097 + (36524 * b + 1461 * q + 365 * i)
  BY <1>2, EraDays
<1>7. a * 146097 + u * 365 + u \div 4 - u \div 100 = DaysBefore(n)
  BY <1>3, <1>6 DEF YearIn
<1>8. DaysFromCivil(y, m, d) = a * 146097 + u * 365 + u \div 4 - u \div 100 + DayOfMarchYear(m, d) - 719468
  BY <1>1, <1>4, <1>5 DEF DaysFromCivil, MarchYear, DayOfMarchYear, MarchMonth
<1> QED BY <1>1, <1>6, <1>7, <1>8

\* A year has 366 days if the February that it ends with has 29, and else 365.
LEMMA YearLength ==
  ASSUME NEW n \in Nat
  PROVE  DaysBefore(n + 1) = DaysBefore(n) + (IF IsLeapYear(n + 1) THEN 366 ELSE 365)
BY SMTT(60) DEF DaysBefore, IsLeapYear

\* The month after a month.
NextYear(y, m) == IF m = 12 THEN y + 1 ELSE y
NextMonth(m) == IF m = 12 THEN 1 ELSE m + 1

\* The first days of two months in a row are as far apart as the first is long.
LEMMA MonthLength ==
  ASSUME NEW y \in Nat \ {0}, NEW m \in Int, 1 <= m, m <= 12
  PROVE  DaysFromCivil(NextYear(y, m), NextMonth(m), 1) = DaysFromCivil(y, m, 1) + DaysInMonth(y, m)
<1>1. /\ DaysFromCivil(y, m, 1) = DaysBefore(MarchYear(y, m)) + DayOfMarchYear(m, 1) - 719468
      /\ DaysBefore(MarchYear(y, m)) \in Int
  BY DaysOfDate
<1>2. PICK y2 \in Nat \ {0} : y2 = NextYear(y, m)
  BY DEF NextYear
<1>3. PICK m2 \in Int : m2 = NextMonth(m) /\ 1 <= m2 /\ m2 <= 12
  BY DEF NextMonth
<1>4. DaysFromCivil(y2, m2, 1) = DaysBefore(MarchYear(y2, m2)) + DayOfMarchYear(m2, 1) - 719468
  BY <1>3, DaysOfDate
<1>5. CASE m = 2
  <2>1. DaysBefore(y) = DaysBefore(y - 1) + (IF IsLeapYear(y) THEN 366 ELSE 365)
    <3>1. PICK n \in Nat : y = n + 1 /\ n = y - 1
      OBVIOUS
    <3> QED BY <3>1, YearLength
  <2>2. MarchYear(y, m) = y - 1 /\ MarchYear(y2, m2) = y /\ m2 = 3
    BY <1>2, <1>3, <1>5 DEF MarchYear, NextYear, NextMonth
  <2>3. DayOfMarchYear(m, 1) = 337 /\ DayOfMarchYear(3, 1) = 0
    BY <1>5 DEF DayOfMarchYear, MarchMonth
  <2>4. DaysInMonth(y, m) = IF IsLeapYear(y) THEN 29 ELSE 28
    BY <1>5 DEF DaysInMonth
  <2>5. DaysBefore(y - 1) \in Int
    BY DEF DaysBefore
  <2>6. CASE IsLeapYear(y)
    BY <1>1, <1>2, <1>3, <1>4, <2>1, <2>2, <2>3, <2>4, <2>5, <2>6
  <2>7. CASE ~IsLeapYear(y)
    BY <1>1, <1>2, <1>3, <1>4, <2>1, <2>2, <2>3, <2>4, <2>5, <2>7
  <2> QED BY <2>6, <2>7
<1>6. CASE m # 2
  <2>1. MarchYear(y2, m2) = MarchYear(y, m)
    BY <1>2, <1>3, <1>6 DEF MarchYear, NextYear, NextMonth
  <2>2. DayOfMarchYear(m2, 1) = DayOfMarchYear(m, 1) + DaysInMonth(y, m)
    <3>1. m = 1 \/ m = 3 \/ m = 4 \/ m = 5 \/ m = 6 \/ m = 7 \/ m = 8 \/ m = 9 \/ m = 10
            \/ m = 11 \/ m = 12
      BY <1>6
    <3> QED BY <1>3, <3>1, SMTT(60) DEF NextMonth, DayOfMarchYear, MarchMonth, DaysInMonth
  <2>3. DaysInMonth(y, m) \in Int /\ DayOfMarchYear(m, 1) \in Int
    BY <1>6 DEF DaysInMonth, DayOfMarchYear, MarchMonth
  <2> QED BY <1>1, <1>2, <1>3, <1>4, <2>1, <2>2, <2>3
<1> QED BY <1>5, <1>6

\* A day later is a day more.
LEMMA DayAfter ==
  ASSUME NEW y \in Nat \ {0}, NEW m \in Int, 1 <= m, m <= 12, NEW d \in Int
  PROVE  /\ DaysFromCivil(y, m, d) \in Int
         /\ DaysFromCivil(y, m, d) = DaysFromCivil(y, m, 1) + (d - 1)
<1>1. /\ DaysFromCivil(y, m, d) = DaysBefore(MarchYear(y, m)) + DayOfMarchYear(m, d) - 719468
      /\ DaysBefore(MarchYear(y, m)) \in Int
  BY DaysOfDate
<1>2. DaysFromCivil(y, m, 1) = DaysBefore(MarchYear(y, m)) + DayOfMarchYear(m, 1) - 719468
  BY DaysOfDate
<1>3. DayOfMarchYear(m, d) = DayOfMarchYear(m, 1) + (d - 1) /\ DayOfMarchYear(m, 1) \in Int
  BY DEF DayOfMarchYear, MarchMonth
<1> QED BY <1>1, <1>2, <1>3

-----------------------------------------------------------------------------
(* civil_from_days.                                                        *)

\* A leap day is the last day of the fourth year of a cycle, and never the
\* last day of a century but of the fourth.
LEMMA LeapDay ==
  ASSUME NEW y \in Nat, NEW n, y = n + 1, IsLeapYear(y),
         NEW a, NEW b, NEW q, NEW i, IsYear(n, a, b, q, i)
  PROVE  EndsWithLeapDay(b, q, i)
<1> USE DEF IsYear, InEra, YearIn, EndsWithLeapDay
<1>1. y % 4 = 0 /\ (y % 100 # 0 \/ y % 400 = 0)
  BY DEF IsLeapYear
<1>2. i = 3
  BY <1>1
<1>3. CASE q = 24
  <2>1. y = 100 * (4 * a + b + 1)
    BY <1>2, <1>3
  <2>2. y % 400 = 0
    BY <1>1, <2>1
  <2>3. PICK t \in Int : y = 400 * t
    <3>1. y = 400 * (y \div 400) /\ y \div 400 \in Int
      BY <2>2
    <3> QED BY <3>1
  <2>4. b = 3
    BY <2>1, <2>3
  <2> QED BY <1>2, <2>4
<1> QED BY <1>2, <1>3

\* The year, the month and the day that civil_from_days computes are those
\* that days_from_civil was given.
THEOREM CivilFromDaysInverts ==
  ASSUME NEW y, NEW m, NEW d, IsDate(y, m, d)
  PROVE  CivilFromDays(DaysFromCivil(y, m, d)) = Date(y, m, d)
<1>0. /\ y \in Nat \ {0}
      /\ m \in Int /\ 1 <= m /\ m <= 12
      /\ d \in Int /\ 1 <= d /\ d <= DaysInMonth(y, m)
  BY DEF IsDate
<1>1. PICK n \in Nat : n = MarchYear(y, m)
  BY <1>0, DaysOfDate
<1>2. PICK a, b, q, i \in Int : IsYear(n, a, b, q, i)
  BY YearParts
<1>3. PICK r \in Int : r = DayOfMarchYear(m, d) /\ 0 <= r /\ r <= 365 /\ (r = 365 => m = 2 /\ IsLeapYear(y))
  BY <1>0, DayOfYearRange
<1>4. r = 365 => EndsWithLeapDay(b, q, i)
  <2>1. SUFFICES ASSUME r = 365 PROVE EndsWithLeapDay(b, q, i)
    OBVIOUS
  <2>2. y = n + 1 /\ IsLeapYear(y)
    BY <1>0, <1>1, <1>3, <2>1 DEF MarchYear
  <2> QED BY <1>0, <1>2, <2>2, LeapDay
<1>5. PICK e \in Int : e = 36524 * b + 1461 * q + (365 * i + r)
  OBVIOUS
<1>6. IsDay(e, b, q, i, r)
  BY <1>2, <1>3, <1>4, <1>5 DEF IsDay, IsYear
<1>7. PICK u \in Int : u = YearIn(b, q, i) /\ u \div 4 = 25 * b + q /\ u \div 100 = b
  BY <1>2, YearDivided DEF IsYear
<1>8. YearOfEra(e) = u
  BY <1>6, <1>7, YearOfDay
<1>9. PICK z \in Int : z = DaysFromCivil(y, m, d) + 719468 /\ z = a * 146097 + e
  <2>1. DaysBefore(n) = a * 146097 + (36524 * b + 1461 * q + 365 * i)
    BY <1>2, EraDays
  <2>2. DaysFromCivil(y, m, d) = DaysBefore(n) + r - 719468
    BY <1>0, <1>1, <1>3, DaysOfDate
  <2> QED BY <1>5, <2>1, <2>2
<1>10. EraOfDay(z) = a
  <2>1. 0 <= e /\ e <= 146096 /\ 0 <= a
    BY <1>2, <1>6, DayInEra DEF IsYear
  <2>2. z >= 0 /\ z \div 146097 = a
    BY <1>9, <2>1
  <2> QED BY <2>2 DEF EraOfDay, Quotient
<1>11. z - a * 146097 = e
  BY <1>9
<1>12. e - (365 * u + u \div 4 - u \div 100) = r
  BY <1>5, <1>7 DEF YearIn
<1>13. (5 * r + 2) \div 153 = MarchMonth(m)
  BY <1>0, <1>3, MonthOfDay
<1>14. DateOfMonth(u + a * 400, r, MarchMonth(m)) = Date(y, m, d)
  <2>1. MarchMonth(m) + (IF MarchMonth(m) < 10 THEN 3 ELSE -9) = m
    BY <1>0 DEF MarchMonth
  <2>2. r - (153 * MarchMonth(m) + 2) \div 5 + 1 = d
    BY <1>0, <1>3 DEF DayOfMarchYear, MarchMonth
  <2>3. u + a * 400 + (IF m <= 2 THEN 1 ELSE 0) = y
    BY <1>0, <1>1, <1>2, <1>7 DEF MarchYear, IsYear
  <2> QED BY <2>1, <2>2, <2>3 DEF DateOfMonth
<1>15. DateOfYear(u + a * 400, r) = Date(y, m, d)
  BY <1>13, <1>14, Zenon DEF DateOfYear
<1>16. DateOfEra(a, e) = Date(y, m, d)
  BY <1>8, <1>12, <1>15 DEF DateOfEra
<1> QED BY <1>9, <1>10, <1>11, <1>16 DEF CivilFromDays

=============================================================================
