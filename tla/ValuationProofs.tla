-------------------------- MODULE ValuationProofs --------------------------
(***************************************************************************)
(* What the calendars, the months, the quotes, the texts of amounts and    *)
(* the rounding of Valuation keep, on every day, for every length of a     *)
(* day, every amount and every answer.                                     *)
(***************************************************************************)
EXTENDS Valuation, CalendarProofs, LeastNumber, SequenceTheorems

-----------------------------------------------------------------------------
(* Days and seconds.                                                       *)

LEMMA Scaled ==
  ASSUME NEW n \in Nat \ {0}, NEW k \in Int, NEW l \in Int, NEW s \in Int, 0 <= s, s < n
  PROVE  k * n <= l * n + s <=> k <= l
<1>1. CASE k <= l
  <2>1. PICK t \in Nat : l = k + t
    BY <1>1
  <2>2. l * n = k * n + t * n /\ t * n >= 0
    BY <2>1
  <2> QED BY <1>1, <2>2
<1>2. CASE l < k
  <2>1. PICK t \in Nat : k = l + 1 + t
    <3>1. k - l - 1 \in Nat
      BY <1>2
    <3> QED BY <3>1
  <2>2. k * n = l * n + n + t * n /\ t * n >= 0
    BY <2>1
  <2> QED BY <1>2, <2>2
<1> QED BY <1>1, <1>2

LEMMA DividedBack ==
  ASSUME NEW n \in Nat \ {0}, NEW k \in Int, NEW s \in Int, 0 <= s, s < n
  PROVE  (k * n + s) \div n = k
<1>1. PICK c \in Int : c = (k * n + s) \div n
  OBVIOUS
<1>2. c * n <= k * n + s /\ k * n + s < c * n + n
  BY <1>1
<1>3. c <= k
  BY <1>2, Scaled
<1>4. ~(c + 1 <= k)
  <2>1. (c + 1) * n = c * n + n
    OBVIOUS
  <2>2. SUFFICES ASSUME c + 1 <= k PROVE FALSE
    OBVIOUS
  <2>3. (c + 1) * n <= k * n + 0
    BY <2>2, Scaled
  <2> QED BY <1>2, <2>1, <2>3
<1> QED BY <1>1, <1>3, <1>4

-----------------------------------------------------------------------------
(* The clock.                                                              *)

\* The days are counted along the dates, from 1970 on.
ClockAt(days, y, m, d) == IsDate(y, m, d) /\ y >= 1970 /\ DaysFromCivil(y, m, d) = days

Clock ==
  /\ today \in Nat
  /\ \E y, m, d : date = Date(y, m, d) /\ ClockAt(today, y, m, d)

\* Midnight leads from a date to the next.
LEMMA MidnightCounts ==
  ASSUME NEW k \in Nat, NEW y, NEW m, NEW d, ClockAt(k, y, m, d)
  PROVE  \E y2, m2, d2 : Tomorrow(Date(y, m, d)) = Date(y2, m2, d2) /\ ClockAt(k + 1, y2, m2, d2)
<1>1. /\ y \in Nat \ {0} /\ y >= 1970
      /\ m \in Int /\ 1 <= m /\ m <= 12
      /\ d \in Int /\ 1 <= d /\ d <= DaysInMonth(y, m)
      /\ DaysFromCivil(y, m, d) = k
  BY DEF ClockAt, IsDate
<1>2. DaysInMonth(y, m) \in Int
  BY <1>1 DEF DaysInMonth
<1>3. DaysFromCivil(y, m, d) = DaysFromCivil(y, m, 1) + (d - 1) /\ DaysFromCivil(y, m, 1) \in Int
  BY <1>1, DayAfter
<1>4. CASE d < DaysInMonth(y, m)
  <2>1. Tomorrow(Date(y, m, d)) = Date(y, m, d + 1)
    BY <1>4 DEF Tomorrow, Date
  <2>2. DaysFromCivil(y, m, d + 1) = DaysFromCivil(y, m, 1) + d
    BY <1>1, DayAfter
  <2>3. ClockAt(k + 1, y, m, d + 1)
    BY <1>1, <1>2, <1>3, <1>4, <2>2 DEF ClockAt, IsDate
  <2> QED BY <2>1, <2>3
<1>5. CASE d = DaysInMonth(y, m)
  <2>1. Tomorrow(Date(y, m, d)) = Date(NextYear(y, m), NextMonth(m), 1)
    BY <1>1, <1>5 DEF Tomorrow, Date, NextYear, NextMonth
  <2>2. DaysFromCivil(NextYear(y, m), NextMonth(m), 1) = DaysFromCivil(y, m, 1) + DaysInMonth(y, m)
    BY <1>1, MonthLength
  <2>3. DaysInMonth(NextYear(y, m), NextMonth(m)) \in Int /\ 1 <= DaysInMonth(NextYear(y, m), NextMonth(m))
    BY <1>1 DEF NextYear, NextMonth, DaysInMonth
  <2>4. NextYear(y, m) \in Nat \ {0} /\ NextYear(y, m) >= 1970 /\ NextMonth(m) \in Int
          /\ 1 <= NextMonth(m) /\ NextMonth(m) <= 12
    BY <1>1 DEF NextYear, NextMonth
  <2>5. ClockAt(k + 1, NextYear(y, m), NextMonth(m), 1)
    BY <1>1, <1>2, <1>3, <1>5, <2>2, <2>3, <2>4 DEF ClockAt, IsDate
  <2> QED BY <2>1, <2>5
<1> QED BY <1>1, <1>2, <1>4, <1>5

LEMMA ClockStarts == Init => Clock
<1>1. DaysFromCivil(1970, 1, 1) = 0
  <2>1. Quotient(1969, 400) = 4
    BY DEF Quotient
  <2> QED BY <2>1 DEF DaysFromCivil
<1>2. ClockAt(0, 1970, 1, 1)
  BY <1>1 DEF ClockAt, IsDate, DaysInMonth
<1> QED BY <1>2 DEF Init, Clock

LEMMA ClockTicks ==
  ASSUME Clock, [Next]_vars
  PROVE  Clock'
<1>1. PICK y, m, d : date = Date(y, m, d) /\ ClockAt(today, y, m, d)
  BY DEF Clock
<1>2. today \in Nat
  BY DEF Clock
<1>3. CASE Midnight
  <2>1. today' = today + 1 /\ date' = Tomorrow(date)
    BY <1>3 DEF Midnight
  <2>2. \E y2, m2, d2 : date' = Date(y2, m2, d2) /\ ClockAt(today', y2, m2, d2)
    BY <1>1, <1>2, <2>1, MidnightCounts
  <2> QED BY <1>2, <2>1, <2>2 DEF Clock
<1>4. CASE UNCHANGED <<today, date>>
  BY <1>4 DEF Clock
<1>5. CASE \E text \in Amounts : Create(text)
  BY <1>4, <1>5 DEF Create
<1>6. CASE \E second \in 0..(DaySeconds - 1) : Settle(second)
  BY <1>4, <1>6 DEF Settle
<1>7. CASE Request
  BY <1>4, <1>7 DEF Request, Conclude
<1>8. CASE TransportFails
  BY <1>4, <1>8 DEF TransportFails, Conclude
<1>9. CASE \E answer \in Answers : Answer(answer)
  BY <1>4, <1>9 DEF Answer, Conclude
<1>10. CASE Forget
  BY <1>4, <1>10 DEF Forget
<1>11. CASE UNCHANGED vars
  BY <1>4, <1>11 DEF vars
<1> QED BY <1>3, <1>5, <1>6, <1>7, <1>8, <1>9, <1>10, <1>11 DEF Next

\* The day of a second, in every year that the evidence can hold.
LEMMA DateOfSecond ==
  ASSUME NEW k \in Nat, NEW y, NEW m, NEW d, ClockAt(k, y, m, d), y <= MaxYear,
         NEW s \in Int, 0 <= s, s < DaySeconds
  PROVE  FromUnixSeconds(k * DaySeconds + s) = Date(y, m, d)
<1>1. DaySeconds \in Nat \ {0} /\ MaxYear \in Nat
  BY CalendarAssumption
<1>2. (k * DaySeconds + s) \div DaySeconds = k
  BY <1>1, DividedBack
<1>3. CivilFromDays(k) = Date(y, m, d)
  BY CivilFromDaysInverts DEF ClockAt
<1>4. k * DaySeconds + s >= 0
  BY <1>1
<1>5. y \in Nat \ {0} /\ m \in 1..12 /\ d \in 1..DaysInMonth(y, m)
  BY DEF ClockAt, IsDate, DaysInMonth
<1>6. ParseDate(Date(y, m, d)) = Date(y, m, d)
  BY <1>5 DEF ParseDate, Date
<1>7. Date(y, m, d).year \in 1..MaxYear
  BY <1>1, <1>5 DEF Date
<1> QED BY <1>2, <1>3, <1>4, <1>6, <1>7 DEF FromUnixSeconds

LEMMA ClockAgrees == Clock => CalendarsAgree
<1>1. SUFFICES ASSUME Clock PROVE CalendarsAgree
  OBVIOUS
<1>2. PICK y, m, d : date = Date(y, m, d) /\ ClockAt(today, y, m, d)
  BY <1>1 DEF Clock
<1>3. date.year = y /\ date.month = m /\ date.day = d
  BY <1>2 DEF Date
<1>4. CivilFromDays(today) = date
  BY <1>2, CivilFromDaysInverts DEF ClockAt
<1>5. DaysFromCivil(date.year, date.month, date.day) = today
  BY <1>2, <1>3 DEF ClockAt
<1>6. ASSUME date.year <= MaxYear PROVE FromUnixSeconds(today * DaySeconds) = date
  <2>1. today \in Nat /\ DaySeconds \in Nat \ {0}
    BY <1>1, CalendarAssumption DEF Clock
  <2>2. FromUnixSeconds(today * DaySeconds + 0) = date
    BY <1>2, <1>3, <1>6, <2>1, DateOfSecond
  <2> QED BY <2>1, <2>2
<1> QED BY <1>4, <1>5, <1>6 DEF CalendarsAgree

\* On every day the two calendars of the code agree with each other and with
\* the lengths of the months: civil_from_days and days_from_civil.
THEOREM CalendarsAlwaysAgree == Spec => []CalendarsAgree
<1>1. Init => Clock
  BY ClockStarts
<1>2. Clock /\ [Next]_vars => Clock'
  BY ClockTicks
<1> QED BY <1>1, <1>2, ClockAgrees, PTL DEF Spec

-----------------------------------------------------------------------------
(* Months.                                                                 *)

FirstDay(y, m) == DaysFromCivil(y, m, 1)

\* The month (a, b) is the month (y, m) or next to it.
NextTo(a, b, y, m) ==
  /\ a \in Nat \ {0} /\ b \in Int /\ 1 <= b /\ b <= 12
  /\ \/ a = y /\ b = m
     \/ y = NextYear(a, b) /\ m = NextMonth(b)
     \/ a = NextYear(y, m) /\ b = NextMonth(m)

NotAfter(a, b, y, m) == a < y \/ (a = y /\ b <= m)
Before(a, b, y, m) == a < y \/ (a = y /\ b < m)

LEMMA MonthHoldsDay ==
  ASSUME NEW k, NEW y, NEW m, NEW d, ClockAt(k, y, m, d)
  PROVE  /\ k \in Int /\ FirstDay(y, m) \in Int
         /\ FirstDay(NextYear(y, m), NextMonth(m)) = FirstDay(y, m) + DaysInMonth(y, m)
         /\ FirstDay(y, m) <= k
         /\ k < FirstDay(y, m) + DaysInMonth(y, m)
<1>1. /\ y \in Nat \ {0}
      /\ m \in Int /\ 1 <= m /\ m <= 12
      /\ d \in Int /\ 1 <= d /\ d <= DaysInMonth(y, m)
      /\ DaysFromCivil(y, m, d) = k
  BY DEF ClockAt, IsDate
<1>2. DaysInMonth(y, m) \in Int
  BY <1>1 DEF DaysInMonth
<1>3. DaysFromCivil(y, m, d) = DaysFromCivil(y, m, 1) + (d - 1) /\ DaysFromCivil(y, m, 1) \in Int
  BY <1>1, DayAfter
<1>4. DaysFromCivil(NextYear(y, m), NextMonth(m), 1) = DaysFromCivil(y, m, 1) + DaysInMonth(y, m)
  BY <1>1, MonthLength
<1> QED BY <1>1, <1>2, <1>3, <1>4 DEF FirstDay

\* The months around a day start and end in the order of their names.
LEMMA MonthsInOrder ==
  ASSUME NEW k, NEW y, NEW m, NEW d, ClockAt(k, y, m, d), NEW a, NEW b, NextTo(a, b, y, m)
  PROVE  /\ FirstDay(a, b) \in Int /\ FirstDay(NextYear(a, b), NextMonth(b)) \in Int
         /\ FirstDay(a, b) <= k <=> NotAfter(a, b, y, m)
         /\ FirstDay(NextYear(a, b), NextMonth(b)) <= k <=> Before(a, b, y, m)
<1>1. y \in Nat \ {0} /\ m \in Int /\ 1 <= m /\ m <= 12
  BY DEF ClockAt, IsDate
<1>2. a \in Nat \ {0} /\ b \in Int /\ 1 <= b /\ b <= 12
  BY DEF NextTo
<1>3. /\ k \in Int /\ FirstDay(y, m) \in Int
      /\ FirstDay(NextYear(y, m), NextMonth(m)) = FirstDay(y, m) + DaysInMonth(y, m)
      /\ FirstDay(y, m) <= k
      /\ k < FirstDay(y, m) + DaysInMonth(y, m)
  BY MonthHoldsDay
<1>4. FirstDay(NextYear(a, b), NextMonth(b)) = FirstDay(a, b) + DaysInMonth(a, b)
  BY <1>2, MonthLength DEF FirstDay
<1>5. FirstDay(a, b) \in Int
  BY <1>2, DayAfter DEF FirstDay
<1>6. DaysInMonth(a, b) \in Int /\ DaysInMonth(y, m) \in Int /\ DaysInMonth(a, b) > 0
  BY <1>1, <1>2 DEF DaysInMonth
<1>7. CASE a = y /\ b = m
  BY <1>1, <1>3, <1>4, <1>5, <1>6, <1>7 DEF NotAfter, Before
<1>8. CASE y = NextYear(a, b) /\ m = NextMonth(b)
  <2>1. Before(a, b, y, m) /\ NotAfter(a, b, y, m)
    BY <1>1, <1>2, <1>8 DEF NextYear, NextMonth, NotAfter, Before
  <2>2. FirstDay(y, m) = FirstDay(a, b) + DaysInMonth(a, b)
    BY <1>4, <1>8
  <2>3. FirstDay(a, b) <= k /\ FirstDay(NextYear(a, b), NextMonth(b)) <= k
    BY <1>3, <1>4, <1>5, <1>6, <2>2
  <2> QED BY <1>3, <1>5, <1>8, <2>1, <2>3
<1>9. CASE a = NextYear(y, m) /\ b = NextMonth(m)
  <2>1. ~Before(a, b, y, m) /\ ~NotAfter(a, b, y, m)
    BY <1>1, <1>2, <1>9 DEF NextYear, NextMonth, NotAfter, Before
  <2>2. FirstDay(a, b) = FirstDay(y, m) + DaysInMonth(y, m)
    BY <1>3, <1>9
  <2>3. k < FirstDay(a, b) /\ k < FirstDay(NextYear(a, b), NextMonth(b))
    BY <1>3, <1>4, <1>5, <1>6, <2>2
  <2> QED BY <1>3, <1>4, <1>5, <1>6, <2>1, <2>3
<1> QED BY <1>7, <1>8, <1>9 DEF NextTo

LEMMA AroundIsNextTo ==
  ASSUME NEW k, NEW y, NEW m, NEW d, ClockAt(k, y, m, d), NEW n \in Around(Date(y, m, d))
  PROVE  \E a, b, x : n = Date(a, b, x) /\ NextTo(a, b, y, m)
<1>1. y \in Nat \ {0} /\ y >= 1970 /\ m \in Int /\ 1 <= m /\ m <= 12
  BY DEF ClockAt, IsDate
<1>2. /\ Date(y, m, d).year = y
      /\ Date(y, m, d).month = m
  BY DEF Date
<1>3. CASE n = Date(y, m, d)
  <2>1. NextTo(y, m, y, m)
    BY <1>1 DEF NextTo
  <2> QED BY <1>3, <2>1
<1>4. CASE n = Date(IF m = 1 THEN y - 1 ELSE y, IF m = 1 THEN 12 ELSE m - 1, 1)
  <2>1. NextTo(IF m = 1 THEN y - 1 ELSE y, IF m = 1 THEN 12 ELSE m - 1, y, m)
    BY <1>1 DEF NextTo, NextYear, NextMonth
  <2> QED BY <1>4, <2>1
<1>5. CASE n = Date(IF m = 12 THEN y + 1 ELSE y, IF m = 12 THEN 1 ELSE m + 1, 1)
  <2>1. NextTo(IF m = 12 THEN y + 1 ELSE y, IF m = 12 THEN 1 ELSE m + 1, y, m)
    BY <1>1 DEF NextTo, NextYear, NextMonth
  <2> QED BY <1>5, <2>1
<1> QED BY <1>2, <1>3, <1>4, <1>5 DEF Around

LEMMA BoundsOfMonth ==
  ASSUME NEW a, NEW b, NEW x, NEW y, NEW m, NextTo(a, b, y, m)
  PROVE  MonthBounds(Canonical(Date(a, b, x))) =
           [start |-> FirstDay(a, b) * DaySeconds,
            end |-> FirstDay(NextYear(a, b), NextMonth(b)) * DaySeconds]
<1>1. a \in Nat \ {0} /\ b \in Int /\ 1 <= b /\ b <= 12
  BY DEF NextTo
<1>2. Canonical(Date(a, b, x)) = Text("", a, "", b)
  BY DEF Canonical, Date
<1>3. MonthBounds(Text("", a, "", b)) =
        [start |-> FirstDay(a, b) * DaySeconds,
         end |-> FirstDay(NextYear(a, b), NextMonth(b)) * DaySeconds]
  BY <1>1 DEF MonthBounds, Text, Signed, FirstDay, NextYear, NextMonth
<1> QED BY <1>2, <1>3

\* A month around a day, as one of its seconds sees it.
Sees(time, n, a, b, y, m) ==
  /\ n.year = a /\ n.month = b
  /\ MonthBounds(Canonical(n)).start <= time <=> NotAfter(a, b, y, m)
  /\ MonthBounds(Canonical(n)).end <= time <=> Before(a, b, y, m)
  /\ MonthBounds(Canonical(n)).start \in Int
  /\ MonthBounds(Canonical(n)).end \in Int
  /\ MonthBounds(Canonical(n)) # None

LEMMA SecondInMonth ==
  ASSUME NEW k \in Nat, NEW y, NEW m, NEW d, ClockAt(k, y, m, d), NEW n \in Around(Date(y, m, d)),
         NEW s \in Int, 0 <= s, s < DaySeconds
  PROVE  \E a, b : NextTo(a, b, y, m) /\ Sees(k * DaySeconds + s, n, a, b, y, m)
<1>1. PICK a, b, x : n = Date(a, b, x) /\ NextTo(a, b, y, m)
  BY AroundIsNextTo
<1>2. DaySeconds \in Nat \ {0} /\ None \notin [start : Int, end : Int]
  BY CalendarAssumption
<1>3. PICK first, next \in Int : first = FirstDay(a, b) /\ next = FirstDay(NextYear(a, b), NextMonth(b))
  BY <1>1, MonthsInOrder
<1>4. (first <= k <=> NotAfter(a, b, y, m)) /\ (next <= k <=> Before(a, b, y, m))
  BY <1>1, <1>3, MonthsInOrder
<1>5. first * DaySeconds <= k * DaySeconds + s <=> first <= k
  BY <1>2, Scaled
<1>6. next * DaySeconds <= k * DaySeconds + s <=> next <= k
  BY <1>2, Scaled
<1>7. MonthBounds(Canonical(n)) = [start |-> first * DaySeconds, end |-> next * DaySeconds]
  BY <1>1, <1>3, BoundsOfMonth
<1>8. first * DaySeconds \in Int /\ next * DaySeconds \in Int
  BY <1>2
<1>9. MonthBounds(Canonical(n)) # None
  BY <1>2, <1>7, <1>8
<1>10. n.year = a /\ n.month = b
  BY <1>1 DEF Date
<1>11. Sees(k * DaySeconds + s, n, a, b, y, m)
  BY <1>4, <1>5, <1>6, <1>7, <1>8, <1>9, <1>10 DEF Sees
<1> QED BY <1>1, <1>11

\* A month holds the seconds that the other calendar gives its name.
LEMMA ClockMonths == Clock => PaymentsFallInTheirMonth
<1>1. SUFFICES ASSUME Clock, date.year <= MaxYear,
                      NEW second \in {0, DaySeconds - 1}, NEW n \in Around(date)
               PROVE  LET time == today * DaySeconds + second
                          bounds == MonthBounds(Canonical(n))
                      IN  (bounds.start <= time /\ time < bounds.end) <=>
                            Canonical(FromUnixSeconds(time)) = Canonical(n)
  BY DEF PaymentsFallInTheirMonth
<1>2. PICK y, m, d : date = Date(y, m, d) /\ ClockAt(today, y, m, d)
  BY <1>1 DEF Clock
<1>3. today \in Nat /\ second \in Int /\ 0 <= second /\ second < DaySeconds /\ DaySeconds \in Nat
  BY <1>1, CalendarAssumption DEF Clock
<1>4. PICK time \in Int : time = today * DaySeconds + second
  BY <1>3
<1>5. PICK a, b : NextTo(a, b, y, m) /\ Sees(time, n, a, b, y, m)
  BY <1>1, <1>2, <1>3, <1>4, SecondInMonth
<1>6. date.year = y
  BY <1>2 DEF Date
<1>7. FromUnixSeconds(time) = Date(y, m, d)
  BY <1>1, <1>2, <1>3, <1>4, <1>6, DateOfSecond
<1>8. Canonical(Date(y, m, d)) = Canonical(n) <=> a = y /\ b = m
  BY <1>5 DEF Canonical, Text, Date, Sees
<1>9. y \in Nat /\ m \in Int /\ a \in Nat /\ b \in Int
  BY <1>2, <1>5 DEF ClockAt, IsDate, NextTo
<1>10. (NotAfter(a, b, y, m) /\ ~Before(a, b, y, m)) <=> (a = y /\ b = m)
  BY <1>9 DEF NotAfter, Before
<1>11. (MonthBounds(Canonical(n)).start <= time /\ time < MonthBounds(Canonical(n)).end) <=> (a = y /\ b = m)
  BY <1>4, <1>5, <1>10 DEF Sees
<1> QED BY <1>4, <1>7, <1>8, <1>11

\* A payment is selected for the month of its operation date and no other.
THEOREM PaymentsAlwaysFallInTheirMonth == Spec => []PaymentsFallInTheirMonth
<1>1. Init => Clock
  BY ClockStarts
<1>2. Clock /\ [Next]_vars => Clock'
  BY ClockTicks
<1> QED BY <1>1, <1>2, ClockMonths, PTL DEF Spec

\* A closed month is over: the order of texts is the order of months.
LEMMA ClockCloses == Clock => MonthsCloseWhenOver
<1>1. SUFFICES ASSUME Clock, date.year <= MaxYear, NEW n \in Around(date)
               PROVE  LET text == Canonical(n)
                      IN  /\ ValidateEligibility(text, "final", Now) = "eligible" <=> MonthBounds(text).end <= Now
                          /\ ValidateEligibility(text, "snapshot", Now) = "eligible" <=> MonthBounds(text).start <= Now
  BY DEF MonthsCloseWhenOver
<1>2. PICK y, m, d : date = Date(y, m, d) /\ ClockAt(today, y, m, d)
  BY <1>1 DEF Clock
<1>3. today \in Nat /\ DaySeconds \in Nat \ {0} /\ None \notin [year : Int, month : Int, day : Int]
  BY <1>1, CalendarAssumption DEF Clock
<1>4. PICK second \in Int : second = 0 /\ second < DaySeconds /\ Now = today * DaySeconds + second
  BY <1>3 DEF Now
<1>5. PICK a, b : NextTo(a, b, y, m) /\ Sees(Now, n, a, b, y, m)
  <2>1. second \in Int /\ 0 <= second /\ second < DaySeconds
    BY <1>4
  <2>2. PICK a, b : NextTo(a, b, y, m) /\ Sees(today * DaySeconds + second, n, a, b, y, m)
    BY <1>1, <1>2, <1>3, <2>1, SecondInMonth
  <2> QED BY <1>4, <2>2
<1>6. date.year = y
  BY <1>2 DEF Date
<1>7. FromUnixSeconds(Now) = Date(y, m, d)
  BY <1>1, <1>2, <1>3, <1>4, <1>6, DateOfSecond
<1>8. y \in Nat /\ m \in Int /\ d \in Int /\ a \in Nat /\ b \in Int
  BY <1>2, <1>5 DEF ClockAt, IsDate, NextTo
<1>9. Date(y, m, d) # None
  BY <1>3, <1>8 DEF Date
<1>10. Canonical(n) = Text("", a, "", b) /\ Canonical(Date(y, m, d)) = Text("", y, "", m)
  BY <1>5 DEF Canonical, Sees, Date
<1>11. SortsBefore(Text("", y, "", m), Text("", a, "", b)) <=> ~NotAfter(a, b, y, m)
  BY <1>8 DEF SortsBefore, Text, Rank, NotAfter
<1>12. SortsBefore(Text("", a, "", b), Text("", y, "", m)) <=> Before(a, b, y, m)
  BY <1>8 DEF SortsBefore, Text, Rank, Before
<1>13. MonthBounds(Canonical(n)) # None
  BY <1>5 DEF Sees
<1>14. Before(a, b, y, m) => NotAfter(a, b, y, m)
  BY <1>8 DEF Before, NotAfter
<1>15. ValidateEligibility(Canonical(n), "final", Now) = "eligible" <=> Before(a, b, y, m)
  BY <1>7, <1>9, <1>10, <1>11, <1>12, <1>13, <1>14 DEF ValidateEligibility
<1>16. ValidateEligibility(Canonical(n), "snapshot", Now) = "eligible" <=> NotAfter(a, b, y, m)
  BY <1>7, <1>9, <1>10, <1>11, <1>13 DEF ValidateEligibility
<1> QED BY <1>5, <1>15, <1>16 DEF Sees

\* A month in the documented form is closed once it is over, and exported once
\* it has begun.
THEOREM MonthsAlwaysCloseWhenOver == Spec => []MonthsCloseWhenOver
<1>1. Init => Clock
  BY ClockStarts
<1>2. Clock /\ [Next]_vars => Clock'
  BY ClockTicks
<1> QED BY <1>1, <1>2, ClockCloses, PTL DEF Spec

-----------------------------------------------------------------------------
(* Quotes.                                                                 *)

\* The operation date that the client asks for is the day of the payment.
PaidOn(time, on) == FromUnixSeconds(time) \in {on, None}

QuoteInv ==
  /\ Clock
  /\ stage = "settled" => PaidOn(payment.time, payment.on)
  /\ stage = "requested" => FromUnixSeconds(payment.time) = payment.on
  /\ QuotesAreOfTheirDay

OfDay(value, operation) ==
  value.result = "valued" => value.evidence.operation = operation /\ value.evidence.quote = operation

\* Every way to a value goes through a row of the operation date.
LEMMA ValueIsOfDay ==
  ASSUME NEW operation, NEW failure \in {None, "source_unavailable", "response_too_large", "response_invalid"},
         NEW rows, NEW received
  PROVE  OfDay(Value(received, ParseResponse(operation, failure, rows)), operation)
<1>1. PICK response : response = ParseResponse(operation, failure, rows)
  OBVIOUS
<1>2. response.result # "valued"
  BY <1>1 DEF ParseResponse, Select, Without, With
<1>3. ASSUME response.result = "evidence"
      PROVE  response.evidence.operation = operation /\ response.evidence.quote = operation
  <2>1. response = Select(operation, rows)
    BY <1>1, <1>3 DEF ParseResponse, Without
  <2>2. response = With(Evidence(operation, rows[1])) /\ rows[1].date = operation
    BY <1>3, <2>1 DEF Select, Without
  <2> QED BY <2>2 DEF With, Evidence
<1>4. \E reason, evidence, cents : response = [result |-> reason, evidence |-> evidence, cents |-> cents]
  BY <1>1 DEF ParseResponse, Select, Without, With
<1>5. Value(received, response).result = "valued" =>
        response.result = "evidence" /\ Value(received, response).evidence = response.evidence
  BY <1>2, <1>4 DEF Value
<1> QED BY <1>1, <1>3, <1>5 DEF OfDay

LEMMA QuoteInvKept ==
  ASSUME QuoteInv, [Next]_vars
  PROVE  QuoteInv'
<1>1. Clock /\ Clock'
  BY ClockTicks DEF QuoteInv
<1>2. CASE Midnight
  BY <1>1, <1>2 DEF QuoteInv, Midnight, QuotesAreOfTheirDay
<1>3. ASSUME NEW text \in Amounts, Create(text) PROVE QuoteInv'
  <2>1. stage' \in {"refused", "issued"}
    BY <1>3 DEF Create
  <2> QED BY <1>1, <2>1 DEF QuoteInv, QuotesAreOfTheirDay
<1>4. ASSUME NEW second \in 0..(DaySeconds - 1), Settle(second) PROVE QuoteInv'
  <2>1. /\ stage' = "settled"
        /\ payment' = [payment EXCEPT !.received = Units(payment.shown, Decimals),
                                      !.time = today * DaySeconds + second, !.on = date]
    BY <1>4 DEF Settle
  <2>2. FromUnixSeconds(today * DaySeconds + second) \in {date, None}
    <3>1. today \in Nat /\ DaySeconds \in Nat \ {0}
      BY <1>1, CalendarAssumption DEF Clock
    <3>2. (today * DaySeconds + second) \div DaySeconds = today
      BY <3>1, DividedBack
    <3>3. CivilFromDays(today) = date
      BY <1>1, ClockAgrees DEF CalendarsAgree
    <3> QED BY <3>2, <3>3 DEF FromUnixSeconds, ParseDate
  <2> QED BY <1>1, <2>1, <2>2 DEF QuoteInv, QuotesAreOfTheirDay, PaidOn
<1>5. CASE Request
  <2>1. CASE FromUnixSeconds(payment.time) = None
    BY <1>1, <1>5, <2>1 DEF QuoteInv, QuotesAreOfTheirDay, Request, Conclude, Without
  <2>2. CASE FromUnixSeconds(payment.time) # None
    BY <1>1, <1>5, <2>2 DEF QuoteInv, QuotesAreOfTheirDay, Request, PaidOn
  <2> QED BY <2>1, <2>2
<1>6. CASE TransportFails
  <2>1. CASE attempt < MaxAttempts
    BY <1>1, <1>6, <2>1 DEF QuoteInv, QuotesAreOfTheirDay, TransportFails
  <2>2. CASE ~(attempt < MaxAttempts)
    BY <1>1, <1>6, <2>2 DEF QuoteInv, QuotesAreOfTheirDay, TransportFails, Conclude, Without
  <2> QED BY <2>1, <2>2
<1>7. ASSUME NEW answer \in Answers, Answer(answer) PROVE QuoteInv'
  <2>1. PICK rows : /\ stage' = "done"
                    /\ outcome' = Value(payment.received, ParseResponse(FromUnixSeconds(payment.time), answer.failure, rows))
                    /\ payment' = payment
    BY <1>7 DEF Answer, Conclude
  <2>2. FromUnixSeconds(payment.time) = payment.on
    BY <1>7 DEF QuoteInv, Answer
  <2>3. answer.failure \in {None, "source_unavailable", "response_too_large", "response_invalid"}
    <3>1. answer \in Bodies
      BY ValuationAssumption
    <3> QED
      BY <3>1 DEF Bodies
  <2>4. OfDay(outcome', payment.on)
    BY <2>1, <2>2, <2>3, ValueIsOfDay
  <2> QED BY <1>1, <2>1, <2>4 DEF QuoteInv, QuotesAreOfTheirDay, OfDay
<1>8. CASE Forget
  BY <1>1, <1>8 DEF QuoteInv, QuotesAreOfTheirDay, Forget
<1>9. CASE UNCHANGED vars
  BY <1>1, <1>9 DEF QuoteInv, QuotesAreOfTheirDay, vars
<1> QED BY <1>2, <1>3, <1>4, <1>5, <1>6, <1>7, <1>8, <1>9 DEF Next

\* Whatever the central bank answers, a reference uses a quote of the day of
\* the payment.
THEOREM QuotesAreAlwaysOfTheirDay == Spec => []QuotesAreOfTheirDay
<1>1. Init => QuoteInv
  BY ClockStarts DEF Init, QuoteInv, QuotesAreOfTheirDay
<1>2. QuoteInv /\ [Next]_vars => QuoteInv'
  BY QuoteInvKept
<1>3. QuoteInv => QuotesAreOfTheirDay
  BY DEF QuoteInv
<1> QED BY <1>1, <1>2, <1>3, PTL DEF Spec

-----------------------------------------------------------------------------
(***************************************************************************)
(* Powers of ten and the numbers that digits make.                         *)
(***************************************************************************)

LEMMA ProductIsNatural ==
  ASSUME NEW a \in Nat, NEW b \in Nat
  PROVE  a * b \in Nat
OBVIOUS

LEMMA DigitsAtTheirPlace ==
  ASSUME NEW a \in Nat, NEW b \in Nat, NEW c \in Nat
  PROVE  (10 * a + b) * c = a * (10 * c) + b * c
OBVIOUS

LEMMA TenToRecurs ==
  /\ TenTo \in [Nat -> Nat]
  /\ TenTo[0] = 1
  /\ \A n \in Nat : TenTo[n + 1] = 10 * TenTo[n]
<1> DEFINE step == [p \in Nat \X Nat |-> 10 * p[2]]
           Good(f) == f = [n \in Nat |-> IF n = 0 THEN 1 ELSE 10 * f[n - 1]]
<1>1. step \in [Nat \X Nat -> Nat] /\ 1 \in Nat
  OBVIOUS
<1>2. \A n, v \in Nat : step[<<n, v>>] = 10 * v
  OBVIOUS
<1> HIDE DEF step
<1>3. PICK f \in [Nat -> Nat] : FollowsAll(f, 1, step)
  <2> DEFINE S == Nat
             one == 1
  <2>1. one \in S /\ step \in [Nat \X S -> S]
    BY <1>1
  <2> HIDE DEF S, one
  <2>2. \E f \in [Nat -> S] : FollowsAll(f, one, step)
    BY <2>1, RecursionExists
  <2> QED
    BY <2>2 DEF S, one
<1>4. ASSUME NEW n \in Nat
      PROVE  f[n] = IF n = 0 THEN 1 ELSE 10 * f[n - 1]
  <2>1. CASE n = 0
    BY <1>3, <2>1 DEF FollowsAll, Follows
  <2>2. CASE n # 0
    <3>1. n - 1 \in Nat /\ n - 1 \in 0..(n - 1) /\ (n - 1) + 1 = n
      BY <2>2
    <3>2. f[n] = step[<<n - 1, f[n - 1]>>]
      BY <1>3, <3>1 DEF FollowsAll, Follows
    <3> QED
      BY <1>2, <1>3, <2>2, <3>1, <3>2
  <2> QED
    BY <2>1, <2>2
<1>5. Good(f)
  BY <1>3, <1>4
<1>6. TenTo = CHOOSE g : Good(g)
  BY DEF TenTo
<1> HIDE DEF Good
<1>7. Good(TenTo)
  BY <1>5, <1>6
<1>8. /\ TenTo = [n \in Nat |-> TenTo[n]]
      /\ TenTo[0] = 1
      /\ \A n \in Nat : TenTo[n + 1] = 10 * TenTo[n]
  BY <1>7 DEF Good
<1>9. \A n \in Nat : TenTo[n] \in Nat
  <2> DEFINE P == {n \in Nat : TenTo[n] \in Nat}
  <2>1. /\ 0 \in P
        /\ \A n \in Nat : n \in P => n + 1 \in P
    <3> HIDE DEF TenTo
    <3>1. 0 \in P
      BY <1>8
    <3>2. ASSUME NEW n \in Nat, n \in P
          PROVE  n + 1 \in P
      <4>1. TenTo[n] \in Nat /\ TenTo[n + 1] = 10 * TenTo[n]
        BY <1>8, <3>2
      <4> QED
        BY <4>1
    <3> QED
      BY <3>1, <3>2
  <2> HIDE DEF P
  <2>2. Nat \subseteq P
    BY <2>1, Induction
  <2> QED
    BY <2>2 DEF P
<1> QED
  BY <1>8, <1>9

LEMMA TenToSum ==
  ASSUME NEW a \in Nat, NEW b \in Nat
  PROVE  TenTo[a + b] = TenTo[a] * TenTo[b] /\ TenTo[a] \in Nat \ {0}
<1> DEFINE P == {n \in Nat : TenTo[a + n] = TenTo[a] * TenTo[n]}
           Q == {n \in Nat : TenTo[n] # 0}
<1>1. 0 \in P /\ 0 \in Q
  <2>1. a + 0 = a /\ TenTo[a] \in Nat
    BY TenToRecurs
  <2> QED
    BY <2>1, TenToRecurs
<1>2. ASSUME NEW n \in Nat, n \in P
      PROVE  n + 1 \in P
  <2>1. /\ TenTo[a + n] = TenTo[a] * TenTo[n]
        /\ TenTo[n + 1] = 10 * TenTo[n]
        /\ TenTo[(a + n) + 1] = 10 * TenTo[a + n]
        /\ TenTo[a] \in Nat /\ TenTo[n] \in Nat
        /\ a + (n + 1) = (a + n) + 1
    BY <1>2, TenToRecurs
  <2>2. 10 * (TenTo[a] * TenTo[n]) = TenTo[a] * (10 * TenTo[n])
    BY <2>1
  <2> QED
    BY <2>1, <2>2
<1>3. ASSUME NEW n \in Nat, n \in Q
      PROVE  n + 1 \in Q
  BY <1>3, TenToRecurs
<1> HIDE DEF P, Q
<1>4. b \in P /\ a \in Q
  <2>1. Nat \subseteq P
    BY <1>1, <1>2, Induction
  <2>2. Nat \subseteq Q
    BY <1>1, <1>3, Induction
  <2> QED
    BY <2>1, <2>2
<1> QED
  BY <1>4, TenToRecurs DEF P, Q

\* The values that Number goes through.
Numbering(f, d) ==
  /\ f \in [0..Len(d) -> Nat]
  /\ f[0] = 0
  /\ \A i \in 1..Len(d) : f[i] = 10 * f[i - 1] + d[i]

LEMMA NumberRecurs ==
  ASSUME NEW d \in Seq(0..9)
  PROVE  \E f : Numbering(f, d) /\ Number(d) = f[Len(d)]
<1> DEFINE n == Len(d)
           step == [p \in Nat \X Nat |-> 10 * p[2] + (IF p[1] + 1 \in 1..n THEN d[p[1] + 1] ELSE 0)]
           Good(f) == f = [i \in 0..n |-> IF i = 0 THEN 0 ELSE 10 * f[i - 1] + d[i]]
<1>1. n \in Nat /\ 0 \in Nat /\ \A i \in 1..n : d[i] \in 0..9
  OBVIOUS
<1>2. step \in [Nat \X Nat -> Nat]
  <2>1. ASSUME NEW p \in Nat \X Nat
        PROVE  10 * p[2] + (IF p[1] + 1 \in 1..n THEN d[p[1] + 1] ELSE 0) \in Nat
    <3>1. p[1] \in Nat /\ p[2] \in Nat
      BY <2>1
    <3>2. p[1] + 1 \in 1..n => d[p[1] + 1] \in Nat
      BY <1>1
    <3> QED
      BY <3>1, <3>2
  <2> QED
    BY <2>1
<1>3. ASSUME NEW i \in 1..n, NEW v \in Nat
      PROVE  step[<<i - 1, v>>] = 10 * v + d[i]
  <2>1. i - 1 \in Nat /\ (i - 1) + 1 = i
    BY <1>1
  <2> QED
    BY <2>1
<1> HIDE DEF step
<1>4. PICK f \in [0..n -> Nat] : Follows(f, 0, step, n)
  <2> DEFINE S == Nat
             zero == 0
  <2>1. zero \in S /\ step \in [Nat \X S -> S]
    BY <1>2
  <2> HIDE DEF n, S, zero
  <2>2. \E f \in [0..n -> S] : Follows(f, zero, step, n)
    BY <1>1, <2>1, RecursionUpTo
  <2> QED
    BY <2>2 DEF S, zero
<1>5. ASSUME NEW i \in 0..n
      PROVE  f[i] = IF i = 0 THEN 0 ELSE 10 * f[i - 1] + d[i]
  <2>1. CASE i = 0
    BY <1>4, <2>1 DEF Follows
  <2>2. CASE i # 0
    <3>1. i \in 1..n /\ i - 1 \in 0..n /\ i - 1 \in 0..(n - 1) /\ (i - 1) + 1 = i
      BY <1>1, <2>2
    <3>2. f[i] = step[<<i - 1, f[i - 1]>>]
      BY <1>4, <3>1 DEF Follows
    <3> QED
      BY <1>3, <1>4, <2>2, <3>1, <3>2
  <2> QED
    BY <2>1, <2>2
<1>6. Good(f)
  BY <1>4, <1>5
<1>7. Number(d) = (CHOOSE g : Good(g))[n]
  BY DEF Number
<1> HIDE DEF Good
<1> DEFINE h == CHOOSE g : Good(g)
<1>8. Good(h)
  BY <1>6
<1> HIDE DEF h
<1>9. /\ h = [i \in 0..n |-> h[i]]
      /\ h[0] = 0
      /\ \A i \in 1..n : h[i] = 10 * h[i - 1] + d[i]
  BY <1>1, <1>8 DEF Good
<1>10. \A i \in 0..n : h[i] \in Nat
  <2> DEFINE P == {i \in Nat : i <= n => h[i] \in Nat}
  <2>1. 0 \in P
    BY <1>9
  <2>2. ASSUME NEW i \in Nat, i \in P
        PROVE  i + 1 \in P
    <3> SUFFICES ASSUME i + 1 <= n
                 PROVE  h[i + 1] \in Nat
      OBVIOUS
    <3>1. i + 1 \in 1..n /\ (i + 1) - 1 = i /\ i <= n
      BY <1>1
    <3>2. h[i + 1] = 10 * h[(i + 1) - 1] + d[i + 1]
      BY <1>9, <3>1
    <3>3. h[i + 1] = 10 * h[i] + d[i + 1]
      BY <3>1, <3>2, Zenon
    <3>4. h[i] \in Nat
      BY <2>2, <3>1
    <3>5. d[i + 1] \in 0..9
      BY <1>1, <3>1
    <3> DEFINE before == h[i]
               digit == d[i + 1]
    <3> HIDE DEF before, digit
    <3>6. before \in Nat /\ digit \in 0..9
      BY <3>4, <3>5 DEF before, digit
    <3>7. 10 * before + digit \in Nat
      BY <3>6
    <3> QED
      BY <3>3, <3>7, Zenon DEF before, digit
  <2> HIDE DEF P
  <2>3. Nat \subseteq P
    BY <2>1, <2>2, Induction
  <2> QED
    BY <1>1, <2>3 DEF P
<1>11. Numbering(h, d)
  BY <1>9, <1>10 DEF Numbering
<1> QED
  BY <1>7, <1>11 DEF h

\* The values that Units goes through.
Adding(f, whole, d, places) ==
  /\ f \in [0..Len(d) -> Nat]
  /\ f[0] = whole * TenTo[places]
  /\ \A i \in 1..Len(d) : f[i] = f[i - 1] + d[i] * TenTo[places - i]

LEMMA UnitsRecurs ==
  ASSUME NEW text, NEW whole \in Nat, NEW d \in Seq(0..9), NEW places \in Nat,
         text.whole = whole, text.fraction = d, Len(d) <= places
  PROVE  \E f : Adding(f, whole, d, places) /\ Units(text, places) = f[Len(d)]
<1> DEFINE n == Len(d)
           base == whole * TenTo[places]
           step == [p \in Nat \X Nat |->
                      p[2] + (IF p[1] + 1 \in 1..n
                              THEN d[p[1] + 1] * TenTo[places - (p[1] + 1)] ELSE 0)]
           Good(f) == f = [i \in 0..n |->
                             IF i = 0 THEN base ELSE f[i - 1] + d[i] * TenTo[places - i]]
<1>1. n \in Nat /\ \A i \in 1..n : d[i] \in 0..9
  OBVIOUS
<1>2. base \in Nat
  <2>1. TenTo[places] \in Nat
    BY TenToRecurs
  <2> QED
    BY <2>1, ProductIsNatural
<1>3. ASSUME NEW i \in 1..n
      PROVE  d[i] * TenTo[places - i] \in Nat
  <2>1. places - i \in Nat
    BY <1>1
  <2>2. TenTo[places - i] \in Nat
    BY <2>1, TenToRecurs
  <2>3. d[i] \in 0..9 /\ d[i] \in Nat
    BY <1>1
  <2> QED
    BY <2>2, <2>3, ProductIsNatural
<1>4. step \in [Nat \X Nat -> Nat]
  <2>1. ASSUME NEW p \in Nat \X Nat
        PROVE  p[2] + (IF p[1] + 1 \in 1..n
                       THEN d[p[1] + 1] * TenTo[places - (p[1] + 1)] ELSE 0) \in Nat
    <3>1. p[2] \in Nat
      BY <2>1
    <3>2. CASE p[1] + 1 \in 1..n
      <4>1. d[p[1] + 1] * TenTo[places - (p[1] + 1)] \in Nat
        BY <1>3, <3>2
      <4> QED
        BY <3>1, <3>2, <4>1
    <3>3. CASE p[1] + 1 \notin 1..n
      BY <3>1, <3>3
    <3> QED
      BY <3>2, <3>3
  <2> QED
    BY <2>1
<1>5. ASSUME NEW i \in 1..n, NEW v \in Nat
      PROVE  step[<<i - 1, v>>] = v + d[i] * TenTo[places - i]
  <2>1. i - 1 \in Nat /\ (i - 1) + 1 = i
    BY <1>1
  <2> QED
    BY <2>1
<1> HIDE DEF step, base
<1>6. PICK f \in [0..n -> Nat] : Follows(f, base, step, n)
  <2> DEFINE S == Nat
  <2>1. base \in S /\ step \in [Nat \X S -> S]
    BY <1>2, <1>4
  <2> HIDE DEF n, S
  <2>2. \E f \in [0..n -> S] : Follows(f, base, step, n)
    BY <1>1, <2>1, RecursionUpTo
  <2> QED
    BY <2>2 DEF S
<1>7. ASSUME NEW i \in 0..n
      PROVE  f[i] = IF i = 0 THEN base ELSE f[i - 1] + d[i] * TenTo[places - i]
  <2>1. CASE i = 0
    BY <1>6, <2>1 DEF Follows
  <2>2. CASE i # 0
    <3>1. i \in 1..n /\ i - 1 \in 0..n /\ i - 1 \in 0..(n - 1) /\ (i - 1) + 1 = i
      BY <1>1, <2>2
    <3>2. f[i] = step[<<i - 1, f[i - 1]>>]
      BY <1>6, <3>1 DEF Follows
    <3>3. f[i - 1] \in Nat
      BY <1>6, <3>1
    <3>4. f[i] = f[i - 1] + d[i] * TenTo[places - i]
      BY <1>5, <3>1, <3>2, <3>3
    <3> QED
      BY <2>2, <3>4
  <2> QED
    BY <2>1, <2>2
<1>8. Good(f)
  BY <1>6, <1>7
<1>9. Units(text, places) = (CHOOSE g : Good(g))[n]
  BY DEF Units, base
<1> HIDE DEF Good
<1> DEFINE h == CHOOSE g : Good(g)
<1>10. Good(h)
  BY <1>8
<1> HIDE DEF h
<1>11. /\ h = [i \in 0..n |-> h[i]]
       /\ h[0] = base
       /\ \A i \in 1..n : h[i] = h[i - 1] + d[i] * TenTo[places - i]
  <2> DEFINE value(i) == IF i = 0 THEN base ELSE h[i - 1] + d[i] * TenTo[places - i]
  <2>1. h = [i \in 0..n |-> value(i)]
    BY <1>10 DEF Good
  <2>2. value(0) = base /\ \A i \in 1..n : value(i) = h[i - 1] + d[i] * TenTo[places - i]
    BY <1>1
  <2>3. 0 \in 0..n /\ \A i \in 1..n : i \in 0..n
    BY <1>1
  <2> HIDE DEF value
  <2>4. h = [i \in 0..n |-> h[i]] /\ h[0] = value(0) /\ \A i \in 1..n : h[i] = value(i)
    BY <2>1, <2>3
  <2> QED
    BY <2>2, <2>4
<1>12. \A i \in 0..n : h[i] \in Nat
  <2> DEFINE P == {i \in Nat : i <= n => h[i] \in Nat}
  <2>1. 0 \in P
    BY <1>2, <1>11
  <2>2. ASSUME NEW i \in Nat, i \in P
        PROVE  i + 1 \in P
    <3> SUFFICES ASSUME i + 1 <= n
                 PROVE  h[i + 1] \in Nat
      OBVIOUS
    <3>1. i + 1 \in 1..n /\ (i + 1) - 1 = i /\ i <= n
      BY <1>1
    <3>2. h[i + 1] = h[i] + d[i + 1] * TenTo[places - (i + 1)] /\ h[i] \in Nat
      BY <1>11, <2>2, <3>1
    <3> QED
      BY <1>3, <3>1, <3>2
  <2> HIDE DEF P
  <2>3. Nat \subseteq P
    BY <2>1, <2>2, Induction
  <2> QED
    BY <1>1, <2>3 DEF P
<1>13. Adding(h, whole, d, places)
  BY <1>11, <1>12 DEF Adding, base
<1> QED
  BY <1>9, <1>13 DEF h

\* Reading a text digit by digit, each at its place, gives the number that
\* the code computes from the whole fraction at once.
LEMMA UnitsAreScaled ==
  ASSUME NEW text, text.whole \in Nat, text.fraction \in Seq(0..9),
         NEW places \in Nat, Len(text.fraction) <= places
  PROVE  /\ Units(text, places) =
              text.whole * TenTo[places]
                + Number(text.fraction) * TenTo[places - Len(text.fraction)]
         /\ Units(text, places) \in Nat
<1> DEFINE d == text.fraction
           w == text.whole
           n == Len(d)
<1>1. PICK f : Adding(f, w, d, places) /\ Units(text, places) = f[n]
  BY UnitsRecurs
<1>2. PICK g : Numbering(g, d) /\ Number(d) = g[n]
  BY NumberRecurs
<1>3. w \in Nat /\ n \in Nat /\ n <= places /\ \A i \in 1..n : d[i] \in 0..9
  OBVIOUS
<1> HIDE DEF d, w, n
<1> DEFINE P == {i \in Nat : i <= n => f[i] = w * TenTo[places] + g[i] * TenTo[places - i]}
<1>4. 0 \in P
  <2> DEFINE ten == TenTo[places]
  <2>1. ten \in Nat /\ places - 0 = places
    <3>1. places - 0 = places
      OBVIOUS
    <3>2. ten \in Nat
      BY TenToRecurs
    <3> QED
      BY <3>1, <3>2
  <2>2. f[0] = w * ten /\ g[0] = 0 /\ w * ten \in Nat
    BY <1>1, <1>2, <1>3, <2>1, ProductIsNatural DEF Adding, Numbering
  <2> HIDE DEF ten
  <2>3. w * ten + 0 * ten = w * ten
    BY <2>1, <2>2
  <2> QED
    BY <2>1, <2>2, <2>3 DEF ten
<1>5. ASSUME NEW i \in Nat, i \in P
      PROVE  i + 1 \in P
  <2> SUFFICES ASSUME i + 1 <= n
               PROVE  f[i + 1] = w * TenTo[places] + g[i + 1] * TenTo[places - (i + 1)]
    OBVIOUS
  <2> DEFINE k == places - (i + 1)
             ten == TenTo[k]
             all == w * TenTo[places]
  <2>1. /\ i + 1 \in 1..n /\ (i + 1) - 1 = i /\ i \in 0..n
        /\ k \in Nat /\ places - i = k + 1
    BY <1>3
  <2>2. f[i] = all + g[i] * TenTo[places - i]
    BY <1>5, <2>1
  <2>3. ten \in Nat /\ TenTo[places - i] = 10 * ten /\ all \in Nat
    <3>1. ten \in Nat /\ TenTo[places - i] = 10 * ten /\ TenTo[places] \in Nat
      <4> HIDE DEF k
      <4> QED
        BY <2>1, TenToRecurs
    <3> HIDE DEF ten
    <3> QED
      BY <1>3, <3>1, ProductIsNatural
  <2>4. g[i] \in Nat /\ g[i + 1] = 10 * g[i] + d[i + 1] /\ d[i + 1] \in Nat
    <3>1. d[i + 1] \in 0..9
      BY <1>3, <2>1
    <3>2. /\ g \in [0..n -> Nat]
          /\ \A j \in 1..n : g[j] = 10 * g[j - 1] + d[j]
      BY <1>2 DEF Numbering, n
    <3>3. g[i + 1] = 10 * g[i] + d[i + 1]
      BY <2>1, <3>2, Zenon
    <3>4. d[i + 1] \in Nat
      BY <3>1
    <3>5. g[i] \in Nat
      BY <2>1, <3>2
    <3> QED
      BY <3>3, <3>4, <3>5
  <2>5. f[i + 1] = f[i] + d[i + 1] * ten
    BY <1>1, <2>1 DEF Adding, n
  <2> HIDE DEF ten, k, all
  <2>6. f[i + 1] = (all + g[i] * (10 * ten)) + d[i + 1] * ten
    BY <2>2, <2>3, <2>5
  <2>7. (10 * g[i] + d[i + 1]) * ten = g[i] * (10 * ten) + d[i + 1] * ten
    BY <2>3, <2>4, DigitsAtTheirPlace
  <2>8. g[i] * (10 * ten) \in Nat /\ d[i + 1] * ten \in Nat
    <3>1. 10 * ten \in Nat
      BY <2>3
    <3> QED
      BY <2>3, <2>4, <3>1, ProductIsNatural
  <2>9. f[i + 1] = all + g[i + 1] * ten
    BY <2>3, <2>4, <2>6, <2>7, <2>8
  <2> QED
    BY <2>9 DEF ten, k, all
<1> HIDE DEF P
<1>6. n \in P
  BY <1>3, <1>4, <1>5, Induction
<1>7. f[n] = w * TenTo[places] + g[n] * TenTo[places - n]
  BY <1>3, <1>6 DEF P
<1>8. f[n] \in Nat
  BY <1>1, <1>3 DEF Adding, n
<1> QED
  BY <1>1, <1>2, <1>7, <1>8 DEF d, w, n

-----------------------------------------------------------------------------
(***************************************************************************)
(* The digits of a number.                                                 *)
(***************************************************************************)

LEMMA Divided ==
  ASSUME NEW m \in Nat, NEW n \in Nat \ {0}
  PROVE  /\ m \div n \in Nat /\ m % n \in Nat /\ m % n < n
         /\ m = (m \div n) * n + (m % n)
OBVIOUS

LEMMA DividedByTen ==
  ASSUME NEW m \in Nat, NEW b \in Nat \ {0}
  PROVE  m \div b = 10 * (m \div (10 * b)) + ((m \div b) % 10)
<1>1. PICK q \in Nat, r \in Nat : q = m \div b /\ r = m % b /\ r < b /\ m = q * b + r
  BY Divided
<1>2. PICK t \in Nat, s \in Nat : t = q \div 10 /\ s = q % 10 /\ s < 10 /\ q = 10 * t + s
  OBVIOUS
<1>3. PICK c \in Nat \ {0} : c = 10 * b
  OBVIOUS
<1>4. q * b = t * c + s * b
  <2>1. (10 * t + s) * b = t * (10 * b) + s * b
    BY DigitsAtTheirPlace
  <2> QED
    BY <1>2, <1>3, <2>1
<1>5. s * b \in Nat /\ s * b <= 9 * b
  <2>1. s \in {0, 1, 2, 3, 4, 5, 6, 7, 8, 9}
    BY <1>2
  <2> QED
    BY <2>1
<1>6. t * c \in Nat
  BY ProductIsNatural
<1>7. m = t * c + (s * b + r) /\ 0 <= s * b + r /\ s * b + r < c /\ s * b + r \in Int
  BY <1>1, <1>3, <1>4, <1>5, <1>6
<1>8. m \div c = t
  BY <1>7, DividedBack
<1> QED
  BY <1>1, <1>2, <1>3, <1>8

LEMMA DigitsAreDigits ==
  ASSUME NEW n \in Nat, NEW width \in Nat
  PROVE  /\ Digits(n, width) \in Seq(0..9) /\ Len(Digits(n, width)) = width
         /\ DOMAIN Digits(n, width) = 1..width
         /\ \A i \in 1..width : Digits(n, width)[i] = (n \div TenTo[width - i]) % 10
<1>1. ASSUME NEW i \in 1..width
      PROVE  (n \div TenTo[width - i]) % 10 \in 0..9
  <2>1. width - i \in Nat
    OBVIOUS
  <2>2. TenTo[width - i] \in Nat \ {0}
    BY <2>1, TenToSum
  <2>3. n \div TenTo[width - i] \in Nat
    BY <2>2, Divided
  <2> QED
    BY <2>3
<1>2. Digits(n, width) = [i \in 1..width |-> (n \div TenTo[width - i]) % 10]
  BY DEF Digits
<1> QED
  BY <1>1, <1>2

LEMMA OneDigit ==
  ASSUME NEW n, NEW width \in Nat, NEW i \in 1..width
  PROVE  Digits(n, width)[i] = (n \div TenTo[width - i]) % 10
  BY DEF Digits

\* The first digits of a number, as a number, are what is left of it when
\* the other places are cut off.
LEMMA FirstDigits ==
  ASSUME NEW n \in Nat, NEW width \in Nat, n < TenTo[width],
         NEW last \in 0..width, NEW d \in Seq(0..9), Len(d) = last,
         \A i \in 1..last : d[i] = Digits(n, width)[i]
  PROVE  Number(d) = n \div TenTo[width - last]
<1>1. PICK f : Numbering(f, d) /\ Number(d) = f[last]
  BY NumberRecurs
<1>2. /\ f[0] = 0
      /\ \A i \in 1..last : f[i] = 10 * f[i - 1] + d[i]
  BY <1>1 DEF Numbering
<1> DEFINE P == {i \in Nat : i <= last => f[i] = n \div TenTo[width - i]}
<1>3. 0 \in P
  <2>1. width - 0 = width /\ TenTo[width] \in Nat \ {0}
    BY TenToSum
  <2>2. 0 * TenTo[width] + n = n
    BY <2>1
  <2>3. n \div TenTo[width] = 0
    BY <2>1, <2>2, DividedBack
  <2> QED
    BY <1>2, <2>1, <2>3
<1>4. ASSUME NEW i \in Nat, i \in P
      PROVE  i + 1 \in P
  <2> SUFFICES ASSUME i + 1 <= last
               PROVE  f[i + 1] = n \div TenTo[width - (i + 1)]
    OBVIOUS
  <2> DEFINE k == width - (i + 1)
  <2>1. /\ i + 1 \in 1..last /\ i + 1 \in 1..width /\ (i + 1) - 1 = i
        /\ k \in Nat /\ width - i = k + 1
    OBVIOUS
  <2> HIDE DEF k
  <2>2. TenTo[k] \in Nat \ {0} /\ TenTo[width - i] = 10 * TenTo[k]
    <3>1. TenTo[k] \in Nat \ {0}
      BY <2>1, TenToSum
    <3>2. TenTo[k + 1] = 10 * TenTo[k]
      BY <2>1, TenToRecurs
    <3> QED
      BY <2>1, <3>1, <3>2
  <2>3. f[i] = n \div (10 * TenTo[k])
    BY <1>4, <2>1, <2>2
  <2>4. d[i + 1] = (n \div TenTo[k]) % 10
    <3>1. d[i + 1] = Digits(n, width)[i + 1]
      BY <2>1
    <3>2. Digits(n, width)[i + 1] = (n \div TenTo[width - (i + 1)]) % 10
      BY <2>1, OneDigit
    <3> QED
      BY <3>1, <3>2 DEF k
  <2>5. f[i + 1] = 10 * f[i] + d[i + 1]
    BY <1>2, <2>1
  <2>6. n \div TenTo[k] = 10 * (n \div (10 * TenTo[k])) + ((n \div TenTo[k]) % 10)
    BY <2>2, DividedByTen
  <2>7. f[i + 1] = n \div TenTo[k]
    BY <2>3, <2>4, <2>5, <2>6
  <2> QED
    BY <2>7 DEF k
<1> HIDE DEF P
<1>5. last \in P
  BY <1>3, <1>4, Induction
<1> QED
  BY <1>1, <1>5 DEF P

\* A number whose last digits are zeros is a multiple of their power of ten.
LEMMA LastDigits ==
  ASSUME NEW n \in Nat, NEW width \in Nat, NEW last \in 0..width,
         \A i \in (last + 1)..width : Digits(n, width)[i] = 0
  PROVE  n = (n \div TenTo[width - last]) * TenTo[width - last]
<1> DEFINE P == {k \in Nat : k <= width - last => n = (n \div TenTo[k]) * TenTo[k]}
<1>1. 0 \in P
  <2>1. TenTo[0] = 1 /\ n = (n \div 1) * 1
    BY TenToRecurs
  <2> QED
    BY <2>1
<1>2. ASSUME NEW k \in Nat, k \in P
      PROVE  k + 1 \in P
  <2> SUFFICES ASSUME k + 1 <= width - last
               PROVE  n = (n \div TenTo[k + 1]) * TenTo[k + 1]
    OBVIOUS
  <2> DEFINE i == width - k
             ten == TenTo[k]
             q == n \div ten
             t == n \div (10 * ten)
  <2>1. i \in (last + 1)..width /\ i \in 1..width /\ width - i = k
    OBVIOUS
  <2>2. ten \in Nat \ {0} /\ TenTo[k + 1] = 10 * ten
    <3>1. TenTo[k] \in Nat \ {0}
      BY TenToSum
    <3>2. TenTo[k + 1] = 10 * TenTo[k]
      BY TenToRecurs
    <3> QED
      BY <3>1, <3>2
  <2>3. q % 10 = 0
    <3>1. Digits(n, width)[i] = (n \div TenTo[width - i]) % 10
      BY <2>1, OneDigit
    <3>2. Digits(n, width)[i] = 0
      BY <2>1
    <3> QED
      BY <2>1, <3>1, <3>2, Zenon
  <2>4. n = q * ten
    BY <1>2
  <2>5. q = 10 * t + (q % 10)
    BY <2>2, DividedByTen
  <2>6. t \in Nat
    <3>1. 10 * ten \in Nat \ {0}
      BY <2>2
    <3> QED
      BY <3>1, Divided
  <2> HIDE DEF ten, q, t
  <2>7. q = 10 * t + 0
    BY <2>3, <2>5
  <2>8. (10 * t + 0) * ten = t * (10 * ten) + 0 * ten
    BY <2>2, <2>6, DigitsAtTheirPlace
  <2>9. t * (10 * ten) \in Nat /\ 0 * ten = 0
    BY <2>2, <2>6, ProductIsNatural
  <2>10. n = t * (10 * ten)
    BY <2>4, <2>7, <2>8, <2>9
  <2> QED
    BY <2>2, <2>10 DEF t
<1> HIDE DEF P
<1>3. width - last \in P
  <2>1. width - last \in Nat
    OBVIOUS
  <2> QED
    BY <1>1, <1>2, <2>1, Induction
<1> QED
  BY <1>3 DEF P

-----------------------------------------------------------------------------
(***************************************************************************)
(* Texts that are written are read back.                                   *)
(***************************************************************************)

\* A text of digits that names so many units of 1 / 10^places.
Names(text, places, n) ==
  /\ text.form = "plain" /\ text.whole \in Nat
  /\ text.fraction \in Seq(0..9) /\ Len(text.fraction) <= places
  /\ text.whole * TenTo[places]
       + Number(text.fraction) * TenTo[places - Len(text.fraction)] = n

LEMMA NamesUnits ==
  ASSUME NEW text, NEW places \in Nat, NEW n, Names(text, places, n)
  PROVE  Units(text, places) = n /\ n \in Nat
  BY UnitsAreScaled DEF Names

\* Up to which digit the amount is written.
LEMMA LastIsLast ==
  ASSUME NEW digits \in Seq(0..9), NEW last,
         last = SelectLastInSeq(digits, LAMBDA digit : digit # 0)
  PROVE  /\ last \in 0..Len(digits)
         /\ \A i \in (last + 1)..Len(digits) : digits[i] = 0
<1> DEFINE n == Len(digits)
           I == {i \in 1..n : digits[i] # 0}
<1>1. last = IF I # {} THEN Max(I) ELSE 0
  BY DEF SelectLastInSeq
<1>2. n \in Nat
  OBVIOUS
<1>3. CASE I = {}
  <2>1. last = 0
    BY <1>1, <1>3
  <2>2. \A i \in 1..n : i \notin I
    BY <1>3
  <2> QED
    BY <1>2, <2>1, <2>2
<1>4. CASE I # {}
  <2>1. I \subseteq 0..n
    BY <1>2
  <2>2. \E x \in I : \A k \in I : x >= k
    <3> HIDE DEF I, n
    <3> QED
      BY <1>2, <1>4, <2>1, GreatestExists
  <2>3. last \in I /\ \A k \in I : last >= k
    <3> HIDE DEF I
    <3> QED
      BY <1>1, <1>4, <2>2 DEF Max
  <2>4. last \in 0..n
    BY <2>1, <2>3
  <2>5. ASSUME NEW i \in (last + 1)..n
        PROVE  digits[i] = 0
    <3>1. i \in 1..n /\ ~(last >= i)
      BY <1>2, <2>4
    <3>2. i \notin I
      BY <2>3, <3>1
    <3> QED
      BY <3>1, <3>2
  <2> QED
    BY <2>4, <2>5
<1> QED
  BY <1>3, <1>4

LEMMA FormatReadsBack ==
  ASSUME NEW amount \in Nat
  PROVE  /\ Names(Format(amount), Decimals, amount)
         /\ Format(amount).point => Format(amount).fraction # <<>>
<1> DEFINE ten == TenTo[Decimals]
           rest == amount % ten
           digits == Digits(rest, Decimals)
           last == SelectLastInSeq(digits, LAMBDA digit : digit # 0)
           fraction == SubSeq(digits, 1, last)
<1>1. Decimals \in Nat
  BY ValuationAssumption
<1>2. /\ ten \in Nat \ {0}
      /\ amount \div ten \in Nat /\ rest \in Nat /\ rest < ten
      /\ amount = (amount \div ten) * ten + rest
  <2>1. ten \in Nat \ {0}
    BY <1>1, TenToSum
  <2> HIDE DEF ten
  <2> QED
    BY <2>1, Divided
<1>3. Format(amount) = Decimal(amount \div ten, last # 0, fraction)
  BY DEF Format
<1>4. /\ Format(amount).form = "plain" /\ Format(amount).whole = amount \div ten
      /\ Format(amount).point = (last # 0) /\ Format(amount).fraction = fraction
  <2> DEFINE whole == amount \div ten
             point == last # 0
  <2>1. Format(amount) = Decimal(whole, point, fraction)
    BY <1>3
  <2> HIDE DEF whole, point, fraction
  <2>2. /\ Format(amount).form = "plain" /\ Format(amount).whole = whole
        /\ Format(amount).point = point /\ Format(amount).fraction = fraction
    BY <2>1 DEF Decimal
  <2> QED
    BY <2>2 DEF whole, point
<1> HIDE DEF ten, rest
<1>5. /\ digits \in Seq(0..9) /\ Len(digits) = Decimals
      /\ DOMAIN digits = 1..Decimals
  BY <1>1, <1>2, DigitsAreDigits
<1> HIDE DEF digits
<1>6. /\ last \in 0..Decimals
      /\ \A i \in (last + 1)..Decimals : digits[i] = 0
  BY <1>5, LastIsLast
<1> HIDE DEF last
<1>7. /\ fraction \in Seq(0..9) /\ Len(fraction) = last
      /\ \A i \in 1..last : fraction[i] = digits[i]
  <2>1. \A i \in 1..last : digits[i] \in 0..9
    BY <1>1, <1>5, <1>6
  <2>2. fraction = [i \in 1..last |-> digits[i]]
    BY <1>1, <1>5, <1>6
  <2> HIDE DEF fraction
  <2> QED
    BY <1>6, <2>1, <2>2
<1> HIDE DEF fraction
<1>8. Number(fraction) = rest \div TenTo[Decimals - last]
  <2>1. \A i \in 1..last : fraction[i] = Digits(rest, Decimals)[i]
    BY <1>7 DEF digits
  <2>2. rest < TenTo[Decimals]
    BY <1>2 DEF ten
  <2> QED
    BY <1>1, <1>2, <1>6, <1>7, <2>1, <2>2, FirstDigits
<1>9. rest = (rest \div TenTo[Decimals - last]) * TenTo[Decimals - last]
  BY <1>1, <1>2, <1>6, LastDigits DEF digits
<1>10. (amount \div ten) * ten + Number(fraction) * TenTo[Decimals - Len(fraction)] = amount
  BY <1>2, <1>7, <1>8, <1>9
<1>11. last # 0 => fraction # <<>>
  BY <1>7
<1>12. Len(fraction) <= Decimals
  BY <1>1, <1>6, <1>7
<1> QED
  BY <1>2, <1>4, <1>7, <1>10, <1>11, <1>12 DEF Names, ten

LEMMA CanonicalReadsBack ==
  ASSUME NEW scaled \in Nat
  PROVE  Names(CanonicalPtax(scaled), PtaxPlaces, scaled)
<1> DEFINE ten == TenTo[PtaxPlaces]
           rest == scaled % ten
           digits == Digits(rest, PtaxPlaces)
<1>1. PtaxPlaces \in Nat
  BY ValuationAssumption
<1>2. /\ ten \in Nat \ {0}
      /\ scaled \div ten \in Nat /\ rest \in Nat /\ rest < ten
      /\ scaled = (scaled \div ten) * ten + rest
  <2>1. ten \in Nat \ {0}
    BY <1>1, TenToSum
  <2> HIDE DEF ten
  <2> QED
    BY <2>1, Divided
<1>3. CanonicalPtax(scaled) = Decimal(scaled \div ten, TRUE, digits)
  BY DEF CanonicalPtax
<1>4. /\ CanonicalPtax(scaled).form = "plain"
      /\ CanonicalPtax(scaled).whole = scaled \div ten
      /\ CanonicalPtax(scaled).fraction = digits
  BY <1>3 DEF Decimal
<1> HIDE DEF ten, rest
<1>5. digits \in Seq(0..9) /\ Len(digits) = PtaxPlaces
  BY <1>1, <1>2, DigitsAreDigits
<1>6. PtaxPlaces \in 0..PtaxPlaces /\ PtaxPlaces - PtaxPlaces = 0
  BY <1>1
<1>7. TenTo[0] = 1 /\ rest \div 1 = rest
  BY <1>2, TenToRecurs
<1>8. Number(digits) = rest \div TenTo[PtaxPlaces - PtaxPlaces]
  BY <1>1, <1>2, <1>5, <1>6, FirstDigits DEF ten
<1> HIDE DEF digits
<1>9. Number(digits) = rest
  BY <1>6, <1>7, <1>8
<1>10. (scaled \div ten) * ten + Number(digits) * TenTo[PtaxPlaces - Len(digits)] = scaled
  BY <1>2, <1>5, <1>6, <1>7, <1>9
<1>11. Len(digits) <= PtaxPlaces
  BY <1>1, <1>5
<1> QED
  BY <1>2, <1>4, <1>5, <1>10, <1>11 DEF Names, ten

\* What from_decimal takes it reads as any reader does, and it refuses a text
\* of digits only when the number has no place in an amount.
LEMMA FromDecimalReads ==
  ASSUME NEW text \in Texts
  PROVE  /\ FromDecimal(text) # None =>
              /\ FromDecimal(text) \in 1..MaxU64
              /\ Units(text, Decimals) = FromDecimal(text)
         /\ FromDecimal(text) = None =>
              \/ text.form # "plain"
              \/ text.point /\ text.fraction = <<>>
              \/ Len(text.fraction) > Decimals
              \/ Units(text, Decimals) \notin 1..MaxU64
<1> DEFINE atomic == text.whole * TenTo[Decimals]
                       + Number(text.fraction) * TenTo[Decimals - Len(text.fraction)]
<1>1. text.whole \in Nat /\ text.fraction \in Seq(0..9) /\ Len(text.fraction) \in Nat
  BY DEF Texts
<1>2. Decimals \in Nat /\ MaxU64 \in Nat /\ None \notin Int
  BY ValuationAssumption
<1>3. FromDecimal(text) =
        IF text.form # "plain" \/ (text.point /\ text.fraction = <<>>) THEN None
        ELSE IF Len(text.fraction) > Decimals THEN None
        ELSE IF atomic > MaxU64 \/ atomic = 0 THEN None
        ELSE atomic
  BY DEF FromDecimal
<1>4. Len(text.fraction) <= Decimals =>
        Units(text, Decimals) = atomic /\ atomic \in Nat
  BY <1>1, <1>2, UnitsAreScaled
<1> HIDE DEF atomic
<1>5. CASE text.form # "plain" \/ (text.point /\ text.fraction = <<>>)
  BY <1>3, <1>5
<1>6. CASE ~(text.form # "plain" \/ (text.point /\ text.fraction = <<>>))
  <2>1. CASE Len(text.fraction) > Decimals
    BY <1>3, <1>6, <2>1
  <2>2. CASE ~(Len(text.fraction) > Decimals)
    <3>1. Units(text, Decimals) = atomic /\ atomic \in Nat
      BY <1>1, <1>2, <1>4, <2>2
    <3>2. FromDecimal(text) = IF atomic > MaxU64 \/ atomic = 0 THEN None ELSE atomic
      BY <1>3, <1>6, <2>2
    <3>3. CASE atomic > MaxU64 \/ atomic = 0
      BY <1>2, <3>1, <3>2, <3>3
    <3>4. CASE ~(atomic > MaxU64 \/ atomic = 0)
      BY <1>2, <3>1, <3>2, <3>4
    <3> QED
      BY <3>3, <3>4
  <2> QED
    BY <2>1, <2>2
<1> QED
  BY <1>5, <1>6

\* An amount that is shown is parsed and paid as it is.
LEMMA FormatSurvives ==
  ASSUME NEW amount \in 1..MaxU64
  PROVE  FromDecimal(Format(amount)) = amount /\ Units(Format(amount), Decimals) = amount
<1> DEFINE text == Format(amount)
           atomic == text.whole * TenTo[Decimals]
                       + Number(text.fraction) * TenTo[Decimals - Len(text.fraction)]
<1>1. Decimals \in Nat /\ MaxU64 \in Nat /\ amount \in Nat
  BY ValuationAssumption
<1>2. Names(text, Decimals, amount) /\ (text.point => text.fraction # <<>>)
  BY <1>1, FormatReadsBack
<1>3. Units(text, Decimals) = amount
  BY <1>1, <1>2, NamesUnits
<1>4. atomic = amount /\ text.form = "plain" /\ Len(text.fraction) <= Decimals
  BY <1>2 DEF Names
<1>5. FromDecimal(text) =
        IF text.form # "plain" \/ (text.point /\ text.fraction = <<>>) THEN None
        ELSE IF Len(text.fraction) > Decimals THEN None
        ELSE IF atomic > MaxU64 \/ atomic = 0 THEN None
        ELSE atomic
  BY DEF FromDecimal
<1>6. ~(atomic > MaxU64 \/ atomic = 0)
  BY <1>1, <1>4
<1>7. ~(Len(text.fraction) > Decimals)
  <2>1. Len(text.fraction) \in Nat
    BY <1>2 DEF Names
  <2> QED
    BY <1>1, <1>4, <2>1
<1> HIDE DEF text, atomic
<1> QED
  BY <1>2, <1>3, <1>4, <1>5, <1>6, <1>7 DEF text

\* A quote that parses is kept in the evidence as it was parsed.
LEMMA QuoteSurvives ==
  ASSUME NEW text \in Texts, ParsePtax(text) # None
  PROVE  LET scaled == ParsePtax(text) IN
           /\ scaled \in Nat
           /\ ParsePtax(CanonicalPtax(scaled)) = scaled
           /\ Units(CanonicalPtax(scaled), PtaxPlaces) = scaled
<1> DEFINE Scaled0(t) == t.whole * TenTo[PtaxPlaces]
                          + Number(t.fraction) * TenTo[PtaxPlaces - Len(t.fraction)]
           scaled == ParsePtax(text)
           canon == CanonicalPtax(scaled)
<1>1. \A t : ParsePtax(t) =
        IF t.form # "plain" \/ Len(t.fraction) > PtaxPlaces THEN None
        ELSE IF Scaled0(t) > MaxU64 \/ Scaled0(t) = 0 THEN None
        ELSE Scaled0(t)
  BY DEF ParsePtax
<1>2. PtaxPlaces \in Nat /\ MaxU64 \in Nat
  BY ValuationAssumption
<1>3. text.whole \in Nat /\ text.fraction \in Seq(0..9) /\ Len(text.fraction) \in Nat
  BY DEF Texts
<1>4. /\ ~(Len(text.fraction) > PtaxPlaces)
      /\ ~(Scaled0(text) > MaxU64 \/ Scaled0(text) = 0)
      /\ scaled = Scaled0(text)
  <2> HIDE DEF Scaled0
  <2> QED
    BY <1>1
<1>5. Scaled0(text) = Units(text, PtaxPlaces) /\ Scaled0(text) \in Nat
  <2>1. Len(text.fraction) <= PtaxPlaces
    BY <1>2, <1>3, <1>4
  <2> QED
    BY <1>2, <1>3, <2>1, UnitsAreScaled
<1>6. scaled \in Nat
  BY <1>4, <1>5
<1> HIDE DEF scaled
<1>7. Names(canon, PtaxPlaces, scaled)
  BY <1>6, CanonicalReadsBack
<1>8. Units(canon, PtaxPlaces) = scaled
  BY <1>2, <1>7, NamesUnits
<1>9. canon.form = "plain" /\ Scaled0(canon) = scaled /\ ~(Len(canon.fraction) > PtaxPlaces)
  <2>1. Len(canon.fraction) \in Nat
    BY <1>7 DEF Names
  <2> QED
    BY <1>2, <1>7, <2>1 DEF Names
<1> HIDE DEF Scaled0, canon
<1>10. ParsePtax(canon) = scaled
  BY <1>1, <1>4, <1>9
<1> QED
  BY <1>6, <1>8, <1>10 DEF scaled, canon

-----------------------------------------------------------------------------
(***************************************************************************)
(* Rounding.                                                               *)
(***************************************************************************)

Near(n, cents, cent) ==
  2 * cents * cent - cent <= 2 * n /\ 2 * n < 2 * cents * cent + cent

LEMMA HalfUpIsNear ==
  ASSUME NEW n \in Nat, NEW cent \in Nat \ {0}
  PROVE  LET q == (n + (cent \div 2)) \div cent IN q \in Nat /\ Near(n, q, cent)
<1>1. PICK h \in Nat : h = cent \div 2 /\ 2 * h <= cent /\ cent - 1 <= 2 * h
  OBVIOUS
<1>2. PICK m \in Nat : m = n + h
  OBVIOUS
<1>3. PICK q \in Nat, r \in Nat : q = m \div cent /\ r < cent /\ m = q * cent + r
  BY Divided
<1>4. PICK p \in Nat : p = q * cent
  BY ProductIsNatural
<1>5. 2 * q * cent = 2 * p
  BY <1>4
<1>6. 2 * p - cent <= 2 * n /\ 2 * n < 2 * p + cent
  BY <1>1, <1>2, <1>3, <1>4
<1> QED
  BY <1>1, <1>2, <1>3, <1>5, <1>6 DEF Near

\* A rounded number above a limit comes from a product above it.
LEMMA AboveIsAbove ==
  ASSUME NEW n \in Nat, NEW cent \in Nat \ {0}, NEW limit \in Nat,
         (n + (cent \div 2)) \div cent > limit
  PROVE  2 * n >= 2 * limit * cent + cent
<1> DEFINE q == (n + (cent \div 2)) \div cent
<1>1. q \in Nat /\ 2 * q * cent - cent <= 2 * n
  BY HalfUpIsNear DEF Near
<1> HIDE DEF q
<1>2. PICK k \in Nat : q = limit + 1 + k
  <2>1. q - limit - 1 \in Nat
    BY <1>1 DEF q
  <2> QED
    BY <1>1, <2>1
<1>3. 2 * q * cent = 2 * limit * cent + 2 * cent + 2 * (k * cent) /\ k * cent \in Nat
  BY <1>2, ProductIsNatural
<1>4. 2 * limit * cent \in Nat
  BY ProductIsNatural
<1> QED
  BY <1>1, <1>3, <1>4

\* The reference of a product: the nearest number of cents, and none only when
\* that number, or half a cent more than the product, does not fit.
LEMMA NominalIsNearest ==
  ASSUME NEW amount \in Nat, NEW sale \in Nat, NEW n, n = amount * sale * 100,
         NEW cent, cent = TenTo[Decimals + PtaxPlaces], NEW cents, cents = Nominal(amount, sale)
  PROVE  /\ cents # None => cents \in Nat /\ Near(n, cents, cent)
         /\ (cents = None \/ cents > MaxI64) /\ Wide => 2 * n >= 2 * MaxI64 * cent + cent
<1> DEFINE half == n + (cent \div 2)
           q == half \div cent
<1>1. /\ Decimals \in Nat /\ PtaxPlaces \in Nat /\ MaxU64 \in Nat
      /\ MaxU128 \in Nat /\ MaxI64 \in Nat /\ MaxI64 <= MaxU64 /\ None \notin Int
  BY ValuationAssumption
<1>2. cent = TenTo[Decimals] * TenTo[PtaxPlaces] /\ cent \in Nat \ {0}
  <2>1. Decimals + PtaxPlaces \in Nat
    BY <1>1
  <2> QED
    BY <1>1, <2>1, TenToSum
<1>3. n \in Nat
  <2>1. amount * sale \in Nat
    BY ProductIsNatural
  <2> QED
    BY <2>1, ProductIsNatural
<1>4. cents = IF half > MaxU128 \/ cent > MaxU128 THEN None
              ELSE IF q > MaxU64 THEN None ELSE q
  BY <1>2 DEF Nominal, Checked
<1>5. q \in Nat /\ Near(n, q, cent)
  BY <1>2, <1>3, HalfUpIsNear
<1>6. half \in Nat
  BY <1>2, <1>3
<1> DEFINE Far == 2 * n >= 2 * MaxI64 * cent + cent
<1>7. q > MaxI64 => Far
  <2> SUFFICES ASSUME q > MaxI64
               PROVE  Far
    OBVIOUS
  <2> QED
    BY <1>1, <1>2, <1>3, AboveIsAbove
<1>8. ASSUME Wide, half > MaxU128 \/ cent > MaxU128
      PROVE  q > MaxI64
  <2>1. PICK room \in Nat : room = MaxU64 * cent
    BY <1>1, <1>2, ProductIsNatural
  <2>2. (MaxU64 + 1) * cent = room + cent
    BY <1>1, <1>2, <2>1
  <2>3. room + cent <= MaxU128
    BY <1>8, <2>2 DEF Wide
  <2>4. half > room + cent
    BY <1>1, <1>2, <1>6, <1>8, <2>1, <2>3
  <2>5. half = q * cent + (half % cent) /\ half % cent < cent /\ half % cent \in Nat
    <3> HIDE DEF half
    <3> QED
      BY <1>2, <1>6, Divided
  <2> HIDE DEF half, q
  <2>6. CASE q <= MaxU64
    <3>1. PICK k \in Nat : MaxU64 = q + k
      <4>1. MaxU64 - q \in Nat
        BY <1>1, <1>5, <2>6
      <4> QED
        BY <1>1, <1>5, <4>1
    <3>2. room = q * cent + k * cent /\ k * cent \in Nat /\ q * cent \in Nat
      BY <1>2, <1>5, <2>1, <3>1, ProductIsNatural
    <3> QED
      BY <1>2, <1>6, <2>1, <2>4, <2>5, <3>2
  <2>7. CASE ~(q <= MaxU64)
    BY <1>1, <1>5, <2>7
  <2> QED
    BY <2>6, <2>7
<1> HIDE DEF half, q, Far
<1>9. cents # None => cents = q
  BY <1>4
<1>10. ASSUME cents = None \/ cents > MaxI64, Wide
       PROVE  q > MaxI64
  <2>1. CASE half > MaxU128 \/ cent > MaxU128
    BY <1>8, <1>10, <2>1
  <2>2. CASE ~(half > MaxU128 \/ cent > MaxU128) /\ q > MaxU64
    BY <1>1, <1>5, <2>2
  <2>3. CASE ~(half > MaxU128 \/ cent > MaxU128) /\ ~(q > MaxU64)
    BY <1>1, <1>4, <1>5, <1>10, <2>3
  <2> QED
    BY <2>1, <2>2, <2>3
<1> QED
  BY <1>5, <1>7, <1>9, <1>10 DEF Far

\* The promise of ReferencesAreNearest about one valuation.
NearestOf(received, value) ==
  value.evidence # None =>
    LET twice == 2 * received * Units(value.evidence.sale, PtaxPlaces) * 100
        cent == TenTo[Decimals + PtaxPlaces]
    IN  IF value.result = "valued"
        THEN 2 * value.cents * cent - cent <= twice /\ twice < 2 * value.cents * cent + cent
        ELSE Wide => twice >= 2 * MaxI64 * cent + cent

LEMMA ValueIsNearest ==
  ASSUME NEW received \in Nat, NEW operation,
         NEW failure \in {None, "source_unavailable", "response_too_large", "response_invalid"},
         NEW rows, \A i \in DOMAIN rows : rows[i].sale \in Texts,
         Len(rows) = 1 => 1 \in DOMAIN rows
  PROVE  NearestOf(received, Value(received, ParseResponse(operation, failure, rows)))
<1> DEFINE response == ParseResponse(operation, failure, rows)
           value == Value(received, response)
<1>1. \/ \E reason : response = Without(reason) /\ reason # "evidence"
      \/ /\ response = With(Evidence(operation, rows[1]))
         /\ Len(rows) = 1
         /\ \A i \in DOMAIN rows : WellFormed(rows[i])
  BY DEF ParseResponse, Select
<1>2. ASSUME NEW reason, response = Without(reason), reason # "evidence"
      PROVE  value.evidence = None
  BY <1>2 DEF Value, Without
<1>3. ASSUME response = With(Evidence(operation, rows[1])), Len(rows) = 1,
             \A i \in DOMAIN rows : WellFormed(rows[i])
      PROVE  NearestOf(received, value)
  <2> DEFINE text == rows[1].sale
             scaled == ParsePtax(text)
             sale == CanonicalPtax(scaled)
             cents == Nominal(received, scaled)
             cent == TenTo[Decimals + PtaxPlaces]
             n == received * scaled * 100
  <2>1. text \in Texts /\ scaled # None
    BY <1>3 DEF WellFormed
  <2>2. scaled \in Nat /\ ParsePtax(sale) = scaled /\ Units(sale, PtaxPlaces) = scaled
    <3> HIDE DEF text
    <3> QED
      BY <2>1, QuoteSurvives
  <2>3. /\ response.result = "evidence" /\ response.evidence.sale = sale
        /\ response = [result |-> "evidence", evidence |-> response.evidence, cents |-> None]
    <3> HIDE DEF sale
    <3> QED
      BY <1>3 DEF With, Evidence, sale
  <2> HIDE DEF response, text, scaled, sale, cent
  <2>4. value = IF cents = None THEN [response EXCEPT !.result = "integrity"]
                ELSE IF cents > MaxI64 THEN [response EXCEPT !.result = "unavailable"]
                ELSE [response EXCEPT !.result = "valued", !.cents = cents]
    BY <2>2, <2>3 DEF Value
  <2>5. /\ cents # None => cents \in Nat /\ Near(n, cents, cent)
        /\ (cents = None \/ cents > MaxI64) /\ Wide => 2 * n >= 2 * MaxI64 * cent + cent
    BY <2>2, NominalIsNearest DEF cent
  <2>6. 2 * received * scaled * 100 = 2 * n
    BY <2>2
  <2> HIDE DEF cents, n, value
  <2>7. /\ value.evidence = response.evidence
        /\ \/ value.result = "valued" /\ cents # None /\ value.cents = cents
           \/ value.result # "valued" /\ (cents = None \/ cents > MaxI64)
    BY <2>3, <2>4
  <2>8. value.evidence.sale = sale
    BY <2>3, <2>7
  <2> DEFINE twice == 2 * received * Units(value.evidence.sale, PtaxPlaces) * 100
  <2>9. twice = 2 * n
    BY <2>2, <2>6, <2>8
  <2> HIDE DEF twice
  <2>10. IF value.result = "valued"
         THEN 2 * value.cents * cent - cent <= twice /\ twice < 2 * value.cents * cent + cent
         ELSE Wide => twice >= 2 * MaxI64 * cent + cent
    BY <2>5, <2>7, <2>9 DEF Near
  <2> QED
    BY <2>10 DEF NearestOf, twice, cent
<1>4. value.evidence = None => NearestOf(received, value)
  BY DEF NearestOf
<1> QED
  BY <1>1, <1>2, <1>3, <1>4

-----------------------------------------------------------------------------
(***************************************************************************)
(* One amount from the operator to the reference.                          *)
(***************************************************************************)

\* The request that was issued for the text.
Issued ==
  /\ payment.amount \in 1..MaxI64
  /\ Units(payment.text, Decimals) = payment.amount
  /\ payment.shown = Format(payment.amount)

\* The request was paid as it is shown.
Paid == Issued /\ payment.received = payment.amount

RefusedInOrder ==
  LET text == payment.text IN
    \/ text.form # "plain"
    \/ text.point /\ text.fraction = <<>>
    \/ Len(text.fraction) > Decimals
    \/ Units(text, Decimals) \notin 1..MaxI64

PaymentFields == {"text", "amount", "shown", "received", "time", "on"}

AmountInv ==
  /\ stage \in {"idle", "refused", "issued", "settled", "requested", "done"}
  /\ payment = [f \in PaymentFields |-> payment[f]]
  /\ stage \in {"idle", "refused", "issued"} => payment.received = None
  /\ stage = "refused" => RefusedInOrder
  /\ stage = "issued" => Issued
  /\ stage \in {"settled", "requested", "done"} => Paid
  /\ stage = "done" => NearestOf(payment.received, outcome)

LEMMA AmountInvKept ==
  ASSUME AmountInv, [Next]_vars
  PROVE  AmountInv'
<1>1. /\ Decimals \in Nat /\ MaxU64 \in Nat /\ MaxI64 \in Nat /\ MaxI64 <= MaxU64
      /\ None \notin Int /\ Amounts \subseteq Texts /\ Answers \subseteq Bodies
  BY ValuationAssumption
<1>2. \A reason : Without(reason).evidence = None
  BY DEF Without
<1>3. \A value : value.evidence = None => NearestOf(payment.received, value)
  BY DEF NearestOf
<1>4. CASE Midnight
  BY <1>4 DEF AmountInv, Midnight, Issued, Paid, RefusedInOrder, NearestOf
<1>5. ASSUME NEW text \in Amounts, Create(text)
      PROVE  AmountInv'
  <2> DEFINE amount == FromDecimal(text)
  <2>1. /\ amount # None =>
             /\ amount \in 1..MaxU64
             /\ Units(text, Decimals) = amount
        /\ amount = None =>
             \/ text.form # "plain"
             \/ text.point /\ text.fraction = <<>>
             \/ Len(text.fraction) > Decimals
             \/ Units(text, Decimals) \notin 1..MaxU64
    BY <1>1, FromDecimalReads
  <2> HIDE DEF amount
  <2>2. CASE amount = None \/ amount > MaxI64
    <3>1. stage' = "refused" /\ payment' = [Nothing EXCEPT !.text = text]
      BY <1>5, <2>2 DEF Create, amount
    <3>2. /\ payment' = [f \in PaymentFields |-> payment'[f]]
          /\ payment'.text = text /\ payment'.received = None
      BY <3>1 DEF Nothing, PaymentFields
    <3>3. \/ text.form # "plain"
          \/ text.point /\ text.fraction = <<>>
          \/ Len(text.fraction) > Decimals
          \/ Units(text, Decimals) \notin 1..MaxI64
      <4>1. CASE amount = None
        <5>1. 1..MaxI64 \subseteq 1..MaxU64
          BY <1>1
        <5> QED
          BY <2>1, <4>1, <5>1
      <4>2. CASE amount # None
        BY <1>1, <2>1, <2>2, <4>2
      <4> QED
        BY <4>1, <4>2
    <3>4. RefusedInOrder'
      BY <3>2, <3>3 DEF RefusedInOrder
    <3> QED
      BY <3>1, <3>2, <3>4 DEF AmountInv
  <2>3. CASE ~(amount = None \/ amount > MaxI64)
    <3>1. /\ stage' = "issued"
          /\ payment' = [Nothing EXCEPT !.text = text, !.amount = amount,
                                        !.shown = Format(amount)]
      BY <1>5, <2>3 DEF Create, amount
    <3>2. /\ payment' = [f \in PaymentFields |-> payment'[f]]
          /\ payment'.text = text /\ payment'.received = None
          /\ payment'.amount = amount /\ payment'.shown = Format(amount)
      BY <3>1 DEF Nothing, PaymentFields
    <3>3. amount \in 1..MaxI64
      BY <1>1, <2>1, <2>3
    <3>4. Issued'
      BY <2>1, <2>3, <3>2, <3>3 DEF Issued
    <3> QED
      BY <3>1, <3>2, <3>4 DEF AmountInv
  <2> QED
    BY <2>2, <2>3
<1>6. ASSUME NEW second \in 0..(DaySeconds - 1), Settle(second)
      PROVE  AmountInv'
  <2>1. /\ stage = "issued" /\ stage' = "settled"
        /\ payment' = [payment EXCEPT !.received = Units(payment.shown, Decimals),
                                      !.time = today * DaySeconds + second, !.on = date]
    BY <1>6 DEF Settle
  <2>2. Issued /\ payment = [f \in PaymentFields |-> payment[f]]
    BY <2>1 DEF AmountInv
  <2>3. Units(payment.shown, Decimals) = payment.amount
    <3>1. payment.amount \in 1..MaxU64
      BY <1>1, <2>2 DEF Issued
    <3> QED
      BY <2>2, <3>1, FormatSurvives DEF Issued
  <2> DEFINE units == Units(payment.shown, Decimals)
             time == today * DaySeconds + second
  <2>4. payment' = [payment EXCEPT !.received = units, !.time = time, !.on = date]
    BY <2>1
  <2> HIDE DEF units, time
  <2>5. /\ payment' = [f \in PaymentFields |-> payment'[f]]
        /\ payment'.received = units
        /\ payment'.text = payment.text /\ payment'.amount = payment.amount
        /\ payment'.shown = payment.shown
    BY <2>2, <2>4 DEF PaymentFields
  <2>6. Paid'
    BY <2>2, <2>3, <2>5 DEF Paid, Issued, units
  <2> QED
    BY <2>1, <2>5, <2>6 DEF AmountInv
<1>7. ASSUME UNCHANGED payment, stage \in {"settled", "requested"},
             \/ stage' \in {"settled", "requested"}
             \/ stage' = "done" /\ NearestOf(payment.received, outcome')
      PROVE  AmountInv'
  <2>1. Paid /\ Paid'
    BY <1>7 DEF AmountInv, Paid, Issued
  <2>2. stage' = "done" => NearestOf(payment.received, outcome)'
    BY <1>7 DEF NearestOf
  <2> QED
    BY <1>7, <2>1, <2>2 DEF AmountInv
<1>8. CASE Request
  <2>1. CASE FromUnixSeconds(payment.time) = None
    BY <1>2, <1>3, <1>7, <1>8, <2>1 DEF Request, Conclude
  <2>2. CASE FromUnixSeconds(payment.time) # None
    BY <1>7, <1>8, <2>2 DEF Request
  <2> QED
    BY <2>1, <2>2
<1>9. CASE TransportFails
  <2>1. CASE attempt < MaxAttempts
    BY <1>7, <1>9, <2>1 DEF TransportFails
  <2>2. CASE ~(attempt < MaxAttempts)
    BY <1>2, <1>3, <1>7, <1>9, <2>2 DEF TransportFails, Conclude
  <2> QED
    BY <2>1, <2>2
<1>10. ASSUME NEW answer \in Answers, Answer(answer)
       PROVE  AmountInv'
  <2> DEFINE rows == [i \in DOMAIN answer.rows |-> Dated(answer.rows[i])]
             operation == FromUnixSeconds(payment.time)
             Row == [date : {"same", "next", "impossible"}, bulletin : {None, "closing", "opening"},
                     purchase : Texts, sale : Texts]
  <2>1. /\ stage = "requested" /\ stage' = "done" /\ payment' = payment
        /\ outcome' = Value(payment.received, ParseResponse(operation, answer.failure, rows))
    BY <1>10 DEF Answer, Conclude
  <2>2. /\ answer.failure \in {None, "source_unavailable", "response_too_large", "response_invalid"}
        /\ answer.rows \in Seq(Row)
    <3>1. answer \in Bodies
      BY <1>1
    <3> QED
      BY <3>1 DEF Bodies
  <2>3. \A row \in Row : Dated(row).sale \in Texts
    BY DEF Dated
  <2> HIDE DEF Row
  <2>4. \A i \in DOMAIN answer.rows : answer.rows[i] \in Row
    BY <2>2
  <2>5. DOMAIN rows = DOMAIN answer.rows /\ \A i \in DOMAIN rows : rows[i].sale \in Texts
    BY <2>3, <2>4
  <2>6. Len(rows) = Len(answer.rows) /\ (Len(rows) = 1 => 1 \in DOMAIN rows)
    BY <2>2
  <2>7. payment.received \in Nat
    BY <1>1, <2>1 DEF AmountInv, Paid, Issued
  <2> HIDE DEF rows, operation
  <2>8. NearestOf(payment.received, outcome')
    BY <2>1, <2>2, <2>5, <2>6, <2>7, ValueIsNearest
  <2> QED
    BY <1>7, <2>1, <2>8
<1>11. CASE Forget
  <2>1. stage' = "idle" /\ payment' = Nothing
    BY <1>11 DEF Forget
  <2>2. payment'.received = None /\ payment' = [f \in PaymentFields |-> payment'[f]]
    BY <2>1 DEF Nothing, PaymentFields
  <2> QED
    BY <2>1, <2>2 DEF AmountInv
<1>12. CASE UNCHANGED vars
  BY <1>12 DEF AmountInv, vars, Issued, Paid, RefusedInOrder, NearestOf
<1> QED
  BY <1>4, <1>5, <1>6, <1>8, <1>9, <1>10, <1>11, <1>12 DEF Next

LEMMA AmountInvariance == Spec => []AmountInv
<1>1. Init => AmountInv
  BY DEF Init, Nothing, AmountInv, PaymentFields
<1>2. AmountInv /\ [Next]_vars => AmountInv'
  BY AmountInvKept
<1> QED
  BY <1>1, <1>2, PTL DEF Spec

\* Whatever text the operator types, what the ledger holds, what the URL shows
\* and what the wallet pays is the number it names; and only a text that names
\* no amount is refused (from_decimal, format).
THEOREM AmountsAlwaysSurvive == Spec => []AmountsSurvive
<1>1. ASSUME AmountInv
      PROVE  AmountsSurvive
  <2>1. None \notin Int /\ MaxI64 \in Nat /\ MaxU64 \in Nat /\ MaxI64 <= MaxU64
    BY ValuationAssumption
  <2>2. ASSUME payment.received # None
        PROVE  /\ payment.received = payment.amount
               /\ payment.received = Units(payment.text, Decimals)
               /\ FromDecimal(payment.shown) = payment.amount
    <3>1. Paid
      BY <1>1, <2>2 DEF AmountInv
    <3>2. payment.amount \in 1..MaxU64
      BY <2>1, <3>1 DEF Paid, Issued
    <3> QED
      BY <3>1, <3>2, FormatSurvives DEF Paid, Issued
  <2> QED
    BY <1>1, <2>2 DEF AmountInv, AmountsSurvive, RefusedInOrder
<1> QED
  BY <1>1, AmountInvariance, PTL

\* Whatever was paid and whatever the central bank quotes, a reference is the
\* number of cents nearest to the product, and it is refused only when that
\* number does not fit (nominal_brl_reference_cents, attach_valuation).
THEOREM ReferencesAreAlwaysNearest == Spec => []ReferencesAreNearest
<1>1. AmountInv => ReferencesAreNearest
  BY DEF AmountInv, ReferencesAreNearest, NearestOf
<1> QED
  BY <1>1, AmountInvariance, PTL

=============================================================================
