------------------------------ MODULE Calendar ------------------------------
(***************************************************************************)
(* The two hand-written calendars: PtaxDate, which dates a settlement      *)
(* (crates/recebi-core/src/ptax.rs), and the bounds and the eligibility of *)
(* a month (apps/recebi-mcp/src/close_month.rs).  Operators only; times    *)
(* are Unix seconds, days count from 1970-01-01.                           *)
(***************************************************************************)
EXTENDS Integers

CONSTANTS
  DaySeconds,  \* seconds of a day: 86_400
  MaxYear,     \* the last year of the evidence format: 9_999
  None         \* an error, and no value

ASSUME CalendarAssumption ==
  /\ DaySeconds \in Nat \ {0}
  /\ MaxYear \in Nat \ {0}
  /\ None \notin [year : Int, month : Int, day : Int] \cup [start : Int, end : Int]

\* Integer division of Rust, which rounds towards zero.
Quotient(a, b) == IF a >= 0 THEN a \div b ELSE -((-a) \div b)

Date(y, m, d) == [year |-> y, month |-> m, day |-> d]

-----------------------------------------------------------------------------
(* PtaxDate                                                                *)

IsLeapYear(y) == y % 4 = 0 /\ (y % 100 # 0 \/ y % 400 = 0)

DaysInMonth(y, m) ==
  CASE m \in {1, 3, 5, 7, 8, 10, 12} -> 31
    [] m \in {4, 6, 9, 11} -> 30
    [] m = 2 -> IF IsLeapYear(y) THEN 29 ELSE 28

\* PtaxDate::parse of a text with the layout of a date.
ParseDate(date) ==
  IF /\ date.month \in 1..12
     /\ date.year # 0
     /\ date.day \in 1..DaysInMonth(date.year, date.month)
  THEN date
  ELSE None

\* Fault: the leap day that ends an era is forgotten.
YearOfEraShort(dayOfEra) == (dayOfEra - dayOfEra \div 1460 + dayOfEra \div 36524) \div 365

\* civil_from_days: years of an era of 400, from March.
YearOfEra(dayOfEra) ==
  (dayOfEra - dayOfEra \div 1460 + dayOfEra \div 36524 - dayOfEra \div 146096) \div 365

DateOfMonth(year, dayOfYear, monthPrime) ==
  LET month == monthPrime + (IF monthPrime < 10 THEN 3 ELSE -9)
  IN  Date(year + (IF month <= 2 THEN 1 ELSE 0), month, dayOfYear - (153 * monthPrime + 2) \div 5 + 1)

DateOfYear(year, dayOfYear) == DateOfMonth(year, dayOfYear, (5 * dayOfYear + 2) \div 153)

DateOfEra(era, dayOfEra) ==
  LET yearOfEra == YearOfEra(dayOfEra)
  IN  DateOfYear(yearOfEra + era * 400,
                 dayOfEra - (365 * yearOfEra + yearOfEra \div 4 - yearOfEra \div 100))

EraOfDay(z) == Quotient(IF z >= 0 THEN z ELSE z - 146096, 146097)

CivilFromDays(days) ==
  LET z == days + 719468
  IN  DateOfEra(EraOfDay(z), z - EraOfDay(z) * 146097)

FromUnixSeconds(time) ==
  LET date == CivilFromDays(time \div DaySeconds)
  IN  IF time >= 0 /\ date.year \in 1..MaxYear THEN ParseDate(date) ELSE None

-----------------------------------------------------------------------------
(* Months.  A month is a text of seven bytes, four for the year and two    *)
(* for the number; parse::<i64> takes a sign in place of the first digit   *)
(* of either.  Texts are compared byte by byte: "+" sorts before "-", and  *)
(* both before the digits.                                                 *)

Text(yearSign, year, monthSign, month) ==
  [yearSign |-> yearSign, year |-> year, monthSign |-> monthSign, month |-> month]

Canonical(date) == Text("", date.year, "", date.month)

Signed(sign, n) == IF sign = "-" THEN -n ELSE n

Rank(sign) == CASE sign = "+" -> 0 [] sign = "-" -> 1 [] sign = "" -> 2

\* month > current_month, as texts.
SortsBefore(a, b) ==
  \/ Rank(a.yearSign) < Rank(b.yearSign)
  \/ /\ a.yearSign = b.yearSign
     /\ \/ a.year < b.year
        \/ /\ a.year = b.year
           /\ \/ Rank(a.monthSign) < Rank(b.monthSign)
              \/ a.monthSign = b.monthSign /\ a.month < b.month

DaysFromCivil(y, m, d) ==
  LET year == y - (IF m <= 2 THEN 1 ELSE 0)
      era == Quotient(IF year >= 0 THEN year ELSE year - 399, 400)
      yearOfEra == year - era * 400
      monthPrime == m + (IF m > 2 THEN -3 ELSE 9)
      dayOfYear == (153 * monthPrime + 2) \div 5 + d - 1
  IN  era * 146097 + yearOfEra * 365 + yearOfEra \div 4 - yearOfEra \div 100 + dayOfYear - 719468

\* Fault: December ends where its own year's January starts.
MonthBoundsSameYear(text) ==
  LET year == Signed(text.yearSign, text.year)
      month == Signed(text.monthSign, text.month)
      nextMonth == IF month = 12 THEN 1 ELSE month + 1
  IN  IF year # 0 /\ month \in 1..12
      THEN [start |-> DaysFromCivil(year, month, 1) * DaySeconds,
            end |-> DaysFromCivil(year, nextMonth, 1) * DaySeconds]
      ELSE None

\* month_bounds: the first second of the month and of the next one.
MonthBounds(text) ==
  LET year == Signed(text.yearSign, text.year)
      month == Signed(text.monthSign, text.month)
      nextYear == IF month = 12 THEN year + 1 ELSE year
      nextMonth == IF month = 12 THEN 1 ELSE month + 1
  IN  IF year # 0 /\ month \in 1..12
      THEN [start |-> DaysFromCivil(year, month, 1) * DaySeconds,
            end |-> DaysFromCivil(nextYear, nextMonth, 1) * DaySeconds]
      ELSE None

\* Fault: the active month may be closed.
ValidateEligibilityOfActive(text, mode, now) ==
  LET current == Canonical(FromUnixSeconds(now))
  IN  IF MonthBounds(text) = None THEN "invalid_month"
      ELSE IF FromUnixSeconds(now) = None THEN "unavailable"
      ELSE IF SortsBefore(current, text) THEN "future_month"
      ELSE "eligible"

\* validate_eligibility, the first thing an export does.
ValidateEligibility(text, mode, now) ==
  LET current == Canonical(FromUnixSeconds(now))
  IN  IF MonthBounds(text) = None THEN "invalid_month"
      ELSE IF FromUnixSeconds(now) = None THEN "unavailable"
      ELSE IF SortsBefore(current, text) THEN "future_month"
      ELSE IF mode = "final" /\ ~SortsBefore(text, current) THEN "month_not_eligible"
      ELSE "eligible"

=============================================================================
