------------------------------ MODULE Valuation ------------------------------
(***************************************************************************)
(* One receivable from the amount the operator types to the reference in   *)
(* BRL: the decimal texts (model/amount.rs, PtaxDecimal), the calendar     *)
(* that dates the payment, the PTAX client with its retries, the selection *)
(* of a quote and the rounding (ptax.rs of core and of the MCP server).    *)
(* The clock ticks day by day along a calendar that only knows how long    *)
(* months are, against which the calendars of the code are compared.       *)
(*                                                                         *)
(* Decimal texts are a whole number and the digits after the point.  The   *)
(* widths of the integers are constants, so that their limits are met.     *)
(***************************************************************************)
EXTENDS Calendar, SequencesExt

CONSTANTS
  Decimals,     \* token_decimals
  PtaxPlaces,   \* decimal places of a quote: 5
  MaxU64,       \* the largest u64, u128 and i64
  MaxU128,
  MaxI64,
  MaxAttempts,  \* PTAX_MAX_ATTEMPTS
  Amounts,      \* texts the operator may type
  Answers,      \* bodies the central bank may answer with
  LastDay,      \* bound of the clock
  BusinessDays  \* the days on which a receivable is created and paid

\* 10_u64.pow
TenTo[n \in Nat] == IF n = 0 THEN 1 ELSE 10 * TenTo[n - 1]

\* A text is "plain" (digits, at most one point), or it has a sign, an
\* exponent or something else.
Decimal(whole, point, fraction) ==
  [form |-> "plain", whole |-> whole, point |-> point, fraction |-> fraction]

Texts ==
  [form : {"plain", "signed", "exponent", "other"},
   whole : Nat, point : BOOLEAN, fraction : Seq(0..9)]

\* What the central bank may answer.  The date of a row is relative to the
\* day that was asked for, and no bulletin is named in the daily resource.
Bodies ==
  [failure : {None, "source_unavailable", "response_too_large", "response_invalid"},
   rows : Seq([date : {"same", "next", "impossible"}, bulletin : {None, "closing", "opening"},
               purchase : Texts, sale : Texts])]

ASSUME ValuationAssumption ==
  /\ {Decimals, PtaxPlaces, MaxU64, MaxU128, MaxI64, LastDay} \subseteq Nat
  /\ MaxAttempts \in Nat \ {0}
  /\ MaxI64 <= MaxU64
  /\ Amounts \subseteq Texts
  /\ Answers \subseteq Bodies
  /\ TenTo[Decimals] <= MaxU64 /\ TenTo[PtaxPlaces] <= MaxU64
  /\ None \notin Int

VARIABLES
  today,    \* days since 1970-01-01
  date,     \* the date of today
  stage,    \* what happened to the receivable
  payment,  \* its amounts and its payment
  attempt,  \* attempts of the request to the central bank
  outcome   \* the valuation, or why there is none

vars == <<today, date, stage, payment, attempt, outcome>>

-----------------------------------------------------------------------------
(* Decimal texts.                                                          *)

\* parse::<u64> of digits.
Number(digits) ==
  LET number[i \in 0..Len(digits)] ==
        IF i = 0 THEN 0 ELSE 10 * number[i - 1] + digits[i]
  IN  number[Len(digits)]

Digits(n, width) == [i \in 1..width |-> (n \div TenTo[width - i]) % 10]

\* AtomicAmount::from_decimal
FromDecimal(text) ==
  LET atomic == text.whole * TenTo[Decimals]
                + Number(text.fraction) * TenTo[Decimals - Len(text.fraction)]
  IN  IF text.form # "plain" \/ (text.point /\ text.fraction = <<>>) THEN None
      ELSE IF Len(text.fraction) > Decimals THEN None
      ELSE IF atomic > MaxU64 \/ atomic = 0 THEN None
      ELSE atomic

\* Fault: the fraction is written without the zeros it starts with.
FormatUnpadded(amount) ==
  LET digits == Digits(amount % TenTo[Decimals], Decimals)
      nonzero(digit) == digit # 0
      last == SelectLastInSeq(digits, nonzero)
  IN  Decimal(amount \div TenTo[Decimals], last # 0,
              IF last = 0 THEN <<>> ELSE SubSeq(digits, SelectInSeq(digits, nonzero), last))

\* AtomicAmount::format: as many places as decimals, without the last zeros.
Format(amount) ==
  LET digits == Digits(amount % TenTo[Decimals], Decimals)
      last == SelectLastInSeq(digits, LAMBDA digit : digit # 0)
  IN  Decimal(amount \div TenTo[Decimals], last # 0, SubSeq(digits, 1, last))

\* PtaxDecimal::parse: "5." is a decimal here.
ParsePtax(text) ==
  LET scaled == text.whole * TenTo[PtaxPlaces]
                + Number(text.fraction) * TenTo[PtaxPlaces - Len(text.fraction)]
  IN  IF text.form # "plain" \/ Len(text.fraction) > PtaxPlaces THEN None
      ELSE IF scaled > MaxU64 \/ scaled = 0 THEN None
      ELSE scaled

\* PtaxDecimal::canonical
CanonicalPtax(scaled) ==
  Decimal(scaled \div TenTo[PtaxPlaces], TRUE, Digits(scaled % TenTo[PtaxPlaces], PtaxPlaces))

-----------------------------------------------------------------------------
(* The quote of a day and the reference in cents.                          *)

Checked(n, max) == IF n > max THEN None ELSE n

\* Fault: the cents are cut off.
NominalTruncated(amount, sale) ==
  Checked((amount * sale * 100) \div (TenTo[Decimals] * TenTo[PtaxPlaces]), MaxU64)

\* nominal_brl_reference_cents: checked in 128 bits, half up, then 64 bits.
Nominal(amount, sale) ==
  LET numerator == amount * sale * 100
      denominator == TenTo[Decimals] * TenTo[PtaxPlaces]
      half == numerator + denominator \div 2
  IN  IF half > MaxU128 \/ denominator > MaxU128 THEN None
      ELSE Checked(half \div denominator, MaxU64)

Without(reason) == [result |-> reason, evidence |-> None, cents |-> None]

With(evidence) == [result |-> "evidence", evidence |-> evidence, cents |-> None]

\* A row is well formed when its timestamp starts with a date and both its
\* decimals parse.
WellFormed(row) ==
  /\ ParseDate(row.date) # None
  /\ ParsePtax(row.purchase) # None
  /\ ParsePtax(row.sale) # None

Evidence(operation, row) ==
  [operation |-> operation, quote |-> row.date, sale |-> CanonicalPtax(ParsePtax(row.sale))]

\* Fault: the date of the row is not compared.
SelectAnyDay(operation, rows) ==
  IF rows = <<>> THEN Without("quote_unavailable")
  ELSE IF Len(rows) # 1 \/ rows[1].bulletin \notin {None, "closing"}
  THEN Without("response_invalid")
  ELSE With(Evidence(operation, rows[1]))

\* select_strict_same_day_quote
Select(operation, rows) ==
  IF rows = <<>> THEN Without("quote_unavailable")
  ELSE IF \/ Len(rows) # 1
          \/ rows[1].date # operation
          \/ rows[1].bulletin \notin {None, "closing"}
  THEN Without("response_invalid")
  ELSE With(Evidence(operation, rows[1]))

\* parse_response, after the status and the size of the body are checked.
ParseResponse(operation, failure, rows) ==
  IF failure # None THEN Without(failure)
  ELSE IF \E i \in DOMAIN rows : ~WellFormed(rows[i]) THEN Without("response_invalid")
  ELSE Select(operation, rows)

\* The rest of attach_available_valuations, and the INSERT of
\* attach_valuation, which takes an i64.
Value(received, response) ==
  LET cents == Nominal(received, ParsePtax(response.evidence.sale))
  IN  IF response.result # "evidence" THEN response
      ELSE IF cents = None THEN [response EXCEPT !.result = "integrity"]
      ELSE IF cents > MaxI64 THEN [response EXCEPT !.result = "unavailable"]
      ELSE [response EXCEPT !.result = "valued", !.cents = cents]

-----------------------------------------------------------------------------
(* The clock.                                                              *)

Tomorrow(d) ==
  IF d.day < DaysInMonth(d.year, d.month) THEN Date(d.year, d.month, d.day + 1)
  ELSE IF d.month < 12 THEN Date(d.year, d.month + 1, 1)
  ELSE Date(d.year + 1, 1, 1)

Nothing == [text |-> None, amount |-> None, shown |-> None, received |-> None,
            time |-> None, on |-> None]

Init ==
  /\ today = 0
  /\ date = Date(1970, 1, 1)
  /\ stage = "idle"
  /\ payment = Nothing
  /\ attempt = 0
  /\ outcome = None

Midnight ==
  /\ stage = "idle"
  /\ today < LastDay
  /\ today' = today + 1
  /\ date' = Tomorrow(date)
  /\ UNCHANGED <<stage, payment, attempt, outcome>>

\* create: the amount is parsed, kept as an i64 and shown in the URL.
Create(text) ==
  /\ stage = "idle"
  /\ today \in BusinessDays
  /\ LET amount == FromDecimal(text) IN
       IF amount = None \/ amount > MaxI64
       THEN stage' = "refused" /\ payment' = [Nothing EXCEPT !.text = text]
       ELSE /\ stage' = "issued"
            /\ payment' = [Nothing EXCEPT !.text = text, !.amount = amount,
                                          !.shown = Format(amount)]
  /\ UNCHANGED <<today, date, attempt, outcome>>

\* The number that a reader makes of a text, in units of so many places.
Units(text, places) ==
  LET units[i \in 0..Len(text.fraction)] ==
        IF i = 0 THEN text.whole * TenTo[places]
        ELSE units[i - 1] + text.fraction[i] * TenTo[places - i]
  IN  units[Len(text.fraction)]

\* A wallet pays what the URL shows, in some second of the day.
Settle(second) ==
  /\ stage = "issued"
  /\ stage' = "settled"
  /\ payment' = [payment EXCEPT !.received = Units(payment.shown, Decimals),
                                !.time = today * DaySeconds + second,
                                !.on = date]
  /\ UNCHANGED <<today, date, attempt, outcome>>

Conclude(result) ==
  /\ stage' = "done"
  /\ outcome' = result
  /\ UNCHANGED <<today, date, payment, attempt>>

\* The operation date of the request, or an error of the whole export.
Request ==
  /\ stage = "settled"
  /\ IF FromUnixSeconds(payment.time) = None
     THEN Conclude(Without("integrity"))
     ELSE /\ stage' = "requested"
          /\ attempt' = 1
          /\ UNCHANGED <<today, date, payment, outcome>>

\* The transport fails: sleep and try again, a bounded number of times.
TransportFails ==
  /\ stage = "requested"
  /\ IF attempt < MaxAttempts
     THEN attempt' = attempt + 1 /\ UNCHANGED <<today, date, stage, payment, outcome>>
     ELSE Conclude(Without("source_unavailable"))

\* The rows of an answer, of the day of the payment or not.
Dated(row) ==
  [row EXCEPT !.date = CASE row.date = "same" -> payment.on
                         [] row.date = "next" -> Tomorrow(payment.on)
                         [] row.date = "impossible" -> Date(payment.on.year, 2, 30)]

\* Any answer, also one with an error status, ends the loop.
Answer(answer) ==
  /\ stage = "requested"
  /\ LET rows == [i \in DOMAIN answer.rows |-> Dated(answer.rows[i])]
         response == ParseResponse(FromUnixSeconds(payment.time), answer.failure, rows)
     IN  Conclude(Value(payment.received, response))

\* The next receivable.
Forget ==
  /\ stage \in {"refused", "done"}
  /\ stage' = "idle"
  /\ payment' = Nothing
  /\ attempt' = 0
  /\ outcome' = None
  /\ UNCHANGED <<today, date>>

Next ==
  \/ Midnight
  \/ \E text \in Amounts : Create(text)
  \/ \E second \in 0..(DaySeconds - 1) : Settle(second)
  \/ Request
  \/ TransportFails
  \/ \E answer \in Answers : Answer(answer)
  \/ Forget

Spec == Init /\ [][Next]_vars

-----------------------------------------------------------------------------
(* Properties                                                              *)

\* civil_from_days and days_from_civil, written in two crates, are inverse to
\* each other and agree with the calendar, day after day.
CalendarsAgree ==
  /\ CivilFromDays(today) = date
  /\ DaysFromCivil(date.year, date.month, date.day) = today
  /\ date.year <= MaxYear => FromUnixSeconds(today * DaySeconds) = date

\* The month before and after a date.
Around(d) ==
  {d, Date(IF d.month = 1 THEN d.year - 1 ELSE d.year, IF d.month = 1 THEN 12 ELSE d.month - 1, 1),
      Date(IF d.month = 12 THEN d.year + 1 ELSE d.year, IF d.month = 12 THEN 1 ELSE d.month + 1, 1)}

\* A payment is selected for the month of its operation date and for no
\* other, in the first and the last second of every day: month_bounds of one
\* crate against PtaxDate::from_unix_seconds of another.
PaymentsFallInTheirMonth ==
  \A second \in {0, DaySeconds - 1}, m \in Around(date) :
    LET time == today * DaySeconds + second
        bounds == MonthBounds(Canonical(m))
    IN  date.year <= MaxYear =>
          ((bounds.start <= time /\ time < bounds.end) <=>
             Canonical(FromUnixSeconds(time)) = Canonical(m))

\* A month in the form that the tool describes is closed only after its last
\* second and can be exported from its first.
Now == today * DaySeconds

MonthsCloseWhenOver ==
  \A m \in Around(date) :
    LET text == Canonical(m)
    IN  date.year <= MaxYear =>
          /\ ValidateEligibility(text, "final", Now) = "eligible" <=> MonthBounds(text).end <= Now
          /\ ValidateEligibility(text, "snapshot", Now) = "eligible" <=> MonthBounds(text).start <= Now

\* What the operator typed, what the ledger holds, what the URL shows and what
\* the wallet pays is one amount; and a text is refused only when it does not
\* name a positive amount of atomic units that fits.
AmountsSurvive ==
  /\ payment.received # None =>
       /\ payment.received = payment.amount
       /\ payment.received = Units(payment.text, Decimals)
       /\ FromDecimal(payment.shown) = payment.amount
  /\ stage = "refused" =>
       LET text == payment.text IN
         \/ text.form # "plain"
         \/ text.point /\ text.fraction = <<>>
         \/ Len(text.fraction) > Decimals
         \/ Units(text, Decimals) \notin 1..MaxI64

\* A reference uses a quote of the calendar day on which the payment was made.
QuotesAreOfTheirDay ==
  stage = "done" /\ outcome.result = "valued" =>
    /\ outcome.evidence.operation = payment.on
    /\ outcome.evidence.quote = payment.on

\* A reference is the number of cents nearest to the exact product, the larger
\* of two as near; and, for a token of few enough places (at most 14 for the
\* widths of the code), it is refused only when that number does not fit.
Wide == (MaxU64 + 1) * TenTo[Decimals + PtaxPlaces] <= MaxU128

ReferencesAreNearest ==
  stage = "done" /\ outcome.evidence # None =>
    LET twice == 2 * payment.received * Units(outcome.evidence.sale, PtaxPlaces) * 100
        cent == TenTo[Decimals + PtaxPlaces]
    IN  IF outcome.result = "valued"
        THEN 2 * outcome.cents * cent - cent <= twice /\ twice < 2 * outcome.cents * cent + cent
        ELSE Wide => twice >= 2 * MaxI64 * cent + cent

=============================================================================
