SPECIFICATION Spec
CONSTANTS
  DaySeconds = 2
  MaxYear = 2369
  None = None
  Decimals = 2
  PtaxPlaces = 1
  MaxU64 = 2047
  MaxU128 = 4194303
  MaxI64 = 1023
  MaxAttempts = 3
  Amounts <- MCAmounts
  Answers <- MCAnswers
  LastDay = 146100
  BusinessDays <- MCBusinessDays
INVARIANTS
  CalendarsAgree
  PaymentsFallInTheirMonth
  MonthsCloseWhenOver
  AmountsSurvive
  QuotesAreOfTheirDay
  ReferencesAreNearest
CHECK_DEADLOCK FALSE
