SPECIFICATION Spec
CONSTANTS
  ClassicToken = "token"
  Token2022 = "token_2022"
  MerchantAta = "ata"
  Mint = "mint"
  Reference = "ref"
  Amount = 3
  Decimals = 6
  MaxAccountKeys = 11
  MaxInstructions = 3
  MaxAccounts = 6
  MaxData = 20
  Keys <- MCKeys
  Transactions <- MCTransactions
  None = None
INVARIANTS
  AcceptedMeansPaid
  PaymentsAreAccepted
  UnderpaymentsLackOnlyTheAmount
  DecodingIsFaithful
CHECK_DEADLOCK FALSE
