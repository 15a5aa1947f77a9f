SPECIFICATION Spec
CONSTANTS
  Payments <- MCPayments
  Deposits <- MCDeposits
  PaymentRow <- MCPaymentRow
  DepositRow <- MCDepositRow
  Locations = {"A", "B"}
  LocationOf <- MCLocationOf
  Days = {42, 71}
  NoDeposit = NoDeposit
  MaxCrashes = 1
INVARIANTS
  TypeOK
  CashSettled
  DepositHasItsPayments
  NothingLeftToMatch
  NoOverdueInProgress
PROPERTIES
  ForwardOnly
  MatchIsFinal
  TwoDatesOfGrace
