SPECIFICATION Spec
CONSTANTS
  Payments <- MCPayments
  Deposits <- MCDeposits
  PaymentRow <- MCPaymentRow
  DepositRow <- MCDepositRow
  Locations = {"A", "B"}
  LocationOf <- MCLocationOf
  Days = {7, 9}
  NoDeposit = NoDeposit
  MaxCrashes = 1
INVARIANTS
  TypeOK
  ReadsStayTrue
  DepositHasItsPayment
  LinksAgree
  NoOverdueInProgress
PROPERTIES
  ForwardOnly
  MatchIsFinal
  RerunChangesNothing
  InProgressEndsUnlessKilled
