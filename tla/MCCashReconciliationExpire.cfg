SPECIFICATION Spec
CONSTANTS
  Payments <- MCPayments
  Deposits <- MCDeposits
  PaymentRow <- MCPaymentRow
  DepositRow <- MCDepositRow
  Locations = {"A", "B"}
  LocationOf <- MCLocationOf
  Days = {42, 71}
  NoDeposit = NoDeposit
  MaxCrashes = 0
INVARIANT UnmatchedDepositsExpire
