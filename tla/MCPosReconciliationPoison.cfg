SPECIFICATION Spec
CONSTANTS
  Payments = {"p1", "p2", "p3"}
  Deposits = {"d1"}
  PaymentRow <- MCPaymentRow
  DepositRow <- MCDepositRow
  Locations = {"A", "B"}
  LocationOf <- MCLocationOf
  Days = {7, 9}
  NoDeposit = NoDeposit
  MaxCrashes = 1
PROPERTY InProgressEnds
