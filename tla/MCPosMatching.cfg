SPECIFICATION MCSpec
CONSTANTS
  Payments = {1, 2, 3}
  Deposits = {11, 12}
  Rows <- MCRows
  NoDeposit = NoDeposit
CHECK_DEADLOCK FALSE
INVARIANTS
  TypeOK
  OneToOne
  NothingLeftToPair
  RoundTwoIsLate
PROPERTIES
  BalancedSettlement
  Returns
