SPECIFICATION MCSpec
CONSTANTS
  Payments = {1, 2}
  Deposits = {11}
  Rows <- MCRefundRows
  NoDeposit = NoDeposit
CHECK_DEADLOCK FALSE
INVARIANT MatchedHasCounterpart
