SPECIFICATION Spec
CONSTANTS
  Kinds = {"TDI17", "TDI34", "SBC_SALES"}
  GoodLines <- MCGoodLines
  Sales <- MCSales
  MaxLines = 2
  MaxFaults = 1
  Blank = Blank
  Null = Null
  NaN = NaN
  Other = Other
CHECK_DEADLOCK FALSE
INVARIANTS
  AcceptedIsStorable
  RefusedOrComplete
  PaymentsKeepTheirValue
