SPECIFICATION Spec
CONSTANTS
  Row <- MCRow
  Locations <- MCLocations
  PlacesOf <- MCPlacesOf
  PeriodDays = 30
  FirstOfMonth <- MCFirstOfMonth
  NoReport = NoReport
  LinesOf <- MCLinesOf
  FileType <- MCFileType
  FileDate <- MCFileDate
  RequiredTypes = {"SBC_SALES", "TDI34", "TDI17"}
  PaidBy <- MCPaidBy
  Dates = {1}
  BatchByPass = TRUE
  NoRun = NoRun
INVARIANTS
  TypeOK
  ReportedOnce
  RestingRowsAreReported
  MatchedDepositShowsItsPayment
  ReportsAgree
PROPERTY
  GateIsSound
