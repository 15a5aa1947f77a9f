SPECIFICATION CheckSpec
CONSTANTS
  Files <- MCFiles
  ProgramOf <- MCProgramOf
  FileType <- MCFileType
  FileNamed <- MCFileType
  FileDate <- MCFileDate
  Ignored = {}
  Malformed = {"bad"}
  Invalid = {}
  RowLocation <- MCRowLocation
  Rules <- MCRules
  RequiredFiles <- MCRequiredFiles
  KnownLocations = {"L1"}
  Events <- MCEvents
  Records <- MCRecords
  Dates = {0, 1}
  NoProgram = NoProgram
  NoType = NoType
  NoEvent = NoEvent
  Limit = 2
  MaxTries = 2
  MaxSends <- MCMaxSends
  MaxCrashes = 0
  MaxFaults = 0
  AlertDays = 7
  TemplateName <- MCTemplateName
  Destinations = {"all", "own", "rule"}
  AllAlerts = {"all"}
  RuleOf <- MCRuleOf
  FileOf <- MCFileOf
INVARIANT
  SummaryIsComplete
CHECK_DEADLOCK FALSE
