\* One submission, applied by a call whose result is lost.
SPECIFICATION ReportingSpec
CONSTANTS
  Workers = {w1, w2}
  Self = Self
  Other = Other
  Blank = Blank
  MaxSubmissions = 1
  BlankRecords = FALSE
  ForeignRecords = FALSE
  ReuseUuids = FALSE
  SaveAfterCommit = TRUE
  StateFileSurvives = TRUE
PROPERTY PassesReport
CHECK_DEADLOCK FALSE
