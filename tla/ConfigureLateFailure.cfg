\* One submission whose notification is delivered twice.
SPECIFICATION ReportingSpec
CONSTANTS
  Workers = {w1, w2}
  Self = Self
  Other = Other
  Blank = Blank
  MaxSubmissions = 1
  BlankRecords = FALSE
  ForeignRecords = FALSE
  ReuseUuids = FALSE
  SaveAfterCommit = TRUE
  StateFileSurvives = TRUE
INVARIANT NoContradictoryFailure
CHECK_DEADLOCK FALSE
