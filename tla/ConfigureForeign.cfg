\* A record naming another router is written under this router's key.
SPECIFICATION Spec
CONSTANTS
  Workers = {w1, w2}
  Self = Self
  Other = Other
  Blank = Blank
  MaxSubmissions = 1
  BlankRecords = FALSE
  ForeignRecords = TRUE
  ReuseUuids = FALSE
  SaveAfterCommit = TRUE
  StateFileSurvives = TRUE
INVARIANT ForeignNeverRuns
CHECK_DEADLOCK FALSE
