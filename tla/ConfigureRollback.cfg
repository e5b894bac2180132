\* An earlier, known-good configuration is submitted again.
SPECIFICATION Spec
CONSTANTS
  Workers = {w1, w2}
  Self = Self
  Other = Other
  Blank = Blank
  MaxSubmissions = 3
  BlankRecords = FALSE
  ForeignRecords = FALSE
  ReuseUuids = TRUE
  SaveAfterCommit = TRUE
  StateFileSurvives = TRUE
INVARIANT SuccessIsTrue
CHECK_DEADLOCK FALSE
