\* Well-addressed records with fresh UUIDs, a commit that also saves the boot
\* configuration, and a checkpoint that survives a reboot.
SPECIFICATION Spec
CONSTANTS
  Workers = {w1, w2}
  Self = Self
  Other = Other
  Blank = Blank
  MaxSubmissions = 3
  BlankRecords = TRUE
  ForeignRecords = FALSE
  ReuseUuids = FALSE
  SaveAfterCommit = TRUE
  StateFileSurvives = TRUE
SYMMETRY Symmetry
INVARIANTS
  SuccessIsTrue
  CheckpointNotAhead
  IInv
  NoRedundantApply
PROPERTIES
  RecordedAsRun
  NeverRegress
  Synchronises
\* With nothing left to do the agent rests.
CHECK_DEADLOCK FALSE
