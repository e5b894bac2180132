\* The documented defaults: neither the applied configuration nor the checkpoint
\* under /tmp survives a reboot.  Records and notifications may be malformed.
\* No symmetry, which is unsound for liveness.
SPECIFICATION ConvergenceSpec
CONSTANTS
  Workers = {w1, w2}
  Self = Self
  Other = Other
  Blank = Blank
  MaxSubmissions = 2
  BlankRecords = TRUE
  ForeignRecords = FALSE
  ReuseUuids = FALSE
  SaveAfterCommit = FALSE
  StateFileSurvives = FALSE
PROPERTIES
  SettledCalls
  Converges
  EveryRequestAnswered
\* With nothing left to do the agent rests.
CHECK_DEADLOCK FALSE
