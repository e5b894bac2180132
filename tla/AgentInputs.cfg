\* All patterns of up to five characters: room for two placeholders and one more
\* character before, between or behind them.  Loopback and three interfaces: one
\* that is read, one before and one behind it.  Two values of a field.
CONSTANTS
  MaxLength = 5
  Names = {lo, eth0, eth1, eth2}
  Loopback = lo
  Values = {"one", "two"}
  Default = "default"
  Blank = "blank"
SPECIFICATION InputsSpec
INVARIANTS
  AcceptedFormats RefusedForReason PatternInv Witnessed NoRival FoundIfCalm Innermost
\* What was to be read has been read.
CHECK_DEADLOCK FALSE
