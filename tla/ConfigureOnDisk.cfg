\* Two calls, any records (of another router, blank, submitted again) and two
\* submissions: one checkpoint in effect, one being saved, and an older one that
\* a directory not synced may bring back.  Crashes and power failures at every
\* system call, as often as may be.
SPECIFICATION OnDiskSpec
CONSTANTS
  Workers = {w1, w2}
  Self = Self
  Other = Other
  Blank = Blank
  MaxSubmissions = 2
  BlankRecords = TRUE
  ForeignRecords = TRUE
  ReuseUuids = TRUE
  SaveAfterCommit = TRUE
  StateFileSurvives = TRUE
  Damaged = Damaged
INVARIANTS DiskInv
PROPERTIES AtomicSaves OnePieceSaves
\* With nothing left to do the agent rests.
CHECK_DEADLOCK FALSE
