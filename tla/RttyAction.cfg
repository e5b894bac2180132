\* Three sessions: one that a given-up Execute left to die, one being replaced,
\* and the one that replaces it.  The agent may restart at any moment.
CONSTANTS
  MaxSessions = 3
  Pids = {1, 2, 3}
  EarlyReuse = FALSE
  AgentRestarts = TRUE
SPECIFICATION RttySpec
INVARIANTS Preemptable OneSession SessionTold JointInv
PROPERTIES TrackingEnds CommandReturns
