\* Two sessions, the second of which may get the PID of the first as soon as that is
\* reaped.
CONSTANTS
  MaxSessions = 2
  Pids = {1, 2}
  EarlyReuse = TRUE
  AgentRestarts = FALSE
SPECIFICATION Spec
INVARIANTS Preemptable
