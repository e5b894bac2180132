\* Three goroutines besides Run: two passes and a handler that blocks them, and
\* any of them may be stuck for ever.
CONSTANTS
  Workers = {w1, w2, w3}
SPECIFICATION FairSpec
INVARIANTS ClientClosedLast CleanExit StartsWhenAsked RuntimeInv
PROPERTIES NoAddAfterWait ShutdownReturns ClosesGracefully
\* The process exits.
CHECK_DEADLOCK FALSE
