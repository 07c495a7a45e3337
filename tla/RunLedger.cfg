\* Any append may be lost, any archive or reset may fail on its way, and the process may
\* end at any time.  Four numbers leave room for the event of a reset, an event of play,
\* an archive and an event of the cleanup.  When the numbers and the IDs are used up,
\* nothing more happens.
CONSTANTS
  r1 = r1
  r2 = r2
  r3 = r3
  Runs <- ThreeRuns
  MaxNumber = 4
  ReusedIds = FALSE
SYMMETRY Symmetric
SPECIFICATION LedgerSpec
INVARIANT LedgerCheckIsExact
PROPERTY ResetLosesNothing
CHECK_DEADLOCK FALSE
