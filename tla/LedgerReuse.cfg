\* A process is started again with the run ID of the one before.
CONSTANTS
  r1 = r1
  r2 = r2
  r3 = r3
  Runs <- OneRun
  MaxNumber = 4
  ReusedIds = TRUE
SPECIFICATION LedgerSpec
INVARIANT ReusedLedgerIsRejected
CHECK_DEADLOCK FALSE
