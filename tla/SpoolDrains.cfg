\* Scheduled exporters that are killed between any two steps, power losses, and a portal
\* that keeps appending.  The faults end.
CONSTANTS
  p1 = p1
  p2 = p2
  a = a
  b = b
  x = x
  Nobody = Nobody
  Publishers <- TwoPublishers
  OurRuns <- OneRun
  OtherRuns <- AnotherExercise
  Bodies <- OneBody
  MaxSequence = 4
  MaxRows = 4
  Limit = 2
  MaxFaults = 2
  Gaps = FALSE
  Restores = FALSE
  Reorders = FALSE
SPECIFICATION FairSpec
INVARIANT CheckpointsHold
PROPERTY ImplementsPublication
PROPERTY BacklogDrains
