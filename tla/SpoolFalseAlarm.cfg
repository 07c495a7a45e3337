\* A validation lists the directory while another publisher is at work.
CONSTANTS
  p1 = p1
  p2 = p2
  a = a
  b = b
  x = x
  Nobody = Nobody
  Publishers <- TwoPublishers
  OurRuns <- OneRun
  OtherRuns <- NoOtherExercise
  Bodies <- OneBody
  MaxSequence = 3
  MaxRows = 3
  Limit = 2
  MaxFaults = 0
  Gaps = FALSE
  Restores = FALSE
  Reorders = FALSE
SPECIFICATION FairSpec
PROPERTY AlarmsAreReal
