\* The database is set back once and grows again with the same or other events, two
\* publishers are killed between any two steps, the power fails, rows of another
\* exercise lie between, and sequence numbers may never be stored.
CONSTANTS
  p1 = p1
  p2 = p2
  a = a
  b = b
  x = x
  Nobody = Nobody
  Publishers <- TwoPublishers
  OurRuns <- OneRun
  OtherRuns <- AnotherExercise
  Bodies <- TwoBodies
  MaxSequence = 2
  MaxRows = 3
  Limit = 2
  MaxFaults = 2
  Gaps = TRUE
  Restores = TRUE
  Reorders = FALSE
SPECIFICATION Spec
INVARIANT ExactPrefix
INVARIANT EachEventOnce
PROPERTY NothingOnAChangedSource
SYMMETRY Symmetric
