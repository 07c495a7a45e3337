\* The events of a pause and of the following resume are both refused.
CONSTANTS
  Schedule <- OneChallenge
  Timeout = 1
  EndAt = 2
  Horizon = 3
  StaleAfter = 1
  Answers <- Denial
  SinkOutcomes <- UnreliableSink
SPECIFICATION Spec
INVARIANT PausedTimeIsNotCounted
