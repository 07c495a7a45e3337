\* One challenge, an end item soon after it, a heartbeat budget of one second and
\* a horizon beyond two budgets.  Any event may be lost, the clock provider may
\* fail and recover, drivers come and go.  Nobody answers the challenge: it
\* expires or is cancelled.
CONSTANTS
  Schedule <- OneChallenge
  Timeout = 1
  EndAt = 2
  Horizon = 3
  StaleAfter = 1
  Answers <- Nobody
  SinkOutcomes <- UnreliableSink
SPECIFICATION FairSpec
INVARIANT NoPlayUnderFault
INVARIANT PlayFollowsRealTime
PROPERTY CatchUpIsBounded
PROPERTY LatchOutlivesTheRun
PROPERTY UnsoundPlayIsStopped
