\* Jumps over several due items with ties on their second, and the supervised clock.
CONSTANTS
  MSEL <- TimedPlay
  Horizon = 4
  HandlerOutcomes <- AnyHandler
  SinkOutcomes <- ReliableSink
SPECIFICATION FairSpec
INVARIANT DeliveredOnTime
PROPERTY DueInReviewedOrder
PROPERTY EveryTimedItemComesDue
