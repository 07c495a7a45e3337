\* Facilitator interventions, handlers that fail or stop the run, and any event may be
\* refused by the sink, which ends the call that wrote it.
CONSTANTS
  MSEL <- FaultyPlay
  Horizon = 2
  HandlerOutcomes <- StoppingHandler
  SinkOutcomes <- UnreliableSink
SPECIFICATION Spec
INVARIANT TypeOK
INVARIANT NothingBehindTheClock
INVARIANT EvidenceTellsStatus
INVARIANT BranchesSettled
