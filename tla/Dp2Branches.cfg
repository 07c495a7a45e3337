\* The facilitator delivers the adverse branch of DP2 by hand in play, and DP2 then
\* passes.  No fault is needed.
CONSTANTS
  IdentityItems = {"PRE-01", "PRE-02", "ACT-01", "ACT-04A", "ACT-04B"}
  Responses = {"session.revoke", "factor.remove", "credential.reset", "host.isolate", "artifact.preserve"}
  Repeated = {"credential.reset"}
  SharedKeys = {"k"}
  MaxVersion = 2
  Claims = {1, 5}
  Files = {f1, f2}
  MaxChecks = 1
  MaxFaults = 0
  Schedule <- TightSchedule
  Timeout = 2
  EndAt = 4
  Horizon = 4
  Answers <- AnyAnswer
  SinkOutcomes <- UnreliableSink
SPECIFICATION StagesSpec
INVARIANT OneBranchOfDp2
CHECK_DEADLOCK FALSE
