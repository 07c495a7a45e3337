\* Each stage by itself.  One fault of an adapter, the evidence store or the file
\* system in a run of a stage; any event of the MFA schedule may be lost.  A run
\* of the schedule that is over may have nothing left to do.
CONSTANTS
  IdentityItems = {"PRE-01", "PRE-02", "ACT-01", "ACT-04A", "ACT-04B"}
  Responses = {"session.revoke", "factor.remove", "credential.reset", "host.isolate", "artifact.preserve"}
  Repeated = {"credential.reset"}
  SharedKeys = {"k"}
  MaxVersion = 2
  Claims = {1, 5}
  Files = {f1, f2}
  MaxChecks = 1
  MaxFaults = 1
  Schedule <- TightSchedule
  Timeout = 2
  EndAt = 4
  Horizon = 4
  Answers <- AnyAnswer
  SinkOutcomes <- UnreliableSink
SPECIFICATION StagesSpec
INVARIANT IdentityRecordsAreTrue
INVARIANT ContainmentLasts
INVARIANT CloudOutcomeIsTrue
INVARIANT CloudEvidenceIsTrue
INVARIANT FixturesAreWhole
INVARIANT RecoveryIsTrue
INVARIANT ImpactOutcomeIsTrue
INVARIANT OutcomesFollowSchedule
INVARIANT ResolvedAtMostOnce
INVARIANT LedgerInExerciseOrder
INVARIANT PendingIsUnanswered
PROPERTY ExposureOnlyGrows
PROPERTY DecisionsInTime
SYMMETRY FilesAlike
CHECK_DEADLOCK FALSE
