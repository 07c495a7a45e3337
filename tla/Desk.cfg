\* Each workflow by itself.  One append of an exercise may raise, stored or not; two
\* accounts and two runs make answers stale.
CONSTANTS
  None = None
  MaxRuns = 2
  MaxMishaps = 1
  Learners = {ann, bob}
  ReplyKeys = {"r"}
  Limits <- EachLimit
  MaxQuestions = 2
  Evaluators = {p, q}
  MaxSaves = 2
  MaxCaptures = 2
  Policies <- QuickAndStrict
  Sources = {"s"}
  MaxChallenges = 2
  MaxClicks = 1
  MaxTrail = 5
  People = {"a", "b"}
  MaxWrites = 2
  Viewers = {"a", "b"}
  Audiences <- OwnAndShared
  MaxSignals = 3
  PageSize = 1
  PageLimit = 2
  Retained = 2
SPECIFICATION DeskSpec
INVARIANT QueueAccepted
INVARIANT PageIsTruthful
INVARIANT JudgmentsAreInformed
INVARIANT ArchivesAreExact
INVARIANT SignInProven
INVARIANT WritesInformed
INVARIANT EvidenceHasNoHoles
SYMMETRY PagesAlike
CHECK_DEADLOCK FALSE
