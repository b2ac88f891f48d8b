\* Three turns, any verdict and any candidate at each, then the reports.
SPECIFICATION ReportSpec
CONSTANTS
  ElevatedAt = 1
  RestrictedAt = 2
  LockedAt = 3
  Code <- MCCode
  Sandbox <- MCSandbox
  Turns = 3
  MaxStart = 1
INVARIANT TraceAgreesWithScore DenialsOnRecord ReportKeepsRows BlockedScoresAreMarked
CHECK_DEADLOCK FALSE
