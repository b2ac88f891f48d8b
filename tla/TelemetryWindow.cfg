\* A queue of three, a window of one minute, five decisions within three.
SPECIFICATION Spec
CONSTANTS
  ElevatedAt = 1  RestrictedAt = 2  LockedAt = 3
  Target <- MCTarget
  Adversarial <- MCAdversarial
  Concentrated <- MCConcentrated
  MaxEvents = 3
  Window = 1
  MaxTime = 3
  MaxDecisions = 5
  MaxDrift = 7
INVARIANTS
  DriftIsContained
PROPERTIES
  BurstsAreContained
  AllowsNeverRaise
  ImplementsDenialWindow
CHECK_DEADLOCK FALSE
