\* Three processes, up to one old line, crashes and short writes anywhere.
SPECIFICATION FairSpec
CONSTANTS
  p1 = p1  p2 = p2  p3 = p3  e1 = e1  e2 = e2  e3 = e3
  d1 = d1  ds = ds  dk = dk  g = g  m1 = m1  m2 = m2  None = None
  Proc <- MCProc
  Payload <- MCPayload
  Reserved <- MCReserved
  Splitting <- MCSplitting
  Strip <- MCStrip
  EventId <- MCEventId
  Hash <- MCHash
  Genesis = g
  Digest <- MCDigest
  MaxOldLines = 1
  Tears = {"row", "newline"}
INVARIANTS
  Linked
  TamperEvident
  AckedRowsSurvive
  LockedReadsSucceed
PROPERTIES
  AppendsDrain
  DamageStopsAppends
  ImplementsAppendOnlyLog
CHECK_DEADLOCK FALSE
