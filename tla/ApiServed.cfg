\* Two calls of any two routes side by side, with and without keys, over restarts.
SPECIFICATION Spec
CONSTANTS
  c1 = c1  c2 = c2  k = k  None = None
  Call <- TwoCalls
  Key <- OneKey
INVARIANTS
  AnswersAreAuditable
  MirrorFollowsLog
  LiveCoversPersisted
PROPERTIES
  OnlyVouchedCallsGovern
  CallsEnd
