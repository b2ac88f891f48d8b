\* Two processes on one data directory; any append may raise.
SPECIFICATION Spec
CONSTANTS
  p1 = p1  p2 = p2  None = None
  ElevatedAt = 1  RestrictedAt = 2  LockedAt = 3
  Proc <- TwoProc
  Floor = "restricted"
  Env <- OneEnv
  DefaultEnv = "prod"
  Request <- NoRequest
  PolicyVerdict <- MCPolicyVerdict
  AppendMayFail = TRUE
  RowsMayTear = TRUE
  MaxDecisions = 1
  MaxDenials = 1
  MaxTransitions = 1
SYMMETRY Symmetry
INVARIANTS
  EvidenceHasDecision
PROPERTIES
  OnlyOperatorRelaxes
CHECK_DEADLOCK FALSE
