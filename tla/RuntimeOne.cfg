\* One process that stops and starts at will; appends succeed.
SPECIFICATION Spec
CONSTANTS
  p1 = p1  p2 = p2  None = None
  ElevatedAt = 1  RestrictedAt = 2  LockedAt = 3
  Proc <- OneProc
  Floor = "elevated"
  Env <- MCEnv
  DefaultEnv = "prod"
  Request <- MCRequest
  PolicyVerdict <- MCPolicyVerdict
  AppendMayFail = FALSE
  RowsMayTear = TRUE
  MaxDecisions = 3
  MaxDenials = 3
  MaxTransitions = 2
INVARIANTS
  FloorHolds
  RestartNeverRelaxes
  ConfirmedPostureSurvives
  TransitionsExplained
CHECK_DEADLOCK FALSE
