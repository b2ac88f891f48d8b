\* Two processes, appends succeed: no operator; the history's last row may be the other one's.
SPECIFICATION Spec
CONSTANTS
  p1 = p1  p2 = p2  None = None
  ElevatedAt = 1  RestrictedAt = 2  LockedAt = 3
  Proc <- TwoProc
  Floor = "normal"
  Env <- OneEnv
  DefaultEnv = "prod"
  Request <- OneRequest
  PolicyVerdict <- MCPolicyVerdict
  AppendMayFail = FALSE
  RowsMayTear = FALSE
  MaxDecisions = 3
  MaxDenials = 2
  MaxTransitions = 0
SYMMETRY Symmetry
INVARIANTS
  RestartNeverRelaxes
CHECK_DEADLOCK FALSE
