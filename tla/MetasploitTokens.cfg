\* A configured key, or one that each process makes.
SPECIFICATION Spec
CONSTANTS
  None = None
  Capability <- MCCapability
  Spelling <- MCSpelling
  Target <- MCTarget
  Scope <- MCScope
  Params <- MCParams
  Lifetimes <- MCLifetimes
  MaxClock = 2
  MaxRestarts = 1
  MaxTokens = 1
INVARIANTS
  AuthorityIsApproved
  ConfiguredKeyHolds
