\* Two clients that stop at any point and start again.
SPECIFICATION Spec
CONSTANTS
  c1 = c1  c2 = c2
  Client <- TwoClients
  Request <- NoRequest
  Profile <- NoProfile
  Rule <- Operators
  SeedRules <- Shipped
  LegacyRules <- Legacy
  Required <- FirstParty
SYMMETRY Symmetry
INVARIANTS
  ReadableUnlessWritesMeet
  StandsUnlessUpdatesMeet
PROPERTIES
  ImplementsPolicy
