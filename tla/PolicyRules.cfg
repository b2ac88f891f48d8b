\* Two rules of every shape, in every order, around the shipped ones; a legacy
\* file lacks the first-party rule and is upgraded at boot.
SPECIFICATION RulesSpec
CONSTANTS
  Request <- MCRequest
  Profile <- MCProfile
  Rule <- Edits
  SeedRules <- Shipped
  LegacyRules <- Legacy
  Required <- FirstParty
INVARIANTS
  SpecificityDecides
  DenyByDefault
PROPERTIES
  UpgradeOnlyRestores
