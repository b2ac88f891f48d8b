\* Two executions of one name while it is registered and evaluated.
SPECIFICATION Spec
CONSTANTS
  None = None  a1 = a1  a2 = a2  m1 = m1  m2 = m2
  Name = {"echo"}
  Adapter <- MCAdapter
  Manifest <- MCManifest
SYMMETRY Symmetry
INVARIANTS
  AuthorizedAndAdmitted
  AnswersHaveEvidence
