SPECIFICATION Spec
CONSTANTS
  None = None
  NotANumber = NotANumber
  Kids = {"a", "b"}
  Materials <- MCMaterials
  KeySets <- MCKeySets
  Requests <- MCRequests
  ImportMayFail = FALSE
  NextMayThrow = FALSE
  MaxTime = 2
INVARIANTS
  OnlyAcceptedContinue
