SPECIFICATION LSpec
CONSTANTS
  None = None
  NotANumber = NotANumber
  Kids = {"a", "b", "generated"}
  Materials <- MCMaterials
  KeySets <- MCKeySets
  Requests <- MCRequests
  ImportMayFail = TRUE
  NextMayThrow = TRUE
  MaxTime = 2
  Plans <- MCPlans
INVARIANTS
  AcceptedIsGenuine
  AcceptedIsCurrent
  ClaimsBlamedAfterSignature
  SameClassOnEveryPath
  RightKeyFound
  LifecycleTypeOK
  EveryPairRoundTrips
  JwksKeepTheirAlgorithm
  ExpiryHelpersAgree
  JweRoundTrips

PROPERTIES
  ImplementsVerifier
