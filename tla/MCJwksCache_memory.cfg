SPECIFICATION Spec
CONSTANTS
  c1 = c1
  c2 = c2
  c3 = c3
  i1 = i1
  i2 = i2
  s1 = s1
  None = None
  Transient = Transient
  Fatal = Fatal
  StoreOf <- MCStoreOf
  Kids <- MCKids
  Calls = {c1, c2, c3}
  Caches = {i1}
  Stores = {s1}
  LastVersion = 1
  ttlMs = 2
  minRefreshIntervalMs = 1
  timeoutMs = 1
  maxRetries = 2
  backoffMs = 1
  StoreMs = 0
  SyncStore = TRUE
  StoreMayFail = FALSE
  EndpointMayFail = TRUE
  CallbackMayThrow = TRUE
  MaxClears = 0
  LastStart = 4
SYMMETRY MCSymmetry
INVARIANTS
  OneFetchPerEpoch
  BoundedLatency
PROPERTIES
  FetchSpacing
  RotationReported
  StoreNeverRegresses
  ImplementsKeySource
