SPECIFICATION FairSpec
CONSTANTS
  c1 = c1
  c2 = c2
  c3 = c3
  i1 = i1
  i2 = i2
  s1 = s1
  None = None
  Transient = Transient
  Fatal = Fatal
  StoreOf <- MCStoreOf
  Kids <- MCKids
  Calls = {c1, c2}
  Caches = {i1}
  Stores = {s1}
  LastVersion = 0
  ttlMs = 2
  minRefreshIntervalMs = 1
  timeoutMs = 1
  maxRetries = 2
  backoffMs = 1
  StoreMs = 1
  SyncStore = FALSE
  StoreMayFail = TRUE
  EndpointMayFail = TRUE
  CallbackMayThrow = FALSE
  MaxClears = 1
  LastStart = 1
INVARIANTS
  TypeOK
  InflightIsLive
  RejectionEarned
PROPERTIES
  AllCallsReturn
