SPECIFICATION FairLookupSpec
CONSTANTS
  v1 = v1
  v2 = v2
  g1 = g1
  g2 = g2
  r1 = r1
  r2 = r2
  i1 = i1
  i2 = i2
  i3 = i3
  None = None
  Transient = Transient
  Fatal = Fatal
  Calls = {g1, g2, r1, r2}
  Caches = {i1, i2, i3}
  Stores = {i1, i2, i3}
  StoreOf <- MCStoreOf
  Kids <- MCKids
  Lookups = {v1, v2}
  GetOf <- MCGetOf
  RefreshOf <- MCRefreshOf
  Supplied = {i3}
  TokenKids = {"c"}
  LastVersion = 1
  ttlMs = 3
  minRefreshIntervalMs = 1
  timeoutMs = 1
  maxRetries = 1
  backoffMs = 1
  StoreMs = 0
  SyncStore = TRUE
  StoreMayFail = FALSE
  EndpointMayFail = FALSE
  CallbackMayThrow = FALSE
  MaxClears = 1
  LastStart = 4
  LastBegin = 3
INVARIANTS
  RotationVisible
  FreshAfterClear
  LookupLatency
PROPERTIES
  LookupsEnd
