\* Small instances of what stands around the handler of a request.
SPECIFICATION RequestsSpec
CONSTANTS
  Window = 0
  LastMoment = 1
  MaxLogins = 2
  IdemRequests = {p1, p2, p3}
  Fingerprints = {"f", "g"}
  NoOne = NoOne
  MaxLapses = 1
  Events = {e1, e2}
  Nameless = {e2}
  HookDeliveries = {d1, d2, d3}
  MaxTime = 4
  Tolerance = 1
  MarkTtl = 1
  Lag = 1
  Updates = {m1, m2}
  Chats = {c1, c2}
  LinkTokens = {t1, t2}
  TgUsers = {v1, v2}
  NoChat = NoChat
  Attempters = {a1, a2}
  Targets = {i1, i2}
  NarrowMax = 2
  WideMax = 2
  MaxCounted = 2
  Ttl = 4
  Limit = 2
  BlockFor = 2
  LastTick = 14
  BffRequests = {p1, p2, p3}
  NoBff = NoBff
  MaxRefreshes = 3
  MaxTroubles = 1
VIEW MovingState
INVARIANTS RequestsTypesOK RoutesAreGuarded KeyRunsOnce InboundIsOnce LimitsAreFair VaultIsSound
CHECK_DEADLOCK FALSE
