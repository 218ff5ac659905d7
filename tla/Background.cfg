\* Small instances of what works behind the requests.
SPECIFICATION BackgroundSpec
CONSTANTS
  AvatarOps = {w1, w2, w3}
  NoOp = NoOp
  Replicas = {w1, w2}
  NoReplica = NoReplica
  Buckets = {b1, b2}
  ExpiredRows = {1, 2}
  BatchLimit = 1
  MaxCycles = 2
  LastKey = 2
  Contents = {x1, x2}
  Clients = {w1, w2}
  NoContent = NoContent
  PageSize = 1
  Notes = {1, 2}
  Types = {"linked", "profile"}
  Producers = {w1, w2}
  PageLimit = 1
  LastTime = 1
  MaxChoices = 1
  Jobs = {j1}
  Mailers = {w1, w2}
  NoJob = NoJob
  Attempts = 3
  MaxStalls = 1
  MaxRetries = 1
  Senders = {w1, w2}
  Chats = {c1}
  Definitions <- SomeDefinitions
  Unknown = Unknown
  PayloadShapes = {1, 2}
  SendAttempts = 2
  Waits = {0, 2, 3}
  WaitMax = 2
  BackoffCap = 1
  MaxBinds = 2
  LastTick = 2
  TalkRuns = {r1, r2}
  TalkKeys = {y}
  Files = {f}
  People = {o, h}
  TalkOwner = o
  Nobody = Nobody
  Calls = {w1, w2}
  ReadLimit = 1
  MaxSaid = 2
  MaxControl = 2
  gpt = gpt
  opus = opus
  mock = mock
  Models = {gpt, opus, mock}
  MockModel = mock
  DefaultModel = gpt
  Credentialed = {opus}
  Tools = {"pay"}
  Releases <- SomeReleases
  Drafts <- SomeDrafts
  Editors = {w1, w2}
  AdRuns = {q}
  InputModes = {"flag"}
  AdAttempts = 2
  AdSteps = 2
  MaxTrail = 3
  MaxCatalogEdits = 1
SYMMETRY WorkerSymmetry
VIEW MovingState
INVARIANTS BackgroundTypesOK CronIsSound StorageIsSound NotificationsAreSound AssistantIsSound
CHECK_DEADLOCK FALSE
