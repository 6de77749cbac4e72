SPECIFICATION Spec
CONSTANTS
  a1 = a1
  a2 = a2
  m1 = m1
  m2 = m2
  Auths = {a1}
  Models = {m1}
  Stamps = {1, 2}
  Shapes = {10}
  Paths = {file}
  TTL = 2
  Skew = 1
  NoKey = NoKey
  NoPath = NoPath
  Requests = {r1}
  Operators = {o1}
  Worker = worker
  PoolSize = 2
  MaxAttempts = 2
  ProbeLimit = 2
  Retry = 1
  RefreshBefore = 1
  QuotaBackoff = 2
  AccountBackoff = 1
  Year = 9
  MaxTime = 2
  MaxGeneration = 1
  MaxRetries = 0
  Crashes = FALSE
  Issues <- AllIssues
  FetchOutcomes = {"network_error", "quota_exhausted", "ok"}
  FreeListed = {}
  Targets <- AnyTarget
  Aliases = {}
  SavesFail = FALSE
  RefreshSelections <- AllRows
  ClearSelections <- AllRows
  ClearScopes = {"all"}
  Configs <- PanelConfigs
INVARIANTS DiskCaughtUp ClaimsExact TypeOK
PROPERTIES ImplementsCache
CHECK_DEADLOCK FALSE
