SPECIFICATION Spec
CONSTANTS
  a1 = a1
  a2 = a2
  m1 = m1
  m2 = m2
  Auths = {a1}
  Models = {m1}
  Stamps = {1, 2}
  Shapes = {10}
  Paths = {file}
  TTL = 2
  Skew = 0
  NoKey = NoKey
  NoPath = NoPath
  Requests = {r1, r2}
  Operators = {}
  Worker = worker
  PoolSize = 1
  MaxAttempts = 1
  ProbeLimit = 1
  Retry = 1
  RefreshBefore = 1
  QuotaBackoff = 2
  AccountBackoff = 1
  Year = 9
  MaxTime = 3
  MaxGeneration = 3
  MaxRetries = 0
  Crashes = TRUE
  Issues <- AllIssues
  FetchOutcomes = {"quota_exhausted", "ok"}
  FreeListed = {}
  Targets <- AnyTarget
  Aliases = {}
  SavesFail = TRUE
  RefreshSelections = {}
  ClearSelections = {}
  ClearScopes = {}
  Configs <- RestartConfigs
SYMMETRY RequestSymmetry
INVARIANTS DiskCaughtUp
CHECK_DEADLOCK FALSE
