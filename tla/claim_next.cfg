SPECIFICATION Spec
CONSTANTS
  a1 = a1
  a2 = a2
  m1 = m1
  m2 = m2
  Auths = {a1}
  Models = {m1}
  Stamps = {1, 2}
  Shapes = {10}
  Paths = {}
  TTL = 2
  Skew = 1
  NoKey = NoKey
  NoPath = NoPath
  Requests = {r1}
  Operators = {}
  Worker = worker
  PoolSize = 1
  MaxAttempts = 1
  ProbeLimit = 1
  Retry = 1
  RefreshBefore = 1
  QuotaBackoff = 2
  AccountBackoff = 1
  Year = 9
  MaxTime = 2
  MaxGeneration = 2
  MaxRetries = 0
  Crashes = FALSE
  Issues <- AllIssues
  FetchOutcomes = {"rate_limited"}
  FreeListed = {}
  Targets <- AnyTarget
  Aliases = {}
  SavesFail = FALSE
  RefreshSelections = {}
  ClearSelections = {}
  ClearScopes = {}
  Configs <- EagerOnly
INVARIANTS NextRefreshAttemptable
CHECK_DEADLOCK FALSE
