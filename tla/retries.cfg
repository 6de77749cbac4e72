SPECIFICATION Spec
CONSTANTS
  a1 = a1
  a2 = a2
  m1 = m1
  m2 = m2
  Auths = {a1, a2}
  Models = {m1}
  Stamps = {1, 2}
  Shapes = {10}
  Paths = {}
  TTL = 2
  Skew = 0
  NoKey = NoKey
  NoPath = NoPath
  Requests = {r1, r2}
  Operators = {}
  Worker = worker
  PoolSize = 1
  MaxAttempts = 1
  ProbeLimit = 1
  Retry = 1
  RefreshBefore = 1
  QuotaBackoff = 2
  AccountBackoff = 1
  Year = 9
  MaxTime = 3
  MaxGeneration = 2
  MaxRetries = 1
  Crashes = FALSE
  Issues <- AllIssues
  FetchOutcomes = {}
  FreeListed = {a2}
  Targets <- TargetOrOther
  Aliases = {}
  SavesFail = FALSE
  RefreshSelections = {}
  ClearSelections = {}
  ClearScopes = {}
  Configs <- RetriesConfigs
SYMMETRY RequestSymmetry
INVARIANTS StateIsolation LastAttemptStaged
PROPERTIES ImplementsCache
CHECK_DEADLOCK FALSE
