---------------------------- MODULE RuntimeState ----------------------------
(***************************************************************************)
(* runtimeState of plugin.go: everything the request hooks, the probes,    *)
(* the background worker, the management calls and the lifecycle calls     *)
(* share under one mutex, and the progress of each of those callers        *)
(* between two critical sections.  A critical section is one action.       *)
(***************************************************************************)
EXTENDS TurnState

CONSTANTS
    Requests,       \* request IDs the host is serving
    Operators,      \* management calls, each with the goroutine it may start
    Worker,         \* the background worker of refresh.go
    PoolSize,       \* entries of proxy_pool
    MaxAttempts,    \* max_attempts
    ProbeLimit,     \* probes that may run at once, 4 in the code
    Retry,          \* retry_seconds
    RefreshBefore,  \* refresh_before_seconds
    QuotaBackoff,   \* quota_backoff_seconds
    AccountBackoff, \* one minute
    Year,           \* the due time of a key nothing asks to refresh
    MaxTime,        \* bound: the clock stops here
    MaxGeneration,  \* bound: lifecycle calls that start a generation
    MaxRetries,     \* bound: attempts after the first under one request ID
    Crashes         \* whether the process may die

Callers == Requests \cup Operators \cup {Worker}

ASSUME CallersAssumption == /\ Requests \cap Operators = {}
                            /\ Worker \notin Requests \cup Operators
ASSUME LimitsAssumption ==
    /\ PoolSize \in Nat \ {0}
    /\ MaxAttempts \in Nat \ {0}
    /\ ProbeLimit \in Nat \ {0}
    /\ {Retry, RefreshBefore, QuotaBackoff, AccountBackoff, Year} \subseteq Nat
    /\ RefreshBefore < TTL
    /\ {MaxTime, MaxGeneration, MaxRetries} \subseteq Nat
    /\ MaxTime > 0
    /\ Crashes \in BOOLEAN

VARIABLES
    now,
    \* lifecycle: accepting, config, generation, the live probeCtx, and the
    \* register, quiesce or shutdown call in progress
    accepting, config, generation, ctxLive, lifecycle,
    \* the cache
    current, forceInject,
    \* the host's calls for each request, and what the plugin keeps of them
    call, header, requests, candidates,
    \* probes: the progress of each caller's, the claimed keys, the pool cursor
    probe, probing, poolCursor,
    \* probe bookkeeping
    lastProbe, probeResults, refreshRequests,
    blockedUntil, accountBlockedUntil, proxyBlockedUntil,
    \* the background worker, the jobs of its round, its wake channel
    worker, jobs, wake,
    \* what a refresh call still has to do once it released the mutex
    todo, nudge,
    \* persistCurrent: who has a save to make, who is inside persistMu, the
    \* snapshots they took, the files, and whether the last save failed
    saving, savers, snapshot, disk, saveFailed

lifecycleVars == <<accepting, config, generation, ctxLive, lifecycle>>
cacheVars     == <<current, forceInject>>
requestVars   == <<call, header, requests, candidates>>
probeVars     == <<probe, probing, poolCursor>>
resultVars    == <<lastProbe, probeResults>>
blockVars     == <<blockedUntil, accountBlockedUntil, proxyBlockedUntil>>
workerVars    == <<worker, jobs>>
queueVars     == <<refreshRequests, wake>>
operatorVars  == <<todo, nudge>>
diskVars      == <<savers, snapshot, disk, saveFailed>>

vars == <<now, lifecycleVars, cacheVars, requestVars, probeVars, resultVars,
          blockVars, workerVars, queueVars, operatorVars, saving, diskVars>>

-----------------------------------------------------------------------------
Times == 0..(MaxTime + Retry + QuotaBackoff + AccountBackoff)
Never == 0      \* a missing entry of a map of times
Generations == 0..MaxGeneration

\* Why a refresh is queued: an upstream failure, a retry, the panel.
Reasons == {"none", "upstream_error", "credential_retry", "manual"}

\* What a probe ends with, as far as the code tells outcomes apart.
Outcomes == {"none", "auth_unavailable", "probe_failed", "network_error",
             "upstream_failed", "account_refused", "rate_limited",
             "quota_exhausted", "state_rejected", "ok", "persist_failed"}

\* The host's side of a request: which attempt it is at, and for which
\* account and model (NoKey is an attempt at another provider), and the
\* RequestedModel, if the host gave one.
HostCalls == [pc : {"idle", "gate", "decide", "sent", "body"},
              key : Keys \cup {NoKey}, alias : SUBSET Models, attempt : 0..MaxRetries]
NoCall == [pc |-> "idle", key |-> NoKey, alias |-> {}, attempt |-> 0]

\* What interceptAfter answered about the turn state header, until upstream
\* has responded.
Headers == [op : {"untouched", "clear", "set"}, state : MaybeState]
Untouched == [op |-> "untouched", state |-> NoState]

\* stateCandidate; "attempt" is a history field, the attempt it came from.
Candidates == [key : Keys \cup {NoKey}, state : MaybeState,
               attempt : 0..MaxRetries]
NoCandidate == [key |-> NoKey, state |-> NoState, attempt |-> 0]

\* The locals of ensureProbe.
Probes == [pc : {"none", "auth", "loop", "fetch", "commit", "save"},
           key : Keys \cup {NoKey}, gen : Generations, policy : Policies,
           began : Times, start : 0..(PoolSize - 1), offset : 0..PoolSize,
           attempts : 0..MaxAttempts, outcome : Outcomes, found : MaybeState]
NoProbe == [pc |-> "none", key |-> NoKey, gen |-> 0, policy |-> NoPolicy,
            began |-> 0, start |-> 0, offset |-> 0, attempts |-> 0,
            outcome |-> "none", found |-> NoState]

LifecycleCalls == [pc : {"idle", "load", "join", "swap", "drain", "retire", "wipe"},
                   config : ConfigType, loaded : Caches]
NoLifecycle == [pc |-> "idle", config |-> ZeroConfig, loaded |-> EmptyCache]

\* newRuntimeState, and what configure makes anew for each generation.
NoRequests == [r \in Requests |-> NoKey]
NoCandidates == [r \in Requests |-> NoCandidate]
NoTimes == [k \in Keys |-> Never]
NoAccountTimes == [a \in Auths |-> Never]
NoProxyTimes == [i \in 0..(PoolSize - 1) |-> Never]
NoResults == [k \in Keys |-> "none"]
NoReasons == [k \in Keys |-> "none"]

Init ==
    /\ now = 1
    /\ accepting = FALSE /\ config = ZeroConfig /\ generation = 0 /\ ctxLive = FALSE
    /\ lifecycle = NoLifecycle
    /\ current = EmptyCache /\ forceInject = {}
    /\ call = [r \in Requests |-> NoCall]
    /\ header = [r \in Requests |-> Untouched]
    /\ requests = NoRequests /\ candidates = NoCandidates
    /\ probe = [c \in Callers |-> NoProbe] /\ probing = {} /\ poolCursor = 0
    /\ lastProbe = NoTimes /\ probeResults = NoResults
    /\ refreshRequests = NoReasons
    /\ blockedUntil = NoTimes
    /\ accountBlockedUntil = NoAccountTimes
    /\ proxyBlockedUntil = NoProxyTimes
    /\ worker = "none" /\ jobs = {} /\ wake = FALSE
    /\ todo = [o \in Operators |-> {}] /\ nudge = [o \in Operators |-> 0]
    /\ saving = [c \in Callers |-> NoPath] /\ savers = {}
    /\ snapshot = [c \in Callers |-> EmptyCache]
    /\ disk = [p \in Paths |-> EmptyCache] /\ saveFailed = FALSE

-----------------------------------------------------------------------------
(* The mutex.  A critical section is one action, so only a call that waits
   with the mutex held could keep the others out. *)

\* Mutant: stopBackground joins the worker before it unlocks.
HoldingWhileJoining == {"join", "drain", "retire"}

\* The phases of a lifecycle call it waits in with the mutex held: none.
HoldingMutex == {}

MutexFree == lifecycle.pc \notin HoldingMutex

(* Helpers that run with the mutex held. *)

\* ctx.Err() of a probe: its generation's context is cancelled by the
\* lifecycle call that ends the generation, and stays so afterwards.
Cancelled(p) == p.gen # generation \/ ~ctxLive

\* queueRefreshLocked: a burst coalesces into the first reason, and the
\* worker is woken.
Queueable(key) ==
    LET policy == CredentialFor(config, AuthOf(key))
    IN  /\ accepting
        /\ config.probe.enabled
        /\ config.probe.onErrors
        /\ policy.listed
        /\ AutoUpdateEnabled(config, policy)
        /\ MatchesModels(policy, {ModelOf(key)})

QueueRefresh(key, reason) ==
    IF reason # "none" /\ key # NoKey /\ Queueable(key)
    THEN /\ refreshRequests' = [refreshRequests EXCEPT
                ![key] = IF @ = "none" THEN reason ELSE @]
         /\ wake' = TRUE
    ELSE UNCHANGED queueVars

Later(t, u) == IF t > u THEN t ELSE u

\* nextRefreshLocked.
NextRefresh(key) ==
    LET state    == current[key]
        pending  == refreshRequests[key] # "none"
        wanted   == IF Present(state) /\ ~pending
                    THEN state.issuedAt + (TTL - RefreshBefore)
                    ELSE now
        cooled   == IF lastProbe[key] # Never
                    THEN Later(lastProbe[key] + Retry, wanted)
                    ELSE wanted
    IN  IF config.probe.errorsOnly /\ ~pending
        THEN now + Year
        ELSE Later(blockedUntil[key], cooled)

\* A caller with no probe and no save under way.
AtRest(c) == probe[c].pc = "none" /\ saving[c] = NoPath

Tick == /\ now < MaxTime
        /\ now' = now + 1
        /\ UNCHANGED <<lifecycleVars, cacheVars, requestVars, probeVars,
                       resultVars, blockVars, workerVars, queueVars,
                       operatorVars, saving, diskVars>>

\* The process dies: what Init says of everything but the clock and the files.
Crash ==
    /\ Crashes
    /\ generation > 0
    /\ accepting' = FALSE /\ config' = ZeroConfig /\ generation' = 0 /\ ctxLive' = FALSE
    /\ lifecycle' = NoLifecycle
    /\ current' = EmptyCache /\ forceInject' = {}
    /\ call' = [r \in Requests |-> NoCall]
    /\ header' = [r \in Requests |-> Untouched]
    /\ requests' = NoRequests /\ candidates' = NoCandidates
    /\ probe' = [c \in Callers |-> NoProbe] /\ probing' = {} /\ poolCursor' = 0
    /\ lastProbe' = NoTimes /\ probeResults' = NoResults
    /\ refreshRequests' = NoReasons
    /\ blockedUntil' = NoTimes
    /\ accountBlockedUntil' = NoAccountTimes
    /\ proxyBlockedUntil' = NoProxyTimes
    /\ worker' = "none" /\ jobs' = {} /\ wake' = FALSE
    /\ todo' = [o \in Operators |-> {}] /\ nudge' = [o \in Operators |-> 0]
    /\ saving' = [c \in Callers |-> NoPath] /\ savers' = {}
    /\ snapshot' = [c \in Callers |-> EmptyCache]
    /\ saveFailed' = FALSE
    /\ UNCHANGED <<now, disk>>

=============================================================================
