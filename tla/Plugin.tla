------------------------------- MODULE Plugin -------------------------------
(***************************************************************************)
(* The plugin: the components composed over their shared runtime, and the  *)
(* properties that make it correct.                                        *)
(***************************************************************************)
EXTENDS RequestHooks, StatePersistence, BackgroundWorker, Management, Lifecycle

Next == \/ \E r \in Requests : RequestStep(r)
        \/ \E c \in Callers : ProbeStep(c)
        \/ \E c \in Callers : SaveStep(c)
        \/ \E o \in Operators : OperatorStep(o)
        \/ WorkerStep
        \/ LifecycleStep
        \/ Tick
        \/ Crash

Spec == Init /\ [][Next]_vars

\* Goroutines run: probes, saves, the worker, the goroutines of refresh calls
\* and a lifecycle call under way go on, because the host's callbacks return
\* and a fetch ends at its deadline at the latest.  Nothing makes the host
\* send a request, finish one, make a call or reconfigure, nor time pass.
Fairness ==
    /\ \A c \in Callers : WF_vars(ProbeStep(c)) /\ WF_vars(SaveStep(c))
    /\ \A o \in Operators : WF_vars(NudgeWorker(o)) /\ WF_vars(ManualProbe(o))
    /\ WF_vars(WorkerStep)
    /\ WF_vars(ConfigureCancel \/ JoinWorker \/ ConfigureSwap \/ ShutdownWipe)

FairSpec == Spec /\ Fairness

-----------------------------------------------------------------------------
(* Refinement. *)

Cache == INSTANCE TurnStateCache
             WITH cache <- current, rules <- config, serving <- accepting,
                  asked <- [r \in Requests |-> call[r].key],
                  answer <- [r \in Requests |-> header[r].state]

\* The plugin, with its probes, staged candidates, generations and saves, is
\* the store of TurnStateCache: every step of every caller looks to the host
\* like one operation of it, or like nothing.
ImplementsCache == Cache!Spec

-----------------------------------------------------------------------------
(* The type invariant, one part per component of the runtime. *)

Jobs == [key : Keys, due : Nat]

LifecycleTypeOK == /\ now \in 1..MaxTime
                   /\ accepting \in BOOLEAN
                   /\ config \in ConfigType
                   /\ generation \in Generations
                   /\ ctxLive \in BOOLEAN
                   /\ lifecycle \in LifecycleCalls

CacheTypeOK == current \in Caches /\ forceInject \subseteq Keys

RequestTypeOK == /\ call \in [Requests -> HostCalls]
                 /\ header \in [Requests -> Headers]
                 /\ requests \in [Requests -> Keys \cup {NoKey}]
                 /\ candidates \in [Requests -> Candidates]

ProbeTypeOK == /\ probe \in [Callers -> Probes]
               /\ probing \subseteq Keys
               /\ poolCursor \in 0..(PoolSize - 1)

BookkeepingTypeOK == /\ lastProbe \in [Keys -> Times]
                     /\ probeResults \in [Keys -> Outcomes]
                     /\ refreshRequests \in [Keys -> Reasons]
                     /\ blockedUntil \in [Keys -> Times]
                     /\ accountBlockedUntil \in [Auths -> Times]
                     /\ proxyBlockedUntil \in [0..(PoolSize - 1) -> Times]

WorkerTypeOK == /\ worker \in {"none", "check", "collect", "jobs", "probe", "wait", "exited"}
                /\ jobs \subseteq Jobs
                /\ wake \in BOOLEAN

OperatorTypeOK == /\ todo \in [Operators -> SUBSET Keys]
                  /\ nudge \in [Operators -> Generations]

DiskTypeOK == /\ saving \in [Callers -> Paths \cup {NoPath}]
              /\ savers \subseteq {c \in Callers : saving[c] # NoPath}
              /\ snapshot \in [Callers -> Caches]
              /\ disk \in [Paths -> Caches]
              /\ saveFailed \in BOOLEAN

TypeOK == /\ LifecycleTypeOK /\ CacheTypeOK /\ RequestTypeOK /\ ProbeTypeOK
          /\ BookkeepingTypeOK /\ WorkerTypeOK /\ OperatorTypeOK /\ DiskTypeOK

-----------------------------------------------------------------------------
(* Safety. *)

Isolated(cache) == \A k \in Keys : Present(cache[k]) => cache[k].origin = k

\* A state is only ever kept, staged, saved, loaded or injected for the very
\* account and model upstream issued it to, whatever retries switch the
\* credential and whatever reconfigurations and restarts come in between.
StateIsolation ==
    /\ Isolated(current)
    /\ Isolated(lifecycle.loaded)
    /\ \A p \in Paths : Isolated(disk[p])
    /\ \A c \in Callers :
          /\ Isolated(snapshot[c])
          /\ Present(probe[c].found) => probe[c].found.origin = probe[c].key
    /\ \A r \in Requests :
          /\ Present(candidates[r].state) => candidates[r].state.origin = candidates[r].key
          /\ Present(header[r].state) => header[r].state.origin = call[r].key

\* What a request's response staged for promotion came from the attempt the
\* host is at now: a retry, a stream failure or a reconfiguration discards
\* what an earlier attempt staged, so completion cannot promote it.
LastAttemptStaged ==
    \A r \in Requests : candidates[r] # NoCandidate =>
        /\ candidates[r].key = requests[r]
        /\ candidates[r].attempt = call[r].attempt

\* Every cached state has the normal block count of its account's policy
\* under the configuration in force, although probes and requests that began
\* under an earlier configuration finish under this one.
OnlyNormalStates ==
    \A k \in Keys : Present(current[k]) =>
        LET policy == CredentialFor(config, AuthOf(k))
        IN  policy.listed /\ NormalBlockCount(policy, current[k].blocks)

InFlight == {c \in Callers : /\ probe[c].pc \in {"auth", "loop", "fetch", "commit"}
                             /\ probe[c].gen = generation}

\* While the plugin accepts, the claims are exactly the probes in flight of
\* this generation, one per key and no more than the limit: none leaks when a
\* probe ends, and none is released by a probe of an earlier generation.
ClaimsExact ==
    accepting =>
        /\ probing = {probe[c].key : c \in InFlight}
        /\ \A c, d \in InFlight : c # d => probe[c].key # probe[d].key
        /\ Cardinality(probing) <= ProbeLimit

\* Once a lifecycle call has joined the worker, and as long as the plugin
\* stays quiesced, no worker runs, probes or saves: the host may retire its
\* callbacks as far as the worker is concerned.
WorkerDrained ==
    lifecycle.pc \in {"swap", "wipe"} \/ (lifecycle.pc = "idle" /\ ~accepting) =>
        worker = "none" /\ AtRest(Worker)

\* Hosts whose configurations all name one file, have no seeds and judge
\* alike every state of every account and model, and whose operators do not
\* clear, or do not reconfigure.
OneFile(file) ==
    /\ file \in Paths
    /\ \A cfg \in Configs : /\ cfg.stateFile = file
                            /\ \A a \in Auths : ~Present(cfg.seeds[a])
    /\ \A cfg, other \in Configs : /\ cfg.credentials = other.credentials
                                   /\ cfg.defaults = other.defaults
    /\ \A cfg \in Configs, k \in Keys :
           MatchesModels(CredentialFor(cfg, AuthOf(k)), {ModelOf(k)})
    /\ ClearSelections = {} \/ MaxGeneration <= 1

\* When no save is under way and none failed, the file holds the cache: for
\* hosts like those.  A seed is in no file before the next save, a hot
\* reconfiguration drops a state it does not admit without a save, and
\* brings back one that was cleared after it had read the file.
DiskCaughtUp ==
    (/\ accepting /\ lifecycle.pc = "idle"
     /\ config.stateFile # NoPath
     /\ ~saveFailed
     /\ \A c \in Callers : saving[c] = NoPath) => disk[config.stateFile] = current

-----------------------------------------------------------------------------
(* Action properties. *)

\* No step, whichever request, probe or reconfiguration makes it, puts an
\* older state over a cached one its policy still admits, and a hot
\* reconfiguration does not lose one.
CacheMovesForward ==
    [][\A k \in Keys : Admissible(config', k, current[k]) =>
          /\ Present(current'[k]) => ~NewerThan(current[k], current'[k])
          /\ generation' = generation + 1 => Present(current'[k])]_vars

\* A quiesced plugin takes nothing in: late completions, responses and probes
\* promote nothing, bind nothing, claim nothing and queue nothing.
QuiescedIsQuiet ==
    [][~accepting /\ ~accepting' /\ generation' = generation =>
          /\ \A k \in Keys : /\ current'[k] \in {current[k], NoState}
                             /\ refreshRequests'[k] \in {refreshRequests[k], "none"}
          /\ probing' \subseteq probing
          /\ \A r \in Requests : requests'[r] \in {requests[r], NoKey}]_vars

\* A queued refresh stays queued until a newer state has come, a clear has
\* dropped the row, or a new generation has begun: a probe that fails, or
\* that an older request caused, does not swallow it.
PendingRefreshKept ==
    [][\A k \in Keys : refreshRequests[k] # "none" /\ refreshRequests'[k] = "none" =>
          \/ NewerThan(current'[k], current[k])
          \/ Present(current[k]) /\ ~Present(current'[k])
          \/ probeResults[k] # "none" /\ probeResults'[k] = "none"
          \/ generation' # generation]_vars

-----------------------------------------------------------------------------
(* Liveness. *)

\* Every lifecycle call returns: the worker it joins, which may be half-way
\* through a round, comes to notice that its context has ended, and finishes
\* its probe although that takes the mutex again.
LifecycleReturns == lifecycle.pc # "idle" ~> lifecycle.pc = "idle"

\* A refresh the worker's configuration lets it make is made: the wake-up
\* that announced it may be lost, coalesced or late, but the worker comes to
\* it unless a cooldown or the end of the generation comes first.
PendingIsProbed ==
    \A k \in Keys :
        /\ refreshRequests[k] # "none" /\ worker # "none" /\ ctxLive
        /\ ~IsFreePlan(CredentialFor(config, AuthOf(k)))
        ~> \/ k \in probing \/ Cooling(k)
           \/ refreshRequests[k] = "none" \/ ~ctxLive

=============================================================================
