------------------------------ MODULE Lifecycle -----------------------------
(***************************************************************************)
(* The host's lifecycle calls: register and reconfigure (configure),       *)
(* quiesce (setAccepting(FALSE)) and shutdown.  The host makes one of them *)
(* at a time, beside every other call.  Each cancels the generation's      *)
(* context and joins the background worker with the mutex released.        *)
(***************************************************************************)
EXTENDS RuntimeState

CONSTANT Configs    \* the configurations a run's host applies

ASSUME ConfigsAssumption == Configs \subseteq ConfigType

lifeFrame == <<now, call, header, probe, poolCursor, operatorVars, saving, diskVars>>
stopFrame == <<lifeFrame, cacheVars, requests, candidates, probing, resultVars,
               refreshRequests, blockVars, jobs>>

\* The check of every seed against its account's baseline.
SeedsMatchBaseline(cfg) ==
    \A a \in Auths : LET seed == cfg.seeds[a]
                     IN  Present(seed) => /\ cfg.credentials[a].listed
                                          /\ seed.origin \in {a} \X Models
                                          /\ NormalBlockCount(cfg.credentials[a], seed.blocks)

SeedAt(cfg, key) == IF cfg.seeds[AuthOf(key)].origin = key
                    THEN cfg.seeds[AuthOf(key)] ELSE NoState

\* Whether a state that was kept, in the file or in memory, replaces the one
\* a key is about to start with.
TakesOver(cfg, key, kept, existing) ==
    Admissible(cfg, key, kept) /\ NewerThan(kept, existing)

\* loadPersisted merged over the seeds.
LoadedCache(cfg) ==
    [k \in Keys |->
        LET stored == IF cfg.stateFile = NoPath THEN NoState ELSE disk[cfg.stateFile][k]
        IN  IF TakesOver(cfg, k, stored, SeedAt(cfg, k)) THEN stored ELSE SeedAt(cfg, k)]

\* configure up to stopBackground: nothing of the runtime has changed yet.
ConfigureLoad(cfg) ==
    /\ lifecycle.pc = "idle"
    /\ generation < MaxGeneration
    /\ SeedsMatchBaseline(cfg)
    /\ lifecycle' = [pc |-> "load", config |-> cfg, loaded |-> LoadedCache(cfg)]
    /\ UNCHANGED <<stopFrame, accepting, config, generation, ctxLive, worker, wake>>

ConfigureCancel ==
    /\ lifecycle.pc = "load"
    /\ ctxLive' = FALSE
    /\ lifecycle' = [lifecycle EXCEPT !.pc = "join"]
    /\ UNCHANGED <<stopFrame, accepting, config, generation, worker, wake>>

\* Quiesce, or the first half of a shutdown.
StopAccepting(pc) ==
    /\ lifecycle.pc = "idle"
    /\ generation > 0
    /\ pc = "retire" => generation < MaxGeneration
    /\ accepting' = FALSE
    /\ ctxLive' = FALSE
    /\ lifecycle' = [lifecycle EXCEPT !.pc = pc]
    /\ UNCHANGED <<stopFrame, config, generation, worker, wake>>

\* Mutant: the lifecycle call does not wait for the worker.
NoJoin == TRUE
WorkerEnded == worker \in {"none", "exited"}

\* The end of stopBackground: the worker has returned.
JoinWorker ==
    /\ lifecycle.pc \in {"join", "drain", "retire"}
    /\ WorkerEnded
    /\ worker' = "none"
    /\ lifecycle' = CASE lifecycle.pc = "join"   -> [lifecycle EXCEPT !.pc = "swap"]
                      [] lifecycle.pc = "retire" -> [lifecycle EXCEPT !.pc = "wipe"]
                      [] lifecycle.pc = "drain"  -> NoLifecycle
    /\ UNCHANGED <<stopFrame, accepting, config, generation, ctxLive, wake>>

StartsWorker(cfg) == cfg.enabled /\ cfg.probe.enabled /\ cfg.probe.background

DropBindings ==
    /\ requests' = NoRequests
    /\ candidates' = NoCandidates

\* The locked end of configure: a new generation with fresh bookkeeping; the
\* states in memory are kept where the new configuration still admits them.
ConfigureSwap ==
    LET cfg == lifecycle.config
    IN  /\ lifecycle.pc = "swap"
        /\ generation' = generation + 1
        /\ ctxLive' = TRUE
        /\ current' = [k \in Keys |->
               IF TakesOver(cfg, k, current[k], lifecycle.loaded[k])
               THEN current[k] ELSE lifecycle.loaded[k]]
        /\ forceInject' = {}
        /\ probing' = {}
        /\ lastProbe' = NoTimes
        /\ probeResults' = NoResults
        /\ refreshRequests' = NoReasons
        /\ blockedUntil' = NoTimes
        /\ accountBlockedUntil' = NoAccountTimes
        /\ proxyBlockedUntil' = NoProxyTimes
        /\ DropBindings
        /\ config' = cfg
        /\ accepting' = cfg.enabled
        /\ worker' = IF StartsWorker(cfg) THEN "check" ELSE "none"
        /\ jobs' = {}
        /\ wake' = FALSE
        /\ lifecycle' = NoLifecycle
        /\ UNCHANGED lifeFrame

\* The end of shutdown.
ShutdownWipe ==
    /\ lifecycle.pc = "wipe"
    /\ generation' = generation + 1
    /\ DropBindings
    /\ lifecycle' = NoLifecycle
    /\ UNCHANGED <<lifeFrame, cacheVars, probing, resultVars, refreshRequests, blockVars,
                   jobs, accepting, config, ctxLive, worker, wake>>

LifecycleStep == \/ \E cfg \in Configs : ConfigureLoad(cfg)
                 \/ ConfigureCancel
                 \/ StopAccepting("drain")
                 \/ StopAccepting("retire")
                 \/ JoinWorker
                 \/ ConfigureSwap
                 \/ ShutdownWipe

=============================================================================
