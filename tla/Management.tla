----------------------------- MODULE Management -----------------------------
(***************************************************************************)
(* The panel's two commands, refreshAction and clearAction of              *)
(* management.go.  A selection is the set of keys its handles, accounts,   *)
(* models or "all" name.                                                   *)
(***************************************************************************)
EXTENDS ProbeEngine

CONSTANTS
    RefreshSelections,  \* selections a run's refresh calls make
    ClearSelections,    \* selections a run's clear calls make
    ClearScopes         \* the scopes they ask for

ASSUME SelectionsAssumption ==
    /\ RefreshSelections \subseteq SUBSET Keys
    /\ ClearSelections \subseteq SUBSET Keys
    /\ ClearScopes \subseteq {"invalid", "expired", "all"}

panelFrame == <<now, lifecycleVars, requestVars, workerVars, poolCursor, diskVars>>

\* An operator whose last call, and what it started, is over.
Free(o) == AtRest(o) /\ todo[o] = {} /\ nudge[o] = 0

\* The rows of the panel a refresh can name.
Refreshable(key) ==
    LET policy == CredentialFor(config, AuthOf(key))
    IN  /\ Present(current[key]) \/ probeResults[key] # "none" \/ key \in probing
        /\ policy.listed
        /\ probeResults[key] # "auth_unavailable"
        /\ AutoUpdateEnabled(config, policy)
        /\ MatchesModels(policy, {ModelOf(key)})
        /\ key \notin probing
        /\ now >= blockedUntil[key]
        /\ lastProbe[key] # Never => now >= lastProbe[key] + Retry

\* refreshAction: queue the rows, then wake the worker, or, without one,
\* start a goroutine that probes them.
RefreshAction(o, selection) ==
    LET queued == {k \in selection : Refreshable(k)}
    IN  /\ Free(o)
        /\ MutexFree
        /\ accepting
        /\ config.probe.enabled
        /\ refreshRequests' = [k \in Keys |-> IF k \in queued THEN "manual"
                                                              ELSE refreshRequests[k]]
        /\ IF worker # "none"
           THEN nudge' = [nudge EXCEPT ![o] = generation] /\ UNCHANGED todo
           ELSE todo' = [todo EXCEPT ![o] = queued] /\ UNCHANGED nudge
        /\ UNCHANGED <<panelFrame, cacheVars, probe, probing, resultVars, blockVars,
                       wake, saving>>

\* The wake-up, sent after the unlock on the channel then read: a call that
\* raced a reconfiguration may send it on the channel of the old worker.
NudgeWorker(o) ==
    /\ nudge[o] # 0
    /\ \/ wake' = TRUE
       \/ nudge[o] # generation /\ UNCHANGED wake
    /\ nudge' = [nudge EXCEPT ![o] = 0]
    /\ UNCHANGED <<panelFrame, cacheVars, probe, probing, resultVars,
                   refreshRequests, blockVars, todo, saving>>

\* One key of the goroutine.
ManualProbe(o) ==
    /\ AtRest(o)
    /\ MutexFree
    /\ \E key \in todo[o] : /\ todo' = [todo EXCEPT ![o] = @ \ {key}]
                            /\ EnsureProbe(o, key)
    /\ UNCHANGED <<now, lifecycleVars, requestVars, workerVars, diskVars, cacheVars,
                   queueVars, blockVars, nudge, saving>>

-----------------------------------------------------------------------------
\* What clearAction takes for still usable.
Usable(key) == /\ ~FutureDated(current[key], now)
               /\ ~Expired(current[key], now)
               /\ Admissible(config, key, current[key])

InClearScope(key, scope) ==
    CASE scope = "invalid" -> ~Usable(key)
      [] scope = "expired" -> Expired(current[key], now)
      [] scope = "all"     -> TRUE

\* clearAction: drop the selected states of the scope with their pending
\* refreshes, then the probe bookkeeping of selected rows without a state,
\* and save what is left.
ClearAction(o, selection, scope) ==
    LET removed   == {k \in selection : Present(current[k]) /\ InClearScope(k, scope)}
        forgotten == {k \in selection : /\ probeResults[k] # "none"
                                        /\ ~Present(current[k]) \/ k \in removed}
    IN  /\ Free(o)
        /\ MutexFree
        /\ current' = [k \in Keys |-> IF k \in removed THEN NoState ELSE current[k]]
        /\ refreshRequests' = [k \in Keys |->
               IF k \in removed \cup forgotten THEN "none" ELSE refreshRequests[k]]
        /\ probeResults' = [k \in Keys |-> IF k \in forgotten THEN "none"
                                                              ELSE probeResults[k]]
        /\ lastProbe' = [k \in Keys |-> IF k \in forgotten THEN Never ELSE lastProbe[k]]
        /\ blockedUntil' = [k \in Keys |-> IF k \in forgotten THEN Never
                                                              ELSE blockedUntil[k]]
        /\ saving' = [saving EXCEPT ![o] = config.stateFile]
        /\ UNCHANGED <<panelFrame, forceInject, probe, probing, wake, operatorVars,
                       accountBlockedUntil, proxyBlockedUntil>>

OperatorStep(o) ==
    \/ \E selection \in RefreshSelections : RefreshAction(o, selection)
    \/ NudgeWorker(o)
    \/ ManualProbe(o)
    \/ \E selection \in ClearSelections, scope \in ClearScopes :
           ClearAction(o, selection, scope)

=============================================================================
