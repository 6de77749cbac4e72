---------------------------- MODULE ProbeEngine -----------------------------
(***************************************************************************)
(* ensureProbe of probe.go, run by a request hook, the background worker   *)
(* or a refresh call: admission and the single-flight claim, the host's    *)
(* credential lookup, the walk over the proxy pool under one deadline, and *)
(* the commit of its outcome, which only its own generation may make.      *)
(***************************************************************************)
EXTENDS RuntimeState

CONSTANTS
    FetchOutcomes,      \* the outcomes of fetchProbe a run lets happen
    Issues              \* issue time and block count of what upstream may send

ASSUME FetchAssumption ==
    FetchOutcomes \subseteq {"network_error", "upstream_failed", "account_refused",
                             "rate_limited", "quota_exhausted", "ok"}
ASSUME IssuesAssumption == Issues \subseteq Stamps \X Shapes

\* What upstream may issue to a key: it alone chooses the issue time and
\* the block count, and it issues them to the account and model it serves.
IssuedTo(key) == {[issuedAt |-> i[1], blocks |-> i[2], origin |-> key] : i \in Issues}

AccountLevelProbeFailure(outcome) ==
    outcome \in {"account_refused", "rate_limited", "quota_exhausted"}
ProxyLevelProbeFailure(outcome) == outcome = "network_error"
ProbeAccountBackoff(outcome) ==
    IF outcome \in {"rate_limited", "quota_exhausted"} THEN QuotaBackoff
                                                       ELSE AccountBackoff

\* A state that does not need a refresh yet.
FreshEnough(state) ==
    /\ Present(state)
    /\ ~FutureDated(state, now)
    /\ now < state.issuedAt + (TTL - RefreshBefore)

Cooling(key) == \/ now < blockedUntil[key]
                \/ now < accountBlockedUntil[AuthOf(key)]
                \/ lastProbe[key] # Never /\ now - lastProbe[key] < Retry

\* Mutant: no single flight.
LimitOnly(key) == Cardinality(probing) < ProbeLimit

Claimable(key) == key \notin probing /\ Cardinality(probing) < ProbeLimit

\* The early returns of ensureProbe.
ProbeAdmitted(key) ==
    LET policy == CredentialFor(config, AuthOf(key))
    IN  /\ accepting /\ config.probe.enabled /\ ctxLive
        /\ policy.listed /\ ~IsFreePlan(policy)
        /\ AutoUpdateEnabled(config, policy)
        /\ MatchesModels(policy, {ModelOf(key)})
        /\ Claimable(key)
        /\ refreshRequests[key] = "none" =>
               ~config.probe.errorsOnly /\ ~FreshEnough(current[key])
        /\ ~Cooling(key)

ClaimProbe(c, key) ==
    /\ lastProbe' = [lastProbe EXCEPT ![key] = now]
    /\ probing' = probing \cup {key}
    /\ poolCursor' = (poolCursor + 1) % PoolSize
    /\ probe' = [probe EXCEPT ![c] =
           [pc |-> "auth", key |-> key, gen |-> generation,
            policy |-> CredentialFor(config, AuthOf(key)), began |-> now,
            start |-> poolCursor, offset |-> 0, attempts |-> 0,
            outcome |-> "auth_unavailable", found |-> NoState]]
    /\ UNCHANGED <<probeResults>>

\* ensureProbe up to its first unlock.
EnsureProbe(c, key) ==
    IF ProbeAdmitted(key) THEN ClaimProbe(c, key)
                          ELSE UNCHANGED <<probeVars, resultVars>>

-----------------------------------------------------------------------------
\* Everything a step of a probe leaves alone, whichever step it is.
probeFrame == <<now, lifecycleVars, requestVars, poolCursor, lastProbe,
                workerVars, wake, operatorVars, diskVars>>

\* selectedProbeAuth: the host lists the credentials and hands one out, or
\* finds none that is eligible.  The call ignores the probe's context.
ProbeAuth(c) ==
    /\ probe[c].pc = "auth"
    /\ \/ probe' = [probe EXCEPT ![c].pc = "loop", ![c].outcome = "probe_failed"]
       \/ probe' = [probe EXCEPT ![c].pc = "commit"]
    /\ UNCHANGED <<probeFrame, probing, cacheVars, probeResults, refreshRequests,
                   blockVars, saving>>

\* Mutant: skipped entries do not count as seen.
AttemptsLeft(p) == p.attempts < MaxAttempts

EndpointIndex(p) == (p.start + p.offset) % PoolSize
PoolLeft(p) == p.offset < PoolSize /\ p.attempts < MaxAttempts

\* The head of the loop over the pool: stop, skip a cooling entry, or fetch
\* through it.  The shared deadline may pass at any turn of the loop.
ProbeNext(c) ==
    LET p == probe[c]
    IN  /\ p.pc = "loop"
        /\ \/ probe' = [probe EXCEPT ![c].pc = "commit"]
           \/ /\ PoolLeft(p) /\ ~Cancelled(p)
              /\ IF now < proxyBlockedUntil[EndpointIndex(p)]
                 THEN probe' = [probe EXCEPT ![c].offset = @ + 1]
                 ELSE probe' = [probe EXCEPT ![c].pc = "fetch", ![c].attempts = @ + 1]
        /\ UNCHANGED <<probeFrame, probing, cacheVars, probeResults,
                       refreshRequests, blockVars, saving>>

\* A fetch that failed.  A cancelled fetch fails as the network does.
ProbeFails(c, outcome) ==
    LET p == probe[c]
    IN  /\ p.pc = "fetch"
        /\ outcome # "ok"
        /\ IF AccountLevelProbeFailure(outcome)
           THEN /\ accountBlockedUntil' = [accountBlockedUntil EXCEPT
                       ![AuthOf(p.key)] = now + ProbeAccountBackoff(outcome)]
                /\ probe' = [probe EXCEPT ![c].pc = "commit", ![c].outcome = outcome]
           ELSE /\ UNCHANGED accountBlockedUntil
                /\ probe' = [probe EXCEPT ![c].pc = "loop", ![c].outcome = outcome,
                                          ![c].offset = @ + 1]
        /\ proxyBlockedUntil' = IF ProxyLevelProbeFailure(outcome)
                                THEN [proxyBlockedUntil EXCEPT
                                         ![EndpointIndex(p)] = now + Retry]
                                ELSE proxyBlockedUntil
        /\ UNCHANGED <<probeFrame, probing, cacheVars, probeResults,
                       refreshRequests, blockedUntil, saving>>

\* A fetch that brought a state, judged by the clock and the policy the
\* probe started with.
AcceptsFound(p, state) ==
    /\ NormalBlockCount(p.policy, state.blocks)
    /\ ~FutureDated(state, p.began)
    /\ ~Expired(state, p.began)

ProbeFetched(c, state) ==
    LET p == probe[c]
    IN  /\ p.pc = "fetch"
        /\ "ok" \in FetchOutcomes
        /\ proxyBlockedUntil' = [proxyBlockedUntil EXCEPT ![EndpointIndex(p)] = Never]
        /\ probe' = [probe EXCEPT ![c] =
               IF AcceptsFound(p, state)
               THEN [p EXCEPT !.pc = "commit", !.outcome = "ok", !.found = state]
               ELSE [p EXCEPT !.pc = "loop", !.outcome = "state_rejected",
                              !.offset = @ + 1]]
        /\ UNCHANGED <<probeFrame, probing, cacheVars, probeResults,
                       refreshRequests, blockedUntil, accountBlockedUntil, saving>>

-----------------------------------------------------------------------------
(* The last critical section. *)

\* Mutant: a probe commits into whatever generation it finds.
AnyGeneration(p) == TRUE
OwnGeneration(p) == p.gen = generation

\* Mutant: a promotion does not look at what the cache holds by now.
PromotesBlindly(p) ==
    accepting /\ Present(p.found) /\ ~Expired(p.found, now)
Promotes(p) == /\ accepting
               /\ Present(p.found)
               /\ NewerThan(p.found, current[p.key])
               /\ ~Expired(p.found, now)

\* Mutant: a probe consumes the request it served even when it failed.
RequestConsumed(p) == [refreshRequests EXCEPT ![p.key] = "none"]
RequestsAfterFailure(p) == refreshRequests

ReleaseClaim(p) ==
    /\ probing' = probing \ {p.key}
    /\ probeResults' = [probeResults EXCEPT ![p.key] = p.outcome]

PromoteFound(c, p) ==
    /\ current' = [current EXCEPT ![p.key] = p.found]
    /\ forceInject' = forceInject \cup {p.key}
    /\ refreshRequests' = [refreshRequests EXCEPT ![p.key] = "none"]
    /\ blockedUntil' = [blockedUntil EXCEPT ![p.key] = Never]
    /\ accountBlockedUntil' = [accountBlockedUntil EXCEPT ![AuthOf(p.key)] = Never]
    /\ saving' = [saving EXCEPT ![c] = config.stateFile]
    /\ probe' = [probe EXCEPT ![c] =
           IF config.stateFile = NoPath THEN NoProbe ELSE [p EXCEPT !.pc = "save"]]

ProbeCommit(c) ==
    LET p == probe[c]
    IN  /\ p.pc = "commit"
        /\ IF ~OwnGeneration(p)
           THEN /\ probe' = [probe EXCEPT ![c] = NoProbe]
                /\ UNCHANGED <<probing, cacheVars, probeResults, refreshRequests,
                               blockVars, saving>>
           ELSE /\ ReleaseClaim(p)
                /\ IF Promotes(p)
                   THEN PromoteFound(c, p)
                   ELSE /\ blockedUntil' = [blockedUntil EXCEPT ![p.key] =
                               IF p.outcome = "quota_exhausted"
                               THEN now + QuotaBackoff ELSE @]
                        /\ probe' = [probe EXCEPT ![c] = NoProbe]
                        /\ refreshRequests' = RequestsAfterFailure(p)
                        /\ UNCHANGED <<cacheVars, accountBlockedUntil, saving>>
                /\ UNCHANGED proxyBlockedUntil
        /\ UNCHANGED probeFrame

ProbeStep(c) ==
    \/ ProbeAuth(c)
    \/ /\ MutexFree
       /\ \/ ProbeNext(c)
          \/ \E outcome \in FetchOutcomes : ProbeFails(c, outcome)
          \/ \E state \in IssuedTo(probe[c].key) : ProbeFetched(c, state)
          \/ ProbeCommit(c)

=============================================================================
