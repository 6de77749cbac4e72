---------------------------- MODULE RequestHooks ----------------------------
(***************************************************************************)
(* The interception hooks of plugin.go for one request: after-auth, the    *)
(* response headers, the stream, completion.  The host calls the hooks of  *)
(* one request one after another, may retry it under the same ID with      *)
(* another credential, and serves many requests at once.                   *)
(***************************************************************************)
EXTENDS ProbeEngine

CONSTANTS
    FreeListed,     \* accounts whose listing by the host infers a free plan
    Targets,        \* keys (NoKey too) the host of a run sends requests to
    Aliases         \* RequestedModel names its clients use

ASSUME HostAssumption == /\ FreeListed \subseteq Auths
                         /\ Targets \subseteq Keys \cup {NoKey}
                         /\ Aliases \subseteq Models

hookFrame == <<now, lifecycleVars, workerVars, operatorVars, diskVars>>

\* Mutants: a retry keeps the binding of the previous attempt; or only what
\* that attempt staged.
KeepAttempt(r) == UNCHANGED <<requests, candidates>>
KeepCandidate(r) == /\ requests' = [requests EXCEPT ![r] = NoKey]
                    /\ UNCHANGED candidates

ForgetAttempt(r) ==
    /\ requests' = [requests EXCEPT ![r] = NoKey]
    /\ candidates' = [candidates EXCEPT ![r] = NoCandidate]

\* interceptAfter up to ensureProbe.  The host starts a request, or retries
\* one.  The binding of the attempt before is queued for a refresh and
\* dropped whatever the new attempt is; an attempt at another provider or
\* at an account the host lists as free needs no state.
InterceptBegin(r, key, alias, free) ==
    /\ call' = [call EXCEPT ![r] =
           [pc |-> IF key = NoKey \/ free THEN "sent" ELSE "gate", key |-> key,
            alias |-> alias, attempt |-> IF @.pc = "idle" THEN 0 ELSE @.attempt + 1]]
    /\ QueueRefresh(requests[r], "credential_retry")
    /\ ForgetAttempt(r)
    /\ header' = [header EXCEPT ![r] =
           IF key # NoKey /\ free THEN [Untouched EXCEPT !.op = "clear"] ELSE Untouched]
    /\ UNCHANGED <<hookFrame, cacheVars, probeVars, resultVars, blockVars, saving>>

\* authIsFree reads a cache of the host's listing: before the first listing
\* and once it is stale it says no.
NewRequest(r) ==
    /\ call[r].pc = "idle"
    /\ AtRest(r)
    /\ \E key \in Targets, alias \in {{}} \cup {{m} : m \in Aliases} :
          \E free \in {FALSE} \cup {key # NoKey /\ AuthOf(key) \in FreeListed} :
              InterceptBegin(r, key, alias, free)

RetryRequest(r) ==
    /\ call[r].pc \in {"sent", "body"}
    /\ call[r].attempt < MaxRetries
    /\ \E key \in Targets :
          \E free \in {FALSE} \cup {key # NoKey /\ AuthOf(key) \in FreeListed} :
              InterceptBegin(r, key, call[r].alias, free)

\* The call of ensureProbe from interceptAfter; the hook goes on once the
\* probe, if one was admitted, has returned.
InterceptProbe(r) ==
    /\ call[r].pc = "gate"
    /\ EnsureProbe(r, call[r].key)
    /\ call' = [call EXCEPT ![r].pc = "decide"]
    /\ UNCHANGED <<hookFrame, cacheVars, header, requests, candidates,
                   blockVars, queueVars, saving>>

\* The three tests a cached state passes before it is injected.
Injectable(key) ==
    LET state == current[key]
    IN  /\ ~FutureDated(state, now)
        /\ config.injectExpired \/ ~Expired(state, now)
        /\ config.injectOnErrorsOnly => key \in forceInject

InScope(key, alias) ==
    LET policy == CredentialFor(config, AuthOf(key))
    IN  /\ policy.listed /\ ~IsFreePlan(policy)
        /\ MatchesModels(policy, {ModelOf(key)} \cup alias)

\* interceptAfter after the probe: bind the attempt, answer the header.
InterceptDecide(r) ==
    LET key     == call[r].key
        managed == accepting /\ InScope(key, call[r].alias)
        binds   == AutoUpdateEnabled(config, CredentialFor(config, AuthOf(key)))
    IN  /\ call[r].pc = "decide"
        /\ AtRest(r)
        /\ call' = [call EXCEPT ![r].pc = "sent"]
        /\ IF managed /\ binds
           THEN /\ requests' = [requests EXCEPT ![r] = key]
                /\ candidates' = [candidates EXCEPT ![r] = NoCandidate]
           ELSE UNCHANGED <<requests, candidates>>
        /\ header' = [header EXCEPT ![r] =
               IF ~managed
               THEN Untouched
               ELSE IF Present(current[key]) /\ Injectable(key)
                    THEN [op |-> "set", state |-> current[key]]
                    ELSE [Untouched EXCEPT !.op = "clear"]]
        /\ UNCHANGED <<hookFrame, cacheVars, probeVars, resultVars, blockVars,
                       queueVars, saving>>

-----------------------------------------------------------------------------
\* The early returns of captureCandidate.
Captures(key, state) ==
    LET policy == CredentialFor(config, AuthOf(key))
    IN  /\ accepting
        /\ policy.listed /\ AutoUpdateEnabled(config, policy)
        /\ NormalBlockCount(policy, state.blocks)
        /\ ~FutureDated(state, now) /\ ~Expired(state, now)
        /\ NewerThan(state, current[key])

\* interceptResponse, and the stream's header chunk.  The response of the
\* attempt carries a state upstream issued to its account and model, or none.
InterceptResponse(r, state) ==
    /\ call[r].pc = "sent"
    /\ call' = [call EXCEPT ![r].pc = "body"]
    /\ header' = [header EXCEPT ![r] = Untouched]
    /\ candidates' =
           IF Present(state) /\ requests[r] # NoKey /\ Captures(requests[r], state)
           THEN [candidates EXCEPT ![r] = [key |-> requests[r], state |-> state,
                                           attempt |-> call[r].attempt]]
           ELSE candidates
    /\ UNCHANGED <<hookFrame, cacheVars, requests, probeVars, resultVars,
                   blockVars, queueVars, saving>>

\* A chunk of the stream that completes a failure event.
InterceptStreamFailure(r) ==
    /\ call[r].pc = "body"
    /\ requests[r] # NoKey
    /\ QueueRefresh(requests[r], "upstream_error")
    /\ candidates' = [candidates EXCEPT ![r] = NoCandidate]
    /\ UNCHANGED <<hookFrame, cacheVars, call, header, requests, probeVars,
                   resultVars, blockVars, saving>>

-----------------------------------------------------------------------------
\* Mutant: completion promotes while quiesced.
CompletesQuiesced(candidate) == /\ ~Expired(candidate.state, now)
                                /\ NewerThan(candidate.state, current[candidate.key])

\* What promotion at completion asks of a candidate.
Completes(candidate) ==
    /\ accepting
    /\ ~Expired(candidate.state, now)
    /\ NewerThan(candidate.state, current[candidate.key])

\* complete: a failure may queue a refresh, success promotes the candidate
\* of the last attempt and ends the injection an error had forced.
Complete(r, outcome) ==
    LET candidate == candidates[r]
        binding   == requests[r]
        promoted  == /\ candidate # NoCandidate
                     /\ outcome = "succeeded"
                     /\ Completes(candidate)
    IN  /\ call[r].pc \in {"sent", "body"}
        /\ call' = [call EXCEPT ![r] = NoCall]
        /\ header' = [header EXCEPT ![r] = Untouched]
        /\ ForgetAttempt(r)
        /\ forceInject' = IF outcome = "succeeded" THEN forceInject \ {binding}
                                                   ELSE forceInject
        /\ IF promoted
           THEN /\ current' = [current EXCEPT ![candidate.key] = candidate.state]
                /\ refreshRequests' = [refreshRequests EXCEPT ![candidate.key] = "none"]
                /\ saving' = [saving EXCEPT ![r] = config.stateFile]
                /\ UNCHANGED wake
           ELSE /\ QueueRefresh(binding, IF outcome = "failed" THEN "upstream_error"
                                                              ELSE "none")
                /\ UNCHANGED <<current, saving>>
        /\ UNCHANGED <<hookFrame, probeVars, resultVars, blockVars>>

\* How the host says a request ended: "failed" with a status or message
\* failureRefreshReason knows, "other" for every other failure.
RequestStep(r) ==
    /\ MutexFree
    /\ \/ NewRequest(r)
       \/ RetryRequest(r)
       \/ InterceptProbe(r)
       \/ InterceptDecide(r)
       \/ \E state \in IssuedTo(call[r].key) \cup {NoState} : InterceptResponse(r, state)
       \/ InterceptStreamFailure(r)
       \/ \E outcome \in {"succeeded", "failed", "other"} : Complete(r, outcome)

=============================================================================
