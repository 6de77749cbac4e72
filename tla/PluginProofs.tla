---------------------------- MODULE PluginProofs ----------------------------
(***************************************************************************)
(* Type correctness of the plugin for every value of the constants.        *)
(* TypeOK is not inductive: a hook that finishes a request may only hand   *)
(* its ID to a new save if no save of that ID is under way, a probe that   *)
(* fails may only go on to the next pool entry if it was inside the pool,  *)
(* and a lifecycle call may only start a generation within the bound.      *)
(* TypeInv adds the order in which a request's hooks, a probe and a        *)
(* lifecycle call go through their critical sections.                      *)
(***************************************************************************)
EXTENDS Plugin, TLAPS

\* A request's hooks: only a managed key is probed for and decided about, and
\* outside the hook that probes, or a finished request, nothing is under way.
HookOrder == \A r \in Requests :
    /\ call[r].pc \in {"gate", "decide"} => call[r].key \in Keys
    /\ call[r].pc \in {"gate", "sent", "body"} => AtRest(r)

\* A probe: it has a key, saves only after its commit, and fetches only
\* through an entry of the pool.
ProbeOrder == \A c \in Callers :
    /\ probe[c].pc # "none" => probe[c].key \in Keys
    /\ probe[c].pc \in {"auth", "loop", "fetch", "commit"} => saving[c] = NoPath
    /\ probe[c].pc = "fetch" => probe[c].offset < PoolSize

\* A lifecycle call that will start a generation has room for it.
LifecycleOrder == lifecycle.pc \notin {"idle", "drain"} => generation < MaxGeneration

TypeInv == TypeOK /\ HookOrder /\ ProbeOrder /\ LifecycleOrder

-----------------------------------------------------------------------------
(* What the null values and the helpers are. *)

\* Every null value has the type of what it stands for: a missing cache
\* entry, a request the host is not serving, a caller without a probe.
LEMMA NullTypes ==
    /\ NoState \in MaybeState /\ EmptyCache \in Caches
    /\ NoPolicy \in Policies /\ ZeroConfig \in ConfigType
    /\ NoCall \in HostCalls /\ Untouched \in Headers /\ NoCandidate \in Candidates
    /\ NoProbe \in Probes /\ NoLifecycle \in LifecycleCalls
<1>1. NoState \in MaybeState /\ EmptyCache \in Caches
    BY DEF MaybeState, EmptyCache, Caches
<1>2. NoPolicy \in Policies
    BY DEF NoPolicy, Policies, Plans, Switches
<1>3. ZeroConfig \in ConfigType
    BY <1>1, <1>2 DEF ZeroConfig, ConfigType, ProbeConfigs, Switches
<1>4. 0 \in 0..MaxRetries /\ 0 \in Generations /\ 0 \in Times
    BY LimitsAssumption DEF Generations, Times
<1>5. 0 \in 0..(PoolSize - 1) /\ 0 \in 0..PoolSize /\ 0 \in 0..MaxAttempts
    BY LimitsAssumption
<1>6. NoCall \in HostCalls /\ Untouched \in Headers /\ NoCandidate \in Candidates
    BY <1>1, <1>4 DEF NoCall, HostCalls, Untouched, Headers, NoCandidate, Candidates
<1>7. NoProbe \in Probes
    BY <1>1, <1>2, <1>4, <1>5 DEF NoProbe, Probes, Outcomes
<1>8. NoLifecycle \in LifecycleCalls
    BY <1>1, <1>3 DEF NoLifecycle, LifecycleCalls
<1> QED
    BY <1>1, <1>2, <1>3, <1>6, <1>7, <1>8

\* A configuration has a policy for every account, its own or the default.
LEMMA PolicyType ==
    ASSUME NEW cfg \in ConfigType, NEW a \in Auths
    PROVE  CredentialFor(cfg, a) \in Policies
BY DEF CredentialFor, ConfigType

\* A key is an account and a model, and no key is the null key.
LEMMA KeyParts ==
    ASSUME NEW k \in Keys
    PROVE  AuthOf(k) \in Auths /\ ModelOf(k) \in Models /\ k # NoKey
BY NullAssumption DEF Keys, AuthOf, ModelOf

\* A cooldown ends within the range of times.
LEMMA CooldownTimes ==
    ASSUME now \in 1..MaxTime
    PROVE  /\ now \in Times /\ Never \in Times
           /\ now + Retry \in Times
           /\ now + QuotaBackoff \in Times
           /\ now + AccountBackoff \in Times
BY LimitsAssumption DEF Times, Never

\* Queueing a refresh leaves the queue and the channel what they are.
LEMMA QueueType ==
    ASSUME BookkeepingTypeOK, WorkerTypeOK, NEW k, NEW reason \in Reasons,
           QueueRefresh(k, reason)
    PROVE  refreshRequests' \in [Keys -> Reasons] /\ wake' \in BOOLEAN
BY DEF QueueRefresh, BookkeepingTypeOK, WorkerTypeOK, queueVars

-----------------------------------------------------------------------------
(* The initial states. *)

\* newRuntimeState is of the right type and in order.
LEMMA InitType == Init => TypeInv
<1> SUFFICES ASSUME Init PROVE TypeInv
    OBVIOUS
<1> USE NullTypes
<1>1. LifecycleTypeOK /\ CacheTypeOK
    <2>1. 1 \in 1..MaxTime /\ 0 \in Generations
        BY LimitsAssumption DEF Generations
    <2> QED
        BY <2>1 DEF Init, LifecycleTypeOK, CacheTypeOK
<1>2. RequestTypeOK /\ ProbeTypeOK
    BY LimitsAssumption DEF Init, RequestTypeOK, ProbeTypeOK, NoRequests, NoCandidates
<1>3. BookkeepingTypeOK
    BY LimitsAssumption DEF Init, BookkeepingTypeOK, NoTimes, NoAccountTimes, NoProxyTimes,
        NoResults, NoReasons, Times, Never, Outcomes, Reasons
<1>4. WorkerTypeOK /\ OperatorTypeOK /\ DiskTypeOK
    <2>1. 0 \in Generations
        BY LimitsAssumption DEF Generations
    <2>2. WorkerTypeOK /\ OperatorTypeOK
        BY <2>1 DEF Init, WorkerTypeOK, OperatorTypeOK
    <2>3. DiskTypeOK
        BY DEF Init, DiskTypeOK
    <2> QED
        BY <2>2, <2>3
<1>5. HookOrder
    <2>1. \A r \in Requests : call[r].pc = "idle"
        BY DEF Init, NoCall
    <2> QED
        BY <2>1 DEF HookOrder
<1>6. ProbeOrder
    BY DEF Init, ProbeOrder, NoProbe
<1>7. LifecycleOrder
    BY DEF Init, LifecycleOrder, NoLifecycle
<1> QED
    BY <1>1, <1>2, <1>3, <1>4, <1>5, <1>6, <1>7 DEF TypeInv, TypeOK

-----------------------------------------------------------------------------
(* What a step leaves alone keeps its type. *)

\* The parts of the invariant a step does not touch survive it.
LEMMA Frames ==
    ASSUME TypeInv
    PROVE  /\ UNCHANGED <<now, lifecycleVars>> => LifecycleTypeOK' /\ LifecycleOrder'
           /\ UNCHANGED cacheVars => CacheTypeOK'
           /\ UNCHANGED requestVars => RequestTypeOK'
           /\ UNCHANGED <<call, probe, saving>> => HookOrder'
           /\ UNCHANGED probeVars => ProbeTypeOK'
           /\ UNCHANGED <<probe, saving>> => ProbeOrder'
           /\ UNCHANGED <<resultVars, refreshRequests, blockVars>> => BookkeepingTypeOK'
           /\ UNCHANGED <<workerVars, wake>> => WorkerTypeOK'
           /\ UNCHANGED operatorVars => OperatorTypeOK'
           /\ UNCHANGED <<saving, diskVars>> => DiskTypeOK'
<1> USE DEF TypeInv, TypeOK
<1>1. UNCHANGED <<now, lifecycleVars>> => LifecycleTypeOK' /\ LifecycleOrder'
    BY DEF lifecycleVars, LifecycleTypeOK, LifecycleOrder
<1>2. UNCHANGED cacheVars => CacheTypeOK'
    BY DEF cacheVars, CacheTypeOK
<1>3. UNCHANGED requestVars => RequestTypeOK'
    BY DEF requestVars, RequestTypeOK
<1>4. UNCHANGED <<call, probe, saving>> => HookOrder'
    BY DEF HookOrder, AtRest
<1>5. UNCHANGED probeVars => ProbeTypeOK'
    BY DEF probeVars, ProbeTypeOK
<1>6. UNCHANGED <<probe, saving>> => ProbeOrder'
    BY DEF ProbeOrder
<1>7. UNCHANGED <<resultVars, refreshRequests, blockVars>> => BookkeepingTypeOK'
    BY DEF resultVars, blockVars, BookkeepingTypeOK
<1>8. UNCHANGED <<workerVars, wake>> => WorkerTypeOK'
    BY DEF workerVars, WorkerTypeOK
<1>9. UNCHANGED operatorVars => OperatorTypeOK'
    BY DEF operatorVars, OperatorTypeOK
<1>10. UNCHANGED <<saving, diskVars>> => DiskTypeOK'
    BY DEF diskVars, DiskTypeOK
<1> QED
    BY <1>1, <1>2, <1>3, <1>4, <1>5, <1>6, <1>7, <1>8, <1>9, <1>10

-----------------------------------------------------------------------------
(* The request hooks. *)

\* interceptAfter's first part, for a new request or a retry of one that is
\* not in a hook.
LEMMA InterceptBeginType ==
    ASSUME TypeInv, NEW r \in Requests, NEW key \in Targets, NEW alias \in SUBSET Models,
           NEW free \in BOOLEAN, InterceptBegin(r, key, alias, free),
           AtRest(r), call[r].pc # "idle" => call[r].attempt < MaxRetries
    PROVE  TypeInv'
<1> USE DEF TypeInv, TypeOK
<1>1. /\ UNCHANGED <<now, lifecycleVars, cacheVars, probeVars, resultVars, blockVars>>
      /\ UNCHANGED <<workerVars, operatorVars, saving, diskVars>>
    BY DEF InterceptBegin, hookFrame
<1>2. LifecycleTypeOK' /\ LifecycleOrder' /\ CacheTypeOK' /\ ProbeTypeOK' /\ OperatorTypeOK'
    BY <1>1, Frames
<1>3. ProbeOrder' /\ DiskTypeOK'
    BY <1>1, Frames DEF probeVars
<1>4. requests[r] \in Keys \cup {NoKey} /\ "credential_retry" \in Reasons
    BY DEF RequestTypeOK, Reasons
<1>5. BookkeepingTypeOK' /\ WorkerTypeOK'
    <2>1. refreshRequests' \in [Keys -> Reasons] /\ wake' \in BOOLEAN
        BY <1>4, QueueType DEF InterceptBegin
    <2> QED
        BY <1>1, <2>1 DEF BookkeepingTypeOK, WorkerTypeOK, resultVars, blockVars, workerVars
<1>6. DEFINE next == [pc |-> IF key = NoKey \/ free THEN "sent" ELSE "gate", key |-> key,
                      alias |-> alias,
                      attempt |-> IF call[r].pc = "idle" THEN 0 ELSE call[r].attempt + 1]
<1>7. call' = [call EXCEPT ![r] = next]
    BY DEF InterceptBegin
<1>8. RequestTypeOK'
    <2>1. next \in HostCalls
        <3>1. call[r] \in HostCalls
            BY DEF RequestTypeOK
        <3>2. next.attempt \in 0..MaxRetries
            BY <3>1, LimitsAssumption DEF HostCalls
        <3> QED
            BY <3>2, HostAssumption DEF HostCalls
    <2>2. call' \in [Requests -> HostCalls]
        BY <1>7, <2>1 DEF RequestTypeOK
    <2>3. header' \in [Requests -> Headers]
        <3>1. Untouched \in Headers /\ [Untouched EXCEPT !.op = "clear"] \in Headers
            BY NullTypes DEF Untouched, Headers
        <3> QED
            BY <3>1 DEF InterceptBegin, RequestTypeOK
    <2>4. requests' \in [Requests -> Keys \cup {NoKey}] /\ candidates' \in [Requests -> Candidates]
        BY NullTypes DEF InterceptBegin, ForgetAttempt, RequestTypeOK
    <2> QED
        BY <2>2, <2>3, <2>4 DEF RequestTypeOK
<1>9. HookOrder'
    <2> SUFFICES ASSUME NEW q \in Requests
                 PROVE  /\ call'[q].pc \in {"gate", "decide"} => call'[q].key \in Keys
                        /\ call'[q].pc \in {"gate", "sent", "body"} => AtRest(q)'
        BY DEF HookOrder
    <2>1. AtRest(q)' <=> AtRest(q)
        BY <1>1 DEF AtRest, probeVars
    <2>2. CASE q = r
        BY <1>7, <2>1, <2>2, HostAssumption DEF RequestTypeOK
    <2>3. CASE q # r
        BY <1>7, <2>1, <2>3 DEF HookOrder, RequestTypeOK
    <2> QED
        BY <2>2, <2>3
<1> QED
    BY <1>2, <1>3, <1>5, <1>8, <1>9

\* A new request.
LEMMA NewRequestType ==
    ASSUME TypeInv, NEW r \in Requests, NewRequest(r)
    PROVE  TypeInv'
<1>1. PICK key \in Targets, alias \in {{}} \cup {{m} : m \in Aliases} :
          \E free \in {FALSE} \cup {key # NoKey /\ AuthOf(key) \in FreeListed} :
              InterceptBegin(r, key, alias, free)
    BY DEF NewRequest
<1>2. PICK free \in BOOLEAN : InterceptBegin(r, key, alias, free)
    BY <1>1
<1>3. alias \in SUBSET Models
    BY HostAssumption
<1>4. AtRest(r) /\ call[r].pc = "idle"
    BY DEF NewRequest
<1> QED
    BY <1>2, <1>3, <1>4, InterceptBeginType

\* A retry under the same ID, with another credential perhaps.
LEMMA RetryRequestType ==
    ASSUME TypeInv, NEW r \in Requests, RetryRequest(r)
    PROVE  TypeInv'
<1>1. PICK key \in Targets :
          \E free \in {FALSE} \cup {key # NoKey /\ AuthOf(key) \in FreeListed} :
              InterceptBegin(r, key, call[r].alias, free)
    BY DEF RetryRequest
<1>2. PICK free \in BOOLEAN : InterceptBegin(r, key, call[r].alias, free)
    BY <1>1
<1>3. call[r].alias \in SUBSET Models
    BY DEF TypeInv, TypeOK, RequestTypeOK, HostCalls
<1>4. AtRest(r) /\ call[r].attempt < MaxRetries
    BY DEF RetryRequest, TypeInv, HookOrder
<1> QED
    BY <1>2, <1>3, <1>4, InterceptBeginType

\* ensureProbe's first critical section, whoever calls it: the caller has
\* nothing else under way.
LEMMA EnsureProbeType ==
    ASSUME TypeInv, NEW c \in Callers, NEW key \in Keys, EnsureProbe(c, key), AtRest(c),
           UNCHANGED <<saving, refreshRequests, blockVars>>
    PROVE  /\ ProbeTypeOK' /\ ProbeOrder' /\ BookkeepingTypeOK'
           /\ \A d \in Callers \ {c} : probe'[d] = probe[d]
<1> USE DEF TypeInv, TypeOK
<1>1. CASE UNCHANGED <<probeVars, resultVars>>
    BY <1>1, Frames DEF probeVars
<1>2. CASE ClaimProbe(c, key)
    <2> DEFINE claim ==
            [pc |-> "auth", key |-> key, gen |-> generation,
             policy |-> CredentialFor(config, AuthOf(key)), began |-> now,
             start |-> poolCursor, offset |-> 0, attempts |-> 0,
             outcome |-> "auth_unavailable", found |-> NoState]
    <2>1. probe' = [probe EXCEPT ![c] = claim]
        BY <1>2 DEF ClaimProbe
    <2>2. claim \in Probes
        <3>1. CredentialFor(config, AuthOf(key)) \in Policies
            BY PolicyType, KeyParts DEF LifecycleTypeOK
        <3>2. now \in Times /\ generation \in Generations
            BY CooldownTimes DEF LifecycleTypeOK
        <3>3. poolCursor \in 0..(PoolSize - 1) /\ 0 \in 0..PoolSize /\ 0 \in 0..MaxAttempts
            BY LimitsAssumption DEF ProbeTypeOK
        <3>4. "auth_unavailable" \in Outcomes /\ NoState \in MaybeState
            BY NullTypes DEF Outcomes
        <3> HIDE DEF TypeInv, TypeOK
        <3> QED
            BY <3>1, <3>2, <3>3, <3>4 DEF Probes
    <2>3. poolCursor' \in 0..(PoolSize - 1)
        BY <1>2, LimitsAssumption DEF ClaimProbe, ProbeTypeOK
    <2>4. ProbeTypeOK'
        BY <1>2, <2>1, <2>2, <2>3 DEF ClaimProbe, ProbeTypeOK
    <2>5. ProbeOrder'
        <3>1. saving[c] = NoPath
            BY DEF AtRest
        <3>2. claim.key \in Keys /\ claim.pc = "auth"
            OBVIOUS
        <3> HIDE DEF claim
        <3> QED
            BY <2>1, <3>1, <3>2 DEF ProbeOrder, ProbeTypeOK
    <2>6. BookkeepingTypeOK'
        <3>1. now \in Times
            BY CooldownTimes DEF LifecycleTypeOK
        <3> QED
            BY <1>2, <3>1 DEF ClaimProbe, BookkeepingTypeOK, blockVars
    <2>7. \A d \in Callers \ {c} : probe'[d] = probe[d]
        BY <2>1 DEF ProbeTypeOK
    <2> QED
        BY <2>4, <2>5, <2>6, <2>7
<1> QED
    BY <1>1, <1>2 DEF EnsureProbe

\* The call of ensureProbe from interceptAfter.
LEMMA InterceptProbeType ==
    ASSUME TypeInv, NEW r \in Requests, InterceptProbe(r)
    PROVE  TypeInv'
<1> USE DEF TypeInv, TypeOK
<1>1. /\ UNCHANGED <<now, lifecycleVars, workerVars, operatorVars, diskVars, cacheVars>>
      /\ UNCHANGED <<header, requests, candidates, blockVars, refreshRequests, wake, saving>>
    BY DEF InterceptProbe, hookFrame, queueVars
<1>2. call[r].pc = "gate" /\ call[r].key \in Keys /\ AtRest(r) /\ r \in Callers
    BY DEF InterceptProbe, HookOrder, Callers
<1>3. /\ LifecycleTypeOK' /\ LifecycleOrder' /\ CacheTypeOK' /\ WorkerTypeOK'
      /\ OperatorTypeOK' /\ DiskTypeOK'
    BY <1>1, Frames
<1>4. /\ ProbeTypeOK' /\ ProbeOrder' /\ BookkeepingTypeOK'
      /\ \A d \in Callers \ {r} : probe'[d] = probe[d]
    <2>1. EnsureProbe(r, call[r].key)
        BY DEF InterceptProbe
    <2> HIDE DEF TypeInv, TypeOK
    <2> QED
        BY <1>1, <1>2, <2>1, EnsureProbeType
<1>5. call' = [call EXCEPT ![r].pc = "decide"]
    BY DEF InterceptProbe
<1>6. RequestTypeOK'
    BY <1>1, <1>5 DEF RequestTypeOK, HostCalls
<1>7. HookOrder'
    <2> SUFFICES ASSUME NEW q \in Requests
                 PROVE  /\ call'[q].pc \in {"gate", "decide"} => call'[q].key \in Keys
                        /\ call'[q].pc \in {"gate", "sent", "body"} => AtRest(q)'
        BY DEF HookOrder
    <2>1. CASE q = r
        BY <1>2, <1>5, <2>1 DEF RequestTypeOK, HostCalls
    <2>2. CASE q # r
        <3>1. AtRest(q)' <=> AtRest(q)
            BY <1>1, <1>4, <2>2 DEF AtRest, Callers
        <3> QED
            BY <1>5, <2>2, <3>1 DEF HookOrder, RequestTypeOK
    <2> QED
        BY <2>1, <2>2
<1> QED
    BY <1>3, <1>4, <1>6, <1>7

\* The rest of interceptAfter: the binding and the header.
LEMMA InterceptDecideType ==
    ASSUME TypeInv, NEW r \in Requests, InterceptDecide(r)
    PROVE  TypeInv'
<1> USE DEF TypeInv, TypeOK
<1>1. /\ UNCHANGED <<now, lifecycleVars, workerVars, operatorVars, diskVars, cacheVars>>
      /\ UNCHANGED <<probeVars, resultVars, blockVars, refreshRequests, wake, saving>>
    BY DEF InterceptDecide, hookFrame, queueVars
<1>2. /\ LifecycleTypeOK' /\ LifecycleOrder' /\ CacheTypeOK' /\ WorkerTypeOK' /\ ProbeTypeOK'
      /\ OperatorTypeOK' /\ DiskTypeOK' /\ BookkeepingTypeOK'
    BY <1>1, Frames
<1>3. ProbeOrder' /\ UNCHANGED probe
    BY <1>1, Frames DEF probeVars
<1>4. call' = [call EXCEPT ![r].pc = "sent"] /\ call[r].pc = "decide" /\ AtRest(r)
    BY DEF InterceptDecide
<1>5. RequestTypeOK'
    <2>1. call' \in [Requests -> HostCalls]
        BY <1>4 DEF RequestTypeOK, HostCalls
    <2>2. /\ requests' \in [Requests -> Keys \cup {NoKey}]
          /\ candidates' \in [Requests -> Candidates]
        BY NullTypes DEF InterceptDecide, RequestTypeOK, HostCalls
    <2>3. header' \in [Requests -> Headers]
        <3>1. current[call[r].key] \in MaybeState
            BY <1>4 DEF HookOrder, CacheTypeOK, Caches
        <3>2. /\ Untouched \in Headers /\ [Untouched EXCEPT !.op = "clear"] \in Headers
              /\ [op |-> "set", state |-> current[call[r].key]] \in Headers
            BY <3>1, NullTypes DEF Untouched, Headers
        <3> QED
            BY <3>2 DEF InterceptDecide, RequestTypeOK
    <2> QED
        BY <2>1, <2>2, <2>3 DEF RequestTypeOK
<1>6. HookOrder'
    <2> SUFFICES ASSUME NEW q \in Requests
                 PROVE  /\ call'[q].pc \in {"gate", "decide"} => call'[q].key \in Keys
                        /\ call'[q].pc \in {"gate", "sent", "body"} => AtRest(q)'
        BY DEF HookOrder
    <2>1. AtRest(q)' <=> AtRest(q)
        BY <1>1, <1>3 DEF AtRest
    <2>2. CASE q = r
        BY <1>4, <2>1, <2>2 DEF RequestTypeOK, HostCalls
    <2>3. CASE q # r
        BY <1>4, <2>1, <2>3 DEF HookOrder, RequestTypeOK
    <2> QED
        BY <2>2, <2>3
<1> QED
    BY <1>2, <1>3, <1>5, <1>6

\* A response, with a state upstream issued to the attempt's key or none.
LEMMA InterceptResponseType ==
    ASSUME TypeInv, NEW r \in Requests, NEW state \in IssuedTo(call[r].key) \cup {NoState},
           InterceptResponse(r, state)
    PROVE  TypeInv'
<1> USE DEF TypeInv, TypeOK
<1>1. /\ UNCHANGED <<now, lifecycleVars, workerVars, operatorVars, diskVars, cacheVars>>
      /\ UNCHANGED <<requests, probeVars, resultVars, blockVars, refreshRequests, wake, saving>>
    BY DEF InterceptResponse, hookFrame, queueVars
<1>2. /\ LifecycleTypeOK' /\ LifecycleOrder' /\ CacheTypeOK' /\ WorkerTypeOK' /\ ProbeTypeOK'
      /\ OperatorTypeOK' /\ DiskTypeOK' /\ BookkeepingTypeOK'
    BY <1>1, Frames
<1>3. ProbeOrder' /\ UNCHANGED probe
    BY <1>1, Frames DEF probeVars
<1>4. call' = [call EXCEPT ![r].pc = "body"] /\ call[r].pc = "sent"
    BY DEF InterceptResponse
<1>5. RequestTypeOK'
    <2>1. call[r] \in HostCalls /\ requests[r] \in Keys \cup {NoKey}
        BY DEF RequestTypeOK
    <2>2. call' \in [Requests -> HostCalls]
        BY <1>4 DEF RequestTypeOK, HostCalls
    <2>3. header' \in [Requests -> Headers]
        BY NullTypes DEF InterceptResponse, RequestTypeOK
    <2>4. state \in MaybeState
        <3>1. \A i \in Issues : i[1] \in Stamps /\ i[2] \in Shapes
            BY IssuesAssumption
        <3>2. call[r].key \in Keys \cup {NoKey}
            BY <2>1 DEF HostCalls
        <3> QED
            BY <3>1, <3>2, NullTypes DEF IssuedTo, MaybeState, States
    <2>5. [key |-> requests[r], state |-> state, attempt |-> call[r].attempt] \in Candidates
        BY <2>1, <2>4 DEF HostCalls, Candidates
    <2>6. candidates' \in [Requests -> Candidates]
        BY <2>5 DEF InterceptResponse, RequestTypeOK
    <2> QED
        BY <1>1, <2>2, <2>3, <2>6 DEF RequestTypeOK
<1>6. HookOrder'
    <2> SUFFICES ASSUME NEW q \in Requests
                 PROVE  /\ call'[q].pc \in {"gate", "decide"} => call'[q].key \in Keys
                        /\ call'[q].pc \in {"gate", "sent", "body"} => AtRest(q)'
        BY DEF HookOrder
    <2>1. AtRest(q)' <=> AtRest(q)
        BY <1>1, <1>3 DEF AtRest
    <2>2. CASE q = r
        BY <1>4, <2>1, <2>2 DEF HookOrder, RequestTypeOK, HostCalls
    <2>3. CASE q # r
        BY <1>4, <2>1, <2>3 DEF HookOrder, RequestTypeOK
    <2> QED
        BY <2>2, <2>3
<1> QED
    BY <1>2, <1>3, <1>5, <1>6

\* A failure event in the stream.
LEMMA InterceptStreamFailureType ==
    ASSUME TypeInv, NEW r \in Requests, InterceptStreamFailure(r)
    PROVE  TypeInv'
<1> USE DEF TypeInv, TypeOK
<1>1. /\ UNCHANGED <<now, lifecycleVars, workerVars, operatorVars, diskVars, cacheVars>>
      /\ UNCHANGED <<call, header, requests, probeVars, resultVars, blockVars, saving>>
    BY DEF InterceptStreamFailure, hookFrame
<1>2. /\ LifecycleTypeOK' /\ LifecycleOrder' /\ CacheTypeOK' /\ ProbeTypeOK'
      /\ OperatorTypeOK' /\ DiskTypeOK'
    BY <1>1, Frames
<1>3. ProbeOrder' /\ HookOrder'
    BY <1>1, Frames DEF probeVars
<1>4. RequestTypeOK'
    BY <1>1, NullTypes DEF InterceptStreamFailure, RequestTypeOK
<1>5. BookkeepingTypeOK' /\ WorkerTypeOK'
    <2>1. requests[r] \in Keys \cup {NoKey} /\ "upstream_error" \in Reasons
        BY DEF RequestTypeOK, Reasons
    <2>2. refreshRequests' \in [Keys -> Reasons] /\ wake' \in BOOLEAN
        BY <2>1, QueueType DEF InterceptStreamFailure
    <2> QED
        BY <1>1, <2>2 DEF BookkeepingTypeOK, WorkerTypeOK, resultVars, blockVars, workerVars
<1> QED
    BY <1>2, <1>3, <1>4, <1>5

\* Completion: the request has nothing else under way, so the save it may
\* leave behind is its only one.
LEMMA CompleteType ==
    ASSUME TypeInv, NEW r \in Requests, NEW outcome \in {"succeeded", "failed", "other"},
           Complete(r, outcome)
    PROVE  TypeInv'
<1> USE DEF TypeInv, TypeOK
<1>1. UNCHANGED <<now, lifecycleVars, workerVars, operatorVars, diskVars, probeVars,
                  resultVars, blockVars>>
    BY DEF Complete, hookFrame
<1>2. LifecycleTypeOK' /\ LifecycleOrder' /\ ProbeTypeOK' /\ OperatorTypeOK'
    BY <1>1, Frames
<1>3. /\ call' = [call EXCEPT ![r] = NoCall] /\ call[r].pc \in {"sent", "body"}
      /\ AtRest(r) /\ UNCHANGED probe /\ r \in Callers
    BY <1>1 DEF Complete, HookOrder, probeVars, Callers
<1>4. \/ UNCHANGED saving
      \/ saving' = [saving EXCEPT ![r] = config.stateFile]
    BY DEF Complete
<1>5. config.stateFile \in Paths \cup {NoPath}
    BY DEF LifecycleTypeOK, ConfigType
<1>6. CacheTypeOK'
    <2>1. candidates[r].state \in MaybeState
        BY DEF RequestTypeOK, Candidates
    <2>2. \/ UNCHANGED current
          \/ current' = [current EXCEPT ![candidates[r].key] = candidates[r].state]
        BY DEF Complete
    <2>3. current' \in Caches
        BY <2>1, <2>2 DEF CacheTypeOK, Caches
    <2>4. forceInject' \subseteq Keys
        BY DEF Complete, CacheTypeOK
    <2> QED
        BY <2>3, <2>4 DEF CacheTypeOK
<1>7. RequestTypeOK'
    BY <1>3, NullTypes DEF Complete, ForgetAttempt, RequestTypeOK
<1>8. BookkeepingTypeOK' /\ WorkerTypeOK'
    <2>1. requests[r] \in Keys \cup {NoKey} /\ {"upstream_error", "none"} \subseteq Reasons
        BY DEF RequestTypeOK, Reasons
    <2>2. refreshRequests' \in [Keys -> Reasons] /\ wake' \in BOOLEAN
        <3>1. CASE QueueRefresh(requests[r], IF outcome = "failed" THEN "upstream_error"
                                                                   ELSE "none")
            BY <2>1, <3>1, QueueType
        <3>2. CASE /\ refreshRequests' = [refreshRequests EXCEPT ![candidates[r].key] = "none"]
                   /\ UNCHANGED wake
            BY <2>1, <3>2 DEF BookkeepingTypeOK, WorkerTypeOK
        <3> QED
            BY <3>1, <3>2 DEF Complete
    <2> QED
        BY <1>1, <2>2 DEF BookkeepingTypeOK, WorkerTypeOK, resultVars, blockVars, workerVars
<1>9. DiskTypeOK'
    <2>1. r \notin savers
        BY <1>3 DEF AtRest, DiskTypeOK
    <2> QED
        BY <1>1, <1>4, <1>5, <2>1 DEF DiskTypeOK, diskVars
<1>10. HookOrder'
    <2> SUFFICES ASSUME NEW q \in Requests
                 PROVE  /\ call'[q].pc \in {"gate", "decide"} => call'[q].key \in Keys
                        /\ call'[q].pc \in {"gate", "sent", "body"} => AtRest(q)'
        BY DEF HookOrder
    <2>1. CASE q = r
        BY <1>3, <2>1 DEF RequestTypeOK, NoCall
    <2>2. CASE q # r
        <3>1. AtRest(q)' <=> AtRest(q)
            BY <1>3, <1>4, <2>2 DEF AtRest, Callers, DiskTypeOK
        <3> QED
            BY <1>3, <2>2, <3>1 DEF HookOrder, RequestTypeOK
    <2> QED
        BY <2>1, <2>2
<1>11. ProbeOrder'
    BY <1>3, <1>4 DEF ProbeOrder, AtRest, DiskTypeOK
<1> QED
    BY <1>2, <1>6, <1>7, <1>8, <1>9, <1>10, <1>11

\* Every hook.
LEMMA RequestStepType ==
    ASSUME TypeInv, NEW r \in Requests, RequestStep(r)
    PROVE  TypeInv'
BY NewRequestType, RetryRequestType, InterceptProbeType, InterceptDecideType,
   InterceptResponseType, InterceptStreamFailureType, CompleteType DEF RequestStep

-----------------------------------------------------------------------------
(* The probes. *)

\* What every step of a probe leaves alone: all but the probe itself, what
\* its outcome touches, and the save it ends with.
LEMMA ProbeFrame ==
    ASSUME TypeInv, UNCHANGED <<probeFrame, saving>>
    PROVE  /\ LifecycleTypeOK' /\ LifecycleOrder' /\ RequestTypeOK'
           /\ OperatorTypeOK' /\ DiskTypeOK' /\ WorkerTypeOK'
<1>1. /\ UNCHANGED <<now, lifecycleVars, requestVars, workerVars, wake, operatorVars>>
      /\ UNCHANGED <<saving, diskVars>>
    BY DEF probeFrame
<1> QED
    BY <1>1, Frames

\* A probe that moves on without saving or ending keeps every order.
LEMMA ProbeMoves ==
    ASSUME TypeInv, NEW c \in Callers, NEW q \in Probes,
           probe[c].pc # "none", q.key = probe[c].key, q.pc # "none",
           saving[c] = NoPath, q.pc = "fetch" => q.offset < PoolSize,
           probe' = [probe EXCEPT ![c] = q],
           UNCHANGED <<call, probing, poolCursor, saving>>
    PROVE  ProbeTypeOK' /\ ProbeOrder' /\ HookOrder'
<1> USE DEF TypeInv, TypeOK
<1>1. ProbeTypeOK'
    BY DEF ProbeTypeOK
<1>2. ProbeOrder'
    BY DEF ProbeOrder, ProbeTypeOK
<1>3. HookOrder'
    <2> SUFFICES ASSUME NEW r \in Requests
                 PROVE  /\ call'[r].pc \in {"gate", "decide"} => call'[r].key \in Keys
                        /\ call'[r].pc \in {"gate", "sent", "body"} => AtRest(r)'
        BY DEF HookOrder
    <2>1. CASE r = c
        BY <2>1 DEF HookOrder, AtRest
    <2>2. CASE r # c
        BY <2>2 DEF HookOrder, AtRest, ProbeTypeOK, Callers
    <2> QED
        BY <2>1, <2>2
<1> QED
    BY <1>1, <1>2, <1>3

\* The credential lookup.
LEMMA ProbeAuthType ==
    ASSUME TypeInv, NEW c \in Callers, ProbeAuth(c)
    PROVE  TypeInv'
<1> USE DEF TypeInv, TypeOK
<1>1. /\ UNCHANGED <<probeFrame, saving, cacheVars, probing, probeResults, refreshRequests>>
      /\ UNCHANGED <<blockVars, call, poolCursor, resultVars>>
    BY DEF ProbeAuth, probeFrame, requestVars, resultVars
<1>2. /\ LifecycleTypeOK' /\ LifecycleOrder' /\ RequestTypeOK' /\ OperatorTypeOK'
      /\ DiskTypeOK' /\ WorkerTypeOK' /\ CacheTypeOK' /\ BookkeepingTypeOK'
    BY <1>1, ProbeFrame, Frames
<1>3. PICK q \in {[probe[c] EXCEPT !.pc = "loop", !.outcome = "probe_failed"],
                  [probe[c] EXCEPT !.pc = "commit"]} : probe' = [probe EXCEPT ![c] = q]
    BY DEF ProbeAuth
<1>4. probe[c] \in Probes /\ probe[c].pc = "auth" /\ saving[c] = NoPath
    BY DEF ProbeAuth, ProbeTypeOK, ProbeOrder
<1>5. q \in Probes /\ q.key = probe[c].key /\ q.pc \in {"loop", "commit"}
    BY <1>3, <1>4 DEF Probes, Outcomes
<1>6. ProbeTypeOK' /\ ProbeOrder' /\ HookOrder'
    BY <1>1, <1>3, <1>4, <1>5, ProbeMoves
<1> QED
    BY <1>2, <1>6

\* The head of the loop over the pool.
LEMMA ProbeNextType ==
    ASSUME TypeInv, NEW c \in Callers, ProbeNext(c)
    PROVE  TypeInv'
<1> USE DEF TypeInv, TypeOK
<1>1. /\ UNCHANGED <<probeFrame, saving, cacheVars, probing, probeResults, refreshRequests>>
      /\ UNCHANGED <<blockVars, call, poolCursor, resultVars>>
    BY DEF ProbeNext, probeFrame, requestVars, resultVars
<1>2. /\ LifecycleTypeOK' /\ LifecycleOrder' /\ RequestTypeOK' /\ OperatorTypeOK'
      /\ DiskTypeOK' /\ WorkerTypeOK' /\ CacheTypeOK' /\ BookkeepingTypeOK'
    BY <1>1, ProbeFrame, Frames
<1>3. probe[c] \in Probes /\ probe[c].pc = "loop" /\ saving[c] = NoPath
    BY DEF ProbeNext, ProbeTypeOK, ProbeOrder
<1>4. CASE probe' = [probe EXCEPT ![c].pc = "commit"]
    <2> DEFINE q == [probe[c] EXCEPT !.pc = "commit"]
    <2>1. q \in Probes /\ q.key = probe[c].key /\ q.pc = "commit"
        BY <1>3 DEF Probes
    <2>2. ProbeTypeOK' /\ ProbeOrder' /\ HookOrder'
        BY <1>1, <1>3, <1>4, <2>1, ProbeMoves
    <2> QED
        BY <1>2, <2>2
<1>5. CASE PoolLeft(probe[c]) /\ probe' = [probe EXCEPT ![c].offset = @ + 1]
    <2> DEFINE q == [probe[c] EXCEPT !.offset = @ + 1]
    <2>1. q \in Probes /\ q.key = probe[c].key /\ q.pc = "loop"
        BY <1>3, <1>5, LimitsAssumption DEF Probes, PoolLeft
    <2>2. ProbeTypeOK' /\ ProbeOrder' /\ HookOrder'
        BY <1>1, <1>3, <1>5, <2>1, ProbeMoves
    <2> QED
        BY <1>2, <2>2
<1>6. CASE PoolLeft(probe[c]) /\ probe' = [probe EXCEPT ![c].pc = "fetch", ![c].attempts = @ + 1]
    <2> DEFINE q == [probe[c] EXCEPT !.pc = "fetch", !.attempts = @ + 1]
    <2>1. probe[c].attempts + 1 \in 0..MaxAttempts /\ probe[c].offset < PoolSize
        BY <1>3, <1>6, LimitsAssumption DEF Probes, PoolLeft
    <2>2. q \in Probes /\ q.key = probe[c].key /\ q.pc = "fetch" /\ q.offset < PoolSize
        BY <1>3, <2>1 DEF Probes
    <2>3. ProbeTypeOK' /\ ProbeOrder' /\ HookOrder'
        BY <1>1, <1>3, <1>6, <2>2, ProbeMoves
    <2> QED
        BY <1>2, <2>3
<1> QED
    BY <1>4, <1>5, <1>6 DEF ProbeNext

\* A fetch that failed.  It was inside the pool, so the next entry is at most
\* the pool's end.
LEMMA ProbeFailsType ==
    ASSUME TypeInv, NEW c \in Callers, NEW outcome \in FetchOutcomes, ProbeFails(c, outcome)
    PROVE  TypeInv'
<1> USE DEF TypeInv, TypeOK
<1>1. /\ UNCHANGED <<probeFrame, saving, cacheVars, probing, probeResults, refreshRequests>>
      /\ UNCHANGED <<now, blockedUntil, call, poolCursor, resultVars>>
    BY DEF ProbeFails, probeFrame, requestVars, resultVars
<1>2. /\ LifecycleTypeOK' /\ LifecycleOrder' /\ RequestTypeOK' /\ OperatorTypeOK'
      /\ DiskTypeOK' /\ WorkerTypeOK' /\ CacheTypeOK'
    BY <1>1, ProbeFrame, Frames
<1>3. probe[c] \in Probes /\ probe[c].pc = "fetch" /\ saving[c] = NoPath
      /\ probe[c].offset < PoolSize /\ outcome \in Outcomes
    BY FetchAssumption DEF ProbeFails, ProbeTypeOK, ProbeOrder, Outcomes
<1>4. BookkeepingTypeOK'
    <2>1. now + ProbeAccountBackoff(outcome) \in Times /\ now + Retry \in Times
        BY CooldownTimes DEF ProbeAccountBackoff, LifecycleTypeOK
    <2>2. accountBlockedUntil' \in [Auths -> Times]
        BY <2>1 DEF ProbeFails, BookkeepingTypeOK
    <2>3. proxyBlockedUntil' \in [0..(PoolSize - 1) -> Times]
        BY <2>1 DEF ProbeFails, BookkeepingTypeOK
    <2> QED
        BY <1>1, <2>2, <2>3 DEF BookkeepingTypeOK, resultVars
<1>5. CASE probe' = [probe EXCEPT ![c].pc = "commit", ![c].outcome = outcome]
    <2> DEFINE q == [probe[c] EXCEPT !.pc = "commit", !.outcome = outcome]
    <2>1. q \in Probes /\ q.key = probe[c].key /\ q.pc = "commit"
        BY <1>3 DEF Probes
    <2>2. ProbeTypeOK' /\ ProbeOrder' /\ HookOrder'
        BY <1>1, <1>3, <1>5, <2>1, ProbeMoves
    <2> QED
        BY <1>2, <1>4, <2>2
<1>6. CASE probe' = [probe EXCEPT ![c].pc = "loop", ![c].outcome = outcome, ![c].offset = @ + 1]
    <2> DEFINE q == [probe[c] EXCEPT !.pc = "loop", !.outcome = outcome, !.offset = @ + 1]
    <2>1. probe[c].offset + 1 \in 0..PoolSize
        BY <1>3, LimitsAssumption DEF Probes
    <2>2. q \in Probes /\ q.key = probe[c].key /\ q.pc = "loop"
        BY <1>3, <2>1 DEF Probes
    <2>3. ProbeTypeOK' /\ ProbeOrder' /\ HookOrder'
        BY <1>1, <1>3, <1>6, <2>2, ProbeMoves
    <2> QED
        BY <1>2, <1>4, <2>3
<1> QED
    BY <1>5, <1>6 DEF ProbeFails

\* What upstream issues to a key is a state.
LEMMA IssuedStates ==
    ASSUME NEW key \in Keys \cup {NoKey}
    PROVE  /\ IssuedTo(key) \subseteq States
           /\ \A s \in IssuedTo(key) : s.origin = key
<1>1. \A i \in Issues : i[1] \in Stamps /\ i[2] \in Shapes
    BY IssuesAssumption
<1> QED
    BY <1>1 DEF IssuedTo, States

\* A fetch that brought a state, accepted or not.
LEMMA ProbeFetchedType ==
    ASSUME TypeInv, NEW c \in Callers, NEW state \in IssuedTo(probe[c].key),
           ProbeFetched(c, state)
    PROVE  TypeInv'
<1> USE DEF TypeInv, TypeOK
<1>1. /\ UNCHANGED <<probeFrame, saving, cacheVars, probing, probeResults, refreshRequests>>
      /\ UNCHANGED <<blockedUntil, accountBlockedUntil, call, poolCursor, resultVars>>
    BY DEF ProbeFetched, probeFrame, requestVars, resultVars
<1>2. /\ LifecycleTypeOK' /\ LifecycleOrder' /\ RequestTypeOK' /\ OperatorTypeOK'
      /\ DiskTypeOK' /\ WorkerTypeOK' /\ CacheTypeOK'
    BY <1>1, ProbeFrame, Frames
<1>3. probe[c] \in Probes /\ probe[c].pc = "fetch" /\ saving[c] = NoPath
      /\ probe[c].offset < PoolSize
    BY DEF ProbeFetched, ProbeTypeOK, ProbeOrder
<1>4. BookkeepingTypeOK'
    BY <1>1, CooldownTimes DEF ProbeFetched, BookkeepingTypeOK, LifecycleTypeOK, resultVars
<1>5. state \in MaybeState
    BY <1>3, IssuedStates DEF Probes, MaybeState
<1>6. CASE probe' = [probe EXCEPT ![c] =
                [probe[c] EXCEPT !.pc = "commit", !.outcome = "ok", !.found = state]]
    <2> DEFINE q == [probe[c] EXCEPT !.pc = "commit", !.outcome = "ok", !.found = state]
    <2>1. q \in Probes /\ q.key = probe[c].key /\ q.pc = "commit"
        BY <1>3, <1>5 DEF Probes, Outcomes
    <2>2. ProbeTypeOK' /\ ProbeOrder' /\ HookOrder'
        BY <1>1, <1>3, <1>6, <2>1, ProbeMoves
    <2> QED
        BY <1>2, <1>4, <2>2
<1>7. CASE probe' = [probe EXCEPT ![c] =
                [probe[c] EXCEPT !.pc = "loop", !.outcome = "state_rejected", !.offset = @ + 1]]
    <2> DEFINE q == [probe[c] EXCEPT !.pc = "loop", !.outcome = "state_rejected", !.offset = @ + 1]
    <2>1. probe[c].offset + 1 \in 0..PoolSize
        BY <1>3, LimitsAssumption DEF Probes
    <2>2. q \in Probes /\ q.key = probe[c].key /\ q.pc = "loop"
        BY <1>3, <2>1 DEF Probes, Outcomes
    <2>3. ProbeTypeOK' /\ ProbeOrder' /\ HookOrder'
        BY <1>1, <1>3, <1>7, <2>2, ProbeMoves
    <2> QED
        BY <1>2, <1>4, <2>3
<1> QED
    BY <1>6, <1>7 DEF ProbeFetched

\* A probe that ends: its caller is at rest again, or has a save to make.
LEMMA ProbeEnds ==
    ASSUME TypeInv, NEW c \in Callers, probe[c].pc # "none",
           probe' = [probe EXCEPT ![c] = NoProbe],
           probing' \subseteq probing, UNCHANGED <<call, poolCursor, saving>>
    PROVE  ProbeTypeOK' /\ ProbeOrder' /\ HookOrder'
<1> USE DEF TypeInv, TypeOK
<1>1. ProbeTypeOK'
    BY NullTypes DEF ProbeTypeOK
<1>2. NoProbe.pc = "none"
    BY DEF NoProbe
<1>3. ProbeOrder'
    BY <1>2 DEF ProbeOrder, ProbeTypeOK
<1>4. HookOrder'
    <2> SUFFICES ASSUME NEW r \in Requests
                 PROVE  /\ call'[r].pc \in {"gate", "decide"} => call'[r].key \in Keys
                        /\ call'[r].pc \in {"gate", "sent", "body"} => AtRest(r)'
        BY DEF HookOrder
    <2>1. CASE r = c
        BY <2>1 DEF HookOrder, AtRest
    <2>2. CASE r # c
        BY <2>2 DEF HookOrder, AtRest, ProbeTypeOK, Callers
    <2> QED
        BY <2>1, <2>2
<1> QED
    BY <1>1, <1>3, <1>4

\* The promotion of what a probe found.
LEMMA PromoteFoundType ==
    ASSUME TypeInv, NEW c \in Callers, probe[c].pc = "commit",
           PromoteFound(c, probe[c]), ReleaseClaim(probe[c]),
           UNCHANGED <<probeFrame, proxyBlockedUntil>>
    PROVE  TypeInv'
<1> USE DEF TypeInv, TypeOK
<1>1. UNCHANGED <<now, lifecycleVars, requestVars, workerVars, wake, operatorVars, diskVars>>
    BY DEF probeFrame
<1>2. /\ LifecycleTypeOK' /\ LifecycleOrder' /\ RequestTypeOK' /\ OperatorTypeOK'
      /\ WorkerTypeOK'
    BY <1>1, Frames
<1>3. /\ probe[c] \in Probes /\ saving[c] = NoPath /\ probe[c].key \in Keys
      /\ config.stateFile \in Paths \cup {NoPath}
    BY DEF ProbeTypeOK, ProbeOrder, LifecycleTypeOK, ConfigType
<1>4. CacheTypeOK'
    <2>1. probe[c].found \in MaybeState
        BY <1>3 DEF Probes
    <2> QED
        BY <1>3, <2>1 DEF PromoteFound, CacheTypeOK, Caches
<1>5. BookkeepingTypeOK'
    <2>1. probe[c].outcome \in Outcomes /\ "none" \in Reasons /\ Never \in Times
        BY <1>3, CooldownTimes DEF Probes, Reasons, LifecycleTypeOK
    <2>2. probeResults' \in [Keys -> Outcomes] /\ refreshRequests' \in [Keys -> Reasons]
        BY <2>1 DEF PromoteFound, ReleaseClaim, BookkeepingTypeOK
    <2>3. blockedUntil' \in [Keys -> Times] /\ accountBlockedUntil' \in [Auths -> Times]
        BY <2>1 DEF PromoteFound, BookkeepingTypeOK
    <2> QED
        BY <2>2, <2>3 DEF BookkeepingTypeOK, probeFrame
<1>6. saving' = [saving EXCEPT ![c] = config.stateFile]
    BY DEF PromoteFound
<1>7. DiskTypeOK'
    BY <1>1, <1>3, <1>6 DEF DiskTypeOK, diskVars
<1>8. PICK q \in Probes : /\ q.pc \in {"none", "save"}
                          /\ q.pc # "none" => q.key \in Keys
                          /\ probe' = [probe EXCEPT ![c] = q]
    <2>1. [probe[c] EXCEPT !.pc = "save"] \in Probes
        BY <1>3 DEF Probes
    <2>2. CASE config.stateFile = NoPath
        BY <2>2, NullTypes DEF PromoteFound, NoProbe
    <2>3. CASE config.stateFile # NoPath
        BY <1>3, <2>1, <2>3 DEF PromoteFound, Probes
    <2> QED
        BY <2>2, <2>3
<1>9. ProbeTypeOK'
    BY <1>8 DEF ReleaseClaim, ProbeTypeOK, probeFrame
<1>10. ProbeOrder'
    <2> SUFFICES ASSUME NEW d \in Callers
                 PROVE  /\ probe'[d].pc # "none" => probe'[d].key \in Keys
                        /\ probe'[d].pc \in {"auth", "loop", "fetch", "commit"}
                               => saving'[d] = NoPath
                        /\ probe'[d].pc = "fetch" => probe'[d].offset < PoolSize
        BY DEF ProbeOrder
    <2>1. CASE d = c
        BY <1>8, <2>1 DEF ProbeTypeOK
    <2>2. CASE d # c
        <3>1. probe'[d] = probe[d] /\ saving'[d] = saving[d]
            BY <1>6, <1>8, <2>2 DEF ProbeTypeOK, DiskTypeOK
        <3> QED
            BY <3>1 DEF ProbeOrder
    <2> QED
        BY <2>1, <2>2
<1>11. HookOrder'
    <2> SUFFICES ASSUME NEW r \in Requests
                 PROVE  /\ call'[r].pc \in {"gate", "decide"} => call'[r].key \in Keys
                        /\ call'[r].pc \in {"gate", "sent", "body"} => AtRest(r)'
        BY DEF HookOrder
    <2>1. UNCHANGED call
        BY <1>1 DEF requestVars
    <2>2. CASE r = c
        BY <2>1, <2>2 DEF HookOrder, AtRest
    <2>3. CASE r # c
        BY <1>6, <1>8, <2>1, <2>3 DEF HookOrder, AtRest, ProbeTypeOK, DiskTypeOK, Callers
    <2> QED
        BY <2>2, <2>3
<1> QED
    BY <1>2, <1>4, <1>5, <1>7, <1>9, <1>10, <1>11

\* The commit: discarded, failed or promoted.
LEMMA ProbeCommitType ==
    ASSUME TypeInv, NEW c \in Callers, ProbeCommit(c)
    PROVE  TypeInv'
<1> USE DEF TypeInv, TypeOK
<1>1. probe[c].pc = "commit" /\ UNCHANGED probeFrame
    BY DEF ProbeCommit
<1>2. CASE PromoteFound(c, probe[c]) /\ ReleaseClaim(probe[c]) /\ UNCHANGED proxyBlockedUntil
    BY <1>1, <1>2, PromoteFoundType
<1>3. CASE /\ probe' = [probe EXCEPT ![c] = NoProbe] /\ probing' \subseteq probing
           /\ UNCHANGED <<cacheVars, saving, proxyBlockedUntil, accountBlockedUntil,
                          refreshRequests>>
           /\ probeResults' \in {probeResults,
                                 [probeResults EXCEPT ![probe[c].key] = probe[c].outcome]}
           /\ \E t \in Times : blockedUntil' = [blockedUntil EXCEPT ![probe[c].key] = t]
    <2>1. /\ LifecycleTypeOK' /\ LifecycleOrder' /\ RequestTypeOK' /\ OperatorTypeOK'
          /\ DiskTypeOK' /\ WorkerTypeOK' /\ CacheTypeOK'
        BY <1>1, <1>3, ProbeFrame, Frames
    <2>2. probe[c].outcome \in Outcomes
        BY DEF ProbeTypeOK, Probes
    <2>3. BookkeepingTypeOK'
        BY <1>1, <1>3, <2>2 DEF BookkeepingTypeOK, probeFrame
    <2>4. UNCHANGED <<call, poolCursor>>
        BY <1>1 DEF probeFrame, requestVars
    <2>5. ProbeTypeOK' /\ ProbeOrder' /\ HookOrder'
        BY <1>1, <1>3, <2>4, ProbeEnds
    <2> QED
        BY <2>1, <2>3, <2>5
<1>4. now + QuotaBackoff \in Times /\ blockedUntil[probe[c].key] \in Times
    BY <1>1, CooldownTimes DEF LifecycleTypeOK, BookkeepingTypeOK, ProbeOrder
<1>5. blockedUntil = [blockedUntil EXCEPT ![probe[c].key] = blockedUntil[probe[c].key]]
    BY DEF BookkeepingTypeOK
<1> QED
    BY <1>1, <1>2, <1>3, <1>4, <1>5
       DEF ProbeCommit, ReleaseClaim, RequestsAfterFailure, blockVars

\* Every step of a probe.
LEMMA ProbeStepType ==
    ASSUME TypeInv, NEW c \in Callers, ProbeStep(c)
    PROVE  TypeInv'
BY ProbeAuthType, ProbeNextType, ProbeFailsType, ProbeFetchedType, ProbeCommitType
   DEF ProbeStep

-----------------------------------------------------------------------------
(* The saves. *)

\* persistCurrent's return to a caller that had a save to make.
LEMMA SaveReturnsType ==
    ASSUME TypeInv, NEW c \in Callers, NEW failed \in BOOLEAN, SaveReturns(c, failed),
           saving[c] # NoPath, UNCHANGED saveFrame
    PROVE  /\ LifecycleTypeOK' /\ LifecycleOrder' /\ CacheTypeOK' /\ RequestTypeOK'
           /\ HookOrder' /\ ProbeTypeOK' /\ ProbeOrder' /\ BookkeepingTypeOK'
           /\ WorkerTypeOK' /\ OperatorTypeOK'
           /\ saving' = [saving EXCEPT ![c] = NoPath]
<1> USE DEF TypeInv, TypeOK
<1>1. /\ UNCHANGED <<now, lifecycleVars, cacheVars, requestVars, probing, poolCursor>>
      /\ UNCHANGED <<lastProbe, blockVars, workerVars, queueVars, wake, operatorVars, call>>
    BY DEF saveFrame, requestVars, queueVars
<1>2. /\ LifecycleTypeOK' /\ LifecycleOrder' /\ CacheTypeOK' /\ RequestTypeOK'
      /\ WorkerTypeOK' /\ OperatorTypeOK'
    BY <1>1, Frames
<1>3. saving' = [saving EXCEPT ![c] = NoPath]
    BY DEF SaveReturns
<1>4. UNCHANGED probe \/ probe' = [probe EXCEPT ![c] = NoProbe]
    BY DEF SaveReturns
<1>5. NoProbe.pc = "none"
    BY DEF NoProbe
<1>6. ProbeTypeOK'
    BY <1>1, <1>4, NullTypes DEF ProbeTypeOK
<1>7. ProbeOrder'
    BY <1>3, <1>4, <1>5 DEF ProbeOrder, ProbeTypeOK, DiskTypeOK
<1>8. BookkeepingTypeOK'
    <2>1. "persist_failed" \in Outcomes
        BY DEF Outcomes
    <2>2. probeResults' \in [Keys -> Outcomes]
        BY <2>1 DEF SaveReturns, BookkeepingTypeOK
    <2> QED
        BY <1>1, <2>2 DEF BookkeepingTypeOK, queueVars, blockVars
<1>9. HookOrder'
    <2> SUFFICES ASSUME NEW r \in Requests
                 PROVE  /\ call'[r].pc \in {"gate", "decide"} => call'[r].key \in Keys
                        /\ call'[r].pc \in {"gate", "sent", "body"} => AtRest(r)'
        BY DEF HookOrder
    <2>1. CASE r = c
        BY <1>1, <2>1 DEF HookOrder, AtRest
    <2>2. CASE r # c
        BY <1>1, <1>3, <1>4, <2>2 DEF HookOrder, AtRest, ProbeTypeOK, DiskTypeOK, Callers
    <2> QED
        BY <2>1, <2>2
<1> QED
    BY <1>2, <1>3, <1>6, <1>7, <1>8, <1>9

\* The snapshot, or the return from a save the configuration has left.
LEMMA SaveSnapshotType ==
    ASSUME TypeInv, NEW c \in Callers, SaveSnapshot(c)
    PROVE  TypeInv'
<1> USE DEF TypeInv, TypeOK
<1>1. UNCHANGED <<saveFrame, disk, saveFailed>> /\ saving[c] # NoPath /\ c \notin savers
    BY DEF SaveSnapshot
<1>2. CASE SaveReturns(c, FALSE) /\ UNCHANGED <<savers, snapshot>>
    <2>1. DiskTypeOK'
        BY <1>1, <1>2 DEF SaveReturns, DiskTypeOK
    <2>2. FALSE \in BOOLEAN
        OBVIOUS
    <2> QED
        BY <1>1, <1>2, <2>1, <2>2, SaveReturnsType
<1>3. CASE /\ savers' = savers \cup {c}
           /\ snapshot' = [snapshot EXCEPT ![c] = current]
           /\ UNCHANGED <<saving, probe, probeResults>>
    <2>1. DiskTypeOK'
        BY <1>1, <1>3 DEF DiskTypeOK, CacheTypeOK
    <2>2. /\ UNCHANGED <<now, lifecycleVars, cacheVars, requestVars, probeVars, operatorVars>>
          /\ UNCHANGED <<resultVars, refreshRequests, blockVars, workerVars, wake>>
          /\ UNCHANGED <<call, probe, saving>>
        BY <1>1, <1>3 DEF saveFrame, probeVars, resultVars, queueVars, requestVars
    <2> QED
        BY <2>1, <2>2, Frames
<1> QED
    BY <1>2, <1>3 DEF SaveSnapshot

\* The write.
LEMMA SaveWriteType ==
    ASSUME TypeInv, NEW c \in Callers, NEW failed \in BOOLEAN, SaveWrite(c, failed)
    PROVE  TypeInv'
<1> USE DEF TypeInv, TypeOK
<1>1. SaveReturns(c, failed) /\ UNCHANGED saveFrame /\ saving[c] # NoPath
    BY DEF SaveWrite, DiskTypeOK
<1>2. DiskTypeOK'
    BY <1>1, NullTypes DEF SaveWrite, SaveReturns, DiskTypeOK
<1> QED
    BY <1>1, <1>2, SaveReturnsType

\* Every step of a save.
LEMMA SaveStepType ==
    ASSUME TypeInv, NEW c \in Callers, SaveStep(c)
    PROVE  TypeInv'
BY SaveSnapshotType, SaveWriteType DEF SaveStep

-----------------------------------------------------------------------------
(* The background worker. *)

\* nextRefreshLocked is a time, and beyond the clock's range only by the
\* constants it adds.
LEMMA NextRefreshType ==
    ASSUME TypeInv, NEW k \in Keys
    PROVE  NextRefresh(k) \in Nat
<1>1. /\ now \in Nat /\ lastProbe[k] \in Nat /\ blockedUntil[k] \in Nat
    BY LimitsAssumption DEF TypeInv, TypeOK, LifecycleTypeOK, BookkeepingTypeOK, Times
<1>2. current[k].issuedAt \in Nat
    <2>1. current[k] \in MaybeState
        BY DEF TypeInv, TypeOK, CacheTypeOK, Caches
    <2>2. CASE current[k] \in States
        BY <2>2, TimesAssumption DEF States
    <2>3. CASE current[k] = NoState
        BY <2>3 DEF NoState
    <2> QED
        BY <2>1, <2>2, <2>3 DEF MaybeState
<1>3. Retry \in Nat /\ Year \in Nat /\ TTL - RefreshBefore \in Nat
    BY LimitsAssumption, TimesAssumption
<1> DEFINE pending == refreshRequests[k] # "none"
           wanted  == IF Present(current[k]) /\ ~pending
                      THEN current[k].issuedAt + (TTL - RefreshBefore) ELSE now
           cooled  == IF lastProbe[k] # Never
                      THEN Later(lastProbe[k] + Retry, wanted) ELSE wanted
<1>4. wanted \in Nat
    BY <1>1, <1>2, <1>3
<1>5. cooled \in Nat
    <2> HIDE DEF wanted
    <2> QED
        BY <1>1, <1>3, <1>4 DEF Later
<1>6. NextRefresh(k) = IF config.probe.errorsOnly /\ ~pending
                       THEN now + Year ELSE Later(blockedUntil[k], cooled)
    BY DEF NextRefresh
<1> HIDE DEF pending, cooled
<1> QED
    BY <1>1, <1>3, <1>5, <1>6 DEF Later

\* A step of the worker that probes nothing.
LEMMA WorkerMovesType ==
    ASSUME TypeInv, UNCHANGED <<workerFrame, probeVars, resultVars>>,
           worker' \in {"none", "check", "collect", "jobs", "probe", "wait", "exited"},
           jobs' \subseteq Jobs, wake' \in BOOLEAN
    PROVE  TypeInv'
<1>1. /\ UNCHANGED <<now, lifecycleVars, cacheVars, requestVars, operatorVars>>
      /\ UNCHANGED <<probeVars, resultVars, refreshRequests, blockVars, saving, diskVars>>
      /\ UNCHANGED <<call, probe>>
    BY DEF workerFrame, requestVars, probeVars
<1>2. WorkerTypeOK'
    BY DEF WorkerTypeOK
<1> QED
    BY <1>1, <1>2, Frames DEF TypeInv, TypeOK

\* The next job of the round.
LEMMA WorkerProbeType ==
    ASSUME TypeInv, AtRest(Worker), WorkerProbe
    PROVE  TypeInv'
<1>1. PICK job \in jobs : jobs' = jobs \ {job} /\ EnsureProbe(Worker, job.key)
    BY DEF WorkerProbe
<1>2. /\ UNCHANGED <<now, lifecycleVars, cacheVars, requestVars, operatorVars>>
      /\ UNCHANGED <<refreshRequests, blockVars, saving, diskVars, wake, call>>
      /\ worker' = "jobs"
    BY DEF WorkerProbe, workerFrame, requestVars
<1>3. job.key \in Keys /\ Worker \in Callers /\ AtRest(Worker)
    BY DEF TypeInv, TypeOK, WorkerTypeOK, Jobs, Callers, WorkerProbe
<1>4. /\ ProbeTypeOK' /\ ProbeOrder' /\ BookkeepingTypeOK'
      /\ \A d \in Callers \ {Worker} : probe'[d] = probe[d]
    BY <1>1, <1>2, <1>3, EnsureProbeType
<1>5. HookOrder'
    BY <1>2, <1>4, CallersAssumption DEF TypeInv, HookOrder, AtRest, Callers
<1>6. WorkerTypeOK'
    BY <1>1, <1>2 DEF TypeInv, TypeOK, WorkerTypeOK
<1>7. /\ LifecycleTypeOK' /\ LifecycleOrder' /\ CacheTypeOK' /\ RequestTypeOK'
      /\ OperatorTypeOK' /\ DiskTypeOK'
    BY <1>2, Frames
<1> QED
    BY <1>4, <1>5, <1>6, <1>7 DEF TypeInv, TypeOK

\* Every step of the worker.
LEMMA WorkerStepType ==
    ASSUME TypeInv, WorkerStep
    PROVE  TypeInv'
<1> USE DEF workerFrame
<1>1. WorkerTypeOK
    BY DEF TypeInv, TypeOK
<1>2. CASE WorkerCollect
    <2>1. DueJobs \subseteq Jobs
        BY NextRefreshType DEF DueJobs, Jobs
    <2> QED
        BY <1>1, <1>2, <2>1, WorkerMovesType DEF WorkerCollect, WorkerTypeOK
<1>3. CASE WorkerProbe
    BY <1>3, WorkerProbeType DEF WorkerStep
<1>4. CASE WorkerLooks \/ WorkerNextJob
    BY <1>1, <1>4, WorkerMovesType DEF WorkerLooks, WorkerNextJob, WorkerTypeOK
<1>5. CASE WorkerWakes
    BY <1>1, <1>5, WorkerMovesType DEF WorkerWakes, WorkerTypeOK
<1>6. CASE WorkerExits
    BY <1>1, <1>6, WorkerMovesType DEF WorkerExits, WorkerTypeOK
<1> QED
    BY <1>2, <1>3, <1>4, <1>5, <1>6 DEF WorkerStep

-----------------------------------------------------------------------------
(* The panel's commands. *)

\* A refresh call.
LEMMA RefreshActionType ==
    ASSUME TypeInv, NEW o \in Operators, NEW selection \in RefreshSelections,
           RefreshAction(o, selection)
    PROVE  TypeInv'
<1> USE DEF TypeInv, TypeOK
<1>1. /\ UNCHANGED <<now, lifecycleVars, requestVars, workerVars, diskVars, cacheVars, wake>>
      /\ UNCHANGED <<probeVars, resultVars, blockVars, saving, call, probe>>
    BY DEF RefreshAction, panelFrame, requestVars, probeVars
<1>2. /\ LifecycleTypeOK' /\ LifecycleOrder' /\ CacheTypeOK' /\ RequestTypeOK' /\ HookOrder'
      /\ ProbeTypeOK' /\ ProbeOrder' /\ WorkerTypeOK' /\ DiskTypeOK'
    BY <1>1, Frames
<1>3. BookkeepingTypeOK'
    BY <1>1 DEF RefreshAction, BookkeepingTypeOK, Reasons, resultVars, blockVars
<1>4. OperatorTypeOK'
    <2>1. selection \subseteq Keys /\ generation \in Generations
        BY SelectionsAssumption DEF LifecycleTypeOK
    <2> QED
        BY <2>1 DEF RefreshAction, OperatorTypeOK
<1> QED
    BY <1>2, <1>3, <1>4

\* The wake-up a refresh call sends.
LEMMA NudgeWorkerType ==
    ASSUME TypeInv, NEW o \in Operators, NudgeWorker(o)
    PROVE  TypeInv'
<1> USE DEF TypeInv, TypeOK
<1>1. /\ UNCHANGED <<now, lifecycleVars, requestVars, workerVars, diskVars, cacheVars>>
      /\ UNCHANGED <<probeVars, resultVars, blockVars, saving, call, probe, refreshRequests, todo>>
    BY DEF NudgeWorker, panelFrame, requestVars, probeVars
<1>2. /\ LifecycleTypeOK' /\ LifecycleOrder' /\ CacheTypeOK' /\ RequestTypeOK' /\ HookOrder'
      /\ ProbeTypeOK' /\ ProbeOrder' /\ DiskTypeOK' /\ BookkeepingTypeOK'
    BY <1>1, Frames
<1>3. WorkerTypeOK'
    BY <1>1 DEF NudgeWorker, WorkerTypeOK, workerVars
<1>4. OperatorTypeOK'
    BY <1>1, LimitsAssumption DEF NudgeWorker, OperatorTypeOK, Generations
<1> QED
    BY <1>2, <1>3, <1>4

\* A probe of a refresh call's goroutine.
LEMMA ManualProbeType ==
    ASSUME TypeInv, NEW o \in Operators, ManualProbe(o)
    PROVE  TypeInv'
<1>1. PICK key \in todo[o] : todo' = [todo EXCEPT ![o] = @ \ {key}] /\ EnsureProbe(o, key)
    BY DEF ManualProbe
<1>2. /\ UNCHANGED <<now, lifecycleVars, requestVars, workerVars, diskVars, cacheVars, wake>>
      /\ UNCHANGED <<refreshRequests, blockVars, nudge, saving, call>>
    BY DEF ManualProbe, requestVars, queueVars
<1>3. key \in Keys /\ o \in Callers /\ AtRest(o)
    BY DEF TypeInv, TypeOK, OperatorTypeOK, Callers, ManualProbe
<1>4. /\ ProbeTypeOK' /\ ProbeOrder' /\ BookkeepingTypeOK'
      /\ \A d \in Callers \ {o} : probe'[d] = probe[d]
    BY <1>1, <1>2, <1>3, EnsureProbeType
<1>5. HookOrder'
    BY <1>2, <1>4, CallersAssumption DEF TypeInv, HookOrder, AtRest, Callers
<1>6. OperatorTypeOK'
    BY <1>1, <1>2 DEF TypeInv, TypeOK, OperatorTypeOK
<1>7. /\ LifecycleTypeOK' /\ LifecycleOrder' /\ CacheTypeOK' /\ RequestTypeOK'
      /\ WorkerTypeOK' /\ DiskTypeOK'
    BY <1>2, Frames
<1> QED
    BY <1>4, <1>5, <1>6, <1>7 DEF TypeInv, TypeOK

\* A clear call, which leaves a save behind.
LEMMA ClearActionType ==
    ASSUME TypeInv, NEW o \in Operators, NEW selection \in ClearSelections,
           NEW scope \in ClearScopes, ClearAction(o, selection, scope)
    PROVE  TypeInv'
<1> USE DEF TypeInv, TypeOK
<1>1. /\ UNCHANGED <<now, lifecycleVars, requestVars, workerVars, diskVars, wake>>
      /\ UNCHANGED <<forceInject, probeVars, operatorVars, call, probe>>
      /\ UNCHANGED <<accountBlockedUntil, proxyBlockedUntil>>
    BY DEF ClearAction, panelFrame, requestVars, probeVars
<1>2. /\ LifecycleTypeOK' /\ LifecycleOrder' /\ RequestTypeOK' /\ ProbeTypeOK'
      /\ WorkerTypeOK' /\ OperatorTypeOK'
    BY <1>1, Frames
<1>3. o \in Callers /\ AtRest(o) /\ saving' = [saving EXCEPT ![o] = config.stateFile]
    BY DEF ClearAction, Free, Callers
<1>4. CacheTypeOK'
    <2>1. current' \in Caches
        BY NullTypes DEF ClearAction, CacheTypeOK, Caches
    <2> QED
        BY <1>1, <2>1 DEF CacheTypeOK
<1>5. BookkeepingTypeOK'
    <2>1. "none" \in Outcomes /\ "none" \in Reasons /\ Never \in Times
        BY CooldownTimes DEF LifecycleTypeOK, Outcomes, Reasons
    <2>2. probeResults' \in [Keys -> Outcomes] /\ refreshRequests' \in [Keys -> Reasons]
        BY <2>1 DEF ClearAction, BookkeepingTypeOK
    <2>3. lastProbe' \in [Keys -> Times] /\ blockedUntil' \in [Keys -> Times]
        BY <2>1 DEF ClearAction, BookkeepingTypeOK
    <2> QED
        BY <1>1, <2>2, <2>3 DEF BookkeepingTypeOK
<1>6. DiskTypeOK'
    <2>1. config.stateFile \in Paths \cup {NoPath} /\ o \notin savers
        BY <1>3 DEF LifecycleTypeOK, ConfigType, AtRest, DiskTypeOK
    <2> QED
        BY <1>1, <1>3, <2>1 DEF DiskTypeOK, diskVars
<1>7. ProbeOrder'
    BY <1>1, <1>3 DEF ProbeOrder, AtRest, DiskTypeOK
<1>8. HookOrder'
    BY <1>1, <1>3, CallersAssumption DEF HookOrder, AtRest, DiskTypeOK, Callers
<1> QED
    BY <1>2, <1>4, <1>5, <1>6, <1>7, <1>8

\* Every step of an operator.
LEMMA OperatorStepType ==
    ASSUME TypeInv, NEW o \in Operators, OperatorStep(o)
    PROVE  TypeInv'
BY RefreshActionType, NudgeWorkerType, ManualProbeType, ClearActionType DEF OperatorStep

-----------------------------------------------------------------------------
(* The lifecycle calls. *)

\* A lifecycle step that leaves all but the call itself, the admission of
\* work and the worker alone.
LEMMA LifecycleMovesType ==
    ASSUME TypeInv, UNCHANGED <<stopFrame, config, generation>>,
           accepting' \in BOOLEAN, ctxLive' \in BOOLEAN, lifecycle' \in LifecycleCalls,
           lifecycle'.pc \notin {"idle", "drain"} => generation < MaxGeneration,
           worker' \in {"none", "check", "collect", "jobs", "probe", "wait", "exited"}, UNCHANGED wake
    PROVE  TypeInv'
<1>1. /\ UNCHANGED <<now, cacheVars, requestVars, probeVars, resultVars, refreshRequests>>
      /\ UNCHANGED <<blockVars, operatorVars, saving, diskVars, call, probe, jobs>>
    BY DEF stopFrame, lifeFrame, requestVars, probeVars
<1>2. LifecycleTypeOK' /\ LifecycleOrder' /\ WorkerTypeOK'
    BY <1>1 DEF TypeInv, TypeOK, LifecycleTypeOK, LifecycleOrder, WorkerTypeOK
<1> QED
    BY <1>1, <1>2, Frames DEF TypeInv, TypeOK

\* What configure starts from is a cache.
LEMMA LoadedCacheType ==
    ASSUME TypeInv, NEW cfg \in ConfigType
    PROVE  LoadedCache(cfg) \in Caches
<1> SUFFICES ASSUME NEW k \in Keys
             PROVE  LoadedCache(cfg)[k] \in MaybeState
    BY DEF LoadedCache, Caches
<1>1. SeedAt(cfg, k) \in MaybeState
    BY NullTypes, KeyParts DEF SeedAt, ConfigType
<1>2. cfg.stateFile # NoPath => disk[cfg.stateFile][k] \in MaybeState
    BY DEF TypeInv, TypeOK, DiskTypeOK, ConfigType, Caches
<1> QED
    BY <1>1, <1>2, NullTypes DEF LoadedCache

\* The parts of a lifecycle call that change only the call and admission.
LEMMA LifecycleCallType ==
    ASSUME TypeInv,
           \/ \E cfg \in Configs : ConfigureLoad(cfg)
           \/ ConfigureCancel
           \/ \E pc \in {"drain", "retire"} : StopAccepting(pc)
           \/ JoinWorker
    PROVE  TypeInv'
<1> USE DEF stopFrame
<1>1. /\ lifecycle \in LifecycleCalls /\ accepting \in BOOLEAN /\ ctxLive \in BOOLEAN
      /\ worker \in {"none", "check", "collect", "jobs", "probe", "wait", "exited"}
    BY DEF TypeInv, TypeOK, LifecycleTypeOK, WorkerTypeOK
<1>2. CASE \E cfg \in Configs : ConfigureLoad(cfg)
    <2>1. PICK cfg \in Configs : ConfigureLoad(cfg)
        BY <1>2
    <2>2. cfg \in ConfigType
        BY ConfigsAssumption
    <2>3. LoadedCache(cfg) \in Caches
        BY <2>2, LoadedCacheType
    <2>4. lifecycle' \in LifecycleCalls
        BY <2>1, <2>2, <2>3 DEF ConfigureLoad, LifecycleCalls
    <2> QED
        BY <1>1, <2>1, <2>4, LifecycleMovesType DEF ConfigureLoad
<1>3. CASE ConfigureCancel
    <2>1. lifecycle' \in LifecycleCalls
        BY <1>1, <1>3 DEF ConfigureCancel, LifecycleCalls
    <2>2. generation < MaxGeneration
        BY <1>3 DEF ConfigureCancel, TypeInv, LifecycleOrder
    <2> QED
        BY <1>1, <1>3, <2>1, <2>2, LifecycleMovesType DEF ConfigureCancel
<1>4. CASE \E pc \in {"drain", "retire"} : StopAccepting(pc)
    <2>1. PICK pc \in {"drain", "retire"} : StopAccepting(pc)
        BY <1>4
    <2>2. lifecycle' \in LifecycleCalls /\ lifecycle'.pc = pc
        BY <1>1, <2>1 DEF StopAccepting, LifecycleCalls
    <2> QED
        BY <1>1, <2>1, <2>2, LifecycleMovesType DEF StopAccepting
<1>5. CASE JoinWorker
    <2>1. lifecycle' \in LifecycleCalls
        BY <1>1, <1>5, NullTypes DEF JoinWorker, LifecycleCalls
    <2>2. lifecycle'.pc \notin {"idle", "drain"} => generation < MaxGeneration
        <3>1. lifecycle.pc \in {"join", "retire"} => generation < MaxGeneration
            BY DEF TypeInv, LifecycleOrder
        <3>2. lifecycle.pc = "drain" => lifecycle'.pc = "idle"
            BY <1>5 DEF JoinWorker, NoLifecycle
        <3> QED
            BY <1>5, <3>1, <3>2 DEF JoinWorker
    <2> QED
        BY <1>1, <1>5, <2>1, <2>2, LifecycleMovesType DEF JoinWorker
<1> QED
    BY <1>2, <1>3, <1>4, <1>5

\* A new generation.
LEMMA ConfigureSwapType ==
    ASSUME TypeInv, ConfigureSwap
    PROVE  TypeInv'
<1>1. /\ UNCHANGED <<now, call, header, probe, poolCursor, operatorVars, saving, diskVars>>
      /\ UNCHANGED <<call, probe, saving>>
    BY DEF ConfigureSwap, lifeFrame
<1>2. OperatorTypeOK' /\ DiskTypeOK' /\ HookOrder' /\ ProbeOrder'
    BY <1>1, Frames
<1>3. lifecycle \in LifecycleCalls /\ lifecycle.pc = "swap" /\ generation < MaxGeneration
    BY DEF TypeInv, TypeOK, LifecycleTypeOK, LifecycleOrder, ConfigureSwap
<1>4. lifecycle.config \in ConfigType /\ lifecycle.loaded \in Caches
    BY <1>3 DEF LifecycleCalls
<1>5. LifecycleTypeOK' /\ LifecycleOrder'
    <2>1. generation + 1 \in Generations
        BY <1>3, LimitsAssumption DEF TypeInv, TypeOK, LifecycleTypeOK, Generations
    <2>2. NoLifecycle.pc = "idle"
        BY DEF NoLifecycle
    <2>3. LifecycleOrder'
        BY <2>2 DEF ConfigureSwap, LifecycleOrder
    <2>4. lifecycle.config.enabled \in BOOLEAN
        BY <1>4 DEF ConfigType
    <2> QED
        BY <1>1, <1>4, <2>1, <2>3, <2>4, NullTypes
           DEF ConfigureSwap, TypeInv, TypeOK, LifecycleTypeOK
<1>6. CacheTypeOK'
    <2>1. current \in Caches
        BY DEF TypeInv, TypeOK, CacheTypeOK
    <2>2. \A k \in Keys : current[k] \in MaybeState /\ lifecycle.loaded[k] \in MaybeState
        BY <1>4, <2>1 DEF Caches
    <2> QED
        BY <2>2 DEF ConfigureSwap, CacheTypeOK, Caches
<1>7. RequestTypeOK'
    BY <1>1, NullTypes
       DEF ConfigureSwap, DropBindings, NoRequests, NoCandidates, TypeInv, TypeOK, RequestTypeOK
<1>8. ProbeTypeOK'
    BY <1>1 DEF ConfigureSwap, TypeInv, TypeOK, ProbeTypeOK
<1>9. BookkeepingTypeOK'
    <2>1. Never \in Times /\ "none" \in Outcomes /\ "none" \in Reasons
        BY CooldownTimes DEF TypeInv, TypeOK, LifecycleTypeOK, Outcomes, Reasons
    <2> QED
        BY <2>1 DEF ConfigureSwap, BookkeepingTypeOK, NoTimes, NoAccountTimes, NoProxyTimes,
            NoResults, NoReasons
<1>10. WorkerTypeOK'
    BY DEF ConfigureSwap, WorkerTypeOK
<1> QED
    BY <1>2, <1>5, <1>6, <1>7, <1>8, <1>9, <1>10 DEF TypeInv, TypeOK

\* The end of a shutdown.
LEMMA ShutdownWipeType ==
    ASSUME TypeInv, ShutdownWipe
    PROVE  TypeInv'
<1>1. /\ UNCHANGED <<now, call, header, cacheVars, probeVars, resultVars, refreshRequests>>
      /\ UNCHANGED <<blockVars, workerVars, wake, operatorVars, saving, diskVars, probe>>
      /\ UNCHANGED <<accepting, config, ctxLive>>
    BY DEF ShutdownWipe, lifeFrame, probeVars, workerVars
<1>2. /\ CacheTypeOK' /\ ProbeTypeOK' /\ BookkeepingTypeOK' /\ WorkerTypeOK'
      /\ OperatorTypeOK' /\ DiskTypeOK' /\ HookOrder' /\ ProbeOrder'
    BY <1>1, Frames
<1>3. LifecycleTypeOK' /\ LifecycleOrder'
    <2>1. generation < MaxGeneration
        BY DEF TypeInv, LifecycleOrder, ShutdownWipe
    <2>2. generation + 1 \in Generations
        BY <2>1, LimitsAssumption DEF TypeInv, TypeOK, LifecycleTypeOK, Generations
    <2>3. NoLifecycle.pc = "idle"
        BY DEF NoLifecycle
    <2>4. LifecycleOrder'
        BY <2>3 DEF ShutdownWipe, LifecycleOrder
    <2> QED
        BY <1>1, <2>2, <2>4, NullTypes DEF ShutdownWipe, TypeInv, TypeOK, LifecycleTypeOK
<1>4. RequestTypeOK'
    BY <1>1, NullTypes
       DEF ShutdownWipe, DropBindings, NoRequests, NoCandidates, TypeInv, TypeOK, RequestTypeOK
<1> QED
    BY <1>2, <1>3, <1>4 DEF TypeInv, TypeOK

\* Every step of a lifecycle call.
LEMMA LifecycleStepType ==
    ASSUME TypeInv, LifecycleStep
    PROVE  TypeInv'
BY LifecycleCallType, ConfigureSwapType, ShutdownWipeType DEF LifecycleStep

-----------------------------------------------------------------------------
(* The clock, the crash, and the theorem. *)

\* Time passes.
LEMMA TickType ==
    ASSUME TypeInv, Tick
    PROVE  TypeInv'
<1>1. /\ UNCHANGED <<lifecycleVars, cacheVars, requestVars, probeVars, resultVars, blockVars>>
      /\ UNCHANGED <<workerVars, queueVars, operatorVars, saving, diskVars>>
      /\ UNCHANGED <<call, probe, refreshRequests, wake>>
    BY DEF Tick, requestVars, probeVars, queueVars
<1>2. LifecycleTypeOK' /\ LifecycleOrder'
    BY <1>1, LimitsAssumption
       DEF Tick, TypeInv, TypeOK, LifecycleTypeOK, LifecycleOrder, lifecycleVars
<1> QED
    BY <1>1, <1>2, Frames DEF TypeInv, TypeOK

\* The process dies and starts anew on the files it left.
LEMMA CrashType ==
    ASSUME TypeInv, Crash
    PROVE  TypeInv'
<1> USE NullTypes
<1>1. 0 \in Generations /\ 0 \in 0..(PoolSize - 1) /\ Never \in Times
      /\ "none" \in Outcomes /\ "none" \in Reasons
    BY LimitsAssumption, CooldownTimes
       DEF Generations, Outcomes, Reasons, TypeInv, TypeOK, LifecycleTypeOK
<1>2. LifecycleTypeOK' /\ CacheTypeOK'
    BY <1>1 DEF Crash, TypeInv, TypeOK, LifecycleTypeOK, CacheTypeOK
<1>3. RequestTypeOK' /\ ProbeTypeOK'
    BY <1>1 DEF Crash, RequestTypeOK, ProbeTypeOK, NoRequests, NoCandidates
<1>4. BookkeepingTypeOK'
    BY <1>1 DEF Crash, BookkeepingTypeOK, NoTimes, NoAccountTimes, NoProxyTimes, NoResults,
        NoReasons
<1>5. WorkerTypeOK' /\ OperatorTypeOK'
    BY <1>1 DEF Crash, WorkerTypeOK, OperatorTypeOK
<1>6. DiskTypeOK'
    BY DEF Crash, TypeInv, TypeOK, DiskTypeOK
<1>7. NoCall.pc = "idle" /\ NoProbe.pc = "none" /\ NoLifecycle.pc = "idle"
    BY DEF NoCall, NoProbe, NoLifecycle
<1>8. HookOrder'
    BY <1>7 DEF Crash, HookOrder
<1>9. ProbeOrder' /\ LifecycleOrder'
    BY <1>7 DEF Crash, ProbeOrder, LifecycleOrder
<1> QED
    BY <1>2, <1>3, <1>4, <1>5, <1>6, <1>8, <1>9 DEF TypeInv, TypeOK

\* No step of the plugin breaks a type or an order.
LEMMA NextType == TypeInv /\ [Next]_vars => TypeInv'
<1> SUFFICES ASSUME TypeInv, [Next]_vars PROVE TypeInv'
    OBVIOUS
<1>1. CASE Next
    BY <1>1, RequestStepType, ProbeStepType, SaveStepType, OperatorStepType, WorkerStepType,
       LifecycleStepType, TickType, CrashType DEF Next
<1>2. CASE UNCHANGED vars
    <2>1. /\ UNCHANGED <<now, lifecycleVars, cacheVars, requestVars, probeVars, resultVars>>
          /\ UNCHANGED <<blockVars, workerVars, queueVars, operatorVars, saving, diskVars>>
          /\ UNCHANGED <<call, probe, refreshRequests, wake>>
        BY <1>2 DEF vars, requestVars, probeVars, queueVars
    <2> QED
        BY <2>1, Frames DEF TypeInv, TypeOK
<1> QED
    BY <1>1, <1>2

\* In every reachable state of every instance, the runtime's parts have
\* their types and the hooks, probes and lifecycle calls are in order.
THEOREM TypeInvariant == Spec => []TypeInv
<1>1. TypeInv /\ [Next]_vars => TypeInv'
    BY NextType
<1> QED
    BY InitType, <1>1, PTL DEF Spec

\* Every variable of the runtime keeps its type, whatever interleaving of
\* hooks, probes, saves, worker, panel, lifecycle calls and crashes.
THEOREM TypeCorrect == Spec => []TypeOK
<1>1. TypeInv => TypeOK
    BY DEF TypeInv
<1> QED
    BY TypeInvariant, <1>1, PTL

=============================================================================
