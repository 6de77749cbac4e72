-------------------------- MODULE RefinementProofs --------------------------
(***************************************************************************)
(* The plugin implements the store of TurnStateCache, for every value of   *)
(* the constants.  Most steps are invisible there; of those that are not,  *)
(* the operation is found action by action, and that what it stores fits   *)
(* its key and the rules is read off the invariants after the step:        *)
(* isolation, normal states and the forward move of the cache.             *)
(***************************************************************************)
EXTENDS IsolationProofs, StepProofs

\* The mapping of Plugin's Cache, by name.
Asked == [r \in Requests |-> call[r].key]
Answers == [r \in Requests |-> header[r].state]

\* A step the store does not see.
Invisible == /\ UNCHANGED <<current, config, accepting>>
             /\ Asked' = Asked /\ Answers' = Answers

\* The operators of TurnState that the instance has of its own.
LEMMA CacheOperators ==
    /\ Cache!Keys = Keys /\ Cache!States = States /\ Cache!Caches = Caches
    /\ Cache!NoState = NoState /\ Cache!EmptyCache = EmptyCache
    /\ Cache!ZeroConfig = ZeroConfig /\ Cache!ConfigType = ConfigType
    /\ \A s : Cache!Present(s) = Present(s)
    /\ \A s, t : Cache!NewerThan(s, t) = NewerThan(s, t)
BY DEF Cache!Keys, Cache!States, Cache!Caches, Cache!MaybeState, Cache!NoState,
       Cache!EmptyCache, Cache!ZeroConfig, Cache!NoPolicy, Cache!ConfigType,
       Cache!Policies, Cache!ProbeConfigs, Cache!Plans, Cache!Switches,
       Cache!Present, Cache!NewerThan, Keys, States, Caches, MaybeState, NoState,
       EmptyCache, ZeroConfig, NoPolicy, ConfigType, Policies, ProbeConfigs, Plans,
       Switches, Present, NewerThan

LEMMA CachePolicies ==
    /\ \A cfg, k, s : Cache!Admissible(cfg, k, s) = Admissible(cfg, k, s)
    /\ \A cfg, k, s : Cache!Fits(cfg, k, s) <=>
          /\ s \in States
          /\ s.origin = k
          /\ CredentialFor(cfg, AuthOf(k)).listed
          /\ NormalBlockCount(CredentialFor(cfg, AuthOf(k)), s.blocks)
BY CacheOperators
   DEF Cache!Admissible, Cache!Fits, Cache!CredentialFor, Cache!AuthOf, Cache!ModelOf,
       Cache!MatchesModels, Cache!NormalBlockCount, Cache!PlanBlocks, Cache!Present,
       Admissible, CredentialFor, AuthOf, ModelOf, MatchesModels, NormalBlockCount,
       PlanBlocks, Present

-----------------------------------------------------------------------------
\* What a step leaves in the cache fits its key and the configuration.
LEMMA CacheFits ==
    ASSUME TypeOK', StateIsolation', OnlyNormalStates', NEW k \in Keys,
           Present(current'[k])
    PROVE  Cache!Fits(config', k, current'[k])
<1>1. current'[k] \in States
    BY DEF TypeOK, CacheTypeOK, Caches, MaybeState, Present, NoState
<1>2. current'[k].origin = k
    BY DEF StateIsolation, Isolated
<1>. QED
    BY <1>1, <1>2, CachePolicies DEF OnlyNormalStates

LEMMA InitRefines == Init => Cache!Init
<1> SUFFICES ASSUME Init PROVE Cache!Init
    OBVIOUS
<1>1. Asked = [r \in Requests |-> NoKey] /\ Answers = [r \in Requests |-> NoState]
    BY DEF Init, Asked, Answers, NoCall, Untouched
<1>. QED
    BY <1>1, CacheOperators DEF Init, Cache!Init, Asked, Answers

\* One invisible step.
LEMMA InvisibleRefines == Invisible => UNCHANGED Cache!cacheVars
BY DEF Invisible, Cache!cacheVars, Asked, Answers

\* Where no request changes its key or its header, nor the cache, the
\* configuration and the intake change, the store sees nothing.
LEMMA Unseen ==
    UNCHANGED <<current, config, accepting, call, header>> => Invisible
BY DEF Invisible, Asked, Answers

\* InterceptProbe and the other steps that only move a request's hook on.
LEMMA CallMovesOn ==
    ASSUME TypeOK, NEW r \in Requests, NEW pc,
           call' = [call EXCEPT ![r].pc = pc],
           UNCHANGED <<current, config, accepting, header>>
    PROVE  Invisible
<1>1. \A q \in Requests : call'[q].key = call[q].key
    BY DEF TypeOK, RequestTypeOK, HostCalls
<1>. QED
    BY <1>1 DEF Invisible, Asked, Answers

-----------------------------------------------------------------------------
(* The request hooks. *)

LEMMA BeginRefines ==
    ASSUME TypeOK, NEW r \in Requests, NEW key \in Keys \cup {NoKey}, NEW alias, NEW free,
           InterceptBegin(r, key, alias, free)
    PROVE  Cache!Ask(r, key)
<1>1. UNCHANGED <<current, config, accepting>>
    BY DEF InterceptBegin, hookFrame, lifecycleVars, cacheVars
<1>2. Asked' = [Asked EXCEPT ![r] = key]
    <2>1. \A q \in Requests : call'[q].key = IF q = r THEN key ELSE call[q].key
        BY DEF InterceptBegin, TypeOK, RequestTypeOK
    <2>. QED
        BY <2>1 DEF Asked
<1>3. Answers' = [Answers EXCEPT ![r] = NoState]
    <2>1. \A q \in Requests : header'[q].state = IF q = r THEN NoState ELSE header[q].state
        BY DEF InterceptBegin, TypeOK, RequestTypeOK, Untouched
    <2>. QED
        BY <2>1 DEF Answers
<1>. QED
    BY <1>1, <1>2, <1>3, CacheOperators DEF Cache!Ask, Asked, Answers

\* The hook's answer is what the cache holds, or what amounts to none.
LEMMA DecideRefines ==
    ASSUME TypeInv, NEW r \in Requests, InterceptDecide(r)
    PROVE  Cache!Answer(r) \/ Cache!Respond(r)
<1> DEFINE key == call[r].key
           given == header'[r].state
<1>1. UNCHANGED <<current, config, accepting>>
    BY DEF InterceptDecide, hookFrame, lifecycleVars, cacheVars
<1>2. key \in Keys
    BY DEF InterceptDecide, TypeInv, HookOrder
<1>3. Asked' = Asked
    <2>1. \A q \in Requests : call'[q].key = call[q].key
        BY DEF InterceptDecide, TypeInv, TypeOK, RequestTypeOK, HostCalls
    <2>. QED
        BY <2>1 DEF Asked
<1>4. /\ \A q \in Requests : q # r => header'[q] = header[q]
      /\ \/ given = NoState
         \/ accepting /\ Present(current[key]) /\ given = current[key]
    <2>1. header \in [Requests -> Headers]
        BY DEF TypeInv, TypeOK, RequestTypeOK
    <2>2. header' = [header EXCEPT ![r] = header'[r]]
        BY <2>1 DEF InterceptDecide
    <2>3. \/ header'[r] = Untouched
          \/ accepting /\ Present(current[key]) /\ header'[r] = [op |-> "set", state |-> current[key]]
          \/ header'[r] = [Untouched EXCEPT !.op = "clear"]
        BY <2>1 DEF InterceptDecide
    <2>. QED
        BY <2>1, <2>2, <2>3 DEF Untouched
<1>5. Answers' = [Answers EXCEPT ![r] = given]
    BY <1>4 DEF Answers
<1>6. Asked[r] = key
    BY DEF Asked
<1>7. CASE given = NoState
    BY <1>1, <1>3, <1>5, <1>7, CacheOperators DEF Cache!Respond, Asked, Answers
<1>8. CASE accepting /\ Present(current[key]) /\ given = current[key]
    BY <1>1, <1>2, <1>3, <1>5, <1>6, <1>8, CacheOperators DEF Cache!Answer, Asked, Answers
<1>. QED
    BY <1>4, <1>7, <1>8

LEMMA ResponseRefines ==
    ASSUME TypeOK, NEW r \in Requests, NEW state, InterceptResponse(r, state)
    PROVE  Cache!Respond(r)
<1>1. UNCHANGED <<current, config, accepting>>
    BY DEF InterceptResponse, hookFrame, lifecycleVars, cacheVars
<1>2. Asked' = Asked
    <2>1. \A q \in Requests : call'[q].key = call[q].key
        BY DEF InterceptResponse, TypeOK, RequestTypeOK, HostCalls
    <2>. QED
        BY <2>1 DEF Asked
<1>3. Answers' = [Answers EXCEPT ![r] = NoState]
    <2>1. \A q \in Requests : header'[q].state = IF q = r THEN NoState ELSE header[q].state
        BY DEF InterceptResponse, TypeOK, RequestTypeOK, Untouched
    <2>. QED
        BY <2>1 DEF Answers
<1>. QED
    BY <1>1, <1>2, <1>3, CacheOperators DEF Cache!Respond, Asked, Answers

\* What completion promotes was staged by the attempt the host is at, so it
\* goes to the key the store was asked for.
LEMMA CompleteRefines ==
    ASSUME TypeInv, BoundToCall, LastAttemptStaged,
           TypeOK', StateIsolation', OnlyNormalStates',
           NEW r \in Requests, NEW outcome, Complete(r, outcome)
    PROVE  Cache!Finish(r)
<1> DEFINE key == candidates[r].key
<1>1. UNCHANGED <<config, accepting>>
    BY DEF Complete, hookFrame, lifecycleVars
<1>2. Asked' = [Asked EXCEPT ![r] = NoKey]
    <2>1. \A q \in Requests : call'[q].key = IF q = r THEN NoKey ELSE call[q].key
        BY DEF Complete, TypeInv, TypeOK, RequestTypeOK, NoCall
    <2>. QED
        BY <2>1 DEF Asked
<1>3. Answers' = [Answers EXCEPT ![r] = NoState]
    <2>1. \A q \in Requests : header'[q].state = IF q = r THEN NoState ELSE header[q].state
        BY DEF Complete, TypeInv, TypeOK, RequestTypeOK, Untouched
    <2>. QED
        BY <2>1 DEF Answers
<1>4. \/ UNCHANGED current
      \/ /\ candidates[r] # NoCandidate /\ Completes(candidates[r])
         /\ current' = [current EXCEPT ![key] = candidates[r].state]
    BY DEF Complete
<1>5. CASE UNCHANGED current
    BY <1>1, <1>2, <1>3, <1>5, CacheOperators DEF Cache!Finish, Asked, Answers
<1>6. CASE /\ candidates[r] # NoCandidate /\ Completes(candidates[r])
           /\ current' = [current EXCEPT ![key] = candidates[r].state]
    <2>1. current \in Caches
        BY DEF TypeInv, TypeOK, CacheTypeOK
    <2>2. CASE key \notin Keys
        <3>1. UNCHANGED current
            BY <1>6, <2>1, <2>2 DEF Caches
        <3>. QED
            BY <1>5, <3>1
    <2>3. CASE key \in Keys
        <3>1. key = requests[r] /\ candidates[r].state \in MaybeState
            BY <1>6 DEF LastAttemptStaged, TypeInv, TypeOK, RequestTypeOK, Candidates
        <3>2. accepting /\ NewerThan(candidates[r].state, current[key])
            BY <1>6 DEF Completes
        <3>3. key # NoKey
            BY <2>3, NullAssumption DEF Keys
        <3>4. Asked[r] = key
            BY <3>1, <3>3 DEF BoundToCall, Asked
        <3>5. current'[key] = candidates[r].state
            BY <1>6, <2>1, <2>3 DEF Caches
        <3>6. Present(candidates[r].state)
            <4>1. current[key] \in MaybeState
                BY <2>1, <2>3 DEF Caches
            <4>. QED
                BY <3>1, <3>2, <4>1, IssueTimes DEF NewerThan, Present
        <3>7. Cache!Fits(config, key, candidates[r].state)
            BY <1>1, <2>3, <3>5, <3>6, CacheFits
        <3>8. candidates[r].state \in States
            BY <3>7, CachePolicies
        <3>9. Cache!Replace(key, candidates[r].state)
            BY <1>1, <1>6, <3>2, <3>7, CacheOperators DEF Cache!Replace
        <3>. QED
            BY <1>1, <1>2, <1>3, <2>3, <3>4, <3>8, <3>9, CacheOperators
               DEF Cache!Finish, Asked, Answers
    <2>. QED
        BY <2>2, <2>3
<1>. QED
    BY <1>4, <1>5, <1>6

LEMMA RequestStepRefines ==
    ASSUME TypeInv, BoundToCall, LastAttemptStaged,
           TypeOK', StateIsolation', OnlyNormalStates',
           NEW r \in Requests, RequestStep(r)
    PROVE  Cache!Next \/ Invisible
<1> USE DEF TypeInv
<1>1. CASE NewRequest(r)
    <2>1. PICK key \in Targets : \E alias, free : InterceptBegin(r, key, alias, free)
        BY <1>1 DEF NewRequest
    <2>2. PICK alias, free : InterceptBegin(r, key, alias, free)
        BY <2>1
    <2>3. key \in Keys \cup {NoKey}
        BY HostAssumption
    <2>. QED
        BY <2>2, <2>3, BeginRefines, CacheOperators DEF Cache!Next
<1>2. CASE RetryRequest(r)
    <2>1. PICK key \in Targets : \E free : InterceptBegin(r, key, call[r].alias, free)
        BY <1>2 DEF RetryRequest
    <2>2. PICK free : InterceptBegin(r, key, call[r].alias, free)
        BY <2>1
    <2>3. key \in Keys \cup {NoKey}
        BY HostAssumption
    <2>. QED
        BY <2>2, <2>3, BeginRefines, CacheOperators DEF Cache!Next
<1>3. CASE InterceptProbe(r)
    BY <1>3, CallMovesOn DEF InterceptProbe, hookFrame, lifecycleVars, cacheVars
<1>4. CASE InterceptDecide(r)
    BY <1>4, DecideRefines DEF Cache!Next
<1>5. CASE \E state \in IssuedTo(call[r].key) \cup {NoState} : InterceptResponse(r, state)
    BY <1>5, ResponseRefines DEF Cache!Next
<1>6. CASE InterceptStreamFailure(r)
    BY <1>6, Unseen DEF InterceptStreamFailure, hookFrame, lifecycleVars, cacheVars
<1>7. CASE \E outcome \in {"succeeded", "failed", "other"} : Complete(r, outcome)
    BY <1>7, CompleteRefines DEF Cache!Next
<1>. QED
    BY <1>1, <1>2, <1>3, <1>4, <1>5, <1>6, <1>7 DEF RequestStep

-----------------------------------------------------------------------------
(* Probes and the other callers. *)

LEMMA CommitRefines ==
    ASSUME TypeInv, TypeOK', StateIsolation', OnlyNormalStates',
           NEW c \in Callers, ProbeCommit(c)
    PROVE  Cache!Next \/ Invisible
<1> DEFINE p == probe[c]
<1>1. UNCHANGED <<config, accepting, call, header>>
    BY DEF ProbeCommit, probeFrame, lifecycleVars, requestVars
<1>2. CASE UNCHANGED current
    BY <1>1, <1>2, Unseen
<1>3. CASE Promotes(p) /\ current' = [current EXCEPT ![p.key] = p.found]
    <2>1. p \in Probes /\ current \in Caches
        BY DEF TypeInv, TypeOK, ProbeTypeOK, CacheTypeOK
    <2>2. CASE p.key \notin Keys
        <3>1. UNCHANGED current
            BY <1>3, <2>1, <2>2 DEF Caches
        <3>. QED
            BY <1>2, <3>1
    <2>3. CASE p.key \in Keys
        <3>1. accepting /\ Present(p.found) /\ NewerThan(p.found, current[p.key])
            BY <1>3 DEF Promotes
        <3>2. current'[p.key] = p.found
            BY <1>3, <2>1, <2>3 DEF Caches
        <3>3. Cache!Fits(config, p.key, p.found)
            BY <1>1, <2>3, <3>1, <3>2, CacheFits
        <3>4. p.found \in States
            BY <3>3, CachePolicies
        <3>5. Cache!Replace(p.key, p.found)
            BY <1>1, <1>3, <3>1, <3>3, CacheOperators DEF Cache!Replace
        <3>6. Cache!Fetch(p.key)
            BY <1>1, <3>4, <3>5, CacheOperators DEF Cache!Fetch
        <3>. QED
            BY <2>3, <3>6, CacheOperators DEF Cache!Next
    <2>. QED
        BY <2>2, <2>3
<1>4. UNCHANGED current \/ (Promotes(p) /\ current' = [current EXCEPT ![p.key] = p.found])
    BY DEF ProbeCommit, PromoteFound, cacheVars
<1>. QED
    BY <1>2, <1>3, <1>4

LEMMA ProbeStepRefines ==
    ASSUME TypeInv, TypeOK', StateIsolation', OnlyNormalStates',
           NEW c \in Callers, ProbeStep(c)
    PROVE  Cache!Next \/ Invisible
<1>1. CASE ProbeCommit(c)
    BY <1>1, CommitRefines
<1>2. CASE ProbeAuth(c) \/ ProbeNext(c)
    BY <1>2, Unseen DEF ProbeAuth, ProbeNext, probeFrame, lifecycleVars, requestVars, cacheVars
<1>3. CASE \/ \E outcome \in FetchOutcomes : ProbeFails(c, outcome)
           \/ \E state \in IssuedTo(probe[c].key) : ProbeFetched(c, state)
    BY <1>3, Unseen DEF ProbeFails, ProbeFetched, probeFrame, lifecycleVars, requestVars,
       cacheVars
<1>. QED
    BY <1>1, <1>2, <1>3 DEF ProbeStep

LEMMA ClearRefines ==
    ASSUME TypeInv, NEW o \in Operators, NEW selection \in SUBSET Keys, NEW scope,
           ClearAction(o, selection, scope)
    PROVE  Cache!Next
<1> DEFINE removed == {k \in selection : Present(current[k]) /\ InClearScope(k, scope)}
<1>1. UNCHANGED <<config, accepting, call, header>>
    BY DEF ClearAction, panelFrame, lifecycleVars, requestVars
<1>2. current' = [k \in Keys |-> IF k \in removed THEN NoState ELSE current[k]]
    BY DEF ClearAction
<1>3. Cache!Clear(removed)
    BY <1>1, <1>2, CacheOperators DEF Cache!Clear, Asked, Answers
<1>4. removed \in SUBSET Cache!Keys
    BY CacheOperators
<1>. QED
    BY <1>3, <1>4 DEF Cache!Next

LEMMA OperatorStepRefines ==
    ASSUME TypeInv, NEW o \in Operators, OperatorStep(o)
    PROVE  Cache!Next \/ Invisible
<1>1. CASE \E selection \in ClearSelections, scope \in ClearScopes :
               ClearAction(o, selection, scope)
    BY <1>1, ClearRefines, SelectionsAssumption
<1>2. CASE NudgeWorker(o) \/ ManualProbe(o)
    BY <1>2, Unseen DEF NudgeWorker, ManualProbe, panelFrame, lifecycleVars,
       requestVars, cacheVars
<1>3. CASE \E selection \in RefreshSelections : RefreshAction(o, selection)
    BY <1>3, Unseen DEF RefreshAction, panelFrame, lifecycleVars, requestVars, cacheVars
<1>. QED
    BY <1>1, <1>2, <1>3 DEF OperatorStep

LEMMA WorkerStepRefines == WorkerStep => Invisible
BY Unseen DEF WorkerStep, WorkerLooks, WorkerCollect, WorkerNextJob, WorkerProbe, WorkerWakes,
   WorkerExits, workerFrame, lifecycleVars, requestVars, cacheVars

LEMMA SaveStepRefines == ASSUME NEW c \in Callers, SaveStep(c) PROVE Invisible
BY Unseen DEF SaveStep, SaveSnapshot, SaveWrite, saveFrame, lifecycleVars, requestVars,
   cacheVars

-----------------------------------------------------------------------------
(* The lifecycle. *)

\* The new generation's cache: the invariants after the step say that it fits,
\* the forward move that it lost nothing the new rules admit.
LEMMA SwapRefines ==
    ASSUME TypeInv, TypeOK', StateIsolation', OnlyNormalStates', ConfigureSwap
    PROVE  Cache!Reconfigure
<1>1. /\ config' \in ConfigType /\ accepting' = config'.enabled
      /\ generation' = generation + 1
      /\ UNCHANGED <<call, header>>
    BY DEF ConfigureSwap, lifeFrame, TypeOK, LifecycleTypeOK
<1>2. current' \in Caches
    BY DEF TypeOK, CacheTypeOK
<1>3. \A k \in Keys : Present(current'[k]) => Cache!Fits(config', k, current'[k])
    BY CacheFits
<1>4. \A k \in Keys : Admissible(config', k, current[k]) =>
          Present(current'[k]) /\ ~NewerThan(current[k], current'[k])
    BY <1>1, ConfigureSwapForward DEF Forward
<1>. QED
    BY <1>1, <1>2, <1>3, <1>4, CacheOperators, CachePolicies
       DEF Cache!Reconfigure, Asked, Answers

LEMMA LifecycleStepRefines ==
    ASSUME TypeInv, TypeOK', StateIsolation', OnlyNormalStates', LifecycleStep
    PROVE  Cache!Next \/ Invisible
<1>1. CASE ConfigureSwap
    BY <1>1, SwapRefines DEF Cache!Next
<1>2. CASE StopAccepting("drain") \/ StopAccepting("retire")
    <2>1. accepting' = FALSE /\ UNCHANGED <<current, config, call, header>>
        BY <1>2 DEF StopAccepting, stopFrame, lifeFrame, cacheVars
    <2>2. Cache!Stop
        BY <2>1 DEF Cache!Stop
    <2>. QED
        BY <2>2 DEF Cache!Next
<1>3. CASE \/ \E cfg \in Configs : ConfigureLoad(cfg)
           \/ ConfigureCancel \/ JoinWorker \/ ShutdownWipe
    BY <1>3, Unseen DEF ConfigureLoad, ConfigureCancel, JoinWorker, ShutdownWipe,
       stopFrame, lifeFrame, cacheVars
<1>. QED
    BY <1>1, <1>2, <1>3 DEF LifecycleStep

LEMMA CrashRefines == Crash => Cache!Crash
<1> SUFFICES ASSUME Crash PROVE Cache!Crash
    OBVIOUS
<1>1. Asked' = [r \in Requests |-> NoKey] /\ Answers' = [r \in Requests |-> NoState]
    BY DEF Crash, Asked, Answers, NoCall, Untouched
<1>. QED
    BY <1>1, CacheOperators DEF Crash, Cache!Crash, Asked, Answers

-----------------------------------------------------------------------------
LEMMA NextRefines ==
    /\ TypeInv /\ BoundToCall /\ LastAttemptStaged
    /\ TypeInv' /\ StateIsolation' /\ OnlyNormalStates'
    /\ [Next]_vars
    => [Cache!Next]_Cache!cacheVars
<1> SUFFICES ASSUME TypeInv, BoundToCall, LastAttemptStaged,
                    TypeOK', StateIsolation', OnlyNormalStates', [Next]_vars
             PROVE  Cache!Next \/ Invisible
    BY InvisibleRefines DEF TypeInv
<1>1. CASE Tick \/ UNCHANGED vars
    BY <1>1, Unseen DEF Tick, vars, lifecycleVars, cacheVars, requestVars
<1>2. CASE Crash
    BY <1>2, CrashRefines DEF Cache!Next
<1>3. CASE WorkerStep \/ \E c \in Callers : SaveStep(c)
    BY <1>3, WorkerStepRefines, SaveStepRefines
<1>. QED
    BY <1>1, <1>2, <1>3, RequestStepRefines, ProbeStepRefines, OperatorStepRefines,
       LifecycleStepRefines DEF Next

\* The binding of a request is its attempt's key, in every reachable state.
LEMMA AlwaysBoundToCall == Spec => []BoundToCall
<1>1. IsolationInv => BoundToCall
    BY DEF IsolationInv
<1>. QED
    BY <1>1, InitIsolation, NextIsolation, TypeInvariant, PTL DEF Spec

\* Every behaviour of the plugin, its probes, retries, saves, panel calls,
\* reconfigurations and crashes included, is one of the abstract store.
THEOREM PluginImplementsCache == Spec => ImplementsCache
<1>1. Init => Cache!Init
    BY InitRefines
<1>. QED
    BY <1>1, NextRefines, TypeInvariant, AlwaysBoundToCall, OnlyLastAttemptPromotes,
       StatesStayIsolated, CacheHoldsNormalStates, PTL
       DEF Spec, ImplementsCache, Cache!Spec

=============================================================================
