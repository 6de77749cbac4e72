--------------------------- MODULE IsolationProofs --------------------------
(***************************************************************************)
(* StateIsolation for every value of the constants: no state ever crosses  *)
(* from the account and model it was issued to, to another.                *)
(*                                                                         *)
(* StateIsolation says nothing about the binding between a request and its *)
(* key, yet what a response stages is filed under the binding while it was *)
(* issued to the attempt.  So the invariant adds that a request that has a *)
(* binding is bound to the key of the attempt the host is at.              *)
(***************************************************************************)
EXTENDS PluginProofs

CachesIsolated == /\ Isolated(current)
                  /\ Isolated(lifecycle.loaded)
                  /\ \A p \in Paths : Isolated(disk[p])
                  /\ \A c \in Callers : Isolated(snapshot[c])

FindsIsolated == \A c \in Callers :
    Present(probe[c].found) => probe[c].found.origin = probe[c].key

RequestsIsolated == \A r \in Requests :
    /\ Present(candidates[r].state) => candidates[r].state.origin = candidates[r].key
    /\ Present(header[r].state) => header[r].state.origin = call[r].key

\* The binding of a request is the key of its attempt.
BoundToCall == \A r \in Requests : requests[r] # NoKey => requests[r] = call[r].key

IsolationInv == /\ CachesIsolated /\ FindsIsolated
                /\ RequestsIsolated /\ BoundToCall

-----------------------------------------------------------------------------
(* What isolation means for the null values, and what a step leaves alone. *)

\* Null values hold no state, so there is nothing to isolate.
LEMMA NullIsolated ==
    /\ ~Present(NoState) /\ Isolated(EmptyCache)
    /\ ~Present(NoProbe.found) /\ ~Present(NoCandidate.state) /\ ~Present(Untouched.state)
    /\ ~Present([Untouched EXCEPT !.op = "clear"].state)
    /\ Isolated(NoLifecycle.loaded)
<1>1. ~Present(NoState)
    BY DEF Present, NoState
<1>2. Isolated(EmptyCache)
    BY <1>1 DEF Isolated, EmptyCache
<1>3. NoProbe.found = NoState
    BY DEF NoProbe
<1>4. NoCandidate.state = NoState
    BY DEF NoCandidate
<1>5. Untouched.state = NoState /\ [Untouched EXCEPT !.op = "clear"].state = NoState
    BY DEF Untouched
<1>6. NoLifecycle.loaded = EmptyCache
    BY DEF NoLifecycle
<1> QED
    BY <1>1, <1>2, <1>3, <1>4, <1>5, <1>6

\* A cache that takes in a state of its own key stays isolated.
LEMMA IsolatedUpdate ==
    ASSUME NEW cache \in Caches, Isolated(cache), NEW k \in Keys, NEW s,
           Present(s) => s.origin = k
    PROVE  Isolated([cache EXCEPT ![k] = s])
BY DEF Isolated, Caches

\* The parts of the invariant a step does not touch survive it.
LEMMA IsolationFrames ==
    ASSUME IsolationInv
    PROVE  /\ UNCHANGED <<current, lifecycle, disk, snapshot>> => CachesIsolated'
           /\ UNCHANGED probe => FindsIsolated'
           /\ UNCHANGED requestVars => RequestsIsolated' /\ BoundToCall'
<1>1. UNCHANGED <<current, lifecycle, disk, snapshot>> => CachesIsolated'
    BY DEF IsolationInv, CachesIsolated
<1>2. UNCHANGED probe => FindsIsolated'
    BY DEF IsolationInv, FindsIsolated
<1>3. UNCHANGED requestVars => RequestsIsolated' /\ BoundToCall'
    BY DEF IsolationInv, RequestsIsolated, BoundToCall, requestVars
<1> QED
    BY <1>1, <1>2, <1>3

-----------------------------------------------------------------------------
(* The initial states. *)

\* newRuntimeState holds no state.
LEMMA InitIsolation == Init => IsolationInv
<1> SUFFICES ASSUME Init PROVE IsolationInv
    OBVIOUS
<1>1. CachesIsolated
    BY NullIsolated DEF Init, CachesIsolated
<1>2. FindsIsolated
    BY NullIsolated DEF Init, FindsIsolated
<1>3. RequestsIsolated
    BY NullIsolated DEF Init, RequestsIsolated, NoCandidates
<1>4. BoundToCall
    BY DEF Init, BoundToCall, NoRequests
<1> QED
    BY <1>1, <1>2, <1>3, <1>4 DEF IsolationInv

-----------------------------------------------------------------------------
(* The request hooks. *)

\* A new attempt starts unbound, with nothing staged and no header set.
LEMMA InterceptBeginIsolation ==
    ASSUME TypeInv, IsolationInv, NEW r \in Requests, NEW key, NEW alias, NEW free,
           InterceptBegin(r, key, alias, free)
    PROVE  IsolationInv'
<1> USE DEF IsolationInv
<1>1. UNCHANGED <<current, lifecycle, disk, snapshot, probe>>
    BY DEF InterceptBegin, hookFrame, lifecycleVars, diskVars, cacheVars, probeVars
<1>2. /\ \A q \in Requests \ {r} : /\ call'[q] = call[q] /\ header'[q] = header[q]
                                   /\ requests'[q] = requests[q]
                                   /\ candidates'[q] = candidates[q]
      /\ requests'[r] = NoKey /\ candidates'[r] = NoCandidate
      /\ header'[r] \in {Untouched, [Untouched EXCEPT !.op = "clear"]}
    BY DEF InterceptBegin, ForgetAttempt, TypeInv, TypeOK, RequestTypeOK
<1>3. RequestsIsolated'
    BY <1>2, NullIsolated DEF RequestsIsolated
<1>4. BoundToCall'
    BY <1>2 DEF BoundToCall
<1> QED
    BY <1>1, <1>3, <1>4, IsolationFrames

\* The probe a hook starts has found nothing yet.
LEMMA EnsureProbeIsolation ==
    ASSUME TypeInv, IsolationInv, NEW c \in Callers, NEW key, EnsureProbe(c, key)
    PROVE  FindsIsolated'
<1>1. CASE UNCHANGED <<probeVars, resultVars>>
    BY <1>1, IsolationFrames DEF probeVars
<1>2. CASE ClaimProbe(c, key)
    <2>1. probe'[c].found = NoState /\ \A d \in Callers \ {c} : probe'[d] = probe[d]
        BY <1>2 DEF ClaimProbe, TypeInv, TypeOK, ProbeTypeOK
    <2> QED
        BY <2>1, NullIsolated DEF FindsIsolated, IsolationInv
<1> QED
    BY <1>1, <1>2 DEF EnsureProbe

\* The call of ensureProbe from interceptAfter.
LEMMA InterceptProbeIsolation ==
    ASSUME TypeInv, IsolationInv, NEW r \in Requests, InterceptProbe(r)
    PROVE  IsolationInv'
<1> USE DEF IsolationInv
<1>1. UNCHANGED <<current, lifecycle, disk, snapshot, header, requests, candidates>>
    BY DEF InterceptProbe, hookFrame, lifecycleVars, diskVars, cacheVars
<1>2. FindsIsolated'
    BY EnsureProbeIsolation DEF InterceptProbe, Callers
<1>3. \A q \in Requests : call'[q].key = call[q].key
    BY DEF InterceptProbe, TypeInv, TypeOK, RequestTypeOK, HostCalls
<1>4. RequestsIsolated' /\ BoundToCall'
    BY <1>1, <1>3 DEF RequestsIsolated, BoundToCall
<1> QED
    BY <1>1, <1>2, <1>4, IsolationFrames

\* What is injected comes from the cache entry of the attempt's own key, and
\* the binding made is that key.
LEMMA InterceptDecideIsolation ==
    ASSUME TypeInv, IsolationInv, NEW r \in Requests, InterceptDecide(r)
    PROVE  IsolationInv'
<1> USE DEF IsolationInv
<1>1. UNCHANGED <<current, lifecycle, disk, snapshot, probe>>
    BY DEF InterceptDecide, hookFrame, lifecycleVars, diskVars, cacheVars, probeVars
<1>2. \A q \in Requests : call'[q].key = call[q].key
    BY DEF InterceptDecide, TypeInv, TypeOK, RequestTypeOK, HostCalls
<1>3. /\ \A q \in Requests \ {r} : /\ header'[q] = header[q] /\ requests'[q] = requests[q]
                                   /\ candidates'[q] = candidates[q]
      /\ requests'[r] \in {requests[r], call[r].key}
      /\ candidates'[r] \in {candidates[r], NoCandidate}
    BY DEF InterceptDecide, TypeInv, TypeOK, RequestTypeOK
<1>4. header'[r].state \in {NoState, current[call[r].key]}
    BY DEF InterceptDecide, TypeInv, TypeOK, RequestTypeOK, Untouched
<1>5. call[r].key \in Keys
    BY DEF InterceptDecide, TypeInv, HookOrder
<1>6. Present(header'[r].state) => header'[r].state.origin = call[r].key
    BY <1>4, <1>5, NullIsolated DEF CachesIsolated, Isolated
<1>7. RequestsIsolated'
    BY <1>2, <1>3, <1>6, NullIsolated DEF RequestsIsolated
<1>8. BoundToCall'
    BY <1>2, <1>3 DEF BoundToCall
<1> QED
    BY <1>1, <1>7, <1>8, IsolationFrames

\* What is staged was issued to the attempt and is filed under its binding:
\* the same key.
LEMMA InterceptResponseIsolation ==
    ASSUME TypeInv, IsolationInv, NEW r \in Requests,
           NEW state \in IssuedTo(call[r].key) \cup {NoState}, InterceptResponse(r, state)
    PROVE  IsolationInv'
<1> USE DEF IsolationInv
<1>1. UNCHANGED <<current, lifecycle, disk, snapshot, probe, requests>>
    BY DEF InterceptResponse, hookFrame, lifecycleVars, diskVars, cacheVars, probeVars
<1>2. \A q \in Requests : call'[q].key = call[q].key
    BY DEF InterceptResponse, TypeInv, TypeOK, RequestTypeOK, HostCalls
<1>3. /\ \A q \in Requests \ {r} : header'[q] = header[q] /\ candidates'[q] = candidates[q]
      /\ header'[r] = Untouched
    BY DEF InterceptResponse, TypeInv, TypeOK, RequestTypeOK
<1>4. Present(candidates'[r].state) => candidates'[r].state.origin = candidates'[r].key
    <2>1. CASE candidates' = candidates
        BY <2>1 DEF RequestsIsolated
    <2>2. CASE /\ candidates' = [candidates EXCEPT ![r] = [key |-> requests[r], state |-> state,
                                                          attempt |-> call[r].attempt]]
               /\ Present(state) /\ requests[r] # NoKey
        <3>1. candidates'[r].key = requests[r] /\ candidates'[r].state = state
            BY <2>2 DEF TypeInv, TypeOK, RequestTypeOK
        <3>2. requests[r] = call[r].key
            BY <2>2 DEF BoundToCall
        <3>3. state.origin = call[r].key
            BY <2>2, NullIsolated DEF IssuedTo
        <3> QED
            BY <3>1, <3>2, <3>3
    <2> QED
        BY <2>1, <2>2 DEF InterceptResponse
<1>5. RequestsIsolated'
    BY <1>2, <1>3, <1>4, NullIsolated DEF RequestsIsolated
<1>6. BoundToCall'
    BY <1>1, <1>2 DEF BoundToCall
<1> QED
    BY <1>1, <1>5, <1>6, IsolationFrames

\* A failure event only discards.
LEMMA InterceptStreamFailureIsolation ==
    ASSUME TypeInv, IsolationInv, NEW r \in Requests, InterceptStreamFailure(r)
    PROVE  IsolationInv'
<1> USE DEF IsolationInv
<1>1. /\ UNCHANGED <<current, lifecycle, disk, snapshot, probe, requests, call, header>>
      /\ candidates' = [candidates EXCEPT ![r] = NoCandidate]
    BY DEF InterceptStreamFailure, hookFrame, lifecycleVars, diskVars, cacheVars, probeVars
<1>2. RequestsIsolated'
    BY <1>1, NullIsolated DEF RequestsIsolated, TypeInv, TypeOK, RequestTypeOK
<1>3. BoundToCall'
    BY <1>1 DEF BoundToCall
<1> QED
    BY <1>1, <1>2, <1>3, IsolationFrames

\* What completion promotes goes to the key it was staged for.
LEMMA CompleteIsolation ==
    ASSUME TypeInv, IsolationInv, NEW r \in Requests, NEW outcome, Complete(r, outcome)
    PROVE  IsolationInv'
<1> USE DEF IsolationInv
<1>1. UNCHANGED <<lifecycle, disk, snapshot, probe>>
    BY DEF Complete, hookFrame, lifecycleVars, diskVars, probeVars
<1>2. \/ UNCHANGED current
      \/ current' = [current EXCEPT ![candidates[r].key] = candidates[r].state]
    BY DEF Complete
<1>3. current \in Caches
    BY DEF TypeInv, TypeOK, CacheTypeOK
<1>4. Isolated(current')
    <2>1. CASE UNCHANGED current
        BY <2>1 DEF CachesIsolated
    <2>2. CASE /\ current' = [current EXCEPT ![candidates[r].key] = candidates[r].state]
               /\ candidates[r].key \in Keys
        BY <1>3, <2>2, IsolatedUpdate DEF CachesIsolated, RequestsIsolated
    <2>3. CASE /\ current' = [current EXCEPT ![candidates[r].key] = candidates[r].state]
               /\ candidates[r].key \notin Keys
        <3>1. current' = current
            BY <1>3, <2>3 DEF Caches
        <3> QED
            BY <3>1 DEF CachesIsolated
    <2> QED
        BY <1>2, <2>1, <2>2, <2>3
<1>5. CachesIsolated'
    BY <1>1, <1>4 DEF CachesIsolated
<1>6. /\ \A q \in Requests \ {r} : /\ call'[q] = call[q] /\ header'[q] = header[q]
                                   /\ requests'[q] = requests[q]
                                   /\ candidates'[q] = candidates[q]
      /\ header'[r] = Untouched /\ requests'[r] = NoKey /\ candidates'[r] = NoCandidate
    BY DEF Complete, ForgetAttempt, TypeInv, TypeOK, RequestTypeOK
<1>7. RequestsIsolated'
    BY <1>6, NullIsolated DEF RequestsIsolated
<1>8. BoundToCall'
    BY <1>6 DEF BoundToCall
<1> QED
    BY <1>1, <1>5, <1>7, <1>8, IsolationFrames

\* Every hook.
LEMMA RequestStepIsolation ==
    ASSUME TypeInv, IsolationInv, NEW r \in Requests, RequestStep(r)
    PROVE  IsolationInv'
<1>1. CASE NewRequest(r)
    BY <1>1, InterceptBeginIsolation DEF NewRequest
<1>2. CASE RetryRequest(r)
    BY <1>2, InterceptBeginIsolation DEF RetryRequest
<1> QED
    BY <1>1, <1>2, InterceptProbeIsolation, InterceptDecideIsolation,
       InterceptResponseIsolation, InterceptStreamFailureIsolation, CompleteIsolation
       DEF RequestStep

-----------------------------------------------------------------------------
(* Probes and saves. *)

\* A probe finds what upstream issued to its own key, and promotes it there,
\* whatever generation it commits into.
LEMMA ProbeStepIsolation ==
    ASSUME TypeInv, IsolationInv, NEW c \in Callers, ProbeStep(c)
    PROVE  IsolationInv'
<1> USE DEF IsolationInv
<1>1. UNCHANGED <<lifecycle, disk, snapshot, requestVars>>
    BY DEF ProbeStep, ProbeAuth, ProbeNext, ProbeFails, ProbeFetched, ProbeCommit,
       probeFrame, lifecycleVars, diskVars
<1>2. probe \in [Callers -> Probes] /\ current \in Caches
    BY DEF TypeInv, TypeOK, ProbeTypeOK, CacheTypeOK
<1>3. CASE ProbeAuth(c) \/ ProbeNext(c) \/ \E outcome \in FetchOutcomes : ProbeFails(c, outcome)
    <2>1. UNCHANGED current
        BY <1>3 DEF ProbeAuth, ProbeNext, ProbeFails, cacheVars
    <2>2. \A d \in Callers : probe'[d].key = probe[d].key /\ probe'[d].found = probe[d].found
        <3>1. CASE ProbeAuth(c)
            BY <1>2, <3>1 DEF ProbeAuth, Probes
        <3>2. CASE ProbeNext(c)
            BY <1>2, <3>2 DEF ProbeNext, Probes
        <3>3. CASE \E outcome \in FetchOutcomes : ProbeFails(c, outcome)
            BY <1>2, <3>3 DEF ProbeFails, Probes
        <3> QED
            BY <1>3, <3>1, <3>2, <3>3
    <2>3. FindsIsolated'
        BY <2>2 DEF FindsIsolated
    <2> QED
        BY <1>1, <2>1, <2>3, IsolationFrames
<1>4. CASE \E state \in IssuedTo(probe[c].key) : ProbeFetched(c, state)
    <2>1. PICK state \in IssuedTo(probe[c].key) : ProbeFetched(c, state)
        BY <1>4
    <2>2. UNCHANGED current
        BY <2>1 DEF ProbeFetched, cacheVars
    <2>3. /\ \A d \in Callers \ {c} : probe'[d] = probe[d]
          /\ probe'[c].key = probe[c].key /\ probe'[c].found \in {probe[c].found, state}
        BY <1>2, <2>1 DEF ProbeFetched, Probes
    <2>4. state.origin = probe[c].key
        BY DEF IssuedTo
    <2>5. FindsIsolated'
        BY <2>3, <2>4 DEF FindsIsolated
    <2> QED
        BY <1>1, <2>2, <2>5, IsolationFrames
<1>5. CASE ProbeCommit(c)
    <2>1. /\ \A d \in Callers \ {c} : probe'[d] = probe[d]
          /\ \/ ~Present(probe'[c].found)
             \/ probe'[c].key = probe[c].key /\ probe'[c].found = probe[c].found
        BY <1>2, <1>5, NullIsolated DEF ProbeCommit, PromoteFound, Probes
    <2>2. FindsIsolated'
        BY <2>1 DEF FindsIsolated
    <2>3. UNCHANGED current \/ current' = [current EXCEPT ![probe[c].key] = probe[c].found]
        BY <1>5 DEF ProbeCommit, PromoteFound, cacheVars
    <2>4. probe[c].key \in Keys
        BY <1>5 DEF ProbeCommit, TypeInv, ProbeOrder
    <2>5. Isolated(current')
        BY <1>2, <2>3, <2>4, IsolatedUpdate DEF CachesIsolated, FindsIsolated
    <2>6. CachesIsolated'
        BY <1>1, <2>5 DEF CachesIsolated
    <2> QED
        BY <1>1, <2>2, <2>6, IsolationFrames
<1> QED
    BY <1>3, <1>4, <1>5 DEF ProbeStep

\* A save moves the cache to a snapshot and a snapshot to a file.
LEMMA SaveStepIsolation ==
    ASSUME TypeInv, IsolationInv, NEW c \in Callers, SaveStep(c)
    PROVE  IsolationInv'
<1> USE DEF IsolationInv
<1>1. UNCHANGED <<current, lifecycle, requestVars>>
    BY DEF SaveStep, SaveSnapshot, SaveWrite, saveFrame, lifecycleVars, cacheVars
<1>2. UNCHANGED probe \/ probe' = [probe EXCEPT ![c] = NoProbe]
    BY DEF SaveStep, SaveSnapshot, SaveWrite, SaveReturns
<1>3. FindsIsolated'
    BY <1>2, NullIsolated DEF FindsIsolated, TypeInv, TypeOK, ProbeTypeOK
<1>4. /\ snapshot \in [Callers -> Caches] /\ disk \in [Paths -> Caches]
      /\ \/ UNCHANGED snapshot
         \/ snapshot' = [snapshot EXCEPT ![c] = current]
         \/ snapshot' = [snapshot EXCEPT ![c] = EmptyCache]
      /\ UNCHANGED disk \/ disk' = [disk EXCEPT ![saving[c]] = snapshot[c]]
    BY DEF SaveStep, SaveSnapshot, SaveWrite, TypeInv, TypeOK, DiskTypeOK
<1>5. \A d \in Callers : Isolated(snapshot'[d])
    BY <1>4, NullIsolated DEF CachesIsolated
<1>6. \A p \in Paths : Isolated(disk'[p])
    BY <1>4 DEF CachesIsolated
<1>7. CachesIsolated'
    BY <1>1, <1>5, <1>6 DEF CachesIsolated
<1> QED
    BY <1>1, <1>3, <1>7, IsolationFrames

-----------------------------------------------------------------------------
(* Worker and panel. *)

\* The worker only starts probes.
LEMMA WorkerStepIsolation ==
    ASSUME TypeInv, IsolationInv, WorkerStep
    PROVE  IsolationInv'
<1> USE DEF WorkerStep, WorkerLooks, WorkerCollect, WorkerNextJob, WorkerProbe,
           WorkerWakes, WorkerExits
<1>1. UNCHANGED <<current, lifecycle, disk, snapshot, requestVars>>
    BY DEF workerFrame, lifecycleVars, diskVars, cacheVars
<1>2. UNCHANGED probe \/ \E key : EnsureProbe(Worker, key)
    BY DEF probeVars
<1>3. FindsIsolated'
    BY <1>2, EnsureProbeIsolation, IsolationFrames DEF Callers
<1> QED
    BY <1>1, <1>3, IsolationFrames DEF IsolationInv

\* The panel starts probes and removes states.
LEMMA OperatorStepIsolation ==
    ASSUME TypeInv, IsolationInv, NEW o \in Operators, OperatorStep(o)
    PROVE  IsolationInv'
<1> USE DEF OperatorStep, RefreshAction, NudgeWorker, ManualProbe, ClearAction, panelFrame
<1>1. UNCHANGED <<lifecycle, disk, snapshot, requestVars>>
    BY DEF lifecycleVars, diskVars
<1>2. UNCHANGED probe \/ \E key : EnsureProbe(o, key)
    BY DEF probeVars
<1>3. FindsIsolated'
    BY <1>2, EnsureProbeIsolation, IsolationFrames DEF Callers
<1>4. \/ UNCHANGED current
      \/ \E removed : current' = [k \in Keys |-> IF k \in removed THEN NoState ELSE current[k]]
    BY DEF cacheVars
<1>5. Isolated(current')
    BY <1>4, NullIsolated DEF IsolationInv, CachesIsolated, Isolated
<1>6. CachesIsolated'
    BY <1>1, <1>5 DEF IsolationInv, CachesIsolated
<1> QED
    BY <1>1, <1>3, <1>6, IsolationFrames DEF IsolationInv

-----------------------------------------------------------------------------
(* Lifecycle, clock, crash, and the theorem. *)

\* What a configuration loads is its own seeds and the states of its file.
LEMMA LoadedIsolated ==
    ASSUME TypeInv, IsolationInv, NEW cfg \in ConfigType
    PROVE  Isolated(LoadedCache(cfg))
<1> SUFFICES ASSUME NEW k \in Keys, Present(LoadedCache(cfg)[k])
             PROVE  LoadedCache(cfg)[k].origin = k
    BY DEF Isolated
<1>1. Present(SeedAt(cfg, k)) => SeedAt(cfg, k).origin = k
    BY NullIsolated DEF SeedAt
<1>2. cfg.stateFile # NoPath /\ Present(disk[cfg.stateFile][k])
          => disk[cfg.stateFile][k].origin = k
    BY DEF ConfigType, IsolationInv, CachesIsolated, Isolated
<1> QED
    BY <1>1, <1>2, NullIsolated DEF LoadedCache

\* A lifecycle call merges isolated caches and drops every binding.
LEMMA LifecycleStepIsolation ==
    ASSUME TypeInv, IsolationInv, LifecycleStep
    PROVE  IsolationInv'
<1> USE DEF IsolationInv
<1>1. UNCHANGED <<disk, snapshot, probe, call, header>>
    BY DEF LifecycleStep, ConfigureLoad, ConfigureCancel, StopAccepting, JoinWorker,
       ConfigureSwap, ShutdownWipe, stopFrame, lifeFrame, diskVars
<1>2. RequestsIsolated' /\ BoundToCall'
    <2>1. CASE UNCHANGED <<requests, candidates>>
        BY <1>1, <2>1 DEF RequestsIsolated, BoundToCall
    <2>2. CASE DropBindings
        BY <1>1, <2>2, NullIsolated
           DEF DropBindings, NoRequests, NoCandidates, RequestsIsolated, BoundToCall
    <2> QED
        BY <2>1, <2>2
           DEF LifecycleStep, ConfigureLoad, ConfigureCancel, StopAccepting, JoinWorker,
           ConfigureSwap, ShutdownWipe, stopFrame
<1>3. Isolated(current')
    <2>1. CASE UNCHANGED current
        BY <2>1 DEF CachesIsolated
    <2>2. CASE ConfigureSwap
        BY <2>2 DEF ConfigureSwap, CachesIsolated, Isolated
    <2> QED
        BY <2>1, <2>2
           DEF LifecycleStep, ConfigureLoad, ConfigureCancel, StopAccepting, JoinWorker,
           ShutdownWipe, stopFrame, cacheVars
<1>4. Isolated(lifecycle'.loaded)
    <2>1. lifecycle \in LifecycleCalls
        BY DEF TypeInv, TypeOK, LifecycleTypeOK
    <2>2. CASE lifecycle'.loaded \in {lifecycle.loaded, NoLifecycle.loaded}
        BY <2>2, NullIsolated DEF CachesIsolated
    <2>3. CASE \E cfg \in Configs : ConfigureLoad(cfg)
        BY <2>3, LoadedIsolated, ConfigsAssumption DEF ConfigureLoad
    <2>4. CASE JoinWorker
        BY <2>1, <2>2, <2>4 DEF JoinWorker, LifecycleCalls
    <2> QED
        BY <2>1, <2>2, <2>3, <2>4
           DEF LifecycleStep, ConfigureCancel, StopAccepting, ConfigureSwap, ShutdownWipe,
           LifecycleCalls
<1>5. CachesIsolated'
    BY <1>1, <1>3, <1>4 DEF CachesIsolated
<1> QED
    BY <1>1, <1>2, <1>5, IsolationFrames

\* A crash leaves nothing but the files.
LEMMA CrashIsolation ==
    ASSUME TypeInv, IsolationInv, Crash
    PROVE  IsolationInv'
<1>1. CachesIsolated'
    BY NullIsolated DEF Crash, IsolationInv, CachesIsolated
<1>2. FindsIsolated'
    BY NullIsolated DEF Crash, FindsIsolated
<1>3. RequestsIsolated' /\ BoundToCall'
    BY NullIsolated DEF Crash, RequestsIsolated, BoundToCall, NoRequests, NoCandidates
<1> QED
    BY <1>1, <1>2, <1>3 DEF IsolationInv

\* No step of the plugin moves a state to a key it was not issued to.
LEMMA NextIsolation == TypeInv /\ IsolationInv /\ [Next]_vars => IsolationInv'
<1> SUFFICES ASSUME TypeInv, IsolationInv, [Next]_vars PROVE IsolationInv'
    OBVIOUS
<1>1. CASE Tick \/ UNCHANGED vars
    <2>1. UNCHANGED <<current, lifecycle, disk, snapshot, probe, requestVars>>
        BY <1>1 DEF Tick, vars, cacheVars, lifecycleVars, diskVars, probeVars
    <2> QED
        BY <2>1, IsolationFrames DEF IsolationInv
<1> QED
    BY <1>1, RequestStepIsolation, ProbeStepIsolation, SaveStepIsolation,
       OperatorStepIsolation, WorkerStepIsolation, LifecycleStepIsolation, CrashIsolation
       DEF Next

\* In every reachable state, every state the plugin keeps, stages, saves,
\* loads or injects belongs to the account and model it is used for.
THEOREM StatesStayIsolated == Spec => []StateIsolation
<1>1. Init => IsolationInv
    BY InitIsolation
<1>2. TypeInv /\ IsolationInv /\ [Next]_vars => IsolationInv'
    BY NextIsolation
<1>3. IsolationInv => StateIsolation
    BY DEF IsolationInv, CachesIsolated, FindsIsolated, RequestsIsolated, StateIsolation
<1> QED
    BY TypeInvariant, <1>1, <1>2, <1>3, PTL DEF Spec

=============================================================================
