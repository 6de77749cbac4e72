----------------------------- MODULE StepProofs -----------------------------
(***************************************************************************)
(* What the plugin's steps keep, for every value of the constants.         *)
(*                                                                         *)
(* LastAttemptStaged is inductive beside the type invariant.               *)
(* QuiescedIsQuiet, PendingRefreshKept and CacheMovesForward are action    *)
(* properties: each step keeps them from any state of the right type.      *)
(*                                                                         *)
(* OnlyNormalStates: a state enters the cache by three ways, each judged   *)
(* before the step that takes it in: completion promotes what an earlier   *)
(* response staged, a commit what an earlier fetch found, and a swap what  *)
(* an earlier load read.  The invariant says that each judgement still     *)
(* stands when it is used: what is staged is normal under the              *)
(* configuration in force, since a swap drops it; a probe of this          *)
(* generation carries this generation's policy, and no probe is of a       *)
(* generation still to come; what a lifecycle call loaded is normal under  *)
(* the configuration it is about to install.                               *)
(*                                                                         *)
(* DiskCaughtUp, for hosts with one state file: the invariant keeps        *)
(* account of what the file lacks.  Either some caller still has its save  *)
(* to make, or the one inside persistMu has copied the cache as it is, or  *)
(* nobody saves and the file is the cache, unless the last save failed.    *)
(* For a swap to leave that as it is, no copy of the cache, in the file,   *)
(* with a saver or with a lifecycle call, may be ahead of it.              *)
(***************************************************************************)
EXTENDS PluginProofs

(* LastAttemptStaged *)

\* A step that keeps the bindings and what is staged, or drops them all, and
\* the attempts of the host's calls, keeps LastAttemptStaged.
LEMMA StagedFrame ==
    ASSUME LastAttemptStaged,
           \A r \in Requests : call'[r].attempt = call[r].attempt,
           \/ UNCHANGED <<requests, candidates>>
           \/ candidates' = NoCandidates
    PROVE  LastAttemptStaged'
BY DEF LastAttemptStaged, NoCandidates

\* A step of one request's hooks leaves the other requests alone; its own is
\* left with nothing staged, with what was staged, or with what the attempt
\* the host is at has just brought.
LEMMA StagedByHook ==
    ASSUME LastAttemptStaged, NEW r \in Requests,
           \A q \in Requests \ {r} : /\ call'[q] = call[q] /\ requests'[q] = requests[q]
                                     /\ candidates'[q] = candidates[q],
           \/ candidates'[r] = NoCandidate
           \/ /\ call'[r].attempt = call[r].attempt /\ requests'[r] = requests[r]
              /\ \/ candidates'[r] = candidates[r]
                 \/ /\ candidates'[r].key = requests[r]
                    /\ candidates'[r].attempt = call[r].attempt
    PROVE  LastAttemptStaged'
BY DEF LastAttemptStaged

\* Every hook.
LEMMA RequestStepStaged ==
    ASSUME TypeInv, LastAttemptStaged, NEW r \in Requests, RequestStep(r)
    PROVE  LastAttemptStaged'
<1> USE DEF TypeInv, TypeOK, RequestTypeOK
<1>1. CASE NewRequest(r) \/ RetryRequest(r)
    <2>1. PICK key, alias, free : InterceptBegin(r, key, alias, free)
        BY <1>1 DEF NewRequest, RetryRequest
    <2>2. /\ \A q \in Requests \ {r} : /\ call'[q] = call[q] /\ requests'[q] = requests[q]
                                       /\ candidates'[q] = candidates[q]
          /\ candidates'[r] = NoCandidate
        BY <2>1 DEF InterceptBegin, ForgetAttempt
    <2> QED
        BY <2>2, StagedByHook
<1>2. CASE InterceptProbe(r)
    <2>1. \A q \in Requests : call'[q].attempt = call[q].attempt
        BY <1>2 DEF InterceptProbe, HostCalls
    <2> QED
        BY <1>2, <2>1, StagedFrame DEF InterceptProbe
<1>3. CASE InterceptDecide(r)
    <2>1. /\ \A q \in Requests \ {r} : /\ call'[q] = call[q] /\ requests'[q] = requests[q]
                                       /\ candidates'[q] = candidates[q]
          /\ call'[r].attempt = call[r].attempt
          /\ \/ candidates'[r] = NoCandidate
             \/ requests'[r] = requests[r] /\ candidates'[r] = candidates[r]
        BY <1>3 DEF InterceptDecide, HostCalls
    <2> QED
        BY <2>1, StagedByHook
<1>4. CASE \E state \in IssuedTo(call[r].key) \cup {NoState} : InterceptResponse(r, state)
    <2>1. /\ \A q \in Requests \ {r} : /\ call'[q] = call[q] /\ requests'[q] = requests[q]
                                       /\ candidates'[q] = candidates[q]
          /\ call'[r].attempt = call[r].attempt /\ requests'[r] = requests[r]
          /\ \/ candidates'[r] = candidates[r]
             \/ /\ candidates'[r].key = requests[r]
                /\ candidates'[r].attempt = call[r].attempt
        BY <1>4 DEF InterceptResponse, HostCalls
    <2> QED
        BY <2>1, StagedByHook
<1>5. CASE InterceptStreamFailure(r)
    <2>1. /\ \A q \in Requests \ {r} : /\ call'[q] = call[q] /\ requests'[q] = requests[q]
                                       /\ candidates'[q] = candidates[q]
          /\ candidates'[r] = NoCandidate
        BY <1>5 DEF InterceptStreamFailure
    <2> QED
        BY <2>1, StagedByHook
<1>6. CASE \E outcome \in {"succeeded", "failed", "other"} : Complete(r, outcome)
    <2>1. /\ \A q \in Requests \ {r} : /\ call'[q] = call[q] /\ requests'[q] = requests[q]
                                       /\ candidates'[q] = candidates[q]
          /\ candidates'[r] = NoCandidate
        BY <1>6 DEF Complete, ForgetAttempt
    <2> QED
        BY <2>1, StagedByHook
<1> QED
    BY <1>1, <1>2, <1>3, <1>4, <1>5, <1>6 DEF RequestStep

\* Probes, saves, the worker, the panel and the clock do not touch requests.
LEMMA RequestsUntouched ==
    /\ \A c \in Callers : ProbeStep(c) \/ SaveStep(c) => UNCHANGED requestVars
    /\ \A o \in Operators : OperatorStep(o) => UNCHANGED requestVars
    /\ WorkerStep \/ Tick => UNCHANGED requestVars
<1>1. ASSUME NEW c \in Callers, ProbeStep(c) PROVE UNCHANGED requestVars
    BY <1>1 DEF ProbeStep, ProbeAuth, ProbeNext, ProbeFails, ProbeFetched, ProbeCommit,
       probeFrame
<1>2. ASSUME NEW c \in Callers, SaveStep(c) PROVE UNCHANGED requestVars
    BY <1>2 DEF SaveStep, SaveSnapshot, SaveWrite, saveFrame
<1>3. ASSUME NEW o \in Operators, OperatorStep(o) PROVE UNCHANGED requestVars
    BY <1>3 DEF OperatorStep, RefreshAction, NudgeWorker, ManualProbe, ClearAction, panelFrame
<1>4. ASSUME WorkerStep PROVE UNCHANGED requestVars
    BY <1>4 DEF WorkerStep, WorkerLooks, WorkerCollect, WorkerNextJob, WorkerProbe, WorkerWakes,
       WorkerExits, workerFrame
<1>5. ASSUME Tick PROVE UNCHANGED requestVars
    BY <1>5 DEF Tick
<1> QED
    BY <1>1, <1>2, <1>3, <1>4, <1>5

\* A lifecycle call keeps every binding and everything staged, or drops all.
LEMMA LifecycleBindings ==
    ASSUME LifecycleStep
    PROVE  /\ UNCHANGED call
           /\ UNCHANGED <<requests, candidates>> \/ DropBindings
BY DEF LifecycleStep, ConfigureLoad, ConfigureCancel, StopAccepting, JoinWorker,
   ConfigureSwap, ShutdownWipe, stopFrame, lifeFrame

\* No step leaves something staged that an earlier attempt brought.
LEMMA NextStaged == TypeInv /\ LastAttemptStaged /\ [Next]_vars => LastAttemptStaged'
<1> SUFFICES ASSUME TypeInv, LastAttemptStaged, [Next]_vars PROVE LastAttemptStaged'
    OBVIOUS
<1>1. CASE UNCHANGED requestVars
    BY <1>1, StagedFrame DEF requestVars
<1>2. CASE LifecycleStep
    BY <1>2, LifecycleBindings, StagedFrame DEF DropBindings
<1>3. CASE Crash
    BY <1>3 DEF Crash, LastAttemptStaged, NoCandidates
<1> QED
    BY <1>1, <1>2, <1>3, RequestStepStaged, RequestsUntouched DEF Next, vars

\* In every reachable state, what completion would promote came from the
\* attempt the host is at, under the binding that attempt made.
THEOREM OnlyLastAttemptPromotes == Spec => []LastAttemptStaged
<1>1. Init => LastAttemptStaged
    BY DEF Init, LastAttemptStaged, NoCandidates
<1> QED
    BY TypeInvariant, <1>1, NextStaged, PTL DEF Spec

-----------------------------------------------------------------------------
(* QuiescedIsQuiet *)

\* What a step of a quiesced plugin may do to what the plugin keeps.
Quiet ==
    /\ \A k \in Keys : /\ current'[k] \in {current[k], NoState}
                       /\ refreshRequests'[k] \in {refreshRequests[k], "none"}
    /\ probing' \subseteq probing
    /\ \A r \in Requests : requests'[r] \in {requests[r], NoKey}

\* Nothing is queued and nothing is claimed while the plugin is quiesced.
LEMMA QuiescedHelpers ==
    ASSUME ~accepting
    PROVE  /\ \A key, reason : QueueRefresh(key, reason) => UNCHANGED refreshRequests
           /\ \A c, key : EnsureProbe(c, key) => UNCHANGED probing
<1>1. ASSUME NEW key, NEW reason, QueueRefresh(key, reason)
      PROVE  UNCHANGED refreshRequests
    BY <1>1 DEF QueueRefresh, Queueable, queueVars
<1>2. ASSUME NEW c, NEW key, EnsureProbe(c, key) PROVE UNCHANGED probing
    BY <1>2 DEF EnsureProbe, ProbeAdmitted, probeVars
<1> QED
    BY <1>1, <1>2

\* The hooks of a quiesced plugin bind nothing and promote nothing.
LEMMA RequestStepQuiet ==
    ASSUME TypeInv, ~accepting, NEW r \in Requests, RequestStep(r)
    PROVE  Quiet
<1> USE DEF TypeInv, TypeOK, RequestTypeOK
<1>1. UNCHANGED <<current, probing>>
    <2>1. UNCHANGED current
        BY DEF RequestStep, NewRequest, RetryRequest, InterceptBegin, InterceptProbe,
           InterceptDecide, InterceptResponse, InterceptStreamFailure, Complete, Completes,
           cacheVars
    <2>2. UNCHANGED probing \/ InterceptProbe(r)
        BY DEF RequestStep, NewRequest, RetryRequest, InterceptBegin, InterceptDecide,
           InterceptResponse, InterceptStreamFailure, Complete, probeVars
    <2> QED
        BY <2>1, <2>2, QuiescedHelpers DEF InterceptProbe
<1>2. UNCHANGED refreshRequests
    <2>1. UNCHANGED refreshRequests \/ \E key, reason : QueueRefresh(key, reason)
        BY DEF RequestStep, NewRequest, RetryRequest, InterceptBegin, InterceptProbe,
           InterceptDecide, InterceptResponse, InterceptStreamFailure, Complete, Completes,
           queueVars
    <2> QED
        BY <2>1, QuiescedHelpers
<1>3. UNCHANGED requests \/ requests' = [requests EXCEPT ![r] = NoKey]
    BY DEF RequestStep, NewRequest, RetryRequest, InterceptBegin, InterceptProbe,
       InterceptDecide, InterceptResponse, InterceptStreamFailure, Complete, ForgetAttempt
<1> QED
    BY <1>1, <1>2, <1>3 DEF Quiet

\* A probe that comes back to a quiesced plugin only gives its claim back.
LEMMA ProbeStepQuiet ==
    ASSUME ~accepting, NEW c \in Callers, ProbeStep(c)
    PROVE  Quiet
<1> USE DEF ProbeStep, ProbeAuth, ProbeNext, ProbeFails, ProbeFetched, ProbeCommit
<1>1. UNCHANGED <<current, refreshRequests>>
    BY DEF Promotes, RequestsAfterFailure, cacheVars
<1>2. probing' \subseteq probing
    BY DEF ReleaseClaim
<1>3. UNCHANGED requests
    BY RequestsUntouched DEF requestVars
<1> QED
    BY <1>1, <1>2, <1>3 DEF Quiet

\* The panel of a quiesced plugin can only clear.
LEMMA OperatorStepQuiet ==
    ASSUME ~accepting, NEW o \in Operators, OperatorStep(o)
    PROVE  Quiet
<1>1. UNCHANGED requests
    BY RequestsUntouched DEF requestVars
<1>2. UNCHANGED probing
    BY QuiescedHelpers DEF OperatorStep, RefreshAction, NudgeWorker, ManualProbe, ClearAction
<1>3. CASE UNCHANGED <<current, refreshRequests>>
    BY <1>1, <1>2, <1>3 DEF Quiet
<1>4. CASE \E selection \in ClearSelections, scope \in ClearScopes :
               ClearAction(o, selection, scope)
    <2>1. \A k \in Keys : /\ current'[k] \in {current[k], NoState}
                          /\ refreshRequests'[k] \in {refreshRequests[k], "none"}
        BY <1>4 DEF ClearAction
    <2> QED
        BY <1>1, <1>2, <2>1 DEF Quiet
<1> QED
    BY <1>3, <1>4 DEF OperatorStep, RefreshAction, NudgeWorker, ManualProbe, cacheVars, queueVars

\* Every other step of the same generation leaves it all alone.
LEMMA OtherStepsQuiet ==
    ASSUME TypeInv, ~accepting, generation' = generation,
           \/ WorkerStep \/ LifecycleStep \/ Tick \/ Crash \/ UNCHANGED vars
           \/ \E c \in Callers : SaveStep(c)
    PROVE  Quiet
<1> SUFFICES UNCHANGED <<current, refreshRequests, probing, requests>>
    BY DEF Quiet
<1>1. CASE WorkerStep
    BY <1>1, QuiescedHelpers, RequestsUntouched
       DEF WorkerStep, WorkerLooks, WorkerCollect, WorkerNextJob, WorkerProbe,
       WorkerWakes, WorkerExits, workerFrame, cacheVars, probeVars, requestVars
<1>2. CASE LifecycleStep
    <2>1. generation \in Nat
        BY LimitsAssumption DEF TypeInv, TypeOK, LifecycleTypeOK, Generations
    <2>2. ~ConfigureSwap /\ ~ShutdownWipe
        BY <2>1 DEF ConfigureSwap, ShutdownWipe
    <2> QED
        BY <1>2, <2>2
           DEF LifecycleStep, ConfigureLoad, ConfigureCancel, StopAccepting, JoinWorker,
           stopFrame, cacheVars
<1>3. CASE Crash
    BY <1>3, LimitsAssumption DEF Crash, TypeInv, TypeOK, LifecycleTypeOK, Generations
<1>4. CASE \E c \in Callers : SaveStep(c)
    BY <1>4, RequestsUntouched
       DEF SaveStep, SaveSnapshot, SaveWrite, saveFrame, cacheVars, queueVars, requestVars
<1>5. CASE Tick \/ UNCHANGED vars
    BY <1>5 DEF Tick, vars, cacheVars, queueVars, probeVars, requestVars
<1> QED
    BY <1>1, <1>2, <1>3, <1>4, <1>5

\* Between two lifecycle calls a quiesced plugin takes nothing in, whichever
\* hook, probe or panel call of earlier days still comes back to it.
THEOREM QuietWhenQuiesced == Spec => QuiescedIsQuiet
<1>1. TypeInv /\ [Next]_vars =>
          [~accepting /\ ~accepting' /\ generation' = generation => Quiet]_vars
    BY RequestStepQuiet, ProbeStepQuiet, OperatorStepQuiet, OtherStepsQuiet DEF Next
<1> QED
    BY TypeInvariant, <1>1, PTL DEF Spec, QuiescedIsQuiet, Quiet

-----------------------------------------------------------------------------
(* PendingRefreshKept *)

\* A step may take the queued refresh of a key only for one of the reasons.
Takes(k) == refreshRequests[k] # "none" /\ refreshRequests'[k] = "none"
MayTake(k) == \/ NewerThan(current'[k], current[k])
              \/ Present(current[k]) /\ ~Present(current'[k])
              \/ probeResults[k] # "none" /\ probeResults'[k] = "none"
              \/ generation' # generation
RefreshesKept == \A k \in Keys : Takes(k) => MayTake(k)

\* Queueing never takes a refresh, whatever key it is for.
LEMMA QueueTakesNothing ==
    ASSUME TypeInv, NEW key, NEW reason, QueueRefresh(key, reason), NEW k \in Keys
    PROVE  ~Takes(k)
BY DEF QueueRefresh, Takes, queueVars, TypeInv, TypeOK, BookkeepingTypeOK

\* A hook takes a refresh only by promoting a newer state for its key.
LEMMA RequestStepKeeps ==
    ASSUME TypeInv, NEW r \in Requests, RequestStep(r)
    PROVE  RefreshesKept
<1>1. CASE UNCHANGED refreshRequests
    BY <1>1 DEF RefreshesKept, Takes
<1>2. CASE \E key, reason : QueueRefresh(key, reason)
    BY <1>2, QueueTakesNothing DEF RefreshesKept
<1>3. CASE /\ Completes(candidates[r])
           /\ current' = [current EXCEPT ![candidates[r].key] = candidates[r].state]
           /\ refreshRequests' = [refreshRequests EXCEPT ![candidates[r].key] = "none"]
    <2>1. ASSUME NEW k \in Keys, Takes(k) PROVE NewerThan(current'[k], current[k])
        BY <1>3, <2>1 DEF Takes, Completes, TypeInv, TypeOK, BookkeepingTypeOK,
           CacheTypeOK, Caches
    <2> QED
        BY <2>1 DEF RefreshesKept, MayTake
<1> QED
    BY <1>1, <1>2, <1>3
       DEF RequestStep, NewRequest, RetryRequest, InterceptBegin, InterceptProbe,
       InterceptDecide, InterceptResponse, InterceptStreamFailure, Complete, queueVars

\* So does a probe; one that fails, or belongs to an earlier generation,
\* leaves the queue as it is.
LEMMA ProbeStepKeeps ==
    ASSUME TypeInv, NEW c \in Callers, ProbeStep(c)
    PROVE  RefreshesKept
<1>1. CASE UNCHANGED refreshRequests
    BY <1>1 DEF RefreshesKept, Takes
<1>2. CASE Promotes(probe[c]) /\ PromoteFound(c, probe[c])
    <2>1. ASSUME NEW k \in Keys, Takes(k) PROVE NewerThan(current'[k], current[k])
        BY <1>2, <2>1 DEF Takes, Promotes, PromoteFound, TypeInv, TypeOK, BookkeepingTypeOK,
           CacheTypeOK, Caches
    <2> QED
        BY <2>1 DEF RefreshesKept, MayTake
<1> QED
    BY <1>1, <1>2
       DEF ProbeStep, ProbeAuth, ProbeNext, ProbeFails, ProbeFetched, ProbeCommit,
       RequestsAfterFailure

\* A clear takes a refresh with the state or the row it removes; the other
\* panel calls take none.
LEMMA OperatorStepKeeps ==
    ASSUME TypeInv, NEW o \in Operators, OperatorStep(o)
    PROVE  RefreshesKept
<1>1. CASE UNCHANGED refreshRequests
    BY <1>1 DEF RefreshesKept, Takes
<1>2. CASE \E selection \in RefreshSelections : RefreshAction(o, selection)
    BY <1>2 DEF RefreshAction, RefreshesKept, Takes
<1>3. CASE \E selection \in ClearSelections, scope \in ClearScopes :
               ClearAction(o, selection, scope)
    <2>1. PICK selection, scope : ClearAction(o, selection, scope)
        BY <1>3
    <2> DEFINE removed == {k \in selection : Present(current[k]) /\ InClearScope(k, scope)}
               forgotten == {k \in selection : /\ probeResults[k] # "none"
                                               /\ ~Present(current[k]) \/ k \in removed}
    <2>2. \A k \in Keys :
              /\ current'[k] = IF k \in removed THEN NoState ELSE current[k]
              /\ refreshRequests'[k] = IF k \in removed \cup forgotten THEN "none"
                                                                     ELSE refreshRequests[k]
              /\ probeResults'[k] = IF k \in forgotten THEN "none" ELSE probeResults[k]
        BY <2>1 DEF ClearAction
    <2>3. \A k \in Keys : Takes(k) => k \in removed \/ k \in forgotten
        BY <2>2 DEF Takes
    <2>4. \A k \in Keys : k \in removed => Present(current[k]) /\ ~Present(current'[k])
        BY <2>2 DEF Present, NoState
    <2>5. \A k \in Keys : k \in forgotten => probeResults[k] # "none" /\ probeResults'[k] = "none"
        BY <2>2
    <2> QED
        BY <2>3, <2>4, <2>5 DEF RefreshesKept, MayTake
<1> QED
    BY <1>1, <1>2, <1>3 DEF OperatorStep, NudgeWorker, ManualProbe, queueVars

\* Of the other steps only the one that begins a generation, and a crash,
\* touch the queue.
LEMMA OtherStepsKeep ==
    ASSUME TypeInv,
           \/ WorkerStep \/ LifecycleStep \/ Tick \/ Crash \/ UNCHANGED vars
           \/ \E c \in Callers : SaveStep(c)
    PROVE  RefreshesKept
<1>1. CASE UNCHANGED refreshRequests
    BY <1>1 DEF RefreshesKept, Takes
<1>2. CASE ConfigureSwap \/ Crash
    <2>1. generation' # generation
        BY <1>2, LimitsAssumption
           DEF ConfigureSwap, Crash, TypeInv, TypeOK, LifecycleTypeOK, Generations
    <2> QED
        BY <2>1 DEF RefreshesKept, MayTake
<1>3. UNCHANGED refreshRequests \/ ConfigureSwap \/ Crash
    <2>1. ASSUME WorkerStep PROVE UNCHANGED refreshRequests
        BY <2>1 DEF WorkerStep, WorkerLooks, WorkerCollect, WorkerNextJob, WorkerProbe, WorkerWakes,
           WorkerExits, workerFrame
    <2>2. ASSUME LifecycleStep PROVE UNCHANGED refreshRequests \/ ConfigureSwap
        BY <2>2 DEF LifecycleStep, ConfigureLoad, ConfigureCancel, StopAccepting, JoinWorker,
           ShutdownWipe, stopFrame
    <2>3. ASSUME NEW c \in Callers, SaveStep(c) PROVE UNCHANGED refreshRequests
        BY <2>3 DEF SaveStep, SaveSnapshot, SaveWrite, saveFrame, queueVars
    <2>4. ASSUME Tick \/ UNCHANGED vars PROVE UNCHANGED refreshRequests
        BY <2>4 DEF Tick, vars, queueVars
    <2> QED
        BY <2>1, <2>2, <2>3, <2>4
<1> QED
    BY <1>1, <1>2, <1>3

\* No step swallows a queued refresh: it goes with a newer state, a cleared
\* row or the end of its generation, never with a probe that failed.
THEOREM RefreshesAreKept == Spec => PendingRefreshKept
<1>1. TypeInv /\ [Next]_vars => [RefreshesKept]_vars
    BY RequestStepKeeps, ProbeStepKeeps, OperatorStepKeeps, OtherStepsKeep DEF Next
<1> QED
    BY TypeInvariant, <1>1, PTL
       DEF Spec, PendingRefreshKept, RefreshesKept, Takes, MayTake

-----------------------------------------------------------------------------
(* CacheMovesForward *)

\* What a step may do to the cached state of one key.
Forward(k) == Admissible(config', k, current[k]) =>
    /\ Present(current'[k]) => ~NewerThan(current[k], current'[k])
    /\ generation' = generation + 1 => Present(current'[k])

\* An issue time is a number, zero where there is no state.
LEMMA IssueTimes ==
    ASSUME NEW s \in MaybeState
    PROVE  s.issuedAt \in Nat
<1>1. CASE s \in States
    <2>1. s.issuedAt \in Stamps
        BY <1>1 DEF States
    <2>2. Stamps \subseteq Nat
        BY TimesAssumption
    <2> QED
        BY <2>1, <2>2
<1>2. CASE s = NoState
    BY <1>2 DEF NoState
<1> QED
    BY <1>1, <1>2 DEF MaybeState

\* So is a generation.
LEMMA ForwardNumbers ==
    ASSUME TypeInv
    PROVE  /\ generation \in Nat
           /\ \A k \in Keys : current[k].issuedAt \in Nat
<1>1. generation \in Nat
    BY LimitsAssumption DEF TypeInv, TypeOK, LifecycleTypeOK, Generations
<1>2. \A k \in Keys : current[k] \in MaybeState
    BY DEF TypeInv, TypeOK, CacheTypeOK, Caches
<1> QED
    BY <1>1, <1>2, IssueTimes

\* A step within a generation that keeps an entry, removes it or puts a newer
\* state there moves forward.
LEMMA ForwardWithin ==
    ASSUME TypeInv, TypeInv', generation' = generation,
           \A k \in Keys : \/ current'[k] \in {current[k], NoState}
                           \/ NewerThan(current'[k], current[k])
    PROVE  \A k \in Keys : Forward(k)
<1>1. generation \in Nat /\ \A k \in Keys : current[k].issuedAt \in Nat
    BY ForwardNumbers
<1>2. \A k \in Keys : current'[k] \in MaybeState
    BY DEF TypeInv, TypeOK, CacheTypeOK, Caches
<1>3. \A k \in Keys : current'[k].issuedAt \in Nat
    BY <1>2, IssueTimes
<1> QED
    BY <1>1, <1>3 DEF Forward, NewerThan, Present, NoState

\* A completion promotes only what is newer than the entry.
LEMMA RequestStepForward ==
    ASSUME TypeInv, NEW r \in Requests, RequestStep(r)
    PROVE  /\ generation' = generation
           /\ \A k \in Keys : current'[k] = current[k] \/ NewerThan(current'[k], current[k])
<1>1. generation' = generation
    BY DEF RequestStep, NewRequest, RetryRequest, InterceptBegin, InterceptProbe,
       InterceptDecide, InterceptResponse, InterceptStreamFailure, Complete,
       hookFrame, lifecycleVars
<1>2. \/ UNCHANGED current
      \/ /\ Completes(candidates[r])
         /\ current' = [current EXCEPT ![candidates[r].key] = candidates[r].state]
    BY DEF RequestStep, NewRequest, RetryRequest, InterceptBegin, InterceptProbe,
       InterceptDecide, InterceptResponse, InterceptStreamFailure, Complete, cacheVars
<1>3. current \in Caches
    BY DEF TypeInv, TypeOK, CacheTypeOK
<1> QED
    BY <1>1, <1>2, <1>3 DEF Completes, Caches

\* So does the commit of a probe, whichever generation it began in.
LEMMA ProbeStepForward ==
    ASSUME TypeInv, NEW c \in Callers, ProbeStep(c)
    PROVE  /\ generation' = generation
           /\ \A k \in Keys : current'[k] = current[k] \/ NewerThan(current'[k], current[k])
<1>1. generation' = generation
    BY DEF ProbeStep, ProbeAuth, ProbeNext, ProbeFails, ProbeFetched, ProbeCommit,
       probeFrame, lifecycleVars
<1>2. \/ UNCHANGED current
      \/ /\ Promotes(probe[c])
         /\ current' = [current EXCEPT ![probe[c].key] = probe[c].found]
    BY DEF ProbeStep, ProbeAuth, ProbeNext, ProbeFails, ProbeFetched, ProbeCommit,
       PromoteFound, cacheVars
<1>3. current \in Caches
    BY DEF TypeInv, TypeOK, CacheTypeOK
<1> QED
    BY <1>1, <1>2, <1>3 DEF Promotes, Caches

\* The panel removes entries and puts none.
LEMMA OperatorStepForward ==
    ASSUME NEW o \in Operators, OperatorStep(o)
    PROVE  /\ generation' = generation
           /\ \A k \in Keys : current'[k] \in {current[k], NoState}
BY DEF OperatorStep, RefreshAction, NudgeWorker, ManualProbe, ClearAction, panelFrame,
   lifecycleVars, cacheVars

\* A swap keeps the entries the new configuration admits, unless what it
\* loaded is not older.
LEMMA ConfigureSwapForward ==
    ASSUME TypeInv, ConfigureSwap
    PROVE  \A k \in Keys : Forward(k)
<1> SUFFICES ASSUME NEW k \in Keys, Admissible(config', k, current[k])
             PROVE  ~NewerThan(current[k], current'[k]) /\ Present(current'[k])
    BY DEF Forward
<1>1. current[k].issuedAt \in Nat /\ lifecycle.loaded[k].issuedAt \in Nat
    <2>1. current[k] \in MaybeState /\ lifecycle.loaded[k] \in MaybeState
        BY DEF TypeInv, TypeOK, CacheTypeOK, LifecycleTypeOK, LifecycleCalls, Caches
    <2> QED
        BY <2>1, IssueTimes
<1>2. Admissible(lifecycle.config, k, current[k])
    BY DEF ConfigureSwap
<1>3. current'[k] = IF NewerThan(current[k], lifecycle.loaded[k])
                    THEN current[k] ELSE lifecycle.loaded[k]
    BY <1>2 DEF ConfigureSwap, TakesOver
<1>4. Present(current[k])
    BY <1>2 DEF Admissible
<1> QED
    BY <1>1, <1>3, <1>4 DEF NewerThan, Present

\* Every other step leaves the cache alone; a crash empties it.
LEMMA OtherStepsForward ==
    ASSUME TypeInv,
           \/ WorkerStep \/ Tick \/ Crash \/ UNCHANGED vars
           \/ LifecycleStep /\ ~ConfigureSwap
           \/ \E c \in Callers : SaveStep(c)
    PROVE  \A k \in Keys : Forward(k)
<1>1. CASE UNCHANGED current
    BY <1>1, ForwardNumbers DEF Forward, Admissible, NewerThan
<1>2. CASE Crash
    <2>1. generation' # generation + 1
        BY <1>2, ForwardNumbers DEF Crash
    <2>2. \A k \in Keys : ~Present(current'[k])
        BY <1>2 DEF Crash, EmptyCache, Present, NoState
    <2> QED
        BY <2>1, <2>2 DEF Forward
<1>3. UNCHANGED current \/ Crash
    <2>1. ASSUME WorkerStep PROVE UNCHANGED current
        BY <2>1 DEF WorkerStep, WorkerLooks, WorkerCollect, WorkerNextJob, WorkerProbe, WorkerWakes,
           WorkerExits, workerFrame, cacheVars
    <2>2. ASSUME LifecycleStep, ~ConfigureSwap PROVE UNCHANGED current
        BY <2>2 DEF LifecycleStep, ConfigureLoad, ConfigureCancel, StopAccepting, JoinWorker,
           ShutdownWipe, stopFrame, cacheVars
    <2>3. ASSUME NEW c \in Callers, SaveStep(c) PROVE UNCHANGED current
        BY <2>3 DEF SaveStep, SaveSnapshot, SaveWrite, saveFrame, cacheVars
    <2>4. ASSUME Tick \/ UNCHANGED vars PROVE UNCHANGED current
        BY <2>4 DEF Tick, vars, cacheVars
    <2> QED
        BY <2>1, <2>2, <2>3, <2>4
<1> QED
    BY <1>1, <1>2, <1>3

\* No step puts an older state over one the configuration admits, and a
\* reconfiguration loses none.
THEOREM CacheOnlyMovesForward == Spec => CacheMovesForward
<1>1. TypeInv /\ TypeInv' /\ [Next]_vars => [\A k \in Keys : Forward(k)]_vars
    BY RequestStepForward, ProbeStepForward, OperatorStepForward, ForwardWithin,
       ConfigureSwapForward, OtherStepsForward DEF Next
<1> QED
    BY TypeInvariant, <1>1, PTL DEF Spec, CacheMovesForward, Forward

-----------------------------------------------------------------------------
(* OnlyNormalStates *)

\* A state a configuration lets a key have.
NormalAt(cfg, key, state) ==
    Present(state) => LET policy == CredentialFor(cfg, AuthOf(key))
                      IN  policy.listed /\ NormalBlockCount(policy, state.blocks)

NormalCache(cfg, cache) == \A k \in Keys : NormalAt(cfg, k, cache[k])

LoadedNormal == lifecycle.pc \in {"load", "join", "swap"} =>
                    NormalCache(lifecycle.config, lifecycle.loaded)

StagedNormal == \A r \in Requests : NormalAt(config, candidates[r].key, candidates[r].state)

\* A probe's policy is the one its generation has for its account.
PolicyOfGeneration == \A c \in Callers :
    /\ probe[c].gen <= generation
    /\ probe[c].pc # "none" /\ probe[c].gen = generation =>
           /\ probe[c].policy = CredentialFor(config, AuthOf(probe[c].key))
           /\ probe[c].policy.listed

FoundNormal == \A c \in Callers :
    Present(probe[c].found) => NormalBlockCount(probe[c].policy, probe[c].found.blocks)

ProbesNormal == PolicyOfGeneration /\ FoundNormal

NormalInv == NormalCache(config, current) /\ LoadedNormal /\ StagedNormal /\ ProbesNormal

-----------------------------------------------------------------------------
(* What a step leaves alone, and what is normal by having no state. *)

\* The null values have no state to judge.
LEMMA NullNormal ==
    /\ ~Present(NoState) /\ ~Present(NoProbe.found) /\ ~Present(NoCandidate.state)
    /\ NoProbe.gen = 0 /\ NoProbe.pc = "none"
    /\ \A cfg, k : NormalAt(cfg, k, NoState)
    /\ \A cfg : NormalCache(cfg, EmptyCache)
    /\ \A cfg, k : NormalAt(cfg, k, NoCandidate.state)
BY DEF Present, NoState, NoProbe, NoCandidate, NormalAt, NormalCache, EmptyCache

\* Generations are numbers.
LEMMA GenerationsAreNumbers ==
    ASSUME TypeInv
    PROVE  generation \in Nat /\ \A c \in Callers : probe[c].gen \in Nat
BY LimitsAssumption
   DEF TypeInv, TypeOK, LifecycleTypeOK, ProbeTypeOK, Probes, Generations

\* The parts of the invariant a step does not touch survive it.
LEMMA NormalFrames ==
    ASSUME NormalInv
    PROVE  /\ UNCHANGED <<config, current>> => NormalCache(config, current)'
           /\ UNCHANGED lifecycle => LoadedNormal'
           /\ UNCHANGED <<config, candidates>> => StagedNormal'
           /\ UNCHANGED <<config, generation, probe>> => ProbesNormal'
BY DEF NormalInv, NormalCache, LoadedNormal, StagedNormal, ProbesNormal,
   PolicyOfGeneration, FoundNormal

\* newRuntimeState has no state at all.
LEMMA InitNormal == Init => NormalInv
<1> SUFFICES ASSUME Init PROVE NormalInv
    OBVIOUS
<1>1. NormalCache(config, current) /\ LoadedNormal
    BY NullNormal DEF Init, LoadedNormal, NoLifecycle
<1>2. StagedNormal
    BY NullNormal DEF Init, StagedNormal, NoCandidates
<1>3. ProbesNormal
    BY NullNormal DEF Init, ProbesNormal, PolicyOfGeneration, FoundNormal
<1> QED
    BY <1>1, <1>2, <1>3 DEF NormalInv

-----------------------------------------------------------------------------
(* Steps that leave the configuration and the generation alone. *)

\* A probe starts with the policy of the generation it belongs to.
LEMMA EnsureProbeNormal ==
    ASSUME TypeInv, NormalInv, UNCHANGED <<config, generation>>,
           NEW c \in Callers, NEW key \in Keys, EnsureProbe(c, key)
    PROVE  ProbesNormal'
<1>1. CASE UNCHANGED <<probeVars, resultVars>>
    BY <1>1, NormalFrames DEF probeVars
<1>2. CASE ProbeAdmitted(key) /\ ClaimProbe(c, key)
    <2>1. \A d \in Callers \ {c} : probe'[d] = probe[d]
        BY <1>2 DEF ClaimProbe, TypeInv, TypeOK, ProbeTypeOK
    <2>2. /\ probe'[c].gen = generation /\ probe'[c].key = key /\ probe'[c].found = NoState
          /\ probe'[c].policy = CredentialFor(config, AuthOf(key))
        BY <1>2 DEF ClaimProbe, TypeInv, TypeOK, ProbeTypeOK
    <2>3. CredentialFor(config, AuthOf(key)).listed
        BY <1>2 DEF ProbeAdmitted
    <2>4. PolicyOfGeneration'
        <3> SUFFICES ASSUME NEW d \in Callers
                     PROVE  /\ probe'[d].gen <= generation
                            /\ probe'[d].pc # "none" /\ probe'[d].gen = generation =>
                                   /\ probe'[d].policy
                                          = CredentialFor(config, AuthOf(probe'[d].key))
                                   /\ probe'[d].policy.listed
            BY DEF PolicyOfGeneration, CredentialFor
        <3>1. CASE d = c
            BY <3>1, <2>2, <2>3, GenerationsAreNumbers
        <3>2. CASE d # c
            BY <3>2, <2>1 DEF NormalInv, ProbesNormal, PolicyOfGeneration
        <3> QED
            BY <3>1, <3>2
    <2>5. FoundNormal'
        BY <2>1, <2>2, NullNormal DEF FoundNormal, NormalInv, ProbesNormal
    <2> QED
        BY <2>4, <2>5 DEF ProbesNormal
<1> QED
    BY <1>1, <1>2 DEF EnsureProbe

\* A response is staged only if it is normal under the configuration in
\* force, and completion promotes only what is staged.
LEMMA RequestStepNormal ==
    ASSUME TypeInv, NormalInv, NEW r \in Requests, RequestStep(r)
    PROVE  NormalInv'
<1>1. UNCHANGED <<config, generation, lifecycle>>
    BY DEF RequestStep, NewRequest, RetryRequest, InterceptBegin, InterceptProbe,
       InterceptDecide, InterceptResponse, InterceptStreamFailure, Complete,
       hookFrame, lifecycleVars
<1>2. LoadedNormal'
    BY <1>1, NormalFrames
<1>3. ProbesNormal'
    <2>1. CASE UNCHANGED probe
        BY <1>1, <2>1, NormalFrames
    <2>2. CASE InterceptProbe(r)
        <3>1. call[r].key \in Keys
            BY <2>2 DEF InterceptProbe, TypeInv, HookOrder
        <3> QED
            BY <1>1, <2>2, <3>1, EnsureProbeNormal DEF InterceptProbe, Callers
    <2> QED
        BY <2>1, <2>2
           DEF RequestStep, NewRequest, RetryRequest, InterceptBegin, InterceptDecide,
           InterceptResponse, InterceptStreamFailure, Complete, probeVars
<1>4. NormalCache(config, current)'
    <2>1. CASE UNCHANGED current
        BY <1>1, <2>1, NormalFrames
    <2>2. CASE current' = [current EXCEPT ![candidates[r].key] = candidates[r].state]
        <3>1. \A k \in Keys : \/ current'[k] = current[k]
                              \/ k = candidates[r].key /\ current'[k] = candidates[r].state
            BY <2>2 DEF TypeInv, TypeOK, CacheTypeOK, Caches
        <3>2. \A k \in Keys : NormalAt(config, k, current'[k])
            BY <3>1 DEF NormalInv, NormalCache, StagedNormal
        <3> QED
            BY <1>1, <3>2 DEF NormalCache
    <2> QED
        BY <2>1, <2>2
           DEF RequestStep, NewRequest, RetryRequest, InterceptBegin, InterceptProbe,
           InterceptDecide, InterceptResponse, InterceptStreamFailure, Complete, cacheVars
<1>5. StagedNormal'
    <2>1. \A q \in Requests : \/ candidates'[q] = candidates[q]
                              \/ candidates'[q] = NoCandidate
                              \/ NormalAt(config, candidates'[q].key, candidates'[q].state)
        <3>1. CASE UNCHANGED candidates
            BY <3>1
        <3>2. CASE candidates' = [candidates EXCEPT ![r] = NoCandidate]
            BY <3>2 DEF TypeInv, TypeOK, RequestTypeOK
        <3>3. CASE \E state : InterceptResponse(r, state)
            BY <3>3 DEF InterceptResponse, Captures, NormalAt, TypeInv, TypeOK, RequestTypeOK
        <3> QED
            BY <3>1, <3>2, <3>3
               DEF RequestStep, NewRequest, RetryRequest, InterceptBegin, InterceptProbe,
               InterceptDecide, InterceptStreamFailure, Complete, ForgetAttempt
    <2>2. \A q \in Requests : NormalAt(config, candidates'[q].key, candidates'[q].state)
        BY <2>1, NullNormal DEF NormalInv, StagedNormal
    <2> QED
        BY <1>1, <2>2 DEF StagedNormal
<1> QED
    BY <1>2, <1>3, <1>4, <1>5 DEF NormalInv

\* A fetch is judged by the probe's own policy, and only a probe of this
\* generation, whose policy is therefore in force, may commit what it found.
LEMMA ProbeStepNormal ==
    ASSUME TypeInv, NormalInv, NEW c \in Callers, ProbeStep(c)
    PROVE  NormalInv'
<1>1. UNCHANGED <<config, generation, lifecycle, candidates>>
    BY DEF ProbeStep, ProbeAuth, ProbeNext, ProbeFails, ProbeFetched, ProbeCommit,
       probeFrame, lifecycleVars, requestVars
<1>2. LoadedNormal' /\ StagedNormal'
    BY <1>1, NormalFrames
<1>3. probe \in [Callers -> Probes]
    BY DEF TypeInv, TypeOK, ProbeTypeOK
<1>4. /\ \A d \in Callers \ {c} : probe'[d] = probe[d]
      /\ \/ probe'[c] = NoProbe
         \/ /\ probe[c].pc # "none"
            /\ probe'[c].key = probe[c].key /\ probe'[c].gen = probe[c].gen
            /\ probe'[c].policy = probe[c].policy
            /\ \/ probe'[c].found = probe[c].found
               \/ NormalBlockCount(probe[c].policy, probe'[c].found.blocks)
    <2>1. CASE ProbeAuth(c)
        BY <1>3, <2>1 DEF ProbeAuth, Probes
    <2>2. CASE ProbeNext(c)
        BY <1>3, <2>2 DEF ProbeNext, Probes
    <2>3. CASE \E outcome \in FetchOutcomes : ProbeFails(c, outcome)
        BY <1>3, <2>3 DEF ProbeFails, Probes
    <2>4. CASE \E state \in IssuedTo(probe[c].key) : ProbeFetched(c, state)
        BY <1>3, <2>4 DEF ProbeFetched, AcceptsFound, Probes
    <2>5. CASE ProbeCommit(c)
        BY <1>3, <2>5 DEF ProbeCommit, PromoteFound, Probes
    <2> QED
        BY <2>1, <2>2, <2>3, <2>4, <2>5 DEF ProbeStep
<1>5. PolicyOfGeneration'
    <2> SUFFICES ASSUME NEW d \in Callers
                 PROVE  /\ probe'[d].gen <= generation
                        /\ probe'[d].pc # "none" /\ probe'[d].gen = generation =>
                               /\ probe'[d].policy
                                      = CredentialFor(config, AuthOf(probe'[d].key))
                               /\ probe'[d].policy.listed
        BY <1>1 DEF PolicyOfGeneration, CredentialFor
    <2>1. CASE probe'[d] = NoProbe
        BY <2>1, NullNormal, GenerationsAreNumbers
    <2>2. CASE probe'[d] # NoProbe
        BY <2>2, <1>4 DEF NormalInv, ProbesNormal, PolicyOfGeneration
    <2> QED
        BY <2>1, <2>2
<1>6. FoundNormal'
    BY <1>4, NullNormal DEF FoundNormal, NormalInv, ProbesNormal
<1>7. NormalCache(config, current)'
    <2>1. CASE UNCHANGED current
        BY <1>1, <2>1, NormalFrames
    <2>2. CASE /\ probe[c].pc = "commit" /\ OwnGeneration(probe[c]) /\ Promotes(probe[c])
               /\ current' = [current EXCEPT ![probe[c].key] = probe[c].found]
        <3>1. NormalAt(config, probe[c].key, probe[c].found)
            BY <2>2 DEF OwnGeneration, Promotes, NormalAt, NormalInv, ProbesNormal,
               PolicyOfGeneration, FoundNormal
        <3>2. \A k \in Keys : \/ current'[k] = current[k]
                              \/ k = probe[c].key /\ current'[k] = probe[c].found
            BY <2>2 DEF TypeInv, TypeOK, CacheTypeOK, Caches
        <3>3. \A k \in Keys : NormalAt(config, k, current'[k])
            BY <3>1, <3>2 DEF NormalInv, NormalCache
        <3> QED
            BY <1>1, <3>3 DEF NormalCache
    <2> QED
        BY <2>1, <2>2
           DEF ProbeStep, ProbeAuth, ProbeNext, ProbeFails, ProbeFetched, ProbeCommit,
           PromoteFound, cacheVars
<1> QED
    BY <1>2, <1>5, <1>6, <1>7 DEF NormalInv, ProbesNormal

\* A save ends a probe or leaves it alone.
LEMMA SaveStepNormal ==
    ASSUME TypeInv, NormalInv, NEW c \in Callers, SaveStep(c)
    PROVE  NormalInv'
<1>1. UNCHANGED <<config, generation, current, lifecycle, candidates>>
    BY DEF SaveStep, SaveSnapshot, SaveWrite, saveFrame, lifecycleVars, cacheVars, requestVars
<1>2. UNCHANGED probe \/ probe' = [probe EXCEPT ![c] = NoProbe]
    BY DEF SaveStep, SaveSnapshot, SaveWrite, SaveReturns
<1>3. \A d \in Callers : probe'[d] = probe[d] \/ probe'[d] = NoProbe
    BY <1>2 DEF TypeInv, TypeOK, ProbeTypeOK
<1>4. PolicyOfGeneration'
    BY <1>1, <1>3, NullNormal, GenerationsAreNumbers
       DEF PolicyOfGeneration, NormalInv, ProbesNormal
<1>5. FoundNormal'
    BY <1>3, NullNormal DEF FoundNormal, NormalInv, ProbesNormal
<1> QED
    BY <1>1, <1>4, <1>5, NormalFrames DEF NormalInv, ProbesNormal

\* The worker starts probes of the keys of its jobs.
LEMMA WorkerStepNormal ==
    ASSUME TypeInv, NormalInv, WorkerStep
    PROVE  NormalInv'
<1> USE DEF WorkerStep, WorkerLooks, WorkerCollect, WorkerNextJob, WorkerProbe,
           WorkerWakes, WorkerExits
<1>1. UNCHANGED <<config, generation, current, lifecycle, candidates>>
    BY DEF workerFrame, lifecycleVars, cacheVars, requestVars
<1>2. UNCHANGED probe \/ \E key \in Keys : EnsureProbe(Worker, key)
    <2>1. \A job \in jobs : job.key \in Keys
        BY DEF TypeInv, TypeOK, WorkerTypeOK, Jobs
    <2> QED
        BY <2>1 DEF probeVars
<1>3. ProbesNormal'
    BY <1>1, <1>2, EnsureProbeNormal, NormalFrames DEF Callers
<1> QED
    BY <1>1, <1>3, NormalFrames DEF NormalInv

\* The panel starts probes and removes states.
LEMMA OperatorStepNormal ==
    ASSUME TypeInv, NormalInv, NEW o \in Operators, OperatorStep(o)
    PROVE  NormalInv'
<1> USE DEF OperatorStep, RefreshAction, NudgeWorker, ManualProbe, ClearAction, panelFrame
<1>1. UNCHANGED <<config, generation, lifecycle, candidates>>
    BY DEF lifecycleVars, requestVars
<1>2. UNCHANGED probe \/ \E key \in Keys : EnsureProbe(o, key)
    <2>1. todo[o] \subseteq Keys
        BY DEF TypeInv, TypeOK, OperatorTypeOK
    <2> QED
        BY <2>1 DEF probeVars
<1>3. ProbesNormal'
    BY <1>1, <1>2, EnsureProbeNormal, NormalFrames DEF Callers
<1>4. \/ UNCHANGED current
      \/ \E removed : current' = [k \in Keys |-> IF k \in removed THEN NoState ELSE current[k]]
    BY DEF cacheVars
<1>5. \A k \in Keys : NormalAt(config, k, current'[k])
    BY <1>4, NullNormal DEF NormalInv, NormalCache
<1>6. NormalCache(config, current)'
    BY <1>1, <1>5 DEF NormalCache
<1> QED
    BY <1>1, <1>3, <1>6, NormalFrames DEF NormalInv

-----------------------------------------------------------------------------
(* Lifecycle, crash, and the theorem. *)

\* What configure loads is normal under the configuration it decoded: seeds
\* by the check against the baseline, kept states by the merge test.
LEMMA LoadedIsNormal ==
    ASSUME NEW cfg \in ConfigType, SeedsMatchBaseline(cfg)
    PROVE  NormalCache(cfg, LoadedCache(cfg))
<1> SUFFICES ASSUME NEW k \in Keys PROVE NormalAt(cfg, k, LoadedCache(cfg)[k])
    BY DEF NormalCache
<1>1. NormalAt(cfg, k, SeedAt(cfg, k))
    <2>1. AuthOf(k) \in Auths
        BY KeyParts
    <2> QED
        BY <2>1, NullNormal DEF SeedAt, SeedsMatchBaseline, CredentialFor, NormalAt
<1>2. \A kept, existing : TakesOver(cfg, k, kept, existing) => NormalAt(cfg, k, kept)
    BY DEF TakesOver, Admissible, NormalAt
<1> QED
    BY <1>1, <1>2 DEF LoadedCache

\* A swap installs the configuration its states were judged by, drops what
\* was staged and leaves every probe in an earlier generation.
LEMMA ConfigureSwapNormal ==
    ASSUME TypeInv, NormalInv, ConfigureSwap
    PROVE  NormalInv'
<1> USE DEF ConfigureSwap
<1>1. \A k \in Keys : NormalAt(lifecycle.config, k, current'[k])
    BY DEF TakesOver, Admissible, NormalAt, NormalInv, LoadedNormal, NormalCache
<1>2. NormalCache(config, current)'
    BY <1>1 DEF NormalCache
<1>3. LoadedNormal'
    BY DEF LoadedNormal, NoLifecycle
<1>4. StagedNormal'
    BY NullNormal DEF StagedNormal, DropBindings, NoCandidates
<1>5. generation' = generation + 1 /\ UNCHANGED probe
    BY DEF lifeFrame
<1>6. PolicyOfGeneration'
    BY <1>5, GenerationsAreNumbers DEF PolicyOfGeneration, NormalInv, ProbesNormal
<1>7. FoundNormal'
    BY <1>5 DEF FoundNormal, NormalInv, ProbesNormal
<1> QED
    BY <1>2, <1>3, <1>4, <1>6, <1>7 DEF NormalInv, ProbesNormal

\* A shutdown keeps the configuration and the cache, and drops the bindings.
LEMMA ShutdownWipeNormal ==
    ASSUME TypeInv, NormalInv, ShutdownWipe
    PROVE  NormalInv'
<1>1. /\ UNCHANGED <<config, current, probe>> /\ lifecycle' = NoLifecycle
      /\ candidates' = NoCandidates /\ generation' = generation + 1
    BY DEF ShutdownWipe, lifeFrame, cacheVars, DropBindings
<1>2. LoadedNormal'
    BY <1>1 DEF LoadedNormal, NoLifecycle
<1>3. StagedNormal'
    BY <1>1, NullNormal DEF StagedNormal, NoCandidates
<1>4. PolicyOfGeneration'
    BY <1>1, GenerationsAreNumbers DEF PolicyOfGeneration, NormalInv, ProbesNormal
<1>5. FoundNormal'
    BY <1>1 DEF FoundNormal, NormalInv, ProbesNormal
<1> QED
    BY <1>1, <1>2, <1>3, <1>4, <1>5, NormalFrames DEF NormalInv, ProbesNormal

\* The other steps of a lifecycle call change nothing but its progress.
LEMMA LifecycleStepNormal ==
    ASSUME TypeInv, NormalInv, LifecycleStep
    PROVE  NormalInv'
<1>1. CASE ConfigureSwap \/ ShutdownWipe
    BY <1>1, ConfigureSwapNormal, ShutdownWipeNormal
<1>2. CASE ~ConfigureSwap /\ ~ShutdownWipe
    <2>1. UNCHANGED <<config, generation, current, probe, candidates>>
        BY <1>2 DEF LifecycleStep, ConfigureLoad, ConfigureCancel, StopAccepting, JoinWorker,
           stopFrame, lifeFrame, cacheVars
    <2>2. LoadedNormal'
        <3>1. lifecycle \in LifecycleCalls
            BY DEF TypeInv, TypeOK, LifecycleTypeOK
        <3>2. CASE \E cfg \in Configs : ConfigureLoad(cfg)
            BY <3>2, LoadedIsNormal, ConfigsAssumption DEF ConfigureLoad, LoadedNormal
        <3>3. CASE ConfigureCancel
            BY <3>1, <3>3 DEF ConfigureCancel, LifecycleCalls, LoadedNormal, NormalInv
        <3>4. CASE StopAccepting("drain") \/ StopAccepting("retire")
            BY <3>1, <3>4 DEF StopAccepting, LifecycleCalls, LoadedNormal
        <3>5. CASE JoinWorker
            BY <3>1, <3>5
               DEF JoinWorker, LifecycleCalls, NoLifecycle, LoadedNormal, NormalInv
        <3> QED
            BY <1>2, <3>2, <3>3, <3>4, <3>5 DEF LifecycleStep
    <2> QED
        BY <2>1, <2>2, NormalFrames DEF NormalInv
<1> QED
    BY <1>1, <1>2

\* A crash leaves no state in memory.
LEMMA CrashNormal ==
    ASSUME Crash
    PROVE  NormalInv'
<1>1. NormalCache(config, current)' /\ LoadedNormal'
    BY NullNormal DEF Crash, LoadedNormal, NoLifecycle
<1>2. StagedNormal'
    BY NullNormal DEF Crash, StagedNormal, NoCandidates
<1>3. ProbesNormal'
    BY NullNormal DEF Crash, ProbesNormal, PolicyOfGeneration, FoundNormal
<1> QED
    BY <1>1, <1>2, <1>3 DEF NormalInv

\* Every step keeps the judgements that were made valid.
LEMMA NextNormal == TypeInv /\ NormalInv /\ [Next]_vars => NormalInv'
<1> SUFFICES ASSUME TypeInv, NormalInv, [Next]_vars PROVE NormalInv'
    OBVIOUS
<1>1. CASE Tick \/ UNCHANGED vars
    <2>1. UNCHANGED <<config, generation, current, lifecycle, candidates, probe>>
        BY <1>1 DEF Tick, vars, lifecycleVars, cacheVars, requestVars, probeVars
    <2> QED
        BY <2>1, NormalFrames DEF NormalInv
<1> QED
    BY <1>1, RequestStepNormal, ProbeStepNormal, SaveStepNormal, OperatorStepNormal,
       WorkerStepNormal, LifecycleStepNormal, CrashNormal DEF Next

\* In every reachable state, the cache holds only states with a normal block
\* count of their account's policy under the configuration in force.
THEOREM CacheHoldsNormalStates == Spec => []OnlyNormalStates
<1>1. Init => NormalInv
    BY InitNormal
<1>2. TypeInv /\ NormalInv /\ [Next]_vars => NormalInv'
    BY NextNormal
<1>3. NormalInv => OnlyNormalStates
    BY DEF NormalInv, NormalCache, NormalAt, OnlyNormalStates
<1> QED
    BY TypeInvariant, <1>1, <1>2, <1>3, PTL DEF Spec

-----------------------------------------------------------------------------
(* DiskCaughtUp *)

\* Every state of a cache is one that every configuration takes over.
Lasting(cache) == \A cfg \in Configs, k \in Keys :
    Present(cache[k]) => Admissible(cfg, k, cache[k])

\* A copy of the cache that may be out of date, but nowhere ahead of it.
Behind(copy, cache) == \A k \in Keys :
    copy[k] = cache[k] \/ NewerThan(cache[k], copy[k])

Loading == lifecycle.pc \in {"load", "join", "swap"}

\* Before the first configuration there is nothing to save.
Dormant == generation = 0 =>
    /\ ~accepting /\ config = ZeroConfig /\ current = EmptyCache
    /\ \A c \in Callers : saving[c] = NoPath

\* The configuration in force, and the one about to be, are the host's.
HostConfigs ==
    /\ generation # 0 => config \in Configs
    /\ Loading => lifecycle.config \in Configs
    /\ lifecycle.pc \in {"drain", "retire", "wipe"} => generation # 0

\* One saver at a time, and to the one file.
OneSaver(file) ==
    /\ \A c \in Callers : saving[c] \in {NoPath, file}
    /\ \A c, d \in savers : c = d

\* What was read from the file before the first configuration is still there.
FirstLoad(file) == Loading /\ generation = 0 => lifecycle.loaded = disk[file]

LastingCopies(file) == Lasting(disk[file]) /\ \A c \in Callers : Lasting(snapshot[c])

\* Without clears, no copy of the cache is ahead of it.
CopiesBehind(file) == ClearSelections = {} /\ generation # 0 =>
    /\ Behind(disk[file], current)
    /\ \A c \in savers : Behind(snapshot[c], current)
    /\ Loading => Behind(lifecycle.loaded, current)

\* If the file lacks something of the cache, a save that will write it is
\* due or under way, or the last one failed.
Accounted(file) == generation # 0 =>
    \/ \E c \in Callers : saving[c] = file /\ c \notin savers
    \/ \E c \in savers : snapshot[c] = current
    \/ savers = {} /\ (saveFailed \/ disk[file] = current)

DiskInv(file) == /\ Dormant /\ HostConfigs /\ OneSaver(file) /\ FirstLoad(file)
                 /\ LastingCopies(file) /\ CopiesBehind(file) /\ Accounted(file)

-----------------------------------------------------------------------------
(* What copies of the cache are. *)

\* All that the invariant is about.
diskView == <<accepting, config, generation, lifecycle, current, saving, diskVars>>

\* The types it rests on.
LEMMA DiskTypes ==
    ASSUME TypeInv
    PROVE  /\ generation \in Nat /\ current \in Caches /\ lifecycle.loaded \in Caches
           /\ disk \in [Paths -> Caches] /\ snapshot \in [Callers -> Caches]
           /\ saving \in [Callers -> Paths \cup {NoPath}]
           /\ savers \subseteq {c \in Callers : saving[c] # NoPath}
<1>1. generation \in Nat
    BY ForwardNumbers
<1>2. current \in Caches
    BY DEF TypeInv, TypeOK, CacheTypeOK
<1>3. lifecycle.loaded \in Caches
    BY DEF TypeInv, TypeOK, LifecycleTypeOK, LifecycleCalls
<1> QED
    BY <1>1, <1>2, <1>3 DEF TypeInv, TypeOK, DiskTypeOK

\* The entry of a missing state is NoState.
LEMMA MissingState ==
    ASSUME NEW s \in MaybeState
    PROVE  ~Present(s) <=> s = NoState
<1>1. CASE s \in States
    <2>1. s.issuedAt \in Stamps
        BY <1>1 DEF States
    <2> QED
        BY <2>1, TimesAssumption DEF Present, NoState
<1> QED
    BY <1>1 DEF MaybeState, Present, NoState

\* The configurations of such a host judge alike, and have no seeds.
LEMMA ConfigsAgree ==
    ASSUME NEW file, OneFile(file), NEW cfg \in Configs, NEW k \in Keys
    PROVE  /\ SeedAt(cfg, k) = NoState
           /\ \A other \in Configs : \A s : NormalAt(other, k, s) /\ Present(s) => Admissible(cfg, k, s)
<1>1. SeedAt(cfg, k) = NoState
    <2>1. AuthOf(k) \in Auths
        BY KeyParts
    <2>2. cfg.seeds[AuthOf(k)] \in MaybeState
        BY <2>1, ConfigsAssumption DEF ConfigType
    <2>3. cfg.seeds[AuthOf(k)] = NoState
        BY <2>1, <2>2, MissingState DEF OneFile
    <2> QED
        BY <2>3 DEF SeedAt
<1>2. \A other \in Configs : \A s : NormalAt(other, k, s) /\ Present(s) => Admissible(cfg, k, s)
    BY DEF OneFile, NormalAt, Admissible, CredentialFor
<1> QED
    BY <1>1, <1>2

\* So what is normal under one of them lasts under every other.
LEMMA NormalLasts ==
    ASSUME NEW file, OneFile(file), NEW cfg \in Configs, NEW cache, NormalCache(cfg, cache)
    PROVE  Lasting(cache)
BY ConfigsAgree DEF Lasting, NormalCache

LEMMA EmptyLasts == Lasting(EmptyCache)
BY NullNormal DEF Lasting, EmptyCache

\* Being behind is reflexive and transitive.
LEMMA BehindOrder ==
    /\ \A cache : Behind(cache, cache)
    /\ \A copy, cache, next \in Caches :
           Behind(copy, cache) /\ Behind(cache, next) => Behind(copy, next)
<1>1. ASSUME NEW copy \in Caches, NEW cache \in Caches, NEW next \in Caches,
             Behind(copy, cache), Behind(cache, next)
      PROVE  Behind(copy, next)
    <2> SUFFICES ASSUME NEW k \in Keys
                 PROVE  copy[k] = next[k] \/ NewerThan(next[k], copy[k])
        BY DEF Behind
    <2>1. copy[k] \in MaybeState /\ cache[k] \in MaybeState /\ next[k] \in MaybeState
        BY DEF Caches
    <2>2. copy[k].issuedAt \in Nat /\ cache[k].issuedAt \in Nat /\ next[k].issuedAt \in Nat
        BY <2>1, IssueTimes
    <2>3. /\ copy[k] = cache[k] \/ NewerThan(cache[k], copy[k])
          /\ cache[k] = next[k] \/ NewerThan(next[k], cache[k])
        BY <1>1 DEF Behind
    <2> QED
        BY <2>2, <2>3 DEF NewerThan
<1>2. \A cache : Behind(cache, cache)
    BY DEF Behind
<1> QED
    BY <1>1, <1>2

\* What such a host's configure loads is the file, state for state.
LEMMA LoadedIsFile ==
    ASSUME NEW file, OneFile(file), NEW cfg \in Configs, disk \in [Paths -> Caches],
           Lasting(disk[file])
    PROVE  LoadedCache(cfg) = disk[file]
<1>1. disk[file] \in Caches /\ cfg.stateFile = file /\ file # NoPath
    BY NullAssumption DEF OneFile
<1>2. ASSUME NEW k \in Keys PROVE LoadedCache(cfg)[k] = disk[file][k]
    <2>1. disk[file][k] \in MaybeState
        BY <1>1 DEF Caches
    <2>2. LoadedCache(cfg)[k] = IF TakesOver(cfg, k, disk[file][k], NoState)
                                THEN disk[file][k] ELSE NoState
        BY <1>1, ConfigsAgree DEF LoadedCache
    <2>3. CASE Present(disk[file][k])
        <3>1. Admissible(cfg, k, disk[file][k])
            BY <2>3 DEF Lasting
        <3>2. NewerThan(disk[file][k], NoState)
            BY <2>1, <2>3, IssueTimes DEF NewerThan, NoState, Present
        <3> QED
            BY <2>2, <3>1, <3>2 DEF TakesOver
    <2>4. CASE ~Present(disk[file][k])
        BY <2>1, <2>2, <2>4, MissingState
    <2> QED
        BY <2>3, <2>4
<1>3. LoadedCache(cfg) = [k \in Keys |-> LoadedCache(cfg)[k]]
    BY DEF LoadedCache
<1>4. disk[file] = [k \in Keys |-> disk[file][k]]
    BY <1>1 DEF Caches
<1> QED
    BY <1>2, <1>3, <1>4

-----------------------------------------------------------------------------
(* Steps that leave the files alone. *)

\* At the start there is nothing in memory or on disk.
LEMMA InitDisk ==
    ASSUME NEW file, OneFile(file), Init
    PROVE  DiskInv(file)
<1>1. disk[file] = EmptyCache
    BY DEF Init, OneFile
<1>2. LastingCopies(file)
    BY <1>1, EmptyLasts DEF Init, LastingCopies
<1> QED
    BY <1>2 DEF Init, DiskInv, Dormant, HostConfigs, OneSaver, FirstLoad, CopiesBehind,
       Accounted, Loading, NoLifecycle

\* Most steps touch nothing the invariant is about.
LEMMA DiskStill ==
    ASSUME NEW file, DiskInv(file), UNCHANGED diskView
    PROVE  DiskInv(file)'
BY DEF diskView, diskVars, DiskInv, Dormant, HostConfigs, OneSaver, FirstLoad,
   LastingCopies, CopiesBehind, Accounted, Loading, Lasting, Behind

\* Whoever changes the cache has no save under way, and makes one now.
LEMMA ChangeIsSaved ==
    ASSUME NEW file, OneFile(file), TypeInv, TypeInv', DiskInv(file), NEW c \in Callers,
           saving[c] = NoPath, saving' = [saving EXCEPT ![c] = config.stateFile],
           UNCHANGED <<accepting, config, generation, lifecycle, diskVars>>,
           generation = 0 => UNCHANGED current,
           ClearSelections = {} => Behind(current, current')
    PROVE  DiskInv(file)'
<1>1. UNCHANGED <<accepting, config, generation, lifecycle, savers, snapshot, disk, saveFailed>>
    BY DEF diskVars
<1>2. config.stateFile = IF generation = 0 THEN NoPath ELSE file
    BY DEF DiskInv, Dormant, HostConfigs, OneFile, ZeroConfig
<1>3. Dormant'
    BY <1>1, <1>2, DiskTypes DEF DiskInv, Dormant
<1>4. HostConfigs' /\ FirstLoad(file)'
    BY <1>1 DEF DiskInv, HostConfigs, FirstLoad, Loading
<1>5. OneSaver(file)'
    BY <1>1, <1>2, DiskTypes DEF DiskInv, OneSaver
<1>6. LastingCopies(file)'
    BY <1>1 DEF DiskInv, LastingCopies, Lasting
<1>7. CopiesBehind(file)'
    <2> SUFFICES ASSUME ClearSelections = {}, generation # 0
                 PROVE  /\ Behind(disk[file], current')
                        /\ \A d \in savers : Behind(snapshot[d], current')
                        /\ Loading => Behind(lifecycle.loaded, current')
        BY <1>1 DEF CopiesBehind, Behind, Loading
    <2>1. /\ current \in Caches /\ disk[file] \in Caches /\ lifecycle.loaded \in Caches
          /\ \A d \in savers : snapshot[d] \in Caches
        BY DiskTypes DEF OneFile
    <2>2. PICK next : next = current' /\ next \in Caches
        BY DEF TypeInv, TypeOK, CacheTypeOK
    <2>3. Behind(current, next)
        BY <2>2
    <2> QED
        BY <2>1, <2>2, <2>3, BehindOrder DEF DiskInv, CopiesBehind
<1>8. Accounted(file)'
    <2>1. generation # 0 => saving'[c] = file
        BY <1>2, DiskTypes
    <2>2. c \notin savers'
        BY <1>1, DiskTypes
    <2> QED
        BY <1>1, <2>1, <2>2 DEF Accounted
<1> QED
    BY <1>3, <1>4, <1>5, <1>6, <1>7, <1>8 DEF DiskInv

\* A completion that promotes, a commit that promotes and a clear are such
\* changes; nothing else that hooks, probes and the panel do concerns a file.
LEMMA RequestStepDisk ==
    ASSUME NEW file, OneFile(file), TypeInv, TypeInv', DiskInv(file),
           NEW r \in Requests, RequestStep(r)
    PROVE  DiskInv(file)'
<1>1. UNCHANGED <<lifecycleVars, diskVars>>
    BY DEF RequestStep, NewRequest, RetryRequest, InterceptBegin, InterceptProbe,
       InterceptDecide, InterceptResponse, InterceptStreamFailure, Complete, hookFrame
<1>2. \/ UNCHANGED <<current, saving>>
      \/ /\ call[r].pc \in {"sent", "body"} /\ Completes(candidates[r])
         /\ saving' = [saving EXCEPT ![r] = config.stateFile]
    BY DEF RequestStep, NewRequest, RetryRequest, InterceptBegin, InterceptProbe,
       InterceptDecide, InterceptResponse, InterceptStreamFailure, Complete, cacheVars
<1>3. CASE UNCHANGED <<current, saving>>
    BY <1>1, <1>3, DiskStill DEF diskView, lifecycleVars
<1>4. CASE /\ call[r].pc \in {"sent", "body"} /\ Completes(candidates[r])
           /\ saving' = [saving EXCEPT ![r] = config.stateFile]
    <2>1. saving[r] = NoPath /\ r \in Callers
        BY <1>4 DEF TypeInv, HookOrder, AtRest, Callers
    <2>2. generation # 0
        BY <1>4 DEF Completes, DiskInv, Dormant
    <2> QED
        BY <1>1, <1>4, <2>1, <2>2, ChangeIsSaved, RequestStepForward
           DEF lifecycleVars, Behind
<1> QED
    BY <1>2, <1>3, <1>4

LEMMA ProbeStepDisk ==
    ASSUME NEW file, OneFile(file), TypeInv, TypeInv', DiskInv(file),
           NEW c \in Callers, ProbeStep(c)
    PROVE  DiskInv(file)'
<1>1. UNCHANGED <<lifecycleVars, diskVars>>
    BY DEF ProbeStep, ProbeAuth, ProbeNext, ProbeFails, ProbeFetched, ProbeCommit, probeFrame
<1>2. \/ UNCHANGED <<current, saving>>
      \/ /\ probe[c].pc = "commit" /\ Promotes(probe[c])
         /\ saving' = [saving EXCEPT ![c] = config.stateFile]
    BY DEF ProbeStep, ProbeAuth, ProbeNext, ProbeFails, ProbeFetched, ProbeCommit,
       PromoteFound, cacheVars
<1>3. CASE UNCHANGED <<current, saving>>
    BY <1>1, <1>3, DiskStill DEF diskView, lifecycleVars
<1>4. CASE /\ probe[c].pc = "commit" /\ Promotes(probe[c])
           /\ saving' = [saving EXCEPT ![c] = config.stateFile]
    <2>1. saving[c] = NoPath
        BY <1>4 DEF TypeInv, ProbeOrder
    <2>2. generation # 0
        BY <1>4 DEF Promotes, DiskInv, Dormant
    <2> QED
        BY <1>1, <1>4, <2>1, <2>2, ChangeIsSaved, ProbeStepForward
           DEF lifecycleVars, Behind
<1> QED
    BY <1>2, <1>3, <1>4

\* A clear of a generation that has none after it.
LEMMA OperatorStepDisk ==
    ASSUME NEW file, OneFile(file), TypeInv, TypeInv', DiskInv(file),
           NEW o \in Operators, OperatorStep(o)
    PROVE  DiskInv(file)'
<1>1. UNCHANGED <<lifecycleVars, diskVars>>
    BY DEF OperatorStep, RefreshAction, NudgeWorker, ManualProbe, ClearAction, panelFrame
<1>2. \/ UNCHANGED <<current, saving>>
      \/ \E selection \in ClearSelections, scope \in ClearScopes :
             ClearAction(o, selection, scope)
    BY DEF OperatorStep, RefreshAction, NudgeWorker, ManualProbe, cacheVars
<1>3. CASE UNCHANGED <<current, saving>>
    BY <1>1, <1>3, DiskStill DEF diskView, lifecycleVars
<1>4. CASE \E selection \in ClearSelections, scope \in ClearScopes :
               ClearAction(o, selection, scope)
    <2>1. PICK selection, scope : ClearAction(o, selection, scope)
        BY <1>4
    <2>2. /\ o \in Callers /\ saving[o] = NoPath
          /\ saving' = [saving EXCEPT ![o] = config.stateFile]
        BY <2>1 DEF ClearAction, Free, AtRest, Callers
    <2>3. ClearSelections # {}
        BY <1>4
    <2>4. generation = 0 => UNCHANGED current
        <3>1. \A k \in Keys : current'[k] \in {current[k], NoState}
            BY OperatorStepForward
        <3>2. current' = [k \in Keys |-> current'[k]]
            BY <2>1 DEF ClearAction
        <3> QED
            BY <3>1, <3>2 DEF DiskInv, Dormant, EmptyCache
    <2> QED
        BY <1>1, <2>2, <2>3, <2>4, ChangeIsSaved DEF lifecycleVars
<1> QED
    BY <1>2, <1>3, <1>4

-----------------------------------------------------------------------------
(* Saves. *)

\* The cache of a configured plugin lasts, so what a saver copies lasts.
LEMMA CacheLasts ==
    ASSUME NEW file, OneFile(file), NormalInv, DiskInv(file)
    PROVE  Lasting(current)
<1>1. CASE generation = 0
    BY <1>1, EmptyLasts DEF DiskInv, Dormant
<1>2. CASE generation # 0
    BY <1>2, NormalLasts DEF DiskInv, HostConfigs, NormalInv
<1> QED
    BY <1>1, <1>2

\* A saver copies the cache once it is alone inside persistMu.  The save is
\* never abandoned: the configuration still names the one file.
LEMMA SaveSnapshotDisk ==
    ASSUME NEW file, OneFile(file), TypeInv, NormalInv, DiskInv(file),
           NEW c \in Callers, SaveSnapshot(c)
    PROVE  DiskInv(file)'
<1>1. UNCHANGED <<accepting, config, generation, lifecycle, current, disk, saveFailed>>
    BY DEF SaveSnapshot, saveFrame, lifecycleVars, cacheVars
<1>2. saving[c] = config.stateFile /\ generation # 0
    BY DEF SaveSnapshot, DiskInv, Dormant, HostConfigs, OneSaver, OneFile
<1>3. /\ UNCHANGED saving /\ savers = {} /\ savers' = {c}
      /\ snapshot' = [snapshot EXCEPT ![c] = current]
    BY <1>2 DEF SaveSnapshot, NoSaver
<1>4. /\ snapshot'[c] = current
      /\ \A d \in Callers : d # c => snapshot'[d] = snapshot[d]
    BY <1>3, DiskTypes
<1>5. Dormant' /\ HostConfigs' /\ OneSaver(file)' /\ FirstLoad(file)'
    BY <1>1, <1>3 DEF DiskInv, Dormant, HostConfigs, OneSaver, FirstLoad, Loading
<1>6. LastingCopies(file)'
    <2>1. \A d \in Callers : Lasting(snapshot'[d])
        BY <1>4, CacheLasts DEF DiskInv, LastingCopies
    <2> QED
        BY <1>1, <2>1 DEF DiskInv, LastingCopies, Lasting
<1>7. CopiesBehind(file)'
    BY <1>1, <1>3, <1>4 DEF DiskInv, CopiesBehind, Behind, Loading
<1>8. Accounted(file)'
    BY <1>1, <1>3, <1>4 DEF Accounted
<1> QED
    BY <1>5, <1>6, <1>7, <1>8 DEF DiskInv

\* A save that succeeds leaves in the file what the saver copied; if the
\* cache has changed since, whoever changed it is still to save.
LEMMA SaveWriteDisk ==
    ASSUME NEW file, OneFile(file), TypeInv, DiskInv(file),
           NEW c \in Callers, NEW failed \in BOOLEAN, SaveWrite(c, failed)
    PROVE  DiskInv(file)'
<1>1. UNCHANGED <<accepting, config, generation, lifecycle, current>>
    BY DEF SaveWrite, saveFrame, lifecycleVars, cacheVars
<1>2. /\ c \in savers /\ savers' = {} /\ saving[c] = file /\ generation # 0
      /\ \A d \in savers : d = c
    <2>1. c \in savers /\ \A d \in savers : d = c
        BY DEF SaveWrite, DiskInv, OneSaver
    <2>2. savers' = {}
        BY <2>1 DEF SaveWrite
    <2>3. saving[c] = file /\ generation # 0
        BY <2>1, DiskTypes DEF DiskInv, OneSaver, Dormant
    <2> QED
        BY <2>1, <2>2, <2>3
<1>3. /\ \A d \in Callers : saving'[d] = IF d = c THEN NoPath ELSE saving[d]
      /\ \A d \in Callers : snapshot'[d] = IF d = c THEN EmptyCache ELSE snapshot[d]
    BY DiskTypes DEF SaveWrite, SaveReturns
<1>4. disk'[file] = IF failed THEN disk[file] ELSE snapshot[c]
    BY <1>2, DiskTypes DEF SaveWrite, OneFile
<1>5. Dormant' /\ HostConfigs'
    BY <1>1, <1>2 DEF DiskInv, Dormant, HostConfigs, Loading
<1>6. OneSaver(file)'
    BY <1>2, <1>3 DEF DiskInv, OneSaver
<1>7. FirstLoad(file)'
    BY <1>1, <1>2 DEF FirstLoad, Loading
<1>8. LastingCopies(file)'
    <2>1. \A d \in Callers : Lasting(snapshot'[d])
        BY <1>3, EmptyLasts DEF DiskInv, LastingCopies
    <2>2. Lasting(disk'[file])
        BY <1>4 DEF DiskInv, LastingCopies
    <2> QED
        BY <2>1, <2>2 DEF LastingCopies, Lasting
<1>9. CopiesBehind(file)'
    <2> SUFFICES ASSUME ClearSelections = {}
                 PROVE  /\ Behind(disk'[file], current)
                        /\ Loading => Behind(lifecycle.loaded, current)
        BY <1>1, <1>2 DEF CopiesBehind, Behind, Loading
    <2> QED
        BY <1>2, <1>4 DEF DiskInv, CopiesBehind
<1>10. Accounted(file)'
    <2>1. CASE \E d \in Callers : saving[d] = file /\ d \notin savers
        <3>1. PICK d \in Callers : saving[d] = file /\ d \notin savers
            BY <2>1
        <3>2. saving'[d] = file /\ d \notin savers'
            BY <1>2, <1>3, <3>1
        <3> QED
            BY <3>2 DEF Accounted
    <2>2. CASE snapshot[c] = current
        <3>1. saveFailed' \/ disk'[file] = current'
            BY <1>1, <1>4, <2>2 DEF SaveWrite
        <3> QED
            BY <1>2, <3>1 DEF Accounted
    <2> QED
        BY <1>2, <2>1, <2>2 DEF DiskInv, Accounted
<1> QED
    BY <1>5, <1>6, <1>7, <1>8, <1>9, <1>10 DEF DiskInv

-----------------------------------------------------------------------------
(* Lifecycle calls and crashes. *)

\* configure reads the file before it stops anything.
LEMMA ConfigureLoadDisk ==
    ASSUME NEW file, OneFile(file), TypeInv, DiskInv(file),
           NEW cfg \in Configs, ConfigureLoad(cfg)
    PROVE  DiskInv(file)'
<1>1. UNCHANGED <<accepting, config, generation, current, saving, savers, snapshot, disk,
                  saveFailed>>
    BY DEF ConfigureLoad, stopFrame, lifeFrame, diskVars, cacheVars
<1>2. lifecycle'.config = cfg /\ lifecycle'.pc = "load" /\ lifecycle'.loaded = disk[file]
    BY DiskTypes, LoadedIsFile DEF ConfigureLoad, DiskInv, LastingCopies
<1>3. Dormant' /\ OneSaver(file)' /\ LastingCopies(file)' /\ Accounted(file)'
    BY <1>1 DEF DiskInv, Dormant, OneSaver, LastingCopies, Lasting, Accounted
<1>4. HostConfigs' /\ FirstLoad(file)'
    BY <1>1, <1>2 DEF DiskInv, HostConfigs, FirstLoad
<1>5. CopiesBehind(file)'
    BY <1>1, <1>2 DEF DiskInv, CopiesBehind, Behind
<1> QED
    BY <1>3, <1>4, <1>5 DEF DiskInv

\* A configure that goes on keeps what it read; a stop reads nothing.
LEMMA LifecycleMovesDisk ==
    ASSUME NEW file, OneFile(file), TypeInv, DiskInv(file),
           ConfigureCancel \/ StopAccepting("drain") \/ StopAccepting("retire") \/ JoinWorker
    PROVE  DiskInv(file)'
<1>1. UNCHANGED <<config, generation, current, saving, savers, snapshot, disk, saveFailed>>
    BY DEF ConfigureCancel, StopAccepting, JoinWorker, stopFrame, lifeFrame, diskVars, cacheVars
<1>2. accepting' \in {accepting, FALSE}
    BY DEF ConfigureCancel, StopAccepting, JoinWorker
<1>3. /\ Loading' => /\ Loading /\ lifecycle'.config = lifecycle.config
                     /\ lifecycle'.loaded = lifecycle.loaded
      /\ lifecycle'.pc \in {"drain", "retire", "wipe"} => generation # 0
    <2>1. lifecycle \in LifecycleCalls /\ generation \in Nat
        BY DiskTypes DEF TypeInv, TypeOK, LifecycleTypeOK
    <2>2. CASE ConfigureCancel
        BY <2>1, <2>2 DEF ConfigureCancel, LifecycleCalls, Loading
    <2>3. CASE StopAccepting("drain") \/ StopAccepting("retire")
        BY <2>1, <2>3 DEF StopAccepting, LifecycleCalls, Loading
    <2>4. CASE JoinWorker
        BY <2>1, <2>4 DEF JoinWorker, LifecycleCalls, NoLifecycle, Loading, DiskInv, HostConfigs
    <2> QED
        BY <2>2, <2>3, <2>4
<1>4. Dormant'
    BY <1>1, <1>2 DEF DiskInv, Dormant
<1>5. OneSaver(file)' /\ LastingCopies(file)' /\ Accounted(file)'
    BY <1>1 DEF DiskInv, OneSaver, LastingCopies, Lasting, Accounted
<1>6. HostConfigs' /\ FirstLoad(file)'
    BY <1>1, <1>3 DEF DiskInv, HostConfigs, FirstLoad
<1>7. CopiesBehind(file)'
    BY <1>1, <1>3 DEF DiskInv, CopiesBehind, Behind
<1> QED
    BY <1>4, <1>5, <1>6, <1>7 DEF DiskInv

\* The first swap after a start fills the cache with the file; a later one
\* changes nothing, since every state in memory is admitted and no state it
\* loaded is newer.
LEMMA SwappedCache ==
    ASSUME NEW file, OneFile(file), TypeInv, NormalInv, DiskInv(file), ConfigureSwap
    PROVE  current' = IF generation = 0 THEN disk[file] ELSE current
<1>1. /\ Loading /\ lifecycle.config \in Configs
      /\ generation # 0 => ClearSelections = {}
    <2>1. generation < MaxGeneration /\ MaxGeneration \in Nat /\ generation \in Nat
        BY LimitsAssumption, DiskTypes DEF TypeInv, LifecycleOrder, ConfigureSwap
    <2> QED
        BY <2>1 DEF ConfigureSwap, Loading, DiskInv, HostConfigs, OneFile
<1>2. current \in Caches /\ lifecycle.loaded \in Caches
    BY DiskTypes
<1>3. current' = [k \in Keys |->
          IF TakesOver(lifecycle.config, k, current[k], lifecycle.loaded[k])
          THEN current[k] ELSE lifecycle.loaded[k]]
    BY DEF ConfigureSwap
<1>4. CASE generation = 0
    <2>1. lifecycle.loaded = disk[file] /\ current = EmptyCache
        BY <1>1, <1>4 DEF DiskInv, FirstLoad, Dormant
    <2>2. \A k \in Keys : ~TakesOver(lifecycle.config, k, current[k], lifecycle.loaded[k])
        BY <2>1, NullNormal DEF TakesOver, Admissible, EmptyCache
    <2>3. current' = [k \in Keys |-> lifecycle.loaded[k]]
        BY <1>3, <2>2
    <2> QED
        BY <1>2, <1>4, <2>1, <2>3 DEF Caches
<1>5. CASE generation # 0
    <2>1. Behind(lifecycle.loaded, current) /\ Lasting(current)
        BY <1>1, <1>5, CacheLasts DEF DiskInv, CopiesBehind
    <2>2. ASSUME NEW k \in Keys
          PROVE  (IF TakesOver(lifecycle.config, k, current[k], lifecycle.loaded[k])
                  THEN current[k] ELSE lifecycle.loaded[k]) = current[k]
        <3>1. CASE NewerThan(current[k], lifecycle.loaded[k])
            <4>1. current[k] \in MaybeState /\ lifecycle.loaded[k] \in MaybeState
                BY <1>2 DEF Caches
            <4>2. Present(current[k])
                BY <3>1, <4>1, IssueTimes DEF NewerThan, Present
            <4> QED
                BY <1>1, <2>1, <3>1, <4>2 DEF TakesOver, Lasting
        <3>2. CASE current[k] = lifecycle.loaded[k]
            BY <3>2
        <3> QED
            BY <2>1, <3>1, <3>2 DEF Behind
    <2>3. current' = [k \in Keys |-> current[k]]
        BY <1>3, <2>2
    <2> QED
        BY <1>2, <1>5, <2>3 DEF Caches
<1> QED
    BY <1>4, <1>5

\* So a swap leaves the file as far behind as it was.
LEMMA ConfigureSwapDisk ==
    ASSUME NEW file, OneFile(file), TypeInv, NormalInv, DiskInv(file), ConfigureSwap
    PROVE  DiskInv(file)'
<1>1. UNCHANGED <<saving, savers, snapshot, disk, saveFailed>>
    BY DEF ConfigureSwap, lifeFrame, diskVars
<1>2. /\ generation' # 0 /\ config' \in Configs /\ lifecycle'.pc = "idle"
    BY DiskTypes DEF ConfigureSwap, NoLifecycle, DiskInv, HostConfigs, Loading
<1>3. Dormant' /\ HostConfigs' /\ FirstLoad(file)'
    BY <1>2 DEF Dormant, HostConfigs, FirstLoad, Loading
<1>4. OneSaver(file)' /\ LastingCopies(file)'
    BY <1>1 DEF DiskInv, OneSaver, LastingCopies, Lasting
<1>5. generation = 0 => savers = {}
    BY DiskTypes DEF DiskInv, Dormant
<1>6. CopiesBehind(file)'
    <2>1. CASE generation = 0
        BY <1>1, <1>2, <1>5, <2>1, SwappedCache DEF CopiesBehind, Behind, Loading
    <2>2. CASE generation # 0
        BY <1>1, <1>2, <2>2, SwappedCache DEF DiskInv, CopiesBehind, Behind, Loading
    <2> QED
        BY <2>1, <2>2
<1>7. Accounted(file)'
    <2>1. CASE generation = 0
        BY <1>1, <1>5, <2>1, SwappedCache DEF Accounted
    <2>2. CASE generation # 0
        BY <1>1, <2>2, SwappedCache DEF DiskInv, Accounted
    <2> QED
        BY <2>1, <2>2
<1> QED
    BY <1>3, <1>4, <1>6, <1>7 DEF DiskInv

\* A shutdown forgets requests, not states.
LEMMA ShutdownWipeDisk ==
    ASSUME NEW file, OneFile(file), TypeInv, DiskInv(file), ShutdownWipe
    PROVE  DiskInv(file)'
<1>1. UNCHANGED <<accepting, config, current, saving, savers, snapshot, disk, saveFailed>>
    BY DEF ShutdownWipe, lifeFrame, diskVars, cacheVars
<1>2. generation # 0 /\ generation' # 0 /\ lifecycle'.pc = "idle"
    BY DiskTypes DEF ShutdownWipe, NoLifecycle, DiskInv, HostConfigs
<1>3. Dormant' /\ HostConfigs' /\ FirstLoad(file)'
    BY <1>1, <1>2 DEF DiskInv, Dormant, HostConfigs, FirstLoad, Loading
<1>4. OneSaver(file)' /\ LastingCopies(file)' /\ Accounted(file)'
    BY <1>1, <1>2 DEF DiskInv, OneSaver, LastingCopies, Lasting, Accounted
<1>5. CopiesBehind(file)'
    BY <1>1, <1>2 DEF DiskInv, CopiesBehind, Behind, Loading
<1> QED
    BY <1>3, <1>4, <1>5 DEF DiskInv

\* A crash leaves the file and nothing else.
LEMMA CrashDisk ==
    ASSUME NEW file, DiskInv(file), Crash
    PROVE  DiskInv(file)'
<1>1. Dormant' /\ HostConfigs' /\ FirstLoad(file)' /\ CopiesBehind(file)' /\ Accounted(file)'
    BY DEF Crash, Dormant, HostConfigs, FirstLoad, CopiesBehind, Accounted, Loading, NoLifecycle
<1>2. OneSaver(file)'
    BY DEF Crash, OneSaver
<1>3. LastingCopies(file)'
    <2>1. \A c \in Callers : Lasting(snapshot'[c])
        BY EmptyLasts DEF Crash
    <2> QED
        BY <2>1 DEF Crash, DiskInv, LastingCopies, Lasting
<1> QED
    BY <1>1, <1>2, <1>3 DEF DiskInv

\* Every step keeps account of what the file lacks.
LEMMA NextDisk ==
    ASSUME NEW file, OneFile(file), TypeInv, TypeInv', NormalInv, DiskInv(file), [Next]_vars
    PROVE  DiskInv(file)'
<1>1. CASE WorkerStep \/ Tick \/ UNCHANGED vars
    <2>1. UNCHANGED diskView
        BY <1>1 DEF WorkerStep, WorkerLooks, WorkerCollect, WorkerNextJob, WorkerProbe, WorkerWakes,
           WorkerExits, workerFrame, Tick, vars, diskView, lifecycleVars, cacheVars
    <2> QED
        BY <2>1, DiskStill
<1>2. CASE \E c \in Callers : SaveStep(c)
    BY <1>2, SaveSnapshotDisk, SaveWriteDisk DEF SaveStep
<1>3. CASE LifecycleStep
    BY <1>3, ConfigureLoadDisk, LifecycleMovesDisk, ConfigureSwapDisk, ShutdownWipeDisk
       DEF LifecycleStep
<1> QED
    BY <1>1, <1>2, <1>3, RequestStepDisk, ProbeStepDisk, OperatorStepDisk, CrashDisk DEF Next

\* In every reachable state of such a host's plugin, when no save is under
\* way and the last one did not fail, the file holds the cache.
THEOREM FileCatchesUp ==
    ASSUME NEW file, OneFile(file)
    PROVE  Spec => []DiskCaughtUp
<1>1. Init => NormalInv
    BY InitNormal
<1>2. Init => DiskInv(file)
    BY InitDisk
<1>3. TypeInv /\ NormalInv /\ [Next]_vars => NormalInv'
    BY NextNormal
<1>4. TypeInv /\ TypeInv' /\ NormalInv /\ DiskInv(file) /\ [Next]_vars => DiskInv(file)'
    BY NextDisk
<1>5. TypeInv /\ DiskInv(file) => DiskCaughtUp
    <2> SUFFICES ASSUME TypeInv, DiskInv(file), accepting, config.stateFile # NoPath,
                        ~saveFailed, \A c \in Callers : saving[c] = NoPath
                 PROVE  disk[config.stateFile] = current
        BY DEF DiskCaughtUp
    <2>1. generation # 0
        BY DEF DiskInv, Dormant
    <2>2. config.stateFile = file /\ file # NoPath
        BY <2>1, NullAssumption DEF DiskInv, HostConfigs, OneFile
    <2>3. savers = {}
        BY DiskTypes
    <2> QED
        BY <2>1, <2>2, <2>3 DEF DiskInv, Accounted
<1> QED
    BY TypeInvariant, <1>1, <1>2, <1>3, <1>4, <1>5, PTL DEF Spec

=============================================================================
