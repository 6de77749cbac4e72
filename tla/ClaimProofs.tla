----------------------------- MODULE ClaimProofs ----------------------------
(***************************************************************************)
(* ClaimsExact and WorkerDrained for every value of the constants.         *)
(*                                                                         *)
(* A generation begins without claims, so it must begin without probes in  *)
(* flight: no probe may be of a generation still to come.  A shutdown      *)
(* begins a generation and leaves the claims, so it must find the plugin   *)
(* quiesced.  And the limit counts a finite set of claims.                 *)
(***************************************************************************)
EXTENDS PluginProofs, FiniteSetTheorems

\* No probe is of a generation still to come.
ProbesOfThePast == \A c \in Callers : probe[c].gen <= generation

\* A shutdown under way has stopped the plugin.
RetiresQuiesced == lifecycle.pc \in {"retire", "wipe"} => ~accepting

ClaimsBounded == IsFiniteSet(probing) /\ Cardinality(probing) <= ProbeLimit

\* ClaimsExact without its bound.
ClaimsMatch == accepting =>
    /\ probing = {probe[c].key : c \in InFlight}
    /\ \A c, d \in InFlight : c # d => probe[c].key # probe[d].key

ClaimInv == ProbesOfThePast /\ RetiresQuiesced /\ ClaimsBounded /\ ClaimsMatch

-----------------------------------------------------------------------------
(* What a step leaves alone, and the initial states. *)

\* Generations are numbers, and the null probe is of the first.
LEMMA ClaimNumbers ==
    ASSUME TypeInv
    PROVE  /\ generation \in Nat /\ NoProbe.gen = 0 /\ NoProbe.pc = "none"
           /\ probe \in [Callers -> Probes]
           /\ \A c \in Callers : probe[c].gen \in Nat
BY LimitsAssumption
   DEF TypeInv, TypeOK, LifecycleTypeOK, ProbeTypeOK, Probes, Generations, NoProbe

\* The parts of the invariant a step does not touch survive it.
LEMMA ClaimFrames ==
    ASSUME ClaimInv
    PROVE  /\ UNCHANGED <<generation, probe>> => ProbesOfThePast'
           /\ UNCHANGED <<lifecycle, accepting>> => RetiresQuiesced'
           /\ UNCHANGED probing => ClaimsBounded'
           /\ UNCHANGED <<accepting, generation, probe, probing>> => ClaimsMatch'
<1>1. UNCHANGED <<generation, probe>> => ProbesOfThePast'
    BY DEF ClaimInv, ProbesOfThePast
<1>2. UNCHANGED <<lifecycle, accepting>> => RetiresQuiesced'
    BY DEF ClaimInv, RetiresQuiesced
<1>3. UNCHANGED probing => ClaimsBounded'
    BY DEF ClaimInv, ClaimsBounded
<1>4. UNCHANGED <<accepting, generation, probe, probing>> => ClaimsMatch'
    BY DEF ClaimInv, ClaimsMatch, InFlight
<1> QED
    BY <1>1, <1>2, <1>3, <1>4

\* An empty set of claims is within the limit.
LEMMA NoClaims == IsFiniteSet({}) /\ Cardinality({}) <= ProbeLimit
BY FS_EmptySet, LimitsAssumption

\* newRuntimeState has no probe and no claim.
LEMMA InitClaims == Init => ClaimInv
<1> SUFFICES ASSUME Init PROVE ClaimInv
    OBVIOUS
<1>1. ProbesOfThePast /\ RetiresQuiesced /\ ClaimsMatch
    BY DEF Init, ProbesOfThePast, RetiresQuiesced, ClaimsMatch, NoProbe, NoLifecycle
<1>2. ClaimsBounded
    BY NoClaims DEF Init, ClaimsBounded
<1> QED
    BY <1>1, <1>2 DEF ClaimInv

-----------------------------------------------------------------------------
(* Claiming. *)

\* A caller at rest that is admitted adds its claim, of a key nobody else
\* has claimed, below the limit.
LEMMA EnsureProbeClaims ==
    ASSUME TypeInv, ClaimInv, UNCHANGED <<accepting, generation, lifecycle>>,
           NEW c \in Callers, AtRest(c), NEW key \in Keys, EnsureProbe(c, key)
    PROVE  ClaimInv'
<1>1. CASE UNCHANGED <<probeVars, resultVars>>
    BY <1>1, ClaimFrames DEF probeVars, ClaimInv
<1>2. CASE ProbeAdmitted(key) /\ ClaimProbe(c, key)
    <2>1. /\ \A d \in Callers \ {c} : probe'[d] = probe[d]
          /\ probe'[c].pc = "auth" /\ probe'[c].gen = generation /\ probe'[c].key = key
        BY <1>2, ClaimNumbers DEF ClaimProbe
    <2>2. /\ probing' = probing \cup {key}
          /\ key \notin probing /\ Cardinality(probing) < ProbeLimit
        BY <1>2 DEF ClaimProbe, ProbeAdmitted, Claimable
    <2>3. accepting
        BY <1>2 DEF ProbeAdmitted
    <2>4. ProbesOfThePast'
        BY <2>1, ClaimNumbers DEF ProbesOfThePast, ClaimInv
    <2>5. ClaimsBounded'
        <3>1. /\ IsFiniteSet(probing \cup {key})
              /\ Cardinality(probing \cup {key}) = Cardinality(probing) + 1
            BY <2>2, FS_AddElement DEF ClaimInv, ClaimsBounded
        <3>2. Cardinality(probing) \in Nat
            BY FS_CardinalityType DEF ClaimInv, ClaimsBounded
        <3> QED
            BY <2>2, <3>1, <3>2, LimitsAssumption DEF ClaimsBounded
    <2>6. InFlight' = InFlight \cup {c} /\ c \notin InFlight
        BY <2>1 DEF InFlight, AtRest
    <2>7. /\ probing = {probe[d].key : d \in InFlight}
          /\ \A d, e \in InFlight : d # e => probe[d].key # probe[e].key
        BY <2>3 DEF ClaimInv, ClaimsMatch
    <2>8. \A d \in InFlight : probe'[d].key = probe[d].key /\ probe[d].key # key
        BY <2>1, <2>2, <2>6, <2>7 DEF InFlight
    <2>9. probing' = {probe'[d].key : d \in InFlight'}
        BY <2>1, <2>2, <2>6, <2>7, <2>8
    <2>10. \A d, e \in InFlight' : d # e => probe'[d].key # probe'[e].key
        BY <2>1, <2>6, <2>7, <2>8
    <2>11. ClaimsMatch'
        BY <2>9, <2>10 DEF ClaimsMatch
    <2> QED
        BY <2>4, <2>5, <2>11, ClaimFrames DEF ClaimInv
<1> QED
    BY <1>1, <1>2 DEF EnsureProbe

\* Of the hooks only the one that probes does; its request is at rest then.
LEMMA RequestStepClaims ==
    ASSUME TypeInv, ClaimInv, NEW r \in Requests, RequestStep(r)
    PROVE  ClaimInv'
<1>1. UNCHANGED <<accepting, generation, lifecycle>>
    BY DEF RequestStep, NewRequest, RetryRequest, InterceptBegin, InterceptProbe,
       InterceptDecide, InterceptResponse, InterceptStreamFailure, Complete,
       hookFrame, lifecycleVars
<1>2. CASE UNCHANGED <<probe, probing>>
    BY <1>1, <1>2, ClaimFrames DEF ClaimInv
<1>3. CASE InterceptProbe(r)
    <2>1. call[r].key \in Keys /\ AtRest(r)
        BY <1>3 DEF InterceptProbe, TypeInv, HookOrder
    <2> QED
        BY <1>1, <1>3, <2>1, EnsureProbeClaims DEF InterceptProbe, Callers
<1> QED
    BY <1>2, <1>3
       DEF RequestStep, NewRequest, RetryRequest, InterceptBegin, InterceptDecide,
       InterceptResponse, InterceptStreamFailure, Complete, probeVars

\* The worker probes one job after another.
LEMMA WorkerStepClaims ==
    ASSUME TypeInv, ClaimInv, WorkerStep
    PROVE  ClaimInv'
<1> USE DEF WorkerStep, WorkerLooks, WorkerCollect, WorkerNextJob, WorkerProbe,
           WorkerWakes, WorkerExits
<1>1. UNCHANGED <<accepting, generation, lifecycle>>
    BY DEF workerFrame, lifecycleVars
<1>2. \/ UNCHANGED <<probe, probing>>
      \/ \E key \in Keys : AtRest(Worker) /\ EnsureProbe(Worker, key)
    <2>1. \A job \in jobs : job.key \in Keys
        BY DEF TypeInv, TypeOK, WorkerTypeOK, Jobs
    <2> QED
        BY <2>1 DEF probeVars
<1> QED
    BY <1>1, <1>2, EnsureProbeClaims, ClaimFrames DEF Callers, ClaimInv

\* So does the goroutine of a refresh call.
LEMMA OperatorStepClaims ==
    ASSUME TypeInv, ClaimInv, NEW o \in Operators, OperatorStep(o)
    PROVE  ClaimInv'
<1> USE DEF OperatorStep, RefreshAction, NudgeWorker, ManualProbe, ClearAction, panelFrame
<1>1. UNCHANGED <<accepting, generation, lifecycle>>
    BY DEF lifecycleVars
<1>2. \/ UNCHANGED <<probe, probing>>
      \/ \E key \in Keys : AtRest(o) /\ EnsureProbe(o, key)
    <2>1. todo[o] \subseteq Keys
        BY DEF TypeInv, TypeOK, OperatorTypeOK
    <2> QED
        BY <2>1 DEF probeVars
<1> QED
    BY <1>1, <1>2, EnsureProbeClaims, ClaimFrames DEF Callers, ClaimInv

-----------------------------------------------------------------------------
(* Releasing. *)

\* A step that leaves every caller's progress in or out of flight, and its
\* key, leaves the claims exact.
LEMMA SameFlights ==
    ASSUME ClaimInv, UNCHANGED <<accepting, generation, lifecycle, probing>>,
           InFlight' = InFlight,
           \A c \in Callers : probe'[c].gen <= generation,
           \A c \in InFlight : probe'[c].key = probe[c].key
    PROVE  ClaimInv'
<1>1. ProbesOfThePast'
    BY DEF ProbesOfThePast
<1>2. ClaimsMatch'
    <2> SUFFICES ASSUME accepting
                 PROVE  /\ probing = {probe'[c].key : c \in InFlight}
                        /\ \A c, d \in InFlight : c # d => probe'[c].key # probe'[d].key
        BY DEF ClaimsMatch
    <2> QED
        BY DEF ClaimInv, ClaimsMatch
<1> QED
    BY <1>1, <1>2, ClaimFrames DEF ClaimInv

\* A probe keeps its claim until its commit, which gives back exactly its
\* own, and nothing if its generation is over.
LEMMA ProbeStepClaims ==
    ASSUME TypeInv, ClaimInv, NEW c \in Callers, ProbeStep(c)
    PROVE  ClaimInv'
<1>1. UNCHANGED <<accepting, generation, lifecycle>>
    BY DEF ProbeStep, ProbeAuth, ProbeNext, ProbeFails, ProbeFetched, ProbeCommit,
       probeFrame, lifecycleVars
<1>2. probe \in [Callers -> Probes] /\ probe[c].gen <= generation
    BY ClaimNumbers DEF ClaimInv, ProbesOfThePast
<1>3. CASE ~ProbeCommit(c)
    <2>1. /\ \A d \in Callers \ {c} : probe'[d] = probe[d]
          /\ probe'[c].key = probe[c].key /\ probe'[c].gen = probe[c].gen
          /\ probe[c].pc \in {"auth", "loop", "fetch"}
          /\ probe'[c].pc \in {"loop", "fetch", "commit"}
          /\ UNCHANGED probing
        <3>1. CASE ProbeAuth(c)
            BY <1>2, <3>1 DEF ProbeAuth, Probes
        <3>2. CASE ProbeNext(c)
            BY <1>2, <3>2 DEF ProbeNext, Probes
        <3>3. CASE \E outcome \in FetchOutcomes : ProbeFails(c, outcome)
            BY <1>2, <3>3 DEF ProbeFails, Probes
        <3>4. CASE \E state \in IssuedTo(probe[c].key) : ProbeFetched(c, state)
            BY <1>2, <3>4 DEF ProbeFetched, Probes
        <3> QED
            BY <1>3, <3>1, <3>2, <3>3, <3>4 DEF ProbeStep
    <2>2. InFlight' = InFlight
        BY <1>1, <2>1 DEF InFlight
    <2>3. /\ \A d \in Callers : probe'[d].gen <= generation
          /\ \A d \in Callers : probe'[d].key = probe[d].key
        BY <2>1, <1>2 DEF ClaimInv, ProbesOfThePast
    <2> QED
        BY <1>1, <2>1, <2>2, <2>3, SameFlights DEF InFlight
<1>4. CASE ProbeCommit(c)
    <2>1. /\ \A d \in Callers \ {c} : probe'[d] = probe[d]
          /\ probe[c].pc = "commit"
          /\ probe'[c].pc \in {"none", "save"}
          /\ probe'[c].gen <= generation
        BY <1>2, <1>4, ClaimNumbers DEF ProbeCommit, PromoteFound, Probes
    <2>2. \A d \in Callers : probe'[d].gen <= generation
        BY <2>1 DEF ClaimInv, ProbesOfThePast
    <2>3. InFlight' = InFlight \ {c}
        BY <1>1, <2>1 DEF InFlight
    <2>4. CASE ~OwnGeneration(probe[c])
        <3>1. UNCHANGED probing /\ c \notin InFlight
            BY <1>4, <2>4 DEF ProbeCommit, OwnGeneration, InFlight
        <3>2. \A d \in InFlight : probe'[d].key = probe[d].key
            BY <2>1, <3>1 DEF InFlight
        <3> QED
            BY <1>1, <2>2, <2>3, <3>1, <3>2, SameFlights
    <2>5. CASE OwnGeneration(probe[c])
        <3>1. probing' = probing \ {probe[c].key} /\ c \in InFlight
            BY <1>4, <2>5 DEF ProbeCommit, ReleaseClaim, OwnGeneration, InFlight
        <3>2. ClaimsBounded'
            <4>1. IsFiniteSet(probing) /\ Cardinality(probing) \in Nat
                BY FS_CardinalityType DEF ClaimInv, ClaimsBounded
            <4>2. /\ IsFiniteSet(probing \ {probe[c].key})
                  /\ Cardinality(probing \ {probe[c].key})
                         \in {Cardinality(probing) - 1, Cardinality(probing)}
                BY <4>1, FS_RemoveElement
            <4>3. Cardinality(probing) <= ProbeLimit
                BY DEF ClaimInv, ClaimsBounded
            <4>4. Cardinality(probing \ {probe[c].key}) <= ProbeLimit
                BY <4>1, <4>2, <4>3, LimitsAssumption
            <4> QED
                BY <3>1, <4>2, <4>4 DEF ClaimsBounded
        <3>3. ASSUME accepting
              PROVE  /\ probing' = {probe'[d].key : d \in InFlight'}
                     /\ \A d, e \in InFlight' : d # e => probe'[d].key # probe'[e].key
            <4>1. /\ probing = {probe[d].key : d \in InFlight}
                  /\ \A d, e \in InFlight : d # e => probe[d].key # probe[e].key
                BY <3>3 DEF ClaimInv, ClaimsMatch
            <4>2. \A d \in InFlight' : /\ d \in InFlight /\ d # c
                                       /\ probe'[d].key = probe[d].key
                BY <2>1, <2>3 DEF InFlight
            <4>3. {probe'[d].key : d \in InFlight'} = {probe[d].key : d \in InFlight \ {c}}
                BY <2>3, <4>2
            <4>4. {probe[d].key : d \in InFlight \ {c}} = probing \ {probe[c].key}
                BY <3>1, <4>1
            <4>5. probing' = {probe'[d].key : d \in InFlight'}
                BY <3>1, <4>3, <4>4
            <4>6. \A d, e \in InFlight' : d # e => probe'[d].key # probe'[e].key
                BY <4>1, <4>2
            <4> QED
                BY <4>5, <4>6
        <3>4. ClaimsMatch'
            BY <1>1, <3>3 DEF ClaimsMatch
        <3>5. ProbesOfThePast'
            BY <1>1, <2>2 DEF ProbesOfThePast
        <3> QED
            BY <1>1, <3>2, <3>4, <3>5, ClaimFrames DEF ClaimInv
    <2> QED
        BY <2>4, <2>5
<1> QED
    BY <1>3, <1>4

\* A probe that saves has given its claim back already.
LEMMA SaveStepClaims ==
    ASSUME TypeInv, ClaimInv, NEW c \in Callers, SaveStep(c)
    PROVE  ClaimInv'
<1>1. UNCHANGED <<accepting, generation, lifecycle, probing>>
    BY DEF SaveStep, SaveSnapshot, SaveWrite, saveFrame, lifecycleVars
<1>2. \/ UNCHANGED probe
      \/ probe[c].pc = "save" /\ probe' = [probe EXCEPT ![c] = NoProbe]
    BY DEF SaveStep, SaveSnapshot, SaveWrite, SaveReturns
<1>3. CASE UNCHANGED probe
    BY <1>1, <1>3, ClaimFrames DEF ClaimInv
<1>4. CASE probe[c].pc = "save" /\ probe' = [probe EXCEPT ![c] = NoProbe]
    <2>1. \A d \in Callers \ {c} : probe'[d] = probe[d]
        BY <1>4, ClaimNumbers
    <2>2. probe'[c] = NoProbe
        BY <1>4, ClaimNumbers
    <2>3. InFlight' = InFlight /\ c \notin InFlight
        BY <1>1, <1>4, <2>1, <2>2, ClaimNumbers DEF InFlight
    <2>4. \A d \in Callers : probe'[d].gen <= generation
        BY <2>1, <2>2, ClaimNumbers DEF ClaimInv, ProbesOfThePast
    <2>5. \A d \in InFlight : probe'[d].key = probe[d].key
        BY <2>1, <2>3 DEF InFlight
    <2> QED
        BY <1>1, <2>3, <2>4, <2>5, SameFlights
<1> QED
    BY <1>2, <1>3, <1>4

-----------------------------------------------------------------------------
(* Lifecycle, crash, and the theorem. *)

\* A new generation starts with no claim and finds no probe of its own; a
\* shutdown finds the plugin quiesced.
LEMMA LifecycleStepClaims ==
    ASSUME TypeInv, ClaimInv, LifecycleStep
    PROVE  ClaimInv'
<1>1. UNCHANGED probe
    BY DEF LifecycleStep, ConfigureLoad, ConfigureCancel, StopAccepting, JoinWorker,
       ConfigureSwap, ShutdownWipe, stopFrame, lifeFrame
<1>2. lifecycle \in LifecycleCalls
    BY DEF TypeInv, TypeOK, LifecycleTypeOK
<1>3. CASE ConfigureSwap
    <2>1. ProbesOfThePast'
        BY <1>1, <1>3, ClaimNumbers DEF ConfigureSwap, ClaimInv, ProbesOfThePast
    <2>2. RetiresQuiesced'
        BY <1>3 DEF ConfigureSwap, RetiresQuiesced, NoLifecycle
    <2>3. ClaimsBounded'
        BY <1>3, NoClaims DEF ConfigureSwap, ClaimsBounded
    <2>4. \A c \in Callers : probe[c].gen # generation'
        BY <1>3, ClaimNumbers DEF ConfigureSwap, ClaimInv, ProbesOfThePast
    <2>5. InFlight' = {}
        BY <1>1, <2>4 DEF InFlight
    <2>6. ClaimsMatch'
        BY <1>3, <2>5 DEF ConfigureSwap, ClaimsMatch
    <2> QED
        BY <2>1, <2>2, <2>3, <2>6 DEF ClaimInv
<1>4. CASE ShutdownWipe
    <2>1. generation' = generation + 1 /\ UNCHANGED <<accepting, probing>> /\ ~accepting
        BY <1>4 DEF ShutdownWipe, ClaimInv, RetiresQuiesced
    <2>2. ProbesOfThePast'
        BY <1>1, <2>1, ClaimNumbers DEF ClaimInv, ProbesOfThePast
    <2>3. RetiresQuiesced' /\ ClaimsMatch'
        BY <2>1 DEF RetiresQuiesced, ClaimsMatch
    <2> QED
        BY <2>1, <2>2, <2>3, ClaimFrames DEF ClaimInv
<1>5. CASE ~ConfigureSwap /\ ~ShutdownWipe
    <2>1. UNCHANGED <<generation, probing>> /\ (accepting' => accepting)
        BY <1>5 DEF LifecycleStep, ConfigureLoad, ConfigureCancel, StopAccepting, JoinWorker,
           stopFrame
    <2>2. RetiresQuiesced'
        <3>1. CASE \E cfg \in Configs : ConfigureLoad(cfg)
            BY <3>1 DEF ConfigureLoad, RetiresQuiesced
        <3>2. CASE ConfigureCancel
            BY <1>2, <3>2 DEF ConfigureCancel, RetiresQuiesced, LifecycleCalls
        <3>3. CASE StopAccepting("drain") \/ StopAccepting("retire")
            BY <3>3 DEF StopAccepting, RetiresQuiesced
        <3>4. CASE JoinWorker
            BY <1>2, <3>4
               DEF JoinWorker, RetiresQuiesced, ClaimInv, LifecycleCalls, NoLifecycle
        <3> QED
            BY <1>5, <3>1, <3>2, <3>3, <3>4 DEF LifecycleStep
    <2>3. ClaimsMatch'
        <3>1. CASE accepting'
            BY <1>1, <2>1, <3>1 DEF ClaimsMatch, ClaimInv, InFlight
        <3>2. CASE ~accepting'
            BY <3>2 DEF ClaimsMatch
        <3> QED
            BY <3>1, <3>2
    <2> QED
        BY <1>1, <2>1, <2>2, <2>3, ClaimFrames DEF ClaimInv
<1> QED
    BY <1>3, <1>4, <1>5

\* A crash leaves no probe and no claim.
LEMMA CrashClaims ==
    ASSUME Crash
    PROVE  ClaimInv'
<1>1. ProbesOfThePast' /\ RetiresQuiesced' /\ ClaimsMatch'
    BY DEF Crash, ProbesOfThePast, RetiresQuiesced, ClaimsMatch, NoProbe, NoLifecycle
<1>2. ClaimsBounded'
    BY NoClaims DEF Crash, ClaimsBounded
<1> QED
    BY <1>1, <1>2 DEF ClaimInv

\* Every step keeps the claims and the probes in flight in agreement.
LEMMA NextClaims == TypeInv /\ ClaimInv /\ [Next]_vars => ClaimInv'
<1> SUFFICES ASSUME TypeInv, ClaimInv, [Next]_vars PROVE ClaimInv'
    OBVIOUS
<1>1. CASE Tick \/ UNCHANGED vars
    <2>1. UNCHANGED <<accepting, generation, lifecycle, probe, probing>>
        BY <1>1 DEF Tick, vars, lifecycleVars, probeVars
    <2> QED
        BY <2>1, ClaimFrames DEF ClaimInv
<1> QED
    BY <1>1, RequestStepClaims, ProbeStepClaims, SaveStepClaims, OperatorStepClaims,
       WorkerStepClaims, LifecycleStepClaims, CrashClaims DEF Next

\* In every reachable state of a plugin that accepts, the claims are exactly
\* the probes in flight of its generation, one per key, within the limit.
THEOREM ClaimsStayExact == Spec => []ClaimsExact
<1>1. Init => ClaimInv
    BY InitClaims
<1>2. TypeInv /\ ClaimInv /\ [Next]_vars => ClaimInv'
    BY NextClaims
<1>3. ClaimInv => ClaimsExact
    BY DEF ClaimInv, ClaimsBounded, ClaimsMatch, ClaimsExact
<1> QED
    BY TypeInvariant, <1>1, <1>2, <1>3, PTL DEF Spec

-----------------------------------------------------------------------------
(***************************************************************************)
(* WorkerDrained.  The join only waits for the worker itself, so the       *)
(* invariant adds that a worker that has exited has neither a probe nor a  *)
(* save left.                                                              *)
(***************************************************************************)

\* When a lifecycle call has joined the worker and none runs since.
Joined == lifecycle.pc \in {"swap", "wipe"} \/ (lifecycle.pc = "idle" /\ ~accepting)

GoneAtRest == worker \in {"none", "exited"} => AtRest(Worker)

DrainInv == GoneAtRest /\ (Joined => worker = "none")

\* A step of somebody else that does not touch the worker or the lifecycle
\* keeps the invariant.
LEMMA DrainFrame ==
    ASSUME DrainInv, UNCHANGED <<worker, lifecycle, accepting>>,
           worker \in {"none", "exited"} => AtRest(Worker)'
    PROVE  DrainInv'
BY DEF DrainInv, GoneAtRest, Joined

\* newRuntimeState has no worker.
LEMMA InitDrained == Init => DrainInv
BY DEF Init, DrainInv, GoneAtRest, AtRest, NoProbe, Callers

\* Hooks probe and save for their own request.
LEMMA RequestStepDrained ==
    ASSUME TypeInv, DrainInv, NEW r \in Requests, RequestStep(r)
    PROVE  DrainInv'
<1>1. UNCHANGED <<worker, lifecycle, accepting>>
    BY DEF RequestStep, NewRequest, RetryRequest, InterceptBegin, InterceptProbe,
       InterceptDecide, InterceptResponse, InterceptStreamFailure, Complete,
       hookFrame, lifecycleVars, workerVars
<1>2. r # Worker
    BY CallersAssumption
<1>3. probe'[Worker] = probe[Worker]
    <2>1. UNCHANGED probe \/ \E key : EnsureProbe(r, key)
        BY DEF RequestStep, NewRequest, RetryRequest, InterceptBegin, InterceptProbe,
           InterceptDecide, InterceptResponse, InterceptStreamFailure, Complete, probeVars
    <2> QED
        BY <1>2, <2>1 DEF EnsureProbe, ClaimProbe, probeVars, TypeInv, TypeOK, ProbeTypeOK,
           Callers
<1>4. saving'[Worker] = saving[Worker]
    <2>1. UNCHANGED saving \/ saving' = [saving EXCEPT ![r] = config.stateFile]
        BY DEF RequestStep, NewRequest, RetryRequest, InterceptBegin, InterceptProbe,
           InterceptDecide, InterceptResponse, InterceptStreamFailure, Complete
    <2> QED
        BY <1>2, <2>1 DEF TypeInv, TypeOK, DiskTypeOK, Callers
<1> QED
    BY <1>1, <1>3, <1>4, DrainFrame DEF DrainInv, GoneAtRest, AtRest

\* A probe goes on for its own caller, and one at rest has none.
LEMMA ProbeStepDrained ==
    ASSUME TypeInv, DrainInv, NEW c \in Callers, ProbeStep(c)
    PROVE  DrainInv'
<1> USE DEF ProbeStep, ProbeAuth, ProbeNext, ProbeFails, ProbeFetched, ProbeCommit
<1>1. UNCHANGED <<worker, lifecycle, accepting>>
    BY DEF probeFrame, lifecycleVars, workerVars
<1>2. probe[c].pc # "none"
    OBVIOUS
<1>3. /\ probe \in [Callers -> Probes] /\ saving \in [Callers -> Paths \cup {NoPath}]
      /\ Worker \in Callers
    BY DEF TypeInv, TypeOK, ProbeTypeOK, DiskTypeOK, Callers
<1>4. CASE c = Worker
    BY <1>1, <1>2, <1>4, DrainFrame DEF DrainInv, GoneAtRest, AtRest
<1>5. CASE c # Worker
    <2>1. probe'[Worker] = probe[Worker]
        BY <1>3, <1>5 DEF PromoteFound
    <2>2. saving'[Worker] = saving[Worker]
        BY <1>3, <1>5 DEF PromoteFound
    <2> QED
        BY <1>1, <2>1, <2>2, DrainFrame DEF DrainInv, GoneAtRest, AtRest
<1> QED
    BY <1>4, <1>5

\* A save ends for its own caller, and one at rest has none to make.
LEMMA SaveStepDrained ==
    ASSUME TypeInv, DrainInv, NEW c \in Callers, SaveStep(c)
    PROVE  DrainInv'
<1>1. UNCHANGED <<worker, lifecycle, accepting>>
    BY DEF SaveStep, SaveSnapshot, SaveWrite, saveFrame, lifecycleVars, workerVars
<1>2. saving[c] # NoPath
    BY DEF SaveStep, SaveSnapshot, SaveWrite, TypeInv, TypeOK, DiskTypeOK
<1>3. UNCHANGED <<probe, saving>> \/ \E failed : SaveReturns(c, failed)
    BY DEF SaveStep, SaveSnapshot, SaveWrite
<1>4. CASE c = Worker
    BY <1>1, <1>2, <1>4, DrainFrame DEF DrainInv, GoneAtRest, AtRest
<1>5. CASE c # Worker
    <2>1. probe'[Worker] = probe[Worker] /\ saving'[Worker] = saving[Worker]
        BY <1>3, <1>5 DEF SaveReturns, TypeInv, TypeOK, ProbeTypeOK, DiskTypeOK, Callers
    <2> QED
        BY <1>1, <2>1, DrainFrame DEF DrainInv, GoneAtRest, AtRest
<1> QED
    BY <1>4, <1>5

\* A worker that runs probes; it exits only at rest, and never starts again.
LEMMA WorkerStepDrained ==
    ASSUME TypeInv, DrainInv, WorkerStep
    PROVE  DrainInv'
<1> USE DEF WorkerStep, WorkerLooks, WorkerCollect, WorkerNextJob, WorkerProbe,
           WorkerWakes, WorkerExits
<1>1. /\ UNCHANGED <<lifecycle, accepting, saving>>
      /\ worker \in {"check", "collect", "jobs", "probe", "wait"}
    BY DEF workerFrame, lifecycleVars
<1>2. ~Joined /\ ~Joined'
    BY <1>1 DEF DrainInv, Joined
<1>3. CASE worker' = "exited"
    <2>1. AtRest(Worker)'
        BY <1>3 DEF probeVars, AtRest, workerFrame
    <2> QED
        BY <1>2, <2>1 DEF DrainInv, GoneAtRest
<1>4. CASE worker' # "exited"
    <2>1. worker' \in {"check", "collect", "jobs", "probe", "wait"}
        BY <1>4
    <2> QED
        BY <1>2, <2>1 DEF DrainInv, GoneAtRest
<1> QED
    BY <1>3, <1>4

\* The panel probes and saves for its own operators.
LEMMA OperatorStepDrained ==
    ASSUME TypeInv, DrainInv, NEW o \in Operators, OperatorStep(o)
    PROVE  DrainInv'
<1> USE DEF OperatorStep, RefreshAction, NudgeWorker, ManualProbe, ClearAction, panelFrame
<1>1. UNCHANGED <<worker, lifecycle, accepting>>
    BY DEF lifecycleVars, workerVars
<1>2. o # Worker
    BY CallersAssumption
<1>3. probe'[Worker] = probe[Worker]
    <2>1. UNCHANGED probe \/ \E key : EnsureProbe(o, key)
        OBVIOUS
    <2> QED
        BY <1>2, <2>1 DEF EnsureProbe, ClaimProbe, probeVars, TypeInv, TypeOK, ProbeTypeOK,
           Callers
<1>4. saving'[Worker] = saving[Worker]
    BY <1>2 DEF TypeInv, TypeOK, DiskTypeOK, Callers
<1> QED
    BY <1>1, <1>3, <1>4, DrainFrame DEF DrainInv, GoneAtRest, AtRest

\* A lifecycle call goes past its join only without a worker, and starts one
\* only in a plugin that accepts.
LEMMA LifecycleStepDrained ==
    ASSUME TypeInv, DrainInv, LifecycleStep
    PROVE  DrainInv'
<1>1. UNCHANGED <<probe, saving>>
    BY DEF LifecycleStep, ConfigureLoad, ConfigureCancel, StopAccepting, JoinWorker,
       ConfigureSwap, ShutdownWipe, stopFrame, lifeFrame
<1>2. AtRest(Worker)' <=> AtRest(Worker)
    BY <1>1 DEF AtRest
<1>3. lifecycle \in LifecycleCalls
    BY DEF TypeInv, TypeOK, LifecycleTypeOK
<1>4. CASE \E cfg \in Configs : ConfigureLoad(cfg)
    BY <1>2, <1>4 DEF ConfigureLoad, DrainInv, GoneAtRest, Joined
<1>5. CASE ConfigureCancel
    BY <1>2, <1>3, <1>5 DEF ConfigureCancel, DrainInv, GoneAtRest, Joined, LifecycleCalls
<1>6. CASE StopAccepting("drain") \/ StopAccepting("retire")
    BY <1>2, <1>3, <1>6 DEF StopAccepting, DrainInv, GoneAtRest, Joined, LifecycleCalls
<1>7. CASE JoinWorker
    BY <1>2, <1>7 DEF JoinWorker, WorkerEnded, DrainInv, GoneAtRest
<1>8. CASE ConfigureSwap
    <2>1. AtRest(Worker)
        BY <1>8 DEF ConfigureSwap, DrainInv, GoneAtRest, Joined
    <2>2. Joined' => worker' = "none"
        BY <1>8 DEF ConfigureSwap, StartsWorker, Joined, NoLifecycle
    <2> QED
        BY <1>2, <2>1, <2>2 DEF DrainInv, GoneAtRest
<1>9. CASE ShutdownWipe
    BY <1>2, <1>9 DEF ShutdownWipe, DrainInv, GoneAtRest, Joined
<1> QED
    BY <1>4, <1>5, <1>6, <1>7, <1>8, <1>9 DEF LifecycleStep

\* Every step keeps a worker that has gone at rest.
LEMMA NextDrained == TypeInv /\ DrainInv /\ [Next]_vars => DrainInv'
<1> SUFFICES ASSUME TypeInv, DrainInv, [Next]_vars PROVE DrainInv'
    OBVIOUS
<1>1. CASE Tick \/ UNCHANGED vars
    <2>1. UNCHANGED <<worker, lifecycle, accepting, probe, saving>>
        BY <1>1 DEF Tick, vars, workerVars, lifecycleVars, probeVars
    <2> QED
        BY <2>1, DrainFrame DEF DrainInv, GoneAtRest, AtRest
<1>2. CASE Crash
    BY <1>2 DEF Crash, DrainInv, GoneAtRest, AtRest, NoProbe, Callers
<1> QED
    BY <1>1, <1>2, RequestStepDrained, ProbeStepDrained, SaveStepDrained,
       OperatorStepDrained, WorkerStepDrained, LifecycleStepDrained DEF Next

\* In every reachable state in which a lifecycle call has joined the worker
\* and the plugin stays quiesced, no worker runs, probes or saves.
THEOREM WorkerStaysDrained == Spec => []WorkerDrained
<1>1. Init => DrainInv
    BY InitDrained
<1>2. TypeInv /\ DrainInv /\ [Next]_vars => DrainInv'
    BY NextDrained
<1>3. DrainInv => WorkerDrained
    BY DEF DrainInv, GoneAtRest, Joined, WorkerDrained
<1> QED
    BY TypeInvariant, <1>1, <1>2, <1>3, PTL DEF Spec

=============================================================================
