-------------------------- MODULE BackgroundWorker --------------------------
(***************************************************************************)
(* refreshLoop and refreshDue of refresh.go: every round the worker        *)
(* collects the keys whose refresh is due and probes them one after        *)
(* another, then waits for its ticker, a wake-up or the end of its         *)
(* generation's context.                                                   *)
(***************************************************************************)
EXTENDS ProbeEngine

workerFrame == <<now, lifecycleVars, cacheVars, requestVars, blockVars,
                 refreshRequests, operatorVars, saving, diskVars>>

\* The round's jobs: known or asked-for keys whose time has come.
DueJobs == {[key |-> k, due |-> NextRefresh(k)] :
               k \in {k \in Keys : /\ Present(current[k]) \/ refreshRequests[k] # "none"
                                   /\ now >= NextRefresh(k)}}

\* The head of refreshLoop: the worker looks at its context, and only then
\* enters refreshDue.
WorkerLooks ==
    /\ worker = "check"
    /\ worker' = IF ctxLive THEN "collect" ELSE "exited"
    /\ UNCHANGED <<workerFrame, jobs, probeVars, resultVars, wake>>

WorkerCollect ==
    /\ worker = "collect"
    /\ MutexFree
    /\ jobs' = DueJobs
    /\ worker' = "jobs"
    /\ UNCHANGED <<workerFrame, probeVars, resultVars, wake>>

\* The head of the loop over the jobs: the round ends with its jobs or with
\* the context.
WorkerNextJob ==
    /\ worker = "jobs"
    /\ IF jobs = {} \/ ~ctxLive
       THEN worker' = "wait" /\ jobs' = {}
       ELSE worker' = "probe" /\ UNCHANGED jobs
    /\ UNCHANGED <<workerFrame, probeVars, resultVars, wake>>

\* ensureProbe of the most overdue job, which looks at the context again.
WorkerProbe ==
    /\ worker = "probe"
    /\ MutexFree
    /\ \E job \in jobs :
          /\ \A other \in jobs : job.due <= other.due
          /\ jobs' = jobs \ {job}
          /\ EnsureProbe(Worker, job.key)
    /\ worker' = "jobs"
    /\ UNCHANGED <<workerFrame, wake>>

\* Mutant: no ticker, only wake-ups start a round.
WorkerWokenOnly ==
    /\ worker = "wait"
    /\ wake
    /\ worker' = "check"
    /\ wake' = FALSE
    /\ UNCHANGED <<workerFrame, jobs, probeVars, resultVars>>

\* The select of refreshLoop: the ticker, or a wake-up taken off the channel,
\* which may win against a context that has ended.
WorkerWakes ==
    /\ worker = "wait"
    /\ worker' = "check"
    /\ wake' \in {wake, FALSE}
    /\ UNCHANGED <<workerFrame, jobs, probeVars, resultVars>>

WorkerExits ==
    /\ worker = "wait"
    /\ ~ctxLive
    /\ worker' = "exited"
    /\ UNCHANGED <<workerFrame, jobs, probeVars, resultVars, wake>>

\* The worker is one goroutine: while its probe is under way it is in there.
WorkerStep ==
    /\ AtRest(Worker)
    /\ \/ WorkerLooks \/ WorkerCollect \/ WorkerNextJob \/ WorkerProbe
       \/ WorkerWakes \/ WorkerExits

=============================================================================
