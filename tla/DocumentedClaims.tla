-------------------------- MODULE DocumentedClaims --------------------------
(***************************************************************************)
(* Statements of the repository's documentation, comments and tests about  *)
(* the plugin that the code does not live up to.  Each is checked by a run *)
(* that is expected to find it violated.                                   *)
(***************************************************************************)
EXTENDS Plugin

\* TestProbeConcurrentSingleflightAndReconfigure, probe_test.go: an old probe
\* does not contaminate the new generation.  It does not commit, but on its way to the
\* commit ensureProbe writes the account and proxy cooldowns of whatever
\* generation it finds, for an account or a pool entry the old generation saw
\* fail.
OldProbeContained ==
    [][\A c \in Callers :
          /\ probe'[c] # probe[c] /\ probe[c].gen # generation
          /\ probe[c].pc # "none" /\ generation' = generation /\ accepting
          => UNCHANGED <<current, probing, probeResults, blockedUntil,
                         accountBlockedUntil, proxyBlockedUntil>>]_vars

\* README.md: a maximum of four account/model probes run concurrently.
\* configure forgets the claims of the probes requests and refresh calls
\* started; only the worker's is joined.
ProbesBounded ==
    Cardinality({c \in Callers : probe[c].pc \in {"auth", "loop", "fetch"}}) <= ProbeLimit

\* The comment on clearAction: the default scope only removes entries that
\* can no longer be injected.  For runs whose clears all have that scope.
\* interceptAfter also injects a state whose model is in scope only by the
\* client's alias, and, with inject_expired, one that has expired.
ClearKeepsInjectable ==
    [][\A k \in Keys :
          (/\ Present(current[k]) /\ ~Present(current'[k])
           /\ accepting /\ generation' = generation)
          => ~ \E alias \in {{}} \cup {{m} : m \in Aliases} :
                   InScope(k, alias) /\ Injectable(k)]_vars

\* README_CN.md: next_refresh_at is the next time a refresh can be attempted,
\* cooldown and quota backoff taken into account.  nextRefreshLocked leaves
\* out the backoff of the account that a sibling model's probe has set.
NextRefreshAttemptable ==
    accepting => \A k \in Keys \ probing : now >= NextRefresh(k) => ~Cooling(k)

=============================================================================
