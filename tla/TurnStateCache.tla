--------------------------- MODULE TurnStateCache ---------------------------
(***************************************************************************)
(* What the plugin promises its host, apart from how it goes about it: a   *)
(* store with one state per account and model, every operation of which is *)
(* one step.  States come from upstream, at any time, and only the newer   *)
(* replaces the older; a request is answered with what the store holds for *)
(* its own account and model at that moment.  There are no probes, staged  *)
(* candidates, saves or generations here: Plugin implements this module.   *)
(***************************************************************************)
EXTENDS TurnState

CONSTANT Requests   \* requests the host serves

VARIABLES
    cache,      \* the state of each key
    rules,      \* the configuration in force
    serving,    \* whether states are taken in and handed out
    asked,      \* the key of each request's attempt, if it has one
    answer      \* the state it was given, until upstream has responded

cacheVars == <<cache, rules, serving, asked, answer>>

\* A state that belongs to the key and that the rules call normal.
Fits(cfg, key, state) ==
    LET policy == CredentialFor(cfg, AuthOf(key))
    IN  /\ state \in States
        /\ state.origin = key
        /\ policy.listed
        /\ NormalBlockCount(policy, state.blocks)

Init ==
    /\ cache = EmptyCache
    /\ rules = ZeroConfig
    /\ serving = FALSE
    /\ asked = [r \in Requests |-> NoKey]
    /\ answer = [r \in Requests |-> NoState]

-----------------------------------------------------------------------------
\* The host begins an attempt of a request.
Ask(r, key) ==
    /\ asked' = [asked EXCEPT ![r] = key]
    /\ answer' = [answer EXCEPT ![r] = NoState]
    /\ UNCHANGED <<cache, rules, serving>>

\* The attempt is given the state of its key.
Answer(r) ==
    /\ serving
    /\ asked[r] \in Keys
    /\ Present(cache[asked[r]])
    /\ answer' = [answer EXCEPT ![r] = cache[asked[r]]]
    /\ UNCHANGED <<cache, rules, serving, asked>>

\* Upstream has responded to the attempt.
Respond(r) ==
    /\ answer' = [answer EXCEPT ![r] = NoState]
    /\ UNCHANGED <<cache, rules, serving, asked>>

\* A newer state of the key takes the place of the one there.
Replace(key, state) ==
    /\ serving
    /\ Fits(rules, key, state)
    /\ NewerThan(state, cache[key])
    /\ cache' = [cache EXCEPT ![key] = state]

\* The request is over; its success may hand over a state, for its own key.
Finish(r) ==
    /\ asked' = [asked EXCEPT ![r] = NoKey]
    /\ answer' = [answer EXCEPT ![r] = NoState]
    /\ \/ UNCHANGED cache
       \/ asked[r] \in Keys /\ \E state \in States : Replace(asked[r], state)
    /\ UNCHANGED <<rules, serving>>

\* The plugin has fetched a state on its own account.
Fetch(key) ==
    /\ \E state \in States : Replace(key, state)
    /\ UNCHANGED <<rules, serving, asked, answer>>

\* The operator drops the states of some keys.
Clear(dropped) ==
    /\ cache' = [k \in Keys |-> IF k \in dropped THEN NoState ELSE cache[k]]
    /\ UNCHANGED <<rules, serving, asked, answer>>

Stop ==
    /\ serving' = FALSE
    /\ UNCHANGED <<cache, rules, asked, answer>>

\* New rules: what the store held and they still admit is kept, unless a
\* newer state was configured or saved; a state they do not admit is gone.
Reconfigure ==
    /\ rules' \in ConfigType
    /\ serving' = rules'.enabled
    /\ cache' \in Caches
    /\ \A k \in Keys :
          /\ Present(cache'[k]) => Fits(rules', k, cache'[k])
          /\ Admissible(rules', k, cache[k]) =>
                 Present(cache'[k]) /\ ~NewerThan(cache[k], cache'[k])
    /\ UNCHANGED <<asked, answer>>

Crash ==
    /\ cache' = EmptyCache
    /\ rules' = ZeroConfig
    /\ serving' = FALSE
    /\ asked' = [r \in Requests |-> NoKey]
    /\ answer' = [r \in Requests |-> NoState]

Next == \/ \E r \in Requests, key \in Keys \cup {NoKey} : Ask(r, key)
        \/ \E r \in Requests : Answer(r) \/ Respond(r) \/ Finish(r)
        \/ \E key \in Keys : Fetch(key)
        \/ \E dropped \in SUBSET Keys : Clear(dropped)
        \/ Stop
        \/ Reconfigure
        \/ Crash

Spec == Init /\ [][Next]_cacheVars

=============================================================================
