------------------------------ MODULE TurnState ------------------------------
(***************************************************************************)
(* The data the plugin decides with, and its pure predicates: cache keys,  *)
(* turn states as plugin.go keeps them, credential policies and their      *)
(* fallback, the normal block counts, model scopes and the windows in      *)
(* which a state may be used.  A turn state is its issue time and its      *)
(* number of ciphertext blocks, what fernet.go reads from the token; a     *)
(* value that does not parse is dropped wherever it arrives and never      *)
(* becomes a state.                                                        *)
(***************************************************************************)
EXTENDS Integers, FiniteSets

CONSTANTS
    Auths,      \* selected_auth_id values of the host
    Models,     \* upstream model names, trimmed
    Stamps,     \* issue times a state can carry
    Shapes,     \* ciphertext block counts a state can have
    Paths,      \* state files a configuration can name
    TTL,        \* turnStateTTL, one hour in the code
    Skew,       \* tolerated clock skew of an issue time, five minutes
    NoKey,      \* "no account and model": the key of nothing
    NoPath      \* an empty state_file

ASSUME TimesAssumption == /\ Stamps \subseteq Nat \ {0}
                          /\ TTL \in Nat \ {0}
                          /\ Skew \in Nat
ASSUME ShapesAssumption == Shapes \subseteq Nat \ {0}
ASSUME NullAssumption == /\ NoKey \notin Auths \X Models
                         /\ NoPath \notin Paths

\* stateKey: one cache entry per account and actual upstream model.
Keys == Auths \X Models
AuthOf(key) == key[1]
ModelOf(key) == key[2]

\* storedState.  "origin" is a history field: the account and model whose
\* upstream response carried the value, which the opaque token does not show.
States == [issuedAt : Stamps, blocks : Shapes, origin : Keys \cup {NoKey}]
NoState == [issuedAt |-> 0, blocks |-> 0, origin |-> NoKey]
MaybeState == States \cup {NoState}
Present(state) == state.issuedAt # 0
EmptyCache == [k \in Keys |-> NoState]
Caches == [Keys -> MaybeState]

\* candidate.IssuedAt.After(existing.IssuedAt): the zero time of a missing
\* entry is before every issue time.
NewerThan(state, existing) == state.issuedAt > existing.issuedAt

FutureDated(state, t) == state.issuedAt > t + Skew
Expired(state, t) == t >= state.issuedAt + TTL

-----------------------------------------------------------------------------
(* Configuration: what decides about an account. *)

Plans == {"free", "plus", "pro", "team", "other"}
Switches == {"unset", "on", "off"}      \* *bool in the YAML

\* credentialConfig; "models" are the names its patterns match, {} when it
\* has no pattern.  "listed" is FALSE where the YAML has no such entry.
Policies == [listed : BOOLEAN, plan : Plans, normalBlocks : Nat,
             accepted : SUBSET Shapes, models : SUBSET Models,
             autoUpdate : Switches]

ProbeConfigs == [enabled : BOOLEAN, background : BOOLEAN,
                 onErrors : BOOLEAN, errorsOnly : BOOLEAN]

\* pluginConfig.  "seeds" holds the seed state of an account's credential,
\* its origin being the exact state_model the configuration requires of it.
ConfigType == [enabled : BOOLEAN, stateFile : Paths \cup {NoPath},
               injectExpired : BOOLEAN, injectOnErrorsOnly : BOOLEAN,
               autoUpdate : Switches, credentials : [Auths -> Policies],
               defaults : Policies, seeds : [Auths -> MaybeState],
               probe : ProbeConfigs]

\* The configuration of a plugin that has had none yet.
NoPolicy == [listed |-> FALSE, plan |-> "other", normalBlocks |-> 0,
             accepted |-> {}, models |-> {}, autoUpdate |-> "unset"]
ZeroConfig == [enabled |-> FALSE, stateFile |-> NoPath,
               injectExpired |-> FALSE, injectOnErrorsOnly |-> TRUE,
               autoUpdate |-> "unset",
               credentials |-> [a \in Auths |-> NoPolicy],
               defaults |-> NoPolicy, seeds |-> [a \in Auths |-> NoState],
               probe |-> [enabled |-> FALSE, background |-> TRUE,
                          onErrors |-> TRUE, errorsOnly |-> TRUE]]

CredentialFor(config, auth) ==
    IF config.credentials[auth].listed THEN config.credentials[auth]
                                       ELSE config.defaults

AutoUpdateEnabled(config, policy) ==
    IF policy.autoUpdate # "unset" THEN policy.autoUpdate = "on"
                                   ELSE config.autoUpdate # "off"

IsFreePlan(policy) == policy.plan = "free"

\* The block count a plan is expected to have: none for an unknown plan.
PlanBlocks(plan) == CASE plan \in {"plus", "pro"} -> 10
                      [] plan = "team" -> 12
                      [] OTHER -> 0

NormalBlockCount(policy, blocks) ==
    IF policy.accepted # {}
    THEN blocks \in policy.accepted
    ELSE blocks = IF policy.normalBlocks # 0 THEN policy.normalBlocks
                                             ELSE PlanBlocks(policy.plan)

MatchesModels(policy, models) ==
    policy.models = {} \/ policy.models \cap models # {}

\* What configure asks of a state it takes over from the file or from memory.
Admissible(config, key, state) ==
    LET policy == CredentialFor(config, AuthOf(key))
    IN  /\ Present(state)
        /\ policy.listed
        /\ MatchesModels(policy, {ModelOf(key)})
        /\ NormalBlockCount(policy, state.blocks)

=============================================================================
