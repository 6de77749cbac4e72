------------------------------ MODULE PluginMC ------------------------------
(***************************************************************************)
(* Instances of Plugin for TLC: the configurations its runs apply and the  *)
(* inputs their hosts, upstreams and operators make.                       *)
(***************************************************************************)
EXTENDS DocumentedClaims, TLC

CONSTANTS a1, a2, m1, m2

RequestSymmetry == Permutations(Requests)

(* Policies. *)
Plus == [listed |-> TRUE, plan |-> "plus", normalBlocks |-> 0, accepted |-> {},
         models |-> {}, autoUpdate |-> "unset"]
Discovery == [Plus EXCEPT !.plan = "other", !.accepted = Shapes]

(* Configurations. *)

\* Business responses only: no probing, injection whenever a state is there.
Business == [enabled |-> TRUE, stateFile |-> NoPath, injectExpired |-> FALSE,
             injectOnErrorsOnly |-> FALSE, autoUpdate |-> "unset",
             credentials |-> [a \in Auths |-> NoPolicy], defaults |-> Discovery,
             seeds |-> [a \in Auths |-> NoState],
             probe |-> [enabled |-> FALSE, background |-> FALSE,
                        onErrors |-> TRUE, errorsOnly |-> TRUE]]
\* Only one account is managed.
FirstOnly == [Business EXCEPT !.defaults = NoPolicy, !.credentials[a1] = Plus]
\* Probes by the requests themselves, whenever a state is missing or old.
Eager == [Business EXCEPT !.probe.enabled = TRUE, !.probe.errorsOnly = FALSE]
\* The same, accepting fewer block counts.
EagerStricter == [Eager EXCEPT !.defaults = Plus]
\* The default mode: the worker probes what a failure or the panel asked for.
Background == [Business EXCEPT
    !.probe.enabled = TRUE, !.probe.background = TRUE,
    !.credentials = [a \in Auths |-> Plus],
    !.seeds = [a \in Auths |-> [issuedAt |-> 1, blocks |-> 10, origin |-> <<a, m1>>]]]
StateFile == CHOOSE p \in Paths : TRUE
Saving == [Business EXCEPT !.stateFile = StateFile]
Panel == [Eager EXCEPT !.stateFile = StateFile]
\* The scope is the alias m2; clients reach m1 under that name.
Aliased == [Business EXCEPT !.defaults.models = {m2}]

RetriesConfigs == {Business, FirstOnly}
ProbesConfigs == {Eager, EagerStricter}
WorkerConfigs == {Background}
RestartConfigs == {Saving}
PanelConfigs == {Panel}
EagerOnly == {Eager}
AliasedOnly == {Aliased}

\* The runs of DiskCaughtUp are of hosts it is about.
ASSUME OneFileHosts == Paths # {} => OneFile(StateFile)

(* Inputs. *)
AllIssues == Stamps \X Shapes
\* The newer of two issues has the shape only the lenient policy accepts.
NewerIsAbnormal == {<<1, 10>>, <<2, 12>>}
AnyTarget == Keys
TargetOrOther == Keys \cup {NoKey}
AllRows == {Keys}
AllRowsOrOne == {Keys, {<<a1, m1>>}}

=============================================================================
