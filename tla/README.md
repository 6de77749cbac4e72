# Codex turn state plugin: TLA+ models and proofs

A specification of the `cpa-codex-turn-state` plugin: a library a proxy host loads, which keeps
one opaque *turn state* per account and upstream model, takes new ones from business responses
and from probes of its own, and sets the state as a request header when an account needs it.
The modules beside this file model the plugin's runtime; TLC checks them on small instances, and
TLAPS proves the central theorems for every value of the constants.

## 1. Inventory

### Components

| Component | Code | State it keeps | Operations |
|---|---|---|---|
| Request hooks | `plugin.go` | `requests` (binding per request ID), `candidates`, the cache `current`, `forceInject` | `interceptAfter`, `interceptResponse`, `interceptStreamChunk`, `complete` |
| Probe engine | `probe.go` | `probing`, `lastProbe`, `probeResults`, `blockedUntil`, `accountBlockedUntil`, `proxyBlockedUntil`, `poolCursor` | `ensureProbe`, `selectedProbeAuth` |
| Background worker | `refresh.go` | `refreshRequests`, `wake`, `workerDone` | `refreshLoop`, `refreshDue`, `queueRefreshLocked`, `nextRefreshLocked`, `startBackgroundLocked`, `stopBackground` |
| Lifecycle | `plugin.go`, `refresh.go` | `accepting`, `config`, `generation`, `probeCtx` | `configure` (register and reconfigure), `setAccepting` (quiesce), `shutdown` |
| State file | `plugin.go` | the JSON file, `persistMu` | `loadPersisted`, `persistCurrent`, `persistStates` |
| Panel commands | `management.go` | none of its own | `refreshAction`, `clearAction` |
| Stream framing | `refresh.go` | `StreamBuffer` of a binding | `observeStreamFailure` |
| Account listing cache | `management.go` | `accounts` | `accountsByHash`, `authIsFree` |
| Turn state token | `fernet.go` | none | `parseTurnState` |
| Proxy transport | `transport.go`, `probe.go` | connections | `chainTransport`, `tunnelProxy`, `socksConnect`, `fetchProbe`, `probeCompleted` |
| Status payload | `management.go` | none (reads the runtime and the listing) | `statusPayload` |
| Panel front end, ABI shim | `web/`, `main.go` | none | rendering, envelopes |

### How they interact

All components share one `runtimeState` under one mutex, `mu`, and drop it around everything
slow: the host callback that hands out a credential, the fetch through the proxies, the write of
the file, the join of the worker. `persistMu` is taken before `mu` and serialises the savers.
The worker is woken through a channel of one slot. Each configuration begins a *generation* with
its own context; `configure`, quiesce and shutdown cancel the context and join the worker, but
not the probes that requests and refresh calls started. The host calls the hooks of one request
one after another, many requests at once, and may retry a request under the same ID with another
credential.

Three components meet the rest at a narrow place and have modules of their own. The listing
cache has its own mutex, dropped around the call of the host; status calls and `authIsFree` read
it. `observeStreamFailure` turns chunks into refresh requests. A fetch is a dial in a goroutine
of `net/http`, a conversation with each proxy over one connection, and a response read line by
line; the probe engine sees its outcome only.

### What is hard

- *Interleaving across unlocks.* A probe claims under one generation and commits under another;
  a response is captured against one cache and completed against another; `configure` computes
  the cache it will install before it takes the mutex.
- *Retries.* Binding and candidate belong to an attempt, but are filed by request ID.
- *Ordering and failure of saves.* The cache changes in one critical section, the file outside.
- *Lost wake-ups, coalesced requests, cooldowns of three kinds.* A pending refresh must survive
  failures and be come to.
- *Streams cut anywhere.* Events, line endings and proxies' replies arrive in pieces or run
  together, on a stream with a bounded buffer and on a connection passed from peer to peer.
- *Joining the worker.* It may be anywhere in a round of probes, and needs the mutex to finish.

### What makes each component correct

| Component | Property |
|---|---|
| Hooks | A state is used only for the key it was issued to (`StateIsolation`); only the last attempt's state can be promoted (`LastAttemptStaged`); a quiesced plugin takes nothing in (`QuiescedIsQuiet`). |
| Cache | It moves forward only and survives reconfiguration (`CacheMovesForward`); it holds only states the policy in force calls normal (`OnlyNormalStates`). |
| Probe engine | Claims are exactly the probes in flight (`ClaimsExact`). |
| Worker | A queued refresh is kept (`PendingRefreshKept`) and come to (`PendingIsProbed`). |
| Lifecycle | Calls return (`LifecycleReturns`) with the worker gone (`WorkerDrained`). |
| State file | When nothing is being saved and no save failed, it is the cache (`DiskCaughtUp`). |
| Whole plugin | It is a store that answers with the asker's own state, replaces a state by a newer one the rules admit, and keeps across a reconfiguration what the new rules admit (`ImplementsCache`). |
| Stream framing | Only failure events queue refreshes, each one (`NoFalseAlarms`); none that fits is missed (`EveryFailureSeen`). |
| Listing cache | One call asks at a time (`OneListingInFlight`); the panel never goes back (`ViewsMoveForward`); only the host's word hides a row (`HiddenOnTheHostsWord`). |
| Transport and fetch | No conversation runs into the next (`TunnelIsClean`, `ReadsOnePeer`); with the context all ends, and no connection is left (`EndsWithItsContext`); the first terminal event decides (`FirstTerminalDecides`). |
| Token | What upstream mints is accepted, with the right block count (`TokensReadBack`). |

The full list of hazards, each at its line, is in `PROJECT.json`.

## 2. The modules

```
TurnState                       data, policies, pure predicates
  RuntimeState                  the shared variables, Init, the clock, the crash, queueRefreshLocked
    ProbeEngine                 ensureProbe
      RequestHooks              interceptAfter ... complete
      BackgroundWorker          refreshLoop, refreshDue
      Management                refreshAction, clearAction
    StatePersistence            persistCurrent
    Lifecycle                   configure, quiesce, shutdown
Plugin                          composes them; Spec, fairness, properties; implements
                                TurnStateCache, the abstract store
  DocumentedClaims              what the documentation says and the code does not do
    PluginMC                    configurations and inputs for TLC
  PluginProofs                  type correctness
    IsolationProofs             StateIsolation
    StepProofs                  LastAttemptStaged, QuiescedIsQuiet, PendingRefreshKept,
                                CacheMovesForward, OnlyNormalStates, DiskCaughtUp
    ClaimProofs                 ClaimsExact, WorkerDrained
    RefinementProofs            ImplementsCache

StreamFraming                   observeStreamFailure over chunks        (StreamMC)
  StreamProofs                  its three properties
AccountListing                  accountsByHash, authIsFree, statusPayload (ListingMC)
  ListingProofs                 its three properties
ProxyTransport                  the dial through a chain of proxies
TurnStateToken                  parseTurnState
  ProbeFetch                    fetchProbe over both                    (FetchMC)
    FetchProofs                 its safety properties
```

**Atomicity.** One action is one critical section of `mu`, or one call into the outside between
two of them. `interceptAfter` is `InterceptBegin` (drop the old attempt), `InterceptProbe` (call
`ensureProbe`) and `InterceptDecide` (bind, answer); `ensureProbe` is `EnsureProbe` (admission
and claim), `ProbeAuth` (host callback), `ProbeNext` and `ProbeFails`/`ProbeFetched` (the loop),
`ProbeCommit`, and then the save. The fetch of a probe and the recording of its failure are one
action: between them the code touches no shared state. Each caller, a request, an operator or
the worker, has one probe record (the locals of `ensureProbe`) and at most one save.

**The mutex.** Since a critical section is one action, only a call that *waits* with `mu` held
could keep the others out. `HoldingMutex` names the phases of a lifecycle call in which it does:
none, because `stopBackground` unlocks before `<-done`. Every action that takes `mu` asks for
`MutexFree`, so a join under the mutex would be seen as the deadlock it is (`LifecycleReturns`, and
its mutant `HoldingWhileJoining`).

**The worker** looks at its context in three places, and what it decides there may be stale when it
acts on it: at the head of its loop (`WorkerLooks`) before it collects, at the head of each job
(`WorkerNextJob`) before it probes, and in the select, where a tick or a wake-up may win
(`WorkerWakes`) against a context that has ended (`WorkerExits`). The probe of a job itself
(`WorkerProbe`) is refused by `ensureProbe` if the context has ended since.

**Data.** A turn state is the issue time and block count that `parseTurnState` reads, plus
`origin`, a history field: the account and model upstream issued it to. An `attempt` number on
calls and candidates is the other history field. A token that does not parse is dropped wherever
it arrives and never becomes a state; which ones parse is `TurnStateToken`'s. `models` of a policy is the set of
model names its patterns match. Times are ticks of one clock, `now`; TTL, backoffs and the rest
are constants. An absent map entry is `NoState`, `Never`, `"none"` or `NoKey`.

**Configurations** are records (`ConfigType`) chosen by each run from a small set; seeds are in
them. `configure` merges seeds, file and memory as the code does, in `ConfigureLoad` and
`ConfigureSwap`; what fails to decode changes nothing and is left out.

**The abstract store.** `TurnStateCache` knows a cache, rules, whether it serves, and for each
request which key it asks for and what the answer is. Its steps are what a user of the plugin may
see: ask, answer, respond, finish (perhaps replacing a state), fetch, clear, stop, reconfigure,
crash. `Plugin` maps `current` to the cache, `config` to the rules, `accepting` to serving, the
key of the host's attempt to the key asked for and the injected state to the answer; claims,
cooldowns, candidates, bindings, saves, the worker and the steps of a lifecycle call are stutters.

**Streams.** `StreamFraming` sends events in five framings (one data line, data over two lines, a
named event, a named one over two lines, raw JSON) with LF or CR LF, as symbols: the start of a
line, the two halves of a payload, CR, LF. The host cuts the stream at any symbol. Each symbol
knows its event, so a glued payload is recognised. The 64 KiB bound is a number of symbols. What
the code cuts and joins is a set of positions of the stream: appending is a union, `ReplaceAll`
drops the CRs whose next position left is an LF (`Normalised`), a frame ends at every second LF of
a row (`FrameEnds`, what `bytes.Index` from the left finds), and a payload is what lies on `data:`
lines between two such ends (`DataOf`). `spoiled` is history: the events that an overflow, a retry
or a missing binding has hit.

**The listing.** Listings are numbered as the host has them, so "older" is a comparison; a plan is
absent, free or paid. A status call is five steps: snapshot, lookup, host call, store, view.

**The fetch.** A connection is the bytes a peer has sent and the network has not delivered, and
the bytes delivered and not read; each knows its sender. `level` is whom the network connects the
plugin to, `hop` whom the code believes it speaks to. Bytes of SOCKS5 are bytes; lines of a
CONNECT response are one symbol each. A peer may answer, refuse, fall silent or hang up. The lines
of a response stand for themselves; the header's value is chosen when the code first uses it. A
value is its lengths, alphabet, version and time.

**Choices the environment makes.** Which credential the host picks, whether its cached listing
shows a free account, when it retries; what upstream issues and how a fetch fails; when deadlines
pass (`ProbeNext` may stop at any turn of the loop); when a save fails; when the process dies.

## 3. The runs

The last three use `StreamMC`, `ListingMC` and `FetchMC`, the others `PluginMC`. Deadlock is not
checked in any of them: the clock, the generations and the retries are bounded, so a plugin nobody
calls any more stops; that the calls under way do not get stuck is what `LifecycleReturns` and
`PendingIsProbed` check.

| Run | Instance | Checks | Shows |
|---|---|---|---|
| `retries` | 2 requests, 2 accounts (one listed free), attempts at another provider, 1 retry each, 2 configurations, 2 generations | `StateIsolation`, `LastAttemptStaged`, `ImplementsCache` | No state crosses keys, whatever retries and reconfigurations come in between. |
| `probes` | 2 requests on one key, 2 policies (lenient and strict), quota failures, limit 1, no skew, 2 generations | `OnlyNormalStates`, `ClaimsExact`, `CacheMovesForward`, `QuiescedIsQuiet`, `PendingRefreshKept` | Late commits, captures and completions are harmless. |
| `worker` | the worker, 2 accounts with seeds, 1 operator, network failures, 2 generations, fairness | `WorkerDrained`, `LifecycleReturns`, `PendingIsProbed` | Joins end wherever the worker is, refreshes are come to. |
| `restart` | 2 requests saving to one file, refused saves, crashes, 3 generations | `DiskCaughtUp` | The file catches up. |
| `panel` | 1 request, 1 operator, pool of 2, limit 2, network and quota failures, one file | `DiskCaughtUp`, `ClaimsExact`, `TypeOK`, `ImplementsCache` | Clear and refresh beside probes and promotions. |
| `claim_contained` | 1 request, 2 generations | `OldProbeContained`: violated | An old probe puts the new generation's pool into cooldown. |
| `claim_bounded` | 2 requests, limit 1 | `ProbesBounded`: violated | More probes than the limit after a reconfiguration. |
| `claim_clear` | alias in scope, default clear | `ClearKeepsInjectable`: violated | The default clear removes an injectable state. |
| `claim_next` | rate limit | `NextRefreshAttemptable`: violated | `next_refresh_at` ignores the account's backoff. |
| `stream` | pairs and triples of SSE events in four framings with either line ending, failures too long for the buffer, raw JSON events; chunks cut anywhere, a buffer of 7 symbols, 1 retry | `TypeOK`, `NoFalseAlarms`, `EveryFailureSeen` | Failures are seen wherever the stream is cut; nothing else is. |
| `listing` | 3 status calls, 1 account, TTL 1, 3 listings, failing host calls | `OneListingInFlight`, `ViewsMoveForward`, `HiddenOnTheHostsWord` | The cache serves overlapping calls soundly. |
| `fetch` | 8 chains of 1 and 2 proxies of every scheme, streams of 4 lines, 11 header values, fairness | `TunnelIsClean`, `ReadsOnePeer`, `FirstTerminalDecides`, `TokensReadBack`, `EndsWithItsContext` | Handshakes in pieces, early targets, silent peers, ended contexts. |

**Bounds.** `MaxTime` 2 or 3 with `TTL` 2 lets states be issued, become due, expire, and be
replaced; `Stamps` {1, 2} gives an older and a newer state; `MaxGeneration` 2 or 3 gives old
probes and old bindings a new generation, and a crash a restart; `MaxRetries` 1 gives an attempt
before and after; two requests are enough for every race named above, since each involves two
callers of one key. `ProbeLimit` 1 makes the limit bite with two callers. `Retry`,
`AccountBackoff` 1 and `QuotaBackoff` 2 end within the clock's range. `Year` is any time past it.
Symmetry is used over `Requests`, in runs with safety properties only.

In `stream`, a buffer of 7 symbols holds an event of any framing with LF, and with CR LF if it
comes in pieces, whose line ends shrink in the buffer; two events together only if cut well; and
one kind of failure, a named event with two data lines, never. So overflows hit every part of an
event, with another one behind it. In `listing`, three calls let one be at the host while a second
answers from the stale listing and a third begins after it; symmetry is over the calls. In
`fetch`, every scheme comes first and second; the replies have all three address types, a
domain of length 0 among them; four lines allow an event before the deciding one, and one over two
lines; the values lie around one, two and three blocks.

**Scope of the properties.** `DiskCaughtUp` is for the hosts of `OneFile`: one file, no seeds, and
policies that judge alike, with no models of their own. `configure` does not write the file, so a
seed, or a state a new policy drops (a state bound through an alias too, whose own model the policy
does not match), differs from the file until the next promotion; and a clear between the load and
the swap is undone in memory, not in the file. So operators clear or the host reconfigures, not
both; crashes and restarts come with either. TLC checks in `restart` and `panel` that their hosts
are such (`OneFileHosts`). `PendingIsProbed` leaves out accounts on a free plan: `refreshAction` queues their rows and
`ensureProbe` refuses them for ever. The worker has its ticker in the model, too, so a wake-up that
is lost only delays. `WorkerDrained` speaks of the worker alone. `PendingRefreshKept` allows, as the
code does, that a newer state settles a refresh that was queued after the state's own request began;
and `ImplementsCache` that a reconfiguration brings back a state cleared after it had read the file.
`EveryFailureSeen` covers a raw JSON event only where it is all the stream there is: a second one
in its chunk, or an empty line behind it, keeps both in the buffer until it overflows; an SSE event
without its last empty line is not noticed at all. `ViewsMoveForward` says nothing of age: while
one status call is at the host, the others answer, as resolved, from a listing however old. A token
longer than `max_state_bytes` is refused whatever it is.

**Fairness.** Weak fairness of every caller's probe and save steps, of the worker, of the refresh
goroutines, and of the steps of a lifecycle call under way: they are goroutines the Go scheduler
runs, a fetch ends at its deadline at the latest, host callbacks return, and the worker has a
ticker. Nothing makes the host send or finish requests, retry, reconfigure or quiesce, nor an
operator act, nor time pass. Weak fairness is enough because none of these steps is disabled and
enabled again by others for ever: a save waits only for the one before it.

In `fetch`, weak fairness of the dialing goroutine where it can go on by itself, of
`context.AfterFunc` once the context has ended, and of `net/http`'s reaction to that. No peer is
fair: a proxy may never answer, the TLS handshake may never end, no line may ever come. Nor need
the context end; what is claimed is what follows when it does.

**Disagreements found**, each with its counterexample run: see `findings` in `PROJECT.json`.

## 4. The proofs

Assumed are only the named assumptions on the constants (`TimesAssumption`, `LimitsAssumption`
and so on), which TLC evaluates in every run, and `OneFile` in `FileCatchesUp`.

- `PluginProofs!TypeCorrect`: `Spec => []TypeOK`. `TypeOK` is not inductive: `savers` must remain
  callers that have a save to make, and a completion overwrites its request's `saving`; a failed
  fetch adds one to `offset`; a swap adds one to `generation`. `TypeInv` adds three orders.
  `HookOrder`: outside the hook that probes, a request of the host has no probe and no save.
  `ProbeOrder`: a probe has a key, saves only after its commit, and fetches only inside the pool.
  `LifecycleOrder`: a lifecycle call that will begin a generation has room for it. One lemma per
  action, one step per part of the invariant it can disturb, `Frames` for the rest.
- `IsolationProofs!StatesStayIsolated`: `Spec => []StateIsolation`, for any number of accounts,
  models, requests and operators. A response is filed under the request's binding but was issued
  to the host's attempt, so the invariant adds `BoundToCall`: a request that has a binding is
  bound to the key of the attempt the host is at. That is what dropping the binding first thing
  in `interceptAfter` is for.
- `StepProofs`: `LastAttemptStaged`, inductive beside `TypeInv`, and three action properties that
  every step keeps from any state of the right type: `QuiescedIsQuiet`, `PendingRefreshKept` and
  `CacheMovesForward`.
- `StepProofs!CacheHoldsNormalStates`: `Spec => []OnlyNormalStates`. A state is judged before
  the step that caches it, so `NormalInv` says that the judgement still stands then. What a
  response staged is normal under the configuration in force, since a swap drops it. A probe of
  this generation carries this generation's policy, and no probe is of a generation to come, so
  the generation test of the commit is enough. What a lifecycle call loaded is normal under the
  configuration it will install.
- `StepProofs!FileCatchesUp`: `Spec => []DiskCaughtUp` for every host of `OneFile(file)`, for any
  number of savers, refused saves and crashes. `DiskInv` keeps account of what the file lacks
  (`Accounted`): a caller still has its save to make, or the one inside `persistMu` has copied the
  cache as it is, or nobody saves and the file is the cache, unless the last save failed. A hot swap
  changes neither the cache nor the file, and keeps that only because it finds nothing newer in what
  it loaded and drops nothing: no copy of the cache, in the file, with a saver or with the lifecycle
  call, is ahead of it (`CopiesBehind`, which is where clears come in), and every state in a copy is
  one each configuration takes over (`LastingCopies`, from `OnlyNormalStates`). The first swap after
  a start brings the file into the cache, and what was read is still in the file since nobody can
  save before it (`Dormant`, `FirstLoad`).
- `ClaimProofs!ClaimsStayExact`: `Spec => []ClaimsExact`. A swap empties the claims, so no probe
  may be of a generation to come (`ProbesOfThePast`). A shutdown begins a generation without
  emptying them, so it must find the plugin quiesced (`RetiresQuiesced`). `ClaimsBounded` adds
  that the claims are finite, which counting them needs.
- `ClaimProofs!WorkerStaysDrained`: `Spec => []WorkerDrained`. The join waits for the worker
  alone, so the invariant adds that a worker that has exited has neither a probe nor a save left.
- `RefinementProofs!PluginImplementsCache`: `Spec => ImplementsCache`. Every step is mapped to a
  step of `TurnStateCache` or a stutter, one lemma per kind of step, from the invariants above: the
  answer is the asker's own state by `StateIsolation`, a promoted state is of the request's own key
  by `BoundToCall` and `LastAttemptStaged`, and what is cached fits the rules by `OnlyNormalStates`.
- `ListingProofs`: `OneCallAsks`, `PanelMovesForward` and `OnlyTheHostHides`, for any number of
  status calls. `IInv` joins `OneListingInFlight`, which says that one call is at the host, with
  `InOrder`: what that call brings back is not older than the cache, which holds since no other
  call can store meanwhile, and what a call answers from lies between the newest listing answered
  from before it began and the cache.
- `FetchProofs`: `TunnelsAreClean` and `ReadsAreOfOnePeer` (`TunnelIsClean`, `ReadsOnePeer`), with
  the invariant `ConversationInv`: a dial under way speaks to a proxy of its chain (`HopOK`), and
  what `inbox \o sent` holds, one sequence however the network cuts it. While a proxy
  speaks alone all of it is that proxy's; once it has opened the tunnel there is a `k`, the bytes of
  its reply still to come, up to which the bytes are its own and behind which they are upstream's
  (`Opened`). Neither is inductive without saying how the reader finds `k`: the first `End` of a
  CONNECT response (`StatusOpened`), the address type of a SOCKS reply (`ReplyOpened`), the length
  byte of a name (`LengthOpened`), the bytes left of an address; and that a refusal is seen as one
  before it ends (`StatusRefused`, `ReplyRefused`). And
  `TokensAreReadBack` (`TokensReadBack`), from two lemmas on base64 lengths (`EncodedLength`,
  `DecodedLength`) and the arithmetic of whole blocks, for values of any length; and
  `FirstTerminalEventDecides` (`FirstTerminalDecides`), for bodies of any length, with the invariant
  that `data` is the payload of the lines since the last empty one, and that no event read so far
  ended the response.
- `StreamProofs`: `BufferBounded`, `NoFalseAlarmsEver` and `EveryFailureSeenEver` (`TypeOK`,
  `NoFalseAlarms`, `EveryFailureSeen`), for streams of any length, any limit and any cutting. The
  properties say nothing of the buffer's contents, so `StreamInv` adds them: the buffer is a
  `Window`, all that has come behind some position but for the CRs an LF has followed. Alarms are
  for events before that position, which is why no event has two; and a failure event that has begun
  to come is alarmed, or hit by an overflow or a retry, or it begins behind the position and is not
  complete, which is why none is missed. That a chunk keeps this rests on where frames end: of an
  event's LFs only the last, and that one exactly if the LF before it is still in the buffer
  (`EndsOf`). A fragment left by an overflow therefore ends no frame with its last LF alone, and
  whatever stands before the next event's frame, only that event's own data lines are read
  (`DataWithin`), all of them if it is there as a whole (`DataWhole`).

Only model-checked: the liveness properties (`LifecycleReturns`, `PendingIsProbed`,
`EndsWithItsContext`), which the prover cannot reach (fairness, `ENABLED`). Every safety property
the passing runs check is a theorem.

## 5. Not modelled, and why

- The rendering of the status payload (counters, history, wording), the front end and the ABI
  shim: projections and envelopes, no state that anything depends on. `AccountListing` has which
  rows the payload shows, `NextRefresh` its refresh times.
- `proxyEndpoint.resolve` and `proxyAddress`: reading a secret file or variable and validating a
  URL; they may fail (`DialFails`). TLS and HTTP are the libraries', as external actions. How a
  failed status is named is left to `Outcomes` of the runtime.
- YAML decoding and normalisation, the JSON of the state file and of envelopes.
- Two host behaviours the source does not settle: hooks of one request do not overlap, and lifecycle
  calls do not overlap.
- Two state files in one run: moving to another file leaves it without the states memory holds
  until the next promotion, which the documentation neither promises nor forbids.

## 6. What remains

1. The fetch inside the composition, in place of its outcome: the product of both is beyond TLC,
   and no property relates a byte on a connection to the runtime.
2. Statements for the hazards that have none: each needs a decision of the plugin's authors first
   (does a backoff belong to the account or the model, how long may a future-dated state win, may a
   clear lift the retry window), and `PROJECT.json` says which.
