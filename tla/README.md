# A TLA+ model of up-streamer

up-streamer forwards uProtocol messages between transports. An application
creates a `UStreamer`, adds unidirectional routes between endpoints (an
authority name and a transport each), and deletes them again; in between, the
ingress transports call listeners, the listeners put messages into channels,
and one worker per egress transport takes them out and sends them on. Which
publish messages a route listens for is derived from the subscriptions that a
uSubscription service reports. Around the crate the repository has programs that
start a streamer from a configuration, a suite that runs such programs against each
other and judges their logs, and a guardrail that compares benchmark results.

This directory holds TLA+ modules for all of these, TLC configurations that
check them on small instances, and proofs that TLAPS checks for instances of any
size. `PROJECT.json` lists the runs, the source lines behind each definition, the
mutants that each property is known to reject, the hazards the properties are
aimed at, and the theorems.

Run a model with `tlc -config X.cfg M`, check proofs with `tlapm M.tla`.

## 1. Inventory

Paths are relative to `src/up-streamer/src/`, the last five to `src/`.

| Part | State | Operations | What makes it correct |
|---|---|---|---|
| `routing/` cache and resolver (pure) | none; builds maps from rows | `SubscriptionCache::new`, `fetch_cache_entry_with_wildcard`, `derive_source_filters` | exactly the filters the subscriptions call for, whatever the iteration order |
| `routing/subscription_directory.rs` | one versioned snapshot behind an `ArcSwap`, a version counter | `apply_snapshot`, `lookup_route_subscribers_with_version` | version and rows always belong together; a refused response changes nothing |
| `ustreamer.rs` refresh, `subscription_sync_health.rs` | last two outcomes, times of last attempt and success | `refresh_subscriptions`, bootstrap in `new` | health summarises all attempts and agrees with the directory |
| `data_plane/ingress_registry.rs` | refcounted bindings, publish filter cache | `register_route`, `unregister_route` | one binding per key while a route holds it, its filters registered, nothing left behind after failures |
| `data_plane/ingress_listener.rs` | a sender | `on_receive` | drops shared-memory payloads, sends everything else to a live worker |
| `data_plane/egress_pool.rs` | refcounted workers by transport | `attach_route`, `detach_route` | a worker is pooled exactly while a route uses it |
| `data_plane/egress_worker.rs`, `runtime/` | a broadcast receiver | dispatch loop | order, no repetition, loss only by overflow; the loop ends when its users are gone and not earlier |
| `control_plane/` table and lifecycle, `ustreamer.rs` | the set of route keys | `add_route`, `delete_route` | each request is atomic to its caller; table, pool and registry agree between requests |
| `utils/usubscription-static-file` | rows parsed from a JSON file, behind a lock | `fetch_subscriptions`, `fetch_subscribers`, `clear_cached_subscriptions` | an answer is the whole of one content of the file, and not older than the strategy promises |
| `configurable-streamer`, `up-linux-streamer-plugin`, `example-streamer-implementations` | a table of named endpoints, the rule being wired | start-up, shutdown signal, drop of the plugin | READY is said with exactly the routes the configuration asks for; only the environment can stop a sound configuration |
| `utils/transport-smoke-suite` scenario | three child processes and what was last seen of them, their logs, a broker, claims, first failure | phases Preflight to FinalizeReport, teardown by signals | a PASS leaves nothing running, had nothing beside it, and rests on evidence |
| `utils/transport-smoke-suite` matrix | summaries of the scenarios so far | one scenario's process after the other | a scenario passes only through its own process; the matrix ends |
| `utils/criterion-guardrail` | benchmark id to sample file, per name | discovery, median, delta, verdict | whatever the order of the walk, the exit code says what the computed deltas say, and rounding and NaN turn no verdict round |

Interaction: `UStreamer` borrows itself exclusively in every method and calls
`RouteLifecycle`, which changes table, pool and registry in turn, awaiting each.
The registry calls the ingress transport (external) at every filter and reads
the directory once per registration. Transports call `on_receive` at any time,
also while a listener is being unregistered. A dispatch loop runs on its own and
is connected to the rest only through its channel: no one stops it, it ends when
the last sender is dropped. The programs create one `UStreamer`, whose first refresh is
its bootstrap, and await `add_route` once per forwarding rule. The smoke suite starts
programs as child processes and knows of them only their logs and exit statuses; the
matrix starts the suite's scenarios in the same way and knows of them their exit status and
the report on disk.

What is hard here: awaits between the steps of one operation; a lock that is
released around transport calls and taken again; errors in the middle of a
sequence of registrations; ownership of senders spread over pool, bindings,
transports and running callbacks; versions read before and used after an await;
overflow of a bounded ring; child processes that end, hang or are killed between two looks
at them, and a teardown that may fail at each of its steps; files met in any order.
`PROJECT.json` lists each with its line.

## 2. Modules

| Module | Models | Built on |
|---|---|---|
| `RouteIdentity` | endpoints, `RouteKey`, `IngressRouteBindingKey` | |
| `SubscriptionRouting` | URI identity, cache, lookup, filter derivation, as operators | |
| `PublishResolution` | the loop of `derive_source_filters`, one subscriber a step | `SubscriptionRouting` |
| `SubscriptionDirectory` | versioned snapshots | `SubscriptionRouting` |
| `SubscriptionSync` | `refresh_subscriptions` and health | `SubscriptionDirectory` |
| `IngressRegistry` | the registry with concurrent callers | `RouteIdentity`, `SubscriptionDirectory` |
| `EgressPool` | the pool's operations | `RouteIdentity` |
| `RouteContract` | abstract: what a caller of `UStreamer` may rely on | |
| `RouteLifecycle` | the streamer: requests, refreshes, callbacks, loops | `IngressRegistry`, `EgressPool`, refines `RouteContract` |
| `DropOldestQueue` | abstract: what a worker promises for messages | |
| `EgressDispatch` | listeners, ring and dispatch loop of one worker | refines `DropOldestQueue` |
| `StaticFileSubscription` | the static-file uSubscription service with concurrent callers | `SubscriptionRouting` |
| `StreamerStartup` | the programs from their configuration to READY and shutdown | `SubscriptionSync`, `RouteIdentity`, instance of `RouteContract` |
| `SmokeTemplates` | the scenario table of the smoke suite | |
| `SmokeClaims` | claim files, loaded and judged, as operators | |
| `SmokeScenario` | `run_scenario` beside its three programs | `SmokeTemplates`, `SmokeClaims` |
| `SmokeMatrix` | the matrix over `SmokeScenario` | `SmokeScenario` |
| `CriterionGuardrail` | the comparison of two benchmark runs | |
| `IngressRegistryProofs` | theorems about the registry | `IngressRegistry`, `PublishResolutionProofs` |
| `RouteLifecycleProofs` | theorems about the streamer | `RouteLifecycle`, `IngressRegistryProofs` |
| other `*Proofs` | theorems; those of `StreamerStartupProofs` begin with `SubscriptionSync` | the module they are named after |
| `MC*` | finite instances | |

Operators whose comment begins with "Variant" are mutations of the definition
that follows them. No specification uses them; they are what each property is
tested against.

### How state and actions correspond to the code

**SubscriptionRouting.** `uentity_major_version()` and `resource_id()` truncate to 8
and 16 bits, and so do the operators. A `SubscriptionLookup` is the set of its
identity keys, because everything later read from a row is a function of its
key. A row with a missing field makes `SubscriptionCache::new` refuse the whole
response. `ue_id` is only compared; the wildcard `0xFFFF_FFFF` is the same 32 bits
read as a signed integer.

**IngressRegistry.** One action is what runs between two awaits. A call's local
variables are the record `calls[r]`: `pc` names the await it stands at, `held` is
`rollback_filters` (or the removed binding's filters), `pending` the publish filters
still to register, `found` the version and subscribers read from the directory.
`register_route` is `ShareBinding` or `StartRegister`, then
`RegisterRequestListener`, `LookupSubscribers`, `ReadFilterCache`, perhaps
`FillFilterCache`, a `RegisterPublishListener` per filter, and `CommitShared` or
`CommitBinding`; `unregister_route` is `ReleaseShared` or `ReleaseLast`; both
loops of unregister calls are `UnregisterListener`. A listener is an address and
a sender; transports compare listeners by address, and an address may be reused
once nothing refers to it. A transport (external) is the set of its
registrations; a failed call leaves that set alone. `stranded` and `applied` are
history: registrations a transport refused to remove, and the rows of every
version.

The registry's methods take `&self`, so the module lets calls for different routes
interleave, which is more than `UStreamer` does with it today.

**RouteLifecycle.** `UStreamer` serves one request at a time (`&mut self`): `request`
is the one being served and `pc` the await it has reached. A failed
`register_route` is followed by `RollbackInsert` and `RollbackAttach`, in the code's
order; `remove_route` removes, detaches and then unregisters. Both refusals and
the failure of registration are answered with the codes of `ustreamer.rs`.
`BeginReceive` and `EndReceive` bracket a callback, which keeps its listener, and so its
sender, alive. `EndLoop` is a dispatch loop that finds its channel closed.

**EgressDispatch.** tokio's broadcast channel (external) is the log of all
messages accepted; the ring holds its last `Capacity` entries, where `Capacity` is
`message_queue_size` rounded up to a power of two. `recv` is `RecvMessage`,
`RecvLagged` or `RecvClosed`; the loop stands at `out_transport.send` between
`RecvMessage` and `FinishSend`. A listener is made only while the pool holds the
worker (its route is attached), and may outlive it.

**StaticFileSubscription.** A call is `Fetch`, then `Reload` with AlwaysReload, or
`ReadCache`, `ParseFile` and `StoreParsed` with CacheOnFirstRead: one step per hold of
the lock, and one for reading the file, which happens without it. The file
(external) is the sequence of its contents, so an edit is an index into it; a content
is a set of entries or `Missing` when it cannot be used. What a call records besides its
request (`began`, `after`, `edit`, `before`) and `clears` are history.

**StreamerStartup.** A configuration is a program, a provider mode, a queue size and a list
of endpoints with the names they forward to; the two programs with fixed endpoints have
configurations of a fixed shape. `LoadConfig`, `Bootstrap` and `BuildTransports` are the first half
of each `main` (or of the plugin's `run`), `RegisterEndpoint` a turn of
`register_transport_endpoints`, and `NextEndpoint`, `AddRoute`, `AddRouteReturns` and `ReplyReceived`
the loops of `wire_forwarding_rules`. `Bootstrap` and `Refresh` are whole steps of
`SubscriptionSync`; a route is a request to `RouteContract`, which `RouteLifecycle` is shown to
implement. `GiveUp` is an error returned from `main`, which drops the streamer. `Panics` is
`broadcast::channel(0)`. `fault` is history: whether the environment was at fault.

**SmokeScenario.** `phase` is where `run_scenario` stands; StartInfra is split at the broker's
poll and at the spawn of the streamer, StartActive at the wait, Teardown at the broker.
`child` is what the programs do, `handle` what `ManagedProcess` last saw of them
(`exit_status_code` and `ended_at`): every look copies the one to the other. `turn` and `step` are
the place in teardown and in `terminate_gracefully`. A log counts the lines that match a
pattern; `ready` counts the readiness markers. Time is left out: a bounded wait may end with
its timeout whenever what it waits for has not happened, and the hard timeout may be found
expired at the start of any phase. Begin gives a run new logs, for its artifact directory is
named by a timestamp; processes of an earlier run that live on are in `leftover`.

**SmokeMatrix.** A scenario's process is a behaviour of `SmokeScenario`; it may die at any
step (`SupervisorDies`), and its programs then live on. `report` is the latest report on disk.

**CriterionGuardrail.** A tree is a set of files, visited in any order by one walk per name.
An f64 is an integer, its place in the order of `total_cmp`: finite values count the smallest
positive one, infinities lie beyond them and NaNs beyond those. `Round`, a constant, is the f64
nearest to a fraction; `(-)`, `(+)`, `(/)`, `Percent` and `\preceq` are the operations of f64 on these
places, each rounding once. So 100 to 107 may be computed as more than 7 percent and reported, as it
is by the code, and a NaN, which `parse::<f64>` accepts and no check `<= 0.0` refuses, ends in
exit code 2. Rust leaves the sign of a computed NaN open, which decides where it is sorted: a row
brings the one its division gives. The two zeros are one place, as only a negative zero for a
divisor would tell them apart and every divisor is positive, NaN or the rate of an infinite time,
which is the positive zero. A file that cannot be opened ends like one that does not parse, and is `Malformed`. The reference finds a median by counting, and
`VerdictIsRight` says of the rounded deltas what must hold of the times themselves: nothing is
reported that is not slower, a NaN never passes, and a doubled time passes no threshold below 100
percent (50 for throughput, whose delta is of the rate). What is not claimed: that a report is a
regression (a NaN, an infinite baseline or a rounding at the threshold is reported as well), and
that an infinite throughput baseline is refused (it passes).

## 3. Runs

| Run | Instance | States | Shows |
|---|---|---|---|
| `publish_filters` | all subsets of 7 rows, 3 authorities, one of them malformed | 4068 | `FiltersAreExact`: the deduplicating loop loses no topic and admits none of another authority |
| `registry_three_routes` | 3 concurrent routes, 2 on one binding, failing calls of both kinds, 1 stranded registration, 1 refresh | 219 853 | `RefCountsMatchHolders`, `BindingsAreServed`, `NoStrayListener` |
| `registry_refreshes` | 2 routes on one binding, 2 refreshes, failing calls of both kinds, 1 stranded registration, fair | 68 864 | `CacheIsCoherent`, `BoundRoutesListenExactly`, `CallsReturn` |
| `route_lifecycle` | 3 routes over 2 transports, 3 channels, 3 listeners, failing register calls, 1 refresh | 484 958 | `PoolMatchesRoutes`, `RegistryMatchesRoutes`, `SendersHaveALoop`, `RoutesForwardToTheirTransport`, `NoForwardingWithoutRoute`, `NewBindingsUseCurrentSnapshot` |
| `route_contract` | 2 routes on one worker, fair | 5 591 | `ImplementsContract` (refinement with liveness), `DetachedWorkersStop` |
| `egress_dispatch` | 2 listeners, 4 messages and one with shared memory, queue of 2, fair | 116 073 | `NoSendIsRefused`, `StopsWithNothingLeft`, `ImplementsQueue` (refinement with liveness), `RetiredWorkerStops` |
| `static_file` | both strategies, 2 callers, 2 edits among 4 contents, 1 clear | 511 437 | `AnswersMatchTheFile`, `AnswersAgreeBetweenClears`, `AnswersAreFresh`, `StaleOnlyFromLoadsInProgress` |
| `static_file_clear` | the same | violation | see Findings |
| `other_egress_forward` | 2 routes that differ in the egress transport only | violation | see Findings |
| `streamer_startup` | 14 configurations, 3 to 4 endpoints, up to 5 refreshes, 5 responses of which 2 are incomplete, fair | 2 330 | `ReadyMeansWired`, `OnlySoundConfigsStart`, `SoundConfigsStart`, `StartupEnds`, `HealthSummarisesAttempts`, `HealthMatchesDirectory` |
| `smoke_matrix` | 2 scenarios in a row, the same twice or two that share a binary, 4 claims files, programs that end in every way, fair | 522 963 | `PassIsClean`, `PassIsEarned`, `MatrixPassIsHonest`, `MatrixEnds` |
| `guardrail` | 93 trees, each different from a steady one in one file: slower, at a threshold that rounding misses, missing, broken, zero, negative, infinite, NaN; floats of 5 significant bits | 24 634 | `DirectLayoutWins`, `VerdictIsRight` |

The registry, lifecycle, dispatch, static file and smoke runs also check their module's type
invariant.

**Bounds.** `MaxSnapshots` (refreshes in one behaviour), `MaxAttempts`,
`MaxStranded` (unregister calls that fail), `MaxEdits`, `MaxClears` and `MaxLines` (lines of a
log that match one pattern) are the only artificial ones. The guardrail's floats have 5
significant bits and 10 exponents instead of 53 and 2046: enough for sums and percents that round, for
subnormal values and for overflow. Two edits and a clear put an edit on each side of the clear while a
load is in progress. Three
routes, two of them on one binding, are enough for the meeting of two calls at the
second look while a third binding lives beside it; two refreshes put one between the
directory read and the cache write and one after it. Three messages overflow a
ring of two with one to spare, and the fourth arrives after the lag. `ListenerIds`
and `Senders` hold as many addresses as can be live at once, so reuse happens.
Listener addresses, channels and callers are interchangeable: symmetry is used in
the runs without liveness. Five refreshes are a bootstrap and two failures on each side of a
success. The wrong configurations have one mistake each: a provider mode that does not exist, a queue
of no capacity, a name used twice, an unknown target, a rule given twice, two endpoints of
one authority with a rule between them, and two names for one endpoint. Two scenarios in
a row are what a leftover program or an old report needs to do harm; the second pair shares
`zenoh_client` but no streamer. One matching line meets the claims' threshold, and none does not.

**Deadlock** is checked where the system can always go on. `publish_filters`, `streamer_startup`,
`smoke_matrix` and `guardrail` end by construction; a worker that has stopped with all messages
received has nothing more to do.

**Fairness.** Weak fairness on the steps of a call (its runtime polls it, and a
transport call returns), on each running callback, on the dispatch loop (polled
whenever it can proceed, and `out_transport.send` returns). Nothing makes an
application submit a request, a service answer, or a message arrive: no fairness
there. A start-up, a supervisor and the matrix go on while they can; a bounded wait always can,
so nothing at all is asked of the programs under test, and a teardown need not fail to end. Shell commands (docker, cargo, pgrep) are
taken to return: the code waits for them without a bound.

## 4. Findings

`RouteKey` includes the egress transport, on purpose (`control_plane/route_table.rs:24`);
`IngressRouteBindingKey` does not (`data_plane/ingress_registry.rs:78`). Two routes
with equal authorities and ingress transport but different egress transports are
thus two routes to the control plane and one binding to the data plane:

* `other_egress_forward`: the second route is answered OK and counted, but the only
  listener sends to the first route's channel; the second egress transport
  receives nothing.
* Once the first route is deleted, its worker has left the pool but still runs and is
  still fed, because the binding lives on for the second route: messages go on to the transport
  whose route was deleted. (`DetachedWorkersStop`, which `route_contract` checks, fails on the
  same instance.)

With at most one egress transport per pair of authorities both properties hold:
`route_lifecycle` and `route_contract` check them there.

`clear_cached_subscriptions` empties the cache, but a load that missed the cache earlier
and has parsed the file is not affected (`utils/usubscription-static-file/src/lib.rs:247`):
it stores the old rows after the clear, and calls that begin after the clear are answered
from them (`static_file_clear`), where the service's test expects the new contents.
`StaleOnlyFromLoadsInProgress` says that this is the only way, and is proved.

## 5. Proofs

TLAPS proves every safety property that a run checks, and the safety part of both refinements, for
every set of routes, endpoints, transports, responses, rows, addresses, listeners, messages,
configurations, file contents, claims files, benchmark trees and thresholds, selections of scenarios
and every queue size that satisfies the modules' assumptions:

| Assumption | Says |
|---|---|
| `RoutesAssumption` | routes are finite, join two endpoints and differ in authority (`add_route` refuses others) |
| `ResponsesAssumption`, `RowUniverseAssumption`, `MissingAssumption` | a response is a set of rows, `RowUniverse` has complete ones (`SubscriptionCache::new` refuses others), and an absent field is not a number |
| `RegistryAssumption`, `DispatchAssumption` | which transport calls may fail; the queue size is in 1..65535 |
| `FileContentsAssumption` | a content of the JSON file is unusable or a set of entries, whose parts may be malformed |
| `TreesAssumption`, `ThresholdsAssumption` | a path names one file, whose rows are f64 values or do not parse; thresholds are f64 values, NaN and infinities included |
| `FloatAssumption` | the finite f64 values are closed under negation and hold 0, 1, 50, 100, a half and 10^9; 10^9 divided by any of them is at least the smallest one |
| `ConfigsAssumption`, `ClaimsFilesAssumption`, `SelectionsAssumption` and their like | the shape of inputs |

`PublishResolutionProofs` (any rows, authorities and order of the loop)
* `LoopIsDeriveSourceFilters`: the loop ends with what `DeriveSourceFilters` gives, the operator that
  the registry's model uses for it. `LoopInv` says that the topics seen are those of the
  subscribers met that gave a filter, and that each filter is in the map under itself; a topic
  skipped as seen would have given a filter that is there (`ProjectionDecidesFilter`).
* `FiltersAreExactForAllRows`. `FiltersOfRows` says what cache, merge, lookup and derivation come to
  in terms of the rows; truncating twice is truncating once (`FilterOfIdentity`), so it does not
  matter that the cache keeps identities.

`IngressRegistryProofs`
* `RegistryTypeCorrect`: `Spec => []TypeOK`. Inductive as it stands, one lemma per
  variable; the publish filters are filters because derivation yields URIs.
* `RefCountsCorrect`: `Spec => []RefCountsMatchHolders`. Inductive with the types.
  Each action moves at most its own route into or out of the holders of its
  own key, which changes the cardinality by one.
* `BindingsStayServed` and `NoListenerIsLeftBehind`: `BindingsAreServed` and
  `NoStrayListener`. Neither is inductive. The invariant `OwnershipInv` adds that
  no two owners (bindings or calls at work) have one listener address
  (`DistinctListeners`), that a registering call has its request filter in hand
  from the start (`RequestHeldFirst`), and that what a call past its request
  holds is registered for it (`CallsAreServed`). With distinct listeners an unregister
  call can only remove what its own call owns.
* `CacheStaysCoherent` and `BindingsHaveOneSnapshot`. `SnapshotInv` adds that what a call has read
  is the lookup in the version it read with it (`FoundIsApplied`), that no cache entry is of a
  version still to come, and that what a publish loop has registered and has left are together
  the filters of one version (`LoopHasOneVersion`).
* `ListenersMatchSubscriptions` puts the three together, from the rows of a response to the
  registrations at the transport: a binding's listener is registered for the route's requests and
  the topics that one response names for it, and for nothing else. `StrandedInv` adds that a
  registration whose removal was refused is never again a binding's or a registering call's.

`RouteLifecycleProofs`
* `StreamerDrivesRegistry`: `LifecycleSpec => Spec`, so all of the above holds inside `UStreamer`.
* `LifecycleTypeCorrect`, `TableAndRegistryAgree`, `PoolCountsItsRoutes`: `StageInv` says for each
  await of a request how far its route is in the table and in the registry; a route moves into
  or out of the users of its worker exactly where `attach_route` and `detach_route` are called.
* `EverySenderHasItsLoop`: a step adds a sender only by cloning one or with a new loop
  (`LiveListenersNext`).
* `RoutesForward` and `OnlyRoutesForward` assume `OneEgressPerBinding`, that no two routes differ in
  their egress transport only; the finding above is what happens otherwise. `ForwardInv`
  follows the pool's sender from `attach_route` into the listener and from there into the binding.
* `BindingsAreMadeCurrent`: a refresh never comes between a call's directory read and its end.
* `StreamerListensExactly`: between requests each route of the table has a binding, and apart from
  refused removals nothing is registered but what `BoundRoutesListenExactly` gives those bindings.
* `ImplementsContractSafety`: `LifecycleSpec => Contract!Safety`. A request takes effect when it is
  answered, so `Active` is the table without the route being added and with the one being deleted.
  `RequestInv` adds that the request at work is of the kind its place belongs to, and that a call is
  rolled back only because a transport refused a listener, which the contract allows.

`EgressDispatchProofs`
* `DispatchTypeCorrect`, with `CapacityIsNextPowerOfTwo` for the ring's size.
* `SendsAreNeverRefused` and `StoppedWorkersAreDone`, from one invariant: a stopped
  worker has no pool binding, no registered listener, no callback and nothing
  unread. It is preserved because a listener is only made while the pool holds the
  worker and a callback only begins on a registered listener.
* `ImplementsQueueSafety`: `Spec => Queue!Safety`. What waits is the log from `ReadFrom` on, where
  the loop will read next once it has learnt of a lag. A message accepted into a full ring moves
  `ReadFrom` by one, which is the queue giving up its oldest (`AppendAccepts`); `RecvLagged` moves
  the position to where `ReadFrom` already is, a stutter.

`StaticFileProofs` (any callers, contents, edits and clears)
* `StaticFileTypeCorrect` and `AnswersAreFaithful`. `LoadedFromFile` says that what is parsed, cached
  or answered is the parse of the file at its edit, and that an edit stays what it was;
  `SubscribersAreListed` and `RowsAreListed` say what a parse and the two fetches give in terms of
  the file's entries.
* `ReloadIsFresh`: with AlwaysReload, from the shape of the state alone (`Shape`).
* `CachedAnswersAgree`: not inductive; `CacheRemembers` adds that what was answered since
  the last clear is what the cache holds, which the second look in `StoreParsed` keeps.
* `StalenessIsBounded`: `BoundedByUse` adds that for every clear the current edit, the
  cached one and every parsed one are at least some edit in use at that clear.

`StreamerStartupProofs` (any configurations, responses and number of attempts)
* `SyncCorrect`: types, `HealthSummarisesAttempts` and `HealthMatchesDirectory` together are
  inductive; the number of successes grows by one exactly with a success.
* `ReadyStreamersAreWired`, `ReadyConfigsAreSound`, `SoundConfigsAreStarted`. The invariant `WiringInv`
  says which part of the configuration has been registered and which rules have been wired:
  the table holds the endpoints before `at` under names that are so far unique, and the active
  routes are those of the rules before (`at`, `target`), each a route of its own. A start that
  gives up has met a rule, a name or a size that is unsound, or a fault.
* `StartupTypeCorrect`, `HealthIsFaithful`, `HealthAgreesWithDirectory`: `SyncCorrect`
  carried over, for a start only takes steps of `SubscriptionSync`.

`SmokeMatrixProofs` (any claims files, outputs, endings and selections)
* `PassedRunsAreClean`, `PassedRunsAreEarned`, `MatrixPassesAreHonest`, `SmokeTypeCorrect`. `SmokeInv`
  adds that a handle never runs ahead of its program (`HandlesLag`), what each phase has
  established for the later ones while nothing has failed (`Established`), and that what a
  passed run left stays so until the next one begins (`PassedStays`): logs only grow, ended
  programs stay ended and no new leftovers appear.

`CriterionGuardrailProofs` (any trees, samples and thresholds, any precision and range of floats)
* `DirectLayoutAlwaysWins`. `WalkInv` says that what a walk has kept for a benchmark is one of the
  files it has visited, a direct one if it has visited any; as a name has
  one direct file per benchmark and one of the older layout, it is the chosen one.
* `VerdictIsAlwaysRight` has the hypothesis `RoundsLikeF64(Int)`: rounding is monotone, keeps what
  is an f64, and halving a throughput is exact. IEEE 754 gives the first two, and the third because a
  throughput is never subnormal. It is a hypothesis and no ASSUME, for it speaks of all integers; the
  run evaluates it on its own instance for a set of numbers. `OrderExists`: any samples can be
  sorted, by the least number principle on their count. `SmallestIsSorted`: the place in a
  sorted sequence is found by counting; hence `MedianIsByCounting`. `NotSlowerIsWithin` and
  `DoubledIsBeyond` follow a delta through its roundings, `LittleShare` and `LargeShare` being the last
  two of them; `NaNIsBeyond` follows a NaN. `EvaluationInv` says that the failures so far are
  the benchmarks evaluated so far that are not within their threshold.

Only model-checked: liveness (`CallsReturn`, `DetachedWorkersStop`, `RetiredWorkerStops`,
`StartupEnds`, `MatrixEnds`) and the fairness that `ImplementsContract` and `ImplementsQueue` ask of
the abstract specifications beyond their safety part, for TLAPS does not reason about ENABLED. What a
recursive definition computes for every input would need the library's induction over data, which the
installed provers cannot instantiate: no module that is proved about has one, and sorting is stated as
a choice of an order, whose existence is proved.

## 6. Not modelled

* Logging and observability, thread names, the crate's re-exports: no state.
* Benchmark support (`benchmark_support.rs`): fixtures for the criterion benches that call
  the operations modelled here.
* The third-party transports: external, seen through `register_listener`, `unregister_listener`,
  `send` and `on_receive`. Whether a transport echoes to a listener what the same program sent is
  theirs to decide; the shipped configuration has a rule between two endpoints of one transport.
* The integration-test transport and its clients (`utils/integration-test-utils`): a
  stand-in for those transports in tests, with counters that tests read. `IngressRegistry` takes
  what the crate relies on, a set of registrations.
* The example clients: loops around third-party transports without state of their own.
* Cancellation of a request's future, and the shutdown of the runtime a worker was spawned on.
* Dropping a `UStreamer` that has routes: it has no `Drop`, so its listeners stay registered and go
  on forwarding while the process and its transports live. The programs drop it only as they end.
* Of the guardrail: the command line, on whose errors clap exits with 2 as well, and the report's text.
* Of the smoke suite: arguments, environment, the text of reports and the repro command; leftovers
  of binaries that no scenario of the suite starts; two runs in the same second; log lines that
  arrive after the claims have been judged.

## 7. Plan

Done: sections 2 to 5. What would add most from here:

1. `SubscriptionSync` over `StaticFileSubscription`: a refresh applies only rows that the
   file has held, and never meets an incomplete response.
2. Cancellation of a request's future at each await of `RouteLifecycle`, once the crate says what
   it promises then.
3. The in-process test transport as an implementation of what `IngressRegistry` assumes.
4. The ranks behind the liveness properties, as action properties that can be proved: each step of a
   start-up, of a teardown and of a call's rollback moves it towards its end.
