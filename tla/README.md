# d2ip: TLA+ specifications and proofs

d2ip turns lists of domains and prefixes into IP routes. A *pipeline run* loads the
configured sources, resolves each policy's domains (with a SQLite cache in front of
DNS), aggregates the addresses, writes export files and installs routes or nftables
sets. Runs are triggered by the HTTP API and by cron; the API also edits the
configuration and the sources while runs are in progress, and browsers follow the
events over SSE.

This directory models the stateful parts of that program, checks them with TLC on
small instances and proves nearly all safety results with TLAPS for all instances.
`PROJECT.json` lists components, runs, mutants, the map from definitions to source
lines, findings, hazards and theorems. Paths below are relative to the repository.

## 1. Inventory

| Component | State | Operations | Hard behaviour | What makes it correct |
|---|---|---|---|---|
| Orchestrator (`internal/orchestrator`) | running flag, run counter, CancelFunc, current status, history of 10 | Run, Cancel, Status, History | concurrent triggers; Cancel racing the end of a run; two exits | one run at a time; gapless history; status, events and CancelFunc belong to the run in flight; Run returns |
| Policy run (`orchestrator.runPolicy`, `internal/cache`, `PolicyExporter`) | tables `domains`, `records`; two files per policy | NeedsRefresh, ResolveBatch, UpsertBatch, SnapshotForDomains, WritePolicy, ApplyPolicy, Vacuum | several transactions per upsert; cancel and crash between any two; vacuum during a run; expiry | exported addresses are those resolved; no partial export; routes only after complete files |
| Policy routers (`internal/routing/policy_*.go`) | kernel table or sets, state file per policy | ApplyPolicy | one external command after the other, each may fail; crash; reboot; change of backend | the record agrees with the kernel after success; unaffected prefixes are not touched |
| Resolver (`internal/resolver`) | two channels, worker pool | ResolveBatch, queryDomain, followCNAME, Close | goroutines over bounded channels; retries; lost queries; alias chains; cancel and close | every domain answered once and truthfully; the batch ends |
| Event bus (`internal/events`, `api/events.go`) | subscribers per topic | Subscribe, Unsubscribe, Publish, Close | publish on a copied list; slow clients; double close | order, no blocking of publishers, known panics only |
| Configuration (`internal/config`, policy and settings handlers, `kv_settings`) | current snapshot, version, subscribers, rows | policy create/update/delete, settings put/delete, import, Publish, deliver, start-up | overlapping read-modify-write; rows stored before validation; restart | what is published is valid; edits survive a restart; subscribers hear of changes |
| Source registry (`internal/sourcereg`) | table `sources`, map of live objects, an RWMutex each | AddSource, RemoveSource, LoadAll, ListSources, ListCategories, lookups, refresh, Close | long loads without the lock; nested locks; failing statements | table and map agree; readers are closed; no deadlock |
| Scheduler (`internal/scheduler`) | cron, running flag, context | Start, Stop, ticks | Stop waits without its mutex while jobs run; two Stops and a Start | Stop waits for its jobs and returns; no cron outlives the flag |
| Source store (`internal/source`) | file, temporary, metadata sidecar | Get, ForceRefresh | several stores on one path; crash between file and sidecar; 304 without a file | the file is whole; the sidecar describes it |
| File exporter (`internal/exporter/exporter.go`) | two files with digest sidecars | Write | crash between file and sidecar; two exports at once | an export that reports success is in the file |
| Commands (`cmd/d2ip`: dump, resolve, export) | the above and the database | one process each | two processes over the same files | as for the files they share |
| CIDR aggregation (`pkg/cidr`, `internal/aggregator`) | none | Aggregate, levels | thresholds, integer width, ceilings | each address covered once; the widest networks that qualify |
| Legacy routers, rule selection, logging, metrics, web UI | | | | not modelled, see section 7 |

Interactions: the orchestrator calls registry, resolver, cache, exporter and router in
this order and publishes on the bus; the scheduler's jobs and API handlers trigger it; API handlers call the orchestrator, the watcher and
the registry from goroutines of their own; the watcher publishes on the bus; a run takes
one configuration snapshot when it starts.

## 2. Modules

| Module | Models | Checked by |
|---|---|---|
| `RunLedger` | abstract: runs are numbered, one is open at a time, each is entered once, the last N are kept | refinement from `Orchestrator` |
| `Orchestrator` | `Run`, `Cancel` and what their callers do to contexts | `MCScheduler`, `OrchestratorProofs` |
| `Scheduler` | `Start`, `Stop` and the jobs; EXTENDS `Orchestrator` | `MCScheduler`, `OrchestratorProofs` |
| `PolicyRouter` | `ApplyPolicy` of both backends | `MCPolicyRouter`, `PrefixProofs` |
| `PolicyRun` | `runPolicy` over cache, files and router | `MCPolicyRun`, `PolicyRunProofs` |
| `Dns` | one attempt at a domain: `followCNAME`, `queryType`, the verdict of `queryDomain` | through `Resolver` |
| `Resolver` | `ResolveBatch`; EXTENDS `Dns` | `MCResolver`, `ResolverProofs` |
| `EventBus` | `events.Bus` and the SSE handler | `MCEventBus`, `EventBusProofs` |
| `Config` | watcher, handlers, overrides, start-up | `MCConfig`, `ConfigProofs` |
| `Registry` | `DBRegistry` and the locks of the providers | `MCRegistry`, `RegistryProofs` |
| `Cidr` | levels, tree walk and the aggregation step of `runPolicy` | `MCCidr`, `PrefixProofs` |
| `SourceStore` | `HTTPStore` | through `Cli` |
| `FileExporter` | `FileExporter.Write` | through `Cli` |
| `Cli` | the commands dump, resolve and export; EXTENDS `SourceStore`, `FileExporter` | `MCCli`, `CliProofs` |

One step of a model is what the code does without another goroutine being able to
notice: a locked section, an atomic operation, one channel operation, one SQL transaction,
one external command. A label in `pc`, `phase` or `op` is the place between two such steps.

**Orchestrator.** A caller walks through `Run`: `Acquire` (the CompareAndSwap), `StartRun`,
`InstallCancel`, `SetCurrent`, `LoadAll`, two `CheckCtx` around `Collect`, `RunPolicy` once per
policy, then either `Complete`, `SetFinished`, `Record` or, from any early return, `EmitFailed`,
`Record`; the deferred `CancelOwn` and `Release` end both. `CancelLoad` and `CancelCall` are the
two halves of `Cancel`, which tests the flag outside the mutex. Contexts are the set `done` of
cancelled run numbers, and `parentDone` for the scheduler's context. `AtRegistry` marks the calls of the registry, which
need not return (see Fairness). `mark` is auxiliary: the run a busy caller lost against.

**PolicyRouter.** A `[]netip.Prefix` is a function from prefixes to the number of times it
occurs, because `buildPlan` keeps repetitions and the second `ip route add` of a prefix fails.
The `ip` and `nft` commands are external; a failing or killed command may or may not have
had its effect. `base` is auxiliary: the kernel table when the apply began.

**PolicyRun.** `phase` follows `runPolicy`. Times are ages that saturate at `MaxAge`, since
the code only compares a time with now minus a TTL. An answer that is not valid is "failed":
failed and nxdomain rows are treated alike by everything the model contains. The files are
"old", "new" (this run's) or "torn". `fresh`, `disturbed` and `vacuumed` are auxiliary.

**Scheduler.** Every `Start` makes a numbered cron with a context. A member of `Ticks` is a slot in which
a cron runs one job at a time; `Bind` chooses whose job comes next and `Fire` calls `Run`, whose steps
are those of `Orchestrator`. `Stop` is `StopCancel` and `StopCron` under the mutex, `StopWait` without it, `StopEnd`
under it again. `UsesOrchestrator` is `Orchestrator!Spec` as a property of the composition: every step of the scheduler is one
that `Orchestrator` allows its callers, so what is proved there holds here. `crossed` is auxiliary.

**Resolver and Dns.** Feeder, workers, closer and consumer over `domainCh` and `resultCh`. An attempt at a domain
is one step; its possible verdicts are computed by `Dns` from a zone (aliases, address records, absent names)
and from every combination of lost or failing queries. The upstream server is external and follows aliases
itself. `tries` is auxiliary.

**EventBus.** `Publish` copies the subscribers and then sends to one channel per step. A panic
(send on a closed channel, double close) is the value of `panic` and ends the behaviour.

**Config.** Handlers go through "edit", "publish", "deliver", "drain", "persist", or "put"/"unset",
"getall", "reload", "publish", "deliver". All scalar settings are one key with a legal, a
rejected and an unparsable value. `DecodeSlice` is what viper's decoder does with a slice that is
already there: elements beyond the new length survive. `Publish` ends with the event bus
(`Delivered`), which may panic like a delivery to a closed channel: `Dies` is the handler that Recoverer
ends, before it has persisted anything. Settings requests may write or delete any row, that of the policies too.
`calm`, `missed` and `unsaved` are auxiliary.

**Registry.** A lock is a writer set (inside or waiting: a waiting writer keeps new readers out) and
a reader set. `InfoCategories` is the second RLock that `Info` of three providers takes. An
object is named after the operation that created it and its source id. `ListCategories` collects under the
registry's lock and asks the objects without it; a `Load` holds its object's lock from beginning to end, which is longer
than `v2flygeosite` does (it fetches before it locks), so no wait is missed; `Close` keeps the lock to its end, after which the process
exits. `solo`, `agree` and `calm`
are auxiliary.

**Cidr.** Addresses are numbers of `Bits[f]` bits and Go's `int` has `IntBits`, with IPv4 narrower and IPv6 wider than an
int as in the program; `Shifted` is `1 << n` at that width and `RatioReaches` the division in float64, where
x/0 is +Inf. Thresholds are in quarters. `Collected` is one call of `collectPrefixes`, given
what the calls below it return; the walk is a recursive function over the height of a node. `AsReference` defines the result without a
tree and without thresholds, from what the comments say of the levels: for each address the widest network that qualifies. Runs of the pipeline alternate `Store` and `Export`.

**SourceStore, FileExporter, Cli.** Files have inodes in `SourceStore`, because `os.Create` truncates a temporary that another store is
writing and `os.Rename` moves it under its hands. A body is a list of chunks with the version each came
from. In `FileExporter` a content stands for its digest. `harm`, `early`, `skewed` and `alone` are auxiliary: they record the
events that the code does not guard against, and the properties say that nothing else separates file and
sidecar. The list file and the exported files may be removed by hand at any time, with their sidecars left
(`Removed`). A sidecar is read whole: a store that starts while another one writes it is covered by `early`. `Cli` runs the commands as processes that may die between any two steps.

## 3. Runs

Passing runs:

| Run | Instance | What it shows |
|---|---|---|
| `pipeline` | an API caller, a job slot, 1 canceller, 2 controllers, 2 starts, history of 2, 3 runs; 94,000 states | single flight, gapless history although it is trimmed, busy id at most one behind, status wrong after a failure and only then, stale CancelFunc harmless, events alternate, `RunLedger` is implemented; Stop waits for the jobs of its cron; a cron is left running behind a cleared flag only after two Stops waited side by side; the composition is an `Orchestrator`; Run and Stop return unless a call of the registry does not |
| `policy_router` | 2 IPv4 and 1 IPv6 prefix, up to 2 copies, both backends, all faults; 2.1 million states | `CommonUntouched`, `NoNewDrift` (a successful apply adds no disagreement between file and kernel), `FlushDropsStale` |
| `policy_run` | 2 domains, 1 address per family, one row per transaction, all faults; 1.6 million states | freshness and records stay consistent, no partial export except through `Close` at shutdown, everything resolved is exported, routes follow complete files |
| `resolver` | 3 domains, 2 workers, 1 retry, 2 alias queries, 2 zones; 720,000 states | no domain lost or doubled, every verdict true of the zone whatever queries are lost, the batch ends |
| `event_bus` | 2 clients, 2 publishers, buffers of 2; 66,000 states | order, publishers never block, three situations in which the bus panics and no other |
| `config` | 2 overlapping requests, settings writes to the policies' row included, 1 subscriber with a buffer of 1, failing writes, panics, crashes, 1 restart; 512,000 states | published is valid, sequential edits are durable unless their handler died or failed first, the newest snapshot comes last, requests are answered |
| `registry` | 3 goroutines, 2 sources, 3 operations, failing statements and loads; 1.6 million states | table and map agree unless writers overlapped, MMDB readers are closed, the nested RLock is the only deadlock |
| `cidr` | 3-bit and 5-bit addresses, 4-bit int, up to 4 addresses, 16 configurations; 241,000 states | each address in exactly one prefix, which is the widest network that may stand for it, coverage only grows |
| `cli` | 2 processes, 3 commands, 2 versions of 2 chunks, 2 faults, removed files; 1.3 million states | the file is whole unless two stores shared the temporary; file and sidecar separate only through an unsaved sidecar, overlapping fetches or a removed file; an export lands unless file and sidecar were separated or the file was removed |

Runs that find the code to differ from what the repository says of it:

| Run | Property | Counterexample |
|---|---|---|
| `policy_router_reapply` | `ReapplyIdempotent` | two equal nftables applies: the second flushes and adds an empty difference |
| `registry_wedge` | `NoWedge` | `Info` between its two RLocks, `Load` waiting for the lock |
| `cidr_extras` | `NoExtras` | at level `off` the addresses 0 and 2 are merged into a network; at `conservative` two addresses of an IPv6 network larger than an int are merged into it |

Other places where the code does less than its documentation says. The properties named pass: they except the deviation and
state how far it goes, so they fail if it grows and hold as well of a program that is put right:

| Text | Code | Property |
|---|---|---|
| `docs/PIPELINE.md:76-77`, `docs/ARCHITECTURE.md:213`, `orchestrator.go:3`: a busy caller gets the in-flight run id | between the CompareAndSwap and `SetCurrent` of the winner a loser reads the id of the run before (0 in the first run) | `BusyIdRecent` |
| `docs/PIPELINE.md:78`: a cancel "propagates to every step" | the policy loop does not test the context and logs the errors of `runPolicy`: a run cancelled there goes through all policies and is reported as a success | none; `ExportComplete` for what such a run exports |
| `docs/PIPELINE.md:81-82`: "Crash-safe", "next start computes diff from on-disk reality vs desired" | the plan is computed from the state file, the kernel is never read: routes that a crash, a failed command or a reboot left or took away are not repaired by later successful applies | `NoNewDrift`, `CommonUntouched` |
| `orchestrator.go:69`: the report is "nil if still running" | the failure path never resets `current`, so a failed run stays "running" until the next one | `StatusLagsOnlyFailure` |
| `cache.go:27`: "A domain with no records at all is always stale" | a crash between two transactions or a vacuum leaves a fresh row without records | `ValidHasRecords` |
| `validate.go:14`: "MUST refuse to start" | `serve` applies the stored rows after validation | `PublishedValid` |
| `policies_handlers.go:39`: persisted "for durability" | (a) a panic of the event bus in `Publish` (`watch.go:106`) ends the handler before it persists; (b) PUT, DELETE and import of settings take any key, the policies' row too; (c) a list shorter than that of the YAML file comes back with the file's last policies behind it, so a deleted YAML policy is there again after a restart; (d) one unparsable row hides all rows from the next start; (e) an environment variable for the policies takes precedence over the row | `SerialDurable` |
| `watch.go`, `deliver`: never a stale snapshot | a reader that empties the channel between the two selects makes it drop the newest; overlapping publishers deliver in either order | `NewestLast` |
| `dns.go:101`: "up to MaxCNAMEChain hops" | the bound counts queries, so a chain of that many hops is refused | `VerdictsTrue` |
| `scheduler.go:110` | a late Stop clears the flag that a Start in between has set | `OrphanNeedsTwoStops` |
| `exporter.go:159-182`: unchanged content is not written again | the judgement rests on the sidecar, not on the file: with `ipv4.txt` removed and its sidecar left (as in `d2ip-data/out` of this repository) the export is reported as unchanged and no file is written; likewise after a crash between rename and sidecar | `ExportLands` |
| `source/store.go:1`: atomic replacement | the name of the temporary is fixed | `FileWhole` |

**Why the bounds are enough.** Three runs exceed a history of two, so trimming happens; a
third caller would add no control state that two do not have, because a loser only reads.
Two copies of a prefix are the first case of a repetition. One row per transaction makes every
upsert with two rows span transactions. Three domains with two workers fill both channels and
leave one waiting. A buffer of two with two publishers overflows. Two alias queries are the least with a chain
at, below and above the bound; a zone with a loop, a self-alias, a bare and an absent name has all verdicts. A
3-bit family below and a 5-bit family above a 4-bit int have every case of the shift (positive, sign bit, zero).
Two processes with two chunks are the least that can mix a file. Two starts and two Stops are the least for an
orphaned cron. Two requests are the least
that overlap; a buffer of one makes them fight for one slot. Three goroutines are the least in
which a lister, a loader and a bystander meet. Bounds are constants (`MaxRuns`, `MaxPolicies`,
`MaxStarts`, `MaxCopies`, `MaxAge`, `MaxEvents`, `MaxRequests`, `MaxBoots`, `MaxOps`, `MaxSeen`, `MaxCommands`, `MaxFaults`) and appear in guards. `cidr_extras` keeps the widths of `cidr` and the two levels that
are to add nothing. Symmetry
is used where the permuted values are interchangeable and no liveness is checked.

**Deadlock checking** is off where the system really stops: a finished batch (`Resolver`), a bus after
its last event or a panic, exhausted request and operation bounds (`Config`, `Registry`).

**Fairness.** Weak fairness for goroutines that have been started: callers inside `Run`, controllers inside `Stop`, publishers
inside `Publish`, workers, feeder, closer and consumer, handlers serving a request, a subscriber's
reader. Go schedules runnable goroutines, and what they wait for is bounded: queries, backoffs
and HTTP requests have timeouts, the limiter hands out tokens, sends on the bus do not wait.
The exception is the registry: `registry_wedge` shows a `ListSources` that never gives the registry's lock back, and behind it `LoadAll`, `GetDomains`,
`ResolveCategory` and `GetPrefixes` wait for ever (`registry.go:207`). So no fairness is assumed of a run that is at such a call (`AtRegistry`), and
`EveryTriggerReturns` and `StopReturns` say that Run and Stop hang nowhere else.
Nobody is obliged to start a run, cancel, close, subscribe, or read from the SSE stream.

**Mutants.** Every property of every passing run has a mutant: a changed definition, next to the
original and marked `Mutant:`, that a plausible slip in the Go code corresponds to and that
makes TLC report that property.

**Type invariants.** Every module has one (`TypeOK`, `STypeOK`, `StoreTypeOK`, `ExportTypeOK`, `CidrTypeOK`). They hold in the instances above, but the
configurations leave them out: all are proved for every instance (section 4).

## 4. Theorems

TLAPS proves the following for all values of the constants that satisfy the assumptions named in the
modules. They say what the code guarantees by construction: limits and capacities are natural numbers (the history, a
transaction, a subscription's channel hold at least one), TTLs are below the age at which ages saturate, the two families are disjoint, workers, processes and names are finitely many,
a name that does not exist has no address records, an address has at least one bit and an IPv4 address fewer than an int.
None restricts how many callers, goroutines, processes, domains, sources or faults there are, and no theorem has a hypothesis of its own. Every invariant and every safety action property
that a passing run checks is a theorem; only liveness is left to TLC.

`OrchestratorProofs`: type correctness, `SingleFlight`, `HistoryContiguous`, `StatusOwned`,
`BusyIdRecent`, `CancelOnlyInFlight`, `EventsAlternate`, and that `Spec` implements `RunLedger`.
None of these is inductive alone: whether `SetFinished` writes into the right status depends on
who else may be inside `Run`. The inductive invariant `IInv` has one conjunct per shared variable:
`SingleFlight` says who is inside, `RunIds` that this caller has the newest number, `CurrentInv` and `StatusOwned`
whose status `current` is, `BusyInv` how old a loser's mark can be, `CancelInv` that a leftover CancelFunc was
called by its own run, `EventInv` which event came last, `HistoryContiguous` what the history
holds. `InvStep` has a step per action. The refinement maps `next` to the run counter, `open` to the
run that is numbered and not recorded, `ledger` to the history; `StartRun` is `Begin`, `Record` is `Enter`,
every other step stutters.
`StatusLagsOnlyFailure` needs one thing more, `OutcomeInv`: a caller before the fork of success and failure has a
running status, and after the fork status and last event tell the same outcome.

For the scheduler, `UsesOrchestratorHolds` shows that every step of `Scheduler` is one of `Orchestrator` or leaves its variables alone, so all of the above holds for
cron jobs and API callers together (`JobsSingleFlight` draws that conclusion for `SingleFlight`). `StopQuiesces` and `OrphanNeedsTwoStops` are not inductive: `SInv` adds
that the cron a Stop works on is cancelled first and then starts no more jobs (`WaitsInv`), that the flag implies a cron
(`CronInv`), and that until two Stops meet there is at most one, it works on the cron in `s.cron`, and every earlier cron is stopped (`OneStop`).

`PrefixProofs`, the prefixes that go into the kernel (`PolicyRouter`): type correctness, `CommonUntouched`, `NoNewDrift`, `FlushDropsStale`, under
every fault. The invariant `Effect(p)` follows one prefix through an apply: it is as it was in
`base` until its own command has succeeded, and then as the lists ask; `IpInv` adds where the
loops are, `NftInv` that what has been refilled lies within the wanted list.

`PrefixProofs`, the prefixes of an export (`Cidr`): type correctness, `CoveredOnce`, `AsReference` and `GrowsOnly`, for addresses and an int of any width, any stored
addresses, level and ceiling. Three things had to be proved about recursion first: that `Pow2` has the equation of its definition, that the recursive walk exists
(`WalkedExists`, `RootCall`), and what it returns. `CollectedIs` turns one call, with its shift, division and comparison, into three cases (nothing, one prefix, the
lists of the halves), where `RatioIsEnough` settles the sign bit and the division by zero. `Good` is what a call promises about its node: every prefix is a leaf or a merged node below it, they are in
order and apart, every address is in one, and every node that may be merged is inside one. `GoodEmpty`, `GoodOne` and `GoodJoin` show it for the three cases, `WalkGood` by induction on the height for the
root. `CidrInv` says the same (`Shape`) of the lists in `out` and the addresses stored when they were made; it is inductive because `Store` does not touch either. `NetworksAre` and `QualifiesIs` translate
the reference of `AsReference`, which has no tree in it, into nodes; `ExportedWidest` shows that no candidate is wider than the prefix that stands for an address. Excepted, as in the property, are the level off and networks that an int cannot count. `GrowsOnly` rests on `MergeableGrows`: the count of a node grows with
the addresses and the size it is divided by does not.

`PolicyRunProofs`: type correctness, `RecordsNotNewer`, `ExportComplete`, `AnswersExported`, `RoutesFollowFiles` and `ValidHasRecords`, with crashes, cancels,
vacuums and failures at every point. `IInv` follows domains and addresses through the phases: `AnswersInv` (whom an answer belongs to),
`AgesInv` (an answer not yet written is no older than the records it replaces), `RowsInv` (a record waits for its transaction with its domain row in place), `StoredInv` (an address of an
answer is in the table or in a transaction to come), `CoverageInv` (every domain is fresh, answered or still asked for, unless the context is done or the resolver closed), `FilesInv`, and `HeldInv` (a valid
domain has a record or one to come).

`EventBusProofs`: type correctness, `InOrder`, `PanicsExplained`. `Publish` sends after it has given the lock back, so order depends on
how far behind a publisher each client is: `Newest` says that no client has an event its publisher has not sent, and that one
still on the publisher's copy lacks the newest.

`ResolverProofs`: type correctness, `ExactlyOnePlace` and `VerdictsTrue`. `Places` counts;
the invariant says instead of every two places that they exclude each other (`Once`), and that some place has the domain (`NotLost`); the count follows at
the end with the theorems on cardinality. `TriesOf` bounds the attempts by place.
For `VerdictsTrue`, `VerdictTrue` says which verdicts one attempt can end with, from what `followCNAME` makes of a chain (`FollowResult`): a name on the way, or an error
and then no name among the first `MaxCNAMEChain` ends the chain. By induction on the hops: the walk exists, goes on the same from any of its names (`WalkShifts`), stays at its end and never ends once it repeats a name (`LoopNeverEnds`);
with finitely many names the upstream server, asked for a name on the way, comes to the end of the domain itself (`SameEnd`). `VerdictInv` carries a verdict from the worker over `resultCh` to the consumer.

Induction: the theorems of the library that take a predicate as a parameter cannot be used, so `LeastOf` takes the least element of a set of numbers (from `WFMin` and
`NatLessThanWellFounded`, which have none) and `Induction` is stated for a set: if it has 0 and every successor of what it has, it has all of `Nat`.

`ConfigProofs`: type correctness, `PublishedValid`, `NewestLast` and `SerialDurable`. `Alone` says that while requests have not overlapped one handler at most is
at work; `NewestInv` that a subscriber without the newest version is still before the one who delivers it; `DurableInv` that what
the rows lack of the policies in effect is what this handler has yet to persist, or `unsaved` says that it was lost. `Synced` is the relation between rows and policies that a
decode into the file's list leaves behind (`BootSyncs`, `ReloadKeeps`); `DecodeHead` draws the conclusion for a list shorter than the file's. Requests may write any key, and fail, panic or
crash at every step.

`RegistryProofs`: type correctness, `NoOtherWedge`, `Agreement`, `ReadersClosed`. `LockInv` has the locks in it: every writer and reader set holds exactly the goroutines that are between
Lock and Unlock, by their `pc`. From it `NoOtherWedge` follows by asking, for the goroutine that would have to be last, what it waits for.
`AgreeInv` says where table and map differ on purpose: `NumInv` keeps the objects of different operations apart, `CfgInv` fixes their configuration,
`SoloInv`, `PartInv` and `FillInv` describe the one writer that has changed the table and not yet the map. `DataInv` says what a goroutine is loading, `CalmInv` that the one mutator still has every open reader outside
the map on its list to close or to bring in. `SingleInv` bounds the sets that stand for optional values.

`CliProofs`: type correctness, `FileWhole`, `SidecarDescribes`, `MetadataFollowsFile`, `ExportLands`, for `Cli` as composed of `SourceStore` and `FileExporter`.
`TempInv` says which inode is behind the temporary's name and who may write to it, up to the recorded harm; `SidecarInv` and `MetaInv` what a store knows of the sidecar; `PlacedInv` and `AgreeInv`
when the exporter's decision by the digest is right.

Only model-checked: liveness (`EveryTriggerReturns`, `StopReturns`, `BatchEnds`, `PublishReturns`, `RepliesEventually`), which the prover does not handle.

## 5. Running it

    tlc -workers 2 -config MCScheduler.cfg MCScheduler
    tlapm OrchestratorProofs.tla

and likewise for the others; `PROJECT.json` names module and configuration of every run. No run
takes more than about three minutes with two workers.

## 6. Plan

Modelled: everything the inventory names except section 7. Proved: the safety of every component. What is left:

1. Shorter proofs: `RegistryProofs` repeats the frame of each action in three invariants.
2. Refinements of larger parts: that the answers of `Resolver` are those `PolicyRun` assumes, that its export is the one `Cidr` computes. So far the modules meet
   only in what they assume of each other.

## 7. Not modelled

- Parsing and formatting (rule selection, MMDB, protobuf, export formats): functions without state.
- The legacy routers (`iproute2.go`, `nftables.go`): nothing calls their `Apply`, so the state file that `Rollback` (the one
  operation with an effect that the API still reaches) reads is never written.
- `POST` handlers that only read; static files.
- The web UI, logging, metrics: no behaviour of the modelled parts depends on them.
- Prefix categories of a policy beyond the fact that a policy may have no domain.
- Temporaries that `FileExporter` leaves behind when a rename fails: nothing reads them.
- An `AddSource` after `DBRegistry.Close`, which would write to a nil map: the process exits right after `Close`.
- Go's memory model below the level of locks, atomics and channels: the modelled state is accessed under them.
- Panics inside `Run`; the bus models where they come from.
- `NFT` table creation and `Caps` beyond success or failure; `RollbackPolicy`, which does nothing.
