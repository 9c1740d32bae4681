# A TLA+ verification of Nightjar

Nightjar watches the policies of a Kubernetes cluster, keeps an index of the
constraints they impose and tells developers about them: as Events, workload
annotations, ConstraintReports, admission warnings and answers to tools.
Beside the code lie here TLA+ modules of its parts, the configurations with
which TLC checks them on small instances, and theorems about them that TLAPS
checks for every value of the constants.

`PROJECT.json` holds the correspondence of every definition with the lines of
code it models, the runs, one mutant for each checked property, the hazards of
the code and the theorems.

Contents: [the system](#the-system), [modules and code](#modules-and-code),
[runs](#runs), [bounds](#bounds), [fairness](#fairness), [proofs](#proofs),
[only model-checked](#what-is-only-model-checked),
[disagreements with the docs](#where-the-code-and-its-documentation-disagree),
[not modelled](#what-is-not-modelled), [plan](#plan).

## The system

Three programs: the controller (`cmd/controller`), the admission webhook
(`cmd/webhook`, several replicas) and the command line (`cmd/nightjarctl`).

| part | code | goroutines and shared state | module |
|---|---|---|---|
| discovery engine | `internal/discovery/engine.go` | periodic scan, event handlers of the informers, profile reconciler; `watchedGVRs`, `profiles` under one mutex | `Discovery`, `Policies` |
| ConstraintProfile controller | `internal/controller` | one reconcile at a time, calls the engine | `Discovery` |
| adapters | `internal/adapters/*` | pure parsers from object to constraints | `Parsers`, in `Policies`; `Discovery!Parse` |
| adapter registry | `internal/adapters/registry.go` | `adapters`, `gvrMap`, `groupMap` under an RWMutex | `Registry`, `Policies` |
| indexer | `internal/indexer` | map by UID under an RWMutex; a callback runs after the unlock | `Indexer` (operators), `Discovery`, `Policies`, `ReportReconciler` |
| report reconciler | `internal/notifier/report_reconciler.go` | callbacks set triggers, a ticker's loop writes reports | `ReportReconciler` |
| workload annotator | `internal/notifier/workload_annotator.go` | callbacks and workers send to one bounded channel the workers drain | `WorkloadAnnotator` |
| correlator | `internal/correlator` | event watch, flow goroutine, dedupe map, cleanup routine, two bounded channels | `Correlator` |
| dispatcher | `internal/notifier/dispatcher.go` | dedupe cache, token bucket per namespace, cleanup routine | `Dispatcher`, `NsRateLimiter`, `Notifier` |
| Hubble client | `internal/hubble` | reconnect loop, bounded channel, `Close` | `HubbleClient` |
| requirement evaluator | `internal/requirements` | rules, debounce map, cleanup routine | `Evaluator`, `Requirements` |
| service map | `internal/servicemap` | two watching goroutines, four maps under an RWMutex | `ServiceMap` |
| MCP server | `internal/mcp` | tool handlers over the index; event stream with a channel per client | `Views` in `Policies`, `McpStream` |
| HTTP API | `internal/api` | views of the index | `Views`, `Admission` |
| certificate manager | `internal/webhook/cert.go` | replicas that share a Secret and a CA bundle | `CertManager` |
| admission handler | `cmd/webhook` | one goroutine per request, asks the controller | `Admission`, `Views` |

How they interact. The engine's informers fill the index. Every change of the
index calls the report reconciler and the annotator. The correlator watches
Warning events and dropped flows, looks up the constraints of the namespace and
hands pairs to the dispatcher, which creates Events. Those are Warning events
again for critical constraints, so the correlator's watch sees them: module
`Pipeline` composes correlator and dispatcher to look at this loop. Module
`Notifier` composes dispatcher, limiters and the cleanup routine they share.
Module `Policies` follows a policy object through the registry, the handlers of
its informer, the parser of its adapter and the index to the answers about it.
Module `Requirements` puts the four rules, which query the cluster call by call,
into the evaluator.
The webhook asks the controller's API for constraints while both may crash
(`Admission`).

The components of the code, with the reasons for those left out, are listed
under `components` in `PROJECT.json`; what can go wrong in them that a test
would hardly reach, under `hazards`.

## Modules and code

The steps of a module are the critical sections and API calls of the code;
between two of them every other goroutine may take its own. Data is reduced to
what the properties tell apart: a constraint is a UID with a source or a scope,
a certificate is the number of its generation, a message has no text.

- **Clock**, **Common**: the time that parts share, in ticks, and the value for
  nothing.
- **NsRateLimiter**: `nsRateLimiter`. The bucket of `golang.org/x/time/rate` is
  external; tokens are integer units, `Cost` of them a call and `Rate` a tick,
  which is the code's `perMinute/60` per second without fractions. A window of
  observation opens at any moment (`OpenWindow`, history only).
- **Dispatcher**: `Dispatch` and `DispatchDirect` as a caller's walk: the rate
  limit (`Accept`), `tryMarkSeen` (`MarkSeen`, `Suppress`), the create request
  (`CreateEvent`, `CreateFails`). `Cleanup` is one tick of
  `cleanupDedupeCache`. A place is the key's "namespace/name".
- **Notifier**: both together. A tick of the cleanup routine is two steps,
  `SweepCache` and `EvictLimiters`, under two mutexes.
- **Indexer**: `Upsert`, `Delete`, `DeleteBySource`, the lookups: operators on
  the map `byUID`, used by the modules that hold an index.
- **Discovery**: `RegisterProfile` (`RegisterDisabled`, `RegisterEnabled`),
  `UnregisterProfile` (`ReconcileUnregister` up to the unlock,
  `UnregisterCleanup` after it), `scan` (`ScanDiscover` decides,
  `ScanStart` starts informers in a later critical section; the walk over the
  discovered resources and the refresh of the annotated CRDs, which the code
  makes in this order and under the lock only in part, are the one step
  `ScanDiscover`), the handlers
  (`HandlerTakes` checks `watchedGVRs`, `HandlerParses`, `HandlerUpserts`,
  `HandlerDeletes`), `Stop`. A listener stands for one event-handler
  registration of client-go with its queue, external code.
- **Registry**: `Register` with its failure half way, `RegisterGVR`,
  `Unregister`, `UnregisterGVR`.
- **ReportReconciler**: `OnIndexChange` runs some time after the change
  (`callback`), `processPendingTriggers` swaps the triggers, lists namespaces,
  and for each namespace requeues it (debounce) or reads the index and writes
  the report. `missed` is history: namespaces for which something happened
  after which the code queues nothing.
- **Parsers**: `Parse` of the eight adapters as operators from an object to
  its constraints. The content of an object is a function whose domain is the
  set of fields that are there, so that a field may be missing at any level, as
  in an unstructured object. A UID is the object's with the number of the part
  or rule.
- **Policies**: what `main` registers (`Boot`), objects that are created, edited,
  deleted and created again, the informers that see each version or, after a
  broken watch, only the last one (`Relist`), their resync, the handlers call by
  call with every write to the index a step, `RegisterProfile` and
  `UnregisterProfile` for watched GVRs, and the questions of `Views`. How
  informers start and stop is left to `Discovery`. `kept`, `replaced`, `late`
  and `renamed` are history.
- **WorkloadAnnotator**: `OnIndexChange`, `queue...Update` (`Send`, which drops
  what is debounced or finds the channel full, and panics on the closed one),
  `processUpdate` (`Take`, `Resolve...`, `ReadConstraints`, `Patch`), the cached
  workload lists, and `Start` with its shutdown. A change has the scope of its
  constraint, and where the constraint applied before: the index changes in all
  these namespaces, while `OnIndexChange` queues those the constraint names
  (`Matched`, `Queued`). The PATCH and the note of its time are two steps
  (`Patch`, `RecordPatch`). `missed` is history: workloads whose last change was
  not queued, was dropped or was overtaken.
- **Correlator**: `watchEvents` with watches that close and replay what is
  stored, `handleEvent`, `processFlowDrops`, `tryMarkSeen`, the select around
  the send (`Send`, `SendCancelled`, `SendDefault`, `SendPanics`),
  `cleanupDedupeCache`, the shutdown in `Start`. `sent`, `lost` and `refused`
  are history.
- **Pipeline**: the loop of `cmd/controller/main.go` that hands notifications
  to the dispatcher, and `createEvent`, whose Warning comes back to the watch.
- **Evaluator**: `Evaluate` reads the clock once, asks rule after rule (each may
  fail) and then the debounce map; `CleanupStaleEntries` runs in between. What
  the rules answer is left open. `foundSince` and `forgotten` are history.
- **Requirements**: the four rules as the lookups they make, in their order,
  with what each accepts, what makes a rule not apply, and whose failure is
  passed over; the cluster changes between any two lookups. It implements
  `Evaluator` (proved).
- **ServiceMap**: `doWatchServices` and `doWatchEndpoints` with watches that end
  and begin anew, `upsertService`, `deleteService`, `upsertEndpoints`,
  `deleteEndpoints`, the lookups. Of the slice of services that share a port
  number of a namespace the model keeps how often each occurs, not the order.
  `contested`, `unseen`, `held`, `lost` and `seenWith`
  are history. No program of the repository uses the package.
- **HubbleClient**: `connectionLoop` with `streamFlows` and every kind of answer
  (a dropped flow, another one, the end of the stream, an error),
  `recordFlowDrop`, which sends (`RecvFlow`) and then counts (`Count`), and
  `Close`. `grpc.NewClient` does not dial, so a relay that is down shows only in
  the stream.
- **CertManager**: `startServer` and the ticks of `StartRotationWatcher`,
  request by request, with conflicts of resource versions, failing requests and
  crashes; the three fields in memory are assigned in two steps since the
  handshake reads them without a lock.
- **Views**: the answers of the MCP tools, the capabilities and the status
  command, the status of a report and the warnings of the webhook, as actions on
  the index of `Policies`. Where the code walks a map, any order may be taken.
- **McpStream**: `handleSSE` and `BroadcastEvent` with the read and write lock
  of the client map. Any goroutine may broadcast (`CallBroadcast`). In the
  deployed controller none does, as it does not subscribe the server to the
  index (see below): what is shown is of the component.
- **Admission**: a request from the webhook's handler over the query with its
  timeout to the response; the controller crashes and comes back empty.

## Runs

Twelve runs, one per part or composition. "Distinct states" is what TLC reports.

| run | module | what it shows | states |
|---|---|---|---|
| `notifier` | `MCNotifier` | two Events of a pair are let through at least a suppression window apart (`OncePerWindow`); a pair is silenced only by an Event that was created, refused or is being created (`MarksExplained`); no window of time grants more than burst plus refill although limiters are evicted (`WindowBound`) | 331,668 |
| `discovery` | `MCDiscovery` | no stop channel is closed twice (`NoDoubleClose`); a watched GVR has a running informer (`WatchedIsLive`) if at most one profile names it, and that profile no other; no race loses an object for good (`IndexComplete`); native resources end with exactly their constraints (`IndexConverges`) | 164,339 |
| `reports` | `MCReportReconciler` | a report that differs from the index has something under way or one of five named reasons (`NoLostUpdate`), and without one becomes right (`ReportsConverge`) | 71,165 |
| `annotator` | `MCWorkloadAnnotator` | an annotation that is behind has an update under way, one that was dropped or overtaken, or a change that `OnIndexChange` did not queue for its namespace (`StaleExplained`); at most one PATCH per worker within the debounce duration (`PatchBurst`); the workers, which feed the channel they drain, never come to a halt (`AnnotationsConverge`); after cancellation `Start` returns, and nothing is written afterwards, or a send to the closed channel ends the process (`ShutdownCompletes`) | 248,546 |
| `pipeline` | `MCPipeline` | the correlator passes a pair once per window (`OncePerWindow`), skips it only for a reason (`SeenExplained`); the echo of Nightjar's own Events is bounded (`EchoBounded`); `Start` returns and the flow goroutine ends, or its send to the closed channel ends the process (`StartReturns`); every Warning leads to an Event or a named excuse (`Announced`) | 31,471 |
| `requirements` | `MCRequirements` | a companion resource is reported exactly when the evaluations that could tell found it missing for the debounce duration, unless its entry was cleaned up (`DebounceExact`); a rule finds one missing only if it was at some moment since the rule began, or one companion replaced another behind its lookups or the namespace left the mesh, or `istio-system` could not be listed (`MissingExplained`) | 149,512 |
| `hubble` | `MCHubbleClient` | flows arrive in order and once, the counter lags by one flow at most and is exact when the channel is closed (`DropsInOrder`); `Close` returns unless the loop stays in `Recv` for ever with a live context (`CloseTerminates`); when the relay stays up the client ends up streaming (`Reconnects`) | 8,066 |
| `cert` | `MCCertManager` | the CA bundle is always one of a stored Secret, and replicas at rest with the stored certificate are trusted unless a bundle update failed (`BundleSound`); replicas come to rest, trusted, unless one is outdated or a bundle update failed (`ReplicasTrusted`) | 159,180 |
| `stream` | `MCMcpStream` | no send on a closed channel (`NoSendOnClosed`), no duplicate or reordering (`InOrder`), clients get away (`LeaveCompletes`) and broadcasts return (`BroadcastReturns`), although clients may never read | 30,440 |
| `admission` | `MCAdmission` | every request is admitted (`AlwaysAdmitted`), with warnings of one moment while it was under way (`WarningsCurrent`) and none of a lasting constraint left out (`WarningsComplete`) | 18,715 |
| `policies` | `MCPolicies` | every object of a watched GVR ends up in the index as its adapter reads it (`ObjectsIndexed`); what else the index holds for it has one of four reasons (`LeftoversExplained`); a group with a mapped GVR has an adapter (`GroupKnown`), which changes only when it leaves (`FirstWins`), also after registrations that failed half way; what a check announces the webhook warns of (`Forewarned`) and summaries, reports and the totals of the status command count alike but for the cluster-scoped constraints (`CountsAgree`), for the indexes the adapters produce | 59,251 |
| `servicemap` | `MCServiceMap` | the port index has every port of every known service once, and an address resolves to a service that has it (`ServiceIndexesExact`); an endpoint that resolves to no service or to the wrong one has a named reason (`EndpointsExplained`) | 903,990 |

Type invariants are not listed as properties. Those of the modules with proofs
are proved below, alone or within the inductive invariants; those of `Admission`,
`McpStream` and `HubbleClient`, of which the proofs need a part only, TLC has
checked under the same configurations (add `INVARIANT TypeOK`). For every property
`PROJECT.json` names a mutant: a definition changed the way a plausible bug
would change it, under which TLC finds that property violated. The mutated forms
stand before the definitions they belong to, as `<Definition>_<Bug>`.

**Scenarios.** Six MC modules (`MCDiscovery`, `MCWorkloadAnnotator`,
`MCPipeline`, `MCMcpStream`, `MCPolicies`, `MCRequirements`) have a variable
`scenario`, constant over a behaviour, and a formula `Within` that restricts what
the *environment* does in it. A run then covers several kinds of environment
without their product. Nothing the program itself may do is restricted, and the
fairness is that of the specification. The scenarios of `MCPolicies` are one per
family of adapters (with the objects it handles and those it gets through its
API group), one in which profiles put other adapters in charge, one for the
views, and one that calls the registry directly with three adapters that
overlap. Those of `MCRequirements` are one per rule, and two for the issuers.

**Excuses.** Some guarantees that one would like do not hold of the code; the
properties then name the gaps, through history variables (`missed`,
`lost`, `refused`, `throttled`, `unbundled`, `kept`, `replaced`, `late`,
`renamed`, `forgotten`, `contested`, `unseen`), and claim that nothing else goes
wrong.

## Bounds

| bound | where | why it is enough |
|---|---|---|
| 2 goroutines of a kind (`Callers`, `Writers`, `Workers`, `Clients`, `Replicas`, `Requests`) | all | every race in the code is between two critical sections; the loops over clients and requests are symmetric |
| `MaxTime` 5, windows of 2 ticks | notifier, requirements | two windows and a tick beyond: marks expire, are swept and are made again |
| `MaxTime` 2, windows of 2 | pipeline | the end of a window is reached with the echo of the first notification still stored |
| `Rate` 1, `Burst` 2, `EvictAge` 2 | notifier | the bucket is drained and refilled, and eviction is possible as soon as the code's assumption (an idle bucket is full before it is evicted, `EvictAssumption`) allows it |
| `Capacity` 1 or 2 | channels | empty, partly filled and full |
| `MaxChanges`, `MaxMade` 2 to 4 (2 changes in most annotator scenarios, 3 broadcasts in the stream run: one more than a channel holds) | discovery, reports, annotator, stream, admission | a change, its undoing and one more while the first is under way |
| `MaxListeners` 4 | discovery | more than the informers three GVRs and a restart need at a time |
| `MaxGen` 7 | cert | never reached: the bounds on crashes, failures and expiries stop the replicas from generating more than six |
| `MaxFailures`, `MaxCrashes`, `MaxOutages`, `MaxAges`, `MaxRefused`, `MaxThrottled` 1 | several | one fault at every point; the excuses of the properties do not count faults |
| `MaxFailures` 4, `Base` 1, `Cap` 5 | hubble | the interval doubles to 2 and 4 and is then capped |
| `MaxFlows` 3, `BufferSize` 2 | hubble | a full buffer and a flow after it |
| `MaxIncarnations` 2, `MaxWrites` 4 (3 in some scenarios), `MaxProfileChanges` 2, `MaxParts` 2 | policies | an object is made, edited or deleted, and made again under a new UID; a profile is made and changed or removed; up to two constraints of an object, so that one can be lost and the other kept |
| two or three versions of an object, 1 profile | policies | versions that differ in the number, the UIDs, the severity or the validity of their constraints |
| 1 workload, 2 to 4 objects a scenario | requirements | one object for each way in which a rule finds or refuses a companion |
| 2 services with 2 specs and 2 sets of endpoints each, `MaxWrites` 5, `MaxBreaks` 1 | servicemap | two services share an address and an endpoint, one after the other, across a broken watch |
| `MaxOwn` 3 | pipeline | one more than `EchoBounded` allows |

`CallerSymmetry` in the notifier run permutes the two callers, which no
property names. Deadlock checking is off where a bounded environment, or the
program after its shutdown, really stops; it is on in the notifier run.

## Fairness

Weak fairness of a goroutine's step says that the scheduler runs it; weak
fairness of a request that it is answered or fails. Beyond this:

- *Pipeline*: strong fairness of `StopWatch` and `StopFlow`, since a Go
  `select` picks among the ready cases at random and a cancelled context stays
  ready; strong fairness of `TakeEvent` for the cluster's own events, since a
  watch does not close again and again before a stored event is delivered. The
  events Nightjar creates get none.
- *Discovery*: strong fairness of a complete `ScanDiscover`: not every discovery
  call fails for ever. Informers resync (the factory is made with a resync
  period).
- *Policies*: `main` goes on, `UnregisterProfile` returns, informers again and
  again catch up and their handlers return (the API server and the parsers do
  not hang), and every cached object of a watched GVR is resynced again and again
  (the factory's resync period). It is stated as `[]<>` of these conditions: with
  finitely many changes that is weak fairness of the steps, without TLC having
  to evaluate the parsers to tell whether a step is possible.
- *HubbleClient*: weak fairness of what the client does of itself (`Advance`) and
  of the waiting caller; none of a `Recv` that waits for a flow, as the relay may
  be silent for ever. That case occurs: without its exception `CloseTerminates`
  is violated. `Reconnects` has a relay that stays up as its hypothesis.
- *McpStream*: weak fairness of the broadcasting goroutines and of `handleSSE`
  where it waits for the lock; none of the writes to a client (`StreamEvent`),
  which may block for ever.
- *WorkloadAnnotator*: `Start` goes on after the cancellation, as do workers and
  callbacks.
- *Admission*: weak fairness of the query or its timeout and of the response;
  none of the controller, which may hang for ever.
- *ReportReconciler*, *WorkloadAnnotator*: the debounce duration elapses.
- *CertManager*: every replica goes on; no fairness of crashes or of expiry.

## Proofs

Eight modules of proofs, about modules whose constants are arbitrary within their
assumptions. They are invariance proofs with one lemma or step per action, and
proofs that a composition implements its parts.

| module | about |
|---|---|
| `DispatcherProofs` | `Dispatcher` |
| `NotifierProofs` | `ReportReconciler`, `NsRateLimiter`, `Notifier` |
| `CorrelatorProofs` | `Correlator` |
| `PipelineProofs` | `Pipeline`, `HubbleClient` |
| `DiscoveryProofs` | `Discovery`, `CertManager` |
| `ControllerProofs` | `Evaluator`, `Requirements`, `Registry`, `Admission`, `McpStream` |
| `AnnotatorProofs` | `WorkloadAnnotator` |
| `ServiceMapProofs` | `ServiceMap` |

A module of proofs extends all the components it is about. Unless one of them
builds on another they share no state: their variables and specifications have
names of their own (`EvaluatorSpec`, `AdmissionSpec`), and the constant `None`,
which several use, is declared in `Common`. `PipelineProofs` uses the results of
`DispatcherProofs` through an instance, `DP`, with the pipeline's one caller of
`Dispatch`.

| theorem | statement | argument |
|---|---|---|
| `RateLimited` | `LimiterSpec => [](LimiterTypeOK /\ WindowBound)` | `Balance` bounds, for every namespace, the calls admitted in the window plus the tokens now available by burst plus refill. A namespace without a limiter counts as one with a full bucket; an evicted one was full, because its last grant is no later than its last access (`GrantBeforeAccess`) and it then had the time to fill (`EvictAssumption`: 100/60 tokens a second for an hour, against a burst of 10) |
| `DispatchedOncePerWindow` | `Spec => [](TypeOK /\ OncePerWindow)` of `Dispatcher` | between the mark and the create request a caller holds a mark that no Event shows, so the invariant speaks of both: each mark is still remembered by the cache or a window old (`EventsRemembered`, `CallersRemembered`), and any two of a pair are a window apart (`CallersApart`, `CallersApartFromEvents`) |
| `SilenceExplained` | `Spec => []MarksExplained` | inductive with the types |
| `NotifierImplementsParts` | `NotifierSpec => Spec /\ LimiterSpec` | every step of the composition is a step or a stutter of each part |
| `NotifierCorrect` | the three invariants of the `notifier` run and the types | from the theorems above |
| `CorrelatedOncePerWindow` | `Spec => [](TypeOK /\ OncePerWindow)` of `Correlator` | as for the dispatcher, with two goroutines that hold marks (`Marks`), and `Typed`: a goroutine that holds one is inside the loop over a namespace's constraints (`InNamespace`) |
| `SkipsExplained` | `Spec => []SeenExplained` | a mark in the cache is that of something sent or lost (`Gone`) or in a goroutine's hands (`Held`); that it is there needs the types, that a later mark does not take its place needs `Marks` |
| `PanicOnlyInFlow` | `Spec => []PanicsInFlow` | `Closing`: `Start` closes the channels when the watch goroutine, which is `Start` itself, has no event in hand |
| `PipelineImplementsCorrelator`, `PipelineImplementsDispatcher` | `SpecPipeline => Spec`, `SpecPipeline => D!Spec` | every step is one of the part's or leaves it alone, in states where both parts are well typed (`Joined`): a received notification is a place and a constraint the dispatcher knows |
| `EchoDiesOut` | `SpecPipeline => []EchoBounded` | `Counted`: every Warning of Nightjar's own stands for an Event of the dispatcher. By `DispatchedOncePerWindow`, which the refinement carries over, the Events of a pair fall into different windows, so that numbering windows maps them one to one into a finite set |
| `FlowsInOrder` | `HubbleSpec => []DropsInOrder` | `Streamed`: the flows received and queued are increasing, none is newer than the last one observed, and the counter is their number, less one between the send and the count; the channel is closed only when the loop is done (`Counting`); that what the consumer takes moves from one sequence to the other is lemma `Moved` |
| `WaitBounded` | `HubbleSpec => []WaitWithin`, the interval between its base and its cap, the safety half of `Reconnects` | inductive; the assumption `Base <= Cap` is needed for the first wait and after each connection |
| `ChannelsClosedOnce` | `Spec => [](TypeOK /\ NoDoubleClose)` of `Discovery` | `ChannelsLive`: the channel a profile holds belongs to a running informer of its GVR; `ChannelsApart`: no two profiles hold the same one. Neither follows from the types; together they say a close finds an open channel. Profiles that share or change GVRs are included |
| `InformersLive` | `Spec => []WatchedIsLive` | closing a profile's channel stops informers of its GVR only (`ChannelsLive`), and a profile has a GVR it may name (`ProfilesNamed`, `SpecsNamed`). If that GVR is `Apart`, the step that closes also takes it out of `watchedGVRs` |
| `UpdatesNotLost` | `ReportSpec => [](ReportTypeOK /\ NoLostUpdate)` | `NoLostUpdate` is inductive with the types |
| `ReportsDebounced` | `EvaluatorSpec => []EvaluatorTypeOK /\ DebounceExact` | `Aged` ties the debounce map to the findings, in both directions: the findings an entry stands for began no later than the entry, except while `Evaluate` is about to clear it (`Backed`, `Clearing`); and findings have an entry no younger than they are, except while `Evaluate` is about to make it or after a cleanup (`Entered`, `Entering`, `forgotten`) |
| `RulesImplementEvaluator` | `ReqSpec => EvaluatorSpec` | every lookup, failure and change of the cluster is a step of the evaluator or leaves it alone; that the rules still to be asked are rules of the evaluator is an invariant |
| `RulesDebounced` | `ReqSpec => DebounceExact` | from the two above |
| `MissingIsExplained` | `ReqSpec => MissingExplained` | `Searching`: a rule at work has made a first part of its lookups and would pass each of them now, unless a companion appeared or the need ended; `LookupsSound` says of each rule that its lookups accept its companions and nothing else, so a rule that would pass them all has a workload that lacks its companion now |
| `GroupsKnown`, `FirstKept` | `RegistrySpec => [](RegistryTypeOK /\ GroupKnown)`, `RegistrySpec => FirstWins` | `GroupKnown` is inductive with the types; `FirstWins` follows from the types alone, step by step |
| `AnnotationsExplained` | `Spec => []StaleExplained` of `WorkloadAnnotator` | a change queues an update for every workload it concerns or counts it as missed (`ChangeExplained`); needs that what a worker read and what was written is no newer than the index (`NotAhead`), so that a change of the index makes it stale and not right by accident, and that a worker sends what it resolved before it takes more (`SendsFirst`) |
| `PatchesBounded` | `Spec => []PatchBurst` | inductive with the types; counts the workers that passed the check, until they have noted the time of their PATCH |
| `NothingAfterReturn` | `Spec => NoLatePatch` | `Waited`: `Start` returns when every worker has |
| `CABundleSound` | `CertSpec => [](CertTypeOK /\ BundleSound)` of `CertManager` | `HandsStored`: what a replica assigns and publishes was stored first. `Vouched`: some replica's certificate is the one of the bundle, or that replica is about to update the bundle, or its update failed; `Whole`: certificate and key agree between the two assignments |
| `WarnedOfCurrent`, `WarnedOfAll` | `AdmissionSpec => []WarningsCurrent`, `[]WarningsComplete` | `AdmissionInv`: index and answer lie between what was there all the while and what was there at some time |
| `BroadcastSafe` | `StreamSpec => []NoSendOnClosed` | `MapGuarded`: a client leaves the map before its channel is closed, and a broadcast has only clients of the map before it while it holds the lock |
| `StreamsInOrder` | `StreamSpec => []InOrder` | `Past`: no stream holds an event that is yet to be broadcast, or yet to be sent to this client |
| `ServicesIndexed` | `MapSpec => []ServiceIndexesExact` | `ServicesInv`: while the watch is open, the last event about a service shows it as it is, and a service no event is about is known as it is or went between two watches (`Follows`); the port index counts each port of a known service once (`PortsExact`), which needs that no two ports of a service are alike; an address belongs to a service known with it (`Addressed`), although `removeServiceFromIndexes` takes it from whoever has it, as two services known with one address make it contested (`Shared`) |
| `EndpointsResolved` | `MapSpec => []EndpointsExplained` | `EndpointsInv`: an endpoint the map or an event of the watch shows is one the service has had (`Heard`), and it is there still, was lost without an event, or goes with a DELETED event that is on its way (`Kept`, `Traced`); what no event is about has been read (`Taken`). The order of the events matters: the DELETED event must be behind the one that showed the endpoint |

`NoLatePatch` and `PanicsInFlow` are the safety halves of `ShutdownCompletes` and
`StartReturns`, whose other halves are liveness.

The assumptions are those of the modules (`ASSUME` beside the constants): bounds
are naturals, windows are positive, the sentinels (`None`, `Never`, `Sentinel`)
are no values, functions have their domains, and sets that are counted or listed
(objects, services, workers, critical constraints) are finite, or have a number
and an order in which they can be listed; the pipeline's own events are none of
the cluster's; the ports of a service differ in number or name, and cluster IPs
are no addresses of pods. TLC evaluates all of them in the runs.

### What is only model-checked

- All liveness properties: the prover handles neither fairness nor `ENABLED`.
- `LeftoversExplained`, `Forewarned` and `CountsAgree` of `Policies`. They are
  about what the parsers and views compute: filters, concatenations and counts of
  sequences as long as the object or the index is, so that what they return for
  every input is induction over data.

## Where the code and its documentation disagree

Found while modelling. The models do what the code does; the properties leave
room for it as described. Line numbers are of `src/`.

- *Profiles.* A profile whose GVR is edited stops the old informer and leaves
  the GVR in `watchedGVRs` (`internal/discovery/engine.go:498`); of two profiles
  for one GVR, deleting the one that started the informer stops it for both
  (`:549`). `engine.go:469` says "WatchedGVRs returns the set of GVRs currently
  being watched". `WatchedIsLive` and `IndexComplete` are therefore about GVRs
  that one profile names (`Apart`).
- *Constraints left behind.* Disabling a profile removes nothing from the index
  (`engine.go:514`; the comment at `:512`-`513` says "clean up constraints"); an
  update to fewer rules keeps the constraints of the lost ones (`:328`; `:335`
  says "upsert will replace existing"); a handler that passed the check of
  `watchedGVRs` writes after the cleanup of a deleted profile (`:305`); the
  cleanup goes by the recorded source, which an adapter named by a profile sets
  to another GVR (`:569`); a scan acts on a list from before the deletion
  (`:243`). `docs/crds/constraintprofile.md:384` says the controller "cleans up
  all associated constraints". `IndexConverges` is about native resources;
  `LeftoversExplained` names what stays when profiles are enabled and removed.
- *Adapters.* The Gatekeeper adapter makes up the resource of its source from
  the kind (`internal/adapters/gatekeeper/adapter.go:118`, "Approximate
  pluralization"), so that a cleanup by source does not find its constraints. A
  network policy for both directions yields two constraints with one UID, of
  which the index keeps the one for egress
  (`internal/adapters/networkpolicy/adapter.go:76`); `ObjectsIndexed` asks for
  the last one. Other kinds of an adapter's API group go to that adapter
  (`internal/discovery/engine.go:401`), an Ingress to the one for network
  policies. `README.md:101` counts Cilium among the eight adapters, and
  `cmd/controller/main.go` does not register it: Cilium policies go to the
  generic one. A profile that names another adapter takes effect on existing
  objects only with the next resync.
- *Stop.* Registering a profile again replaces its state by one without the stop
  channel (`engine.go:509`), which `Stop` then cannot close; `:713` says "Stop
  stops all informers".
- *Reports.* `Create` drops the status of a new report
  (`internal/notifier/report_reconciler.go:213`), a failed write is not retried
  (`:174`), a namespace a constraint no longer affects is not triggered
  (`:117`), nor is one that is created later (`:148`), nor reports left by an
  earlier run (`:93`). `docs/ARCHITECTURE.md:209` says "Updated continuously".
  These are the five reasons in `NoLostUpdate`.
- *Annotations.* An update within the debounce duration is dropped for good
  (`internal/notifier/workload_annotator.go:257`), and two workers may PATCH
  within it (`:327`); `:43` says "minimum time between PATCHes for the same
  workload". A cluster-scoped constraint applies to every namespace
  (`internal/indexer/indexer.go:81`), and one that names some of them queues
  updates for those only (`workload_annotator.go:143`); a namespace that a
  constraint no longer affects gets none either. `:156` speaks only of
  constraints "with no explicit affected namespaces". These are the changes
  `missed` counts as not queued.
- *Dispatcher.* A pair stays marked when its Event is refused
  (`internal/notifier/dispatcher.go:134`; `docs/controller/notifications.md:312`
  says "First notification: Always sent"). The key has neither kind nor revision
  (`:124`; `notifications.md:315` says "On change: Immediately sent"). Burst and
  refill together exceed "max 100 events/minute per namespace"
  (`internal/notifier/doc.go:25`) in a window that starts with a full bucket.
- *Correlator.* `Start` closes the flow channel without waiting for the goroutine
  that sends to it (`internal/correlator/correlator.go:138`): `SendPanics`. The
  key of a flow has pod names and no namespaces (`:347`; `:65` says "uniquely
  identifies"). Flow notifications are only logged
  (`cmd/controller/main.go:292`), and nothing calls `DispatchDirect`.
- *Evaluator.* A resource that came and went between two evaluations keeps its
  entry (`internal/requirements/evaluator.go:106`;
  `docs/controller/missing-resources.md:162` says "a fresh debounce window
  starts"), and the cleanup goes by the first sighting (`:133`), so that a
  resource that stays missing goes unreported for a window now and then: the
  exception in `DebounceExact`. Evaluations take place only when a change of the
  index makes the namespace's report be written
  (`internal/notifier/report_reconciler.go:430`); when they are further apart
  than the cleanup allows, a missing resource is never reported.
- *Rules.* Several lookups are not one look at the cluster
  (`internal/requirements/rule_istio_routing.go:65`), the first exception in
  `MissingExplained`.
- *Annotator shutdown.* `Start` closes the channel to which index callbacks and
  workers still send (`internal/notifier/workload_annotator.go:130`), which
  ends the process: the second outcome in `ShutdownCompletes`.
- *Service map.* `internal/servicemap/doc.go:34` says it "uses informers" and
  reads from "immutable snapshots"; the code has bare watches, which never
  mention what was deleted between two of them
  (`internal/servicemap/servicemap.go:127`), and a lock. Endpoints that arrive
  before their service are not read again (`:300`), and updated Endpoints take
  nothing out (`:288`).
- *Hubble.* `connect` succeeds without a relay and resets the interval
  (`internal/hubble/client.go:186`), so the failing stream is retried without a
  pause; `internal/hubble/doc.go:32` says "exponential backoff reconnection".
  `Close` does not interrupt `Recv` (`:255`).
- *Certificates.* A replica loads from the Secret only what needs rotation, so
  after another one rotated it keeps serving the old certificate
  (`internal/webhook/cert.go:431`), and a failed bundle update is not retried
  (`:437`); `docs/controller/webhook.md:194` says "is updated automatically".
- *Views.* The top constraint of a namespace need not be of the highest severity
  (`internal/mcp/handlers.go:264`); a check mentions of the critical constraints
  only admission policies (`:194`); a remediation takes the first constraint of
  a name in map order (`:311`); the status command adds up reports, so that a
  constraint counts once per namespace (`cmd/nightjarctl/status.go:62`).
- *MCP stream.* The callback of the index does not call the server
  (`cmd/controller/main.go:95`); `docs/mcp/agent-integration.md:30` says "Stream
  real-time constraint change events".

## What is not modelled

- Texts (Events, remediation steps, summaries, details of constraints), JSON
  envelopes, the HTTP servers, the output of the command line, and the conversion
  of a Hubble flow field by field: no state, and no property tells them apart.
- Flags, leader election and health endpoints of the controller, which are
  external frameworks. The generated deepcopy code.
- `Discovery` and `Policies` divide the engine: informers start and stop in the
  first, with parsing abstracted to UIDs and sources, and objects are parsed in
  the second, with every GVR watched from the start and only enabled profiles.
  What a disabled profile leaves in the index (`engine.go:514`) is in
  `Discovery`, and no property is about it.
- Selectors of services (`ServicesForPod`) and `ServiceCount`, which only read.
- The growth of the evaluator's map in the MCP server
  (`cmd/controller/main.go:228`, no cleanup), and evaluations inside
  `ReportReconciler`: when they take place is open in `Requirements`.
- The answers to query, explain and remediate are modelled; properties are
  about the check, the summaries, the reports and the warnings.

## Plan

1. *More proofs.* Of `LeftoversExplained`, what does not depend on how a parser
   computes: with the constraints of each version of an object as a constant, it
   is about handlers, resyncs and profiles only.
2. *An abstract specification* of "the index and its subscribers": reports and
   annotations as eventually consistent views, implemented by
   `ReportReconciler` and `WorkloadAnnotator` through a refinement mapping.
3. *A composition* of `ReportReconciler` with `Requirements`, for the reports
   that depend on when evaluations take place.
