# Portkeeper in TLA+

Portkeeper runs MCP servers in Kubernetes. A *controller* turns each `MCPServer`
object into a Deployment and a Service and reports readiness; a *gateway*
authenticates callers, authorizes them against the `MCPServer`'s policy, limits
their rate and proxies their requests. A *demo client* calls the sample *runbook
server*, directly or through the gateway, and benchmarks both ways. This
directory models all four, checks the models with TLC on small instances and
proves with TLAPS, for instances of any size, every safety property the passing
runs check.

## 1. Inventory

| component | state | operations | who touches it |
|---|---|---|---|
| rate limiter (`internal/gateway/ratelimit.go`) | `buckets`: agent → tokens, last | `Allow` → `allowAt`: sweep at capacity, refill, spend | every HTTP handler, under one mutex; the clock is read outside it |
| registry (`registry.go`) | `backends`, `synced` | `Start`/`refresh` (poll, publish), `Resolve`, `HasSynced` | one polling goroutine writes, handlers and `/readyz` read under an RWMutex |
| authenticator (`auth.go`) | `inflight`: 32 slots | `Authenticate`: header, slot, TokenReview with a 3 s deadline, verdict | every handler; the API server |
| router (`router.go`) | the locals of one `ServeHTTP` | authenticate → parse → resolve → limit → authorize → proxy, deferred accounting | calls all of the above, and the backends |
| metrics (`metrics.go`) | gauge, counters, two bounded label tables | `admit`, `statusLabel`, `recordRequest`, `recordRateLimit` | every handler |
| `MCPServer` API (`api/v1alpha1`) | spec, generation, status, conditions | `IsReady` | written by users and the controller, read by both processes |
| controller (`internal/controller`) | nothing of its own: the cluster, informer caches, a work queue | `Reconcile` (Deployment, Service, status), `checkOwnership`, `deploymentReadiness`, `updateStatus` | users, the Deployment controller, the garbage collector |
| benchmark client (`internal/democlient/benchmark.go`) | per worker: session, token, updates, status, samples; per run: plan, verdict | normalize, phases, calls, progress callbacks, categories, aggregation | its own goroutines, and callbacks on goroutines of the SDK |
| demo client (`internal/democlient/client.go`, `hack/mcp-client`) | one run of one of four modes under one deadline | `Run`, `WaitForStatus`, `ProbeNetwork`, `Benchmark` | servers, networks |
| runbook server (`internal/runbookmcp`) | executions, outcome counter | `readRunbook`, `streamRunbook`, `observe` | its callers, who may hang up at any moment |
| toy server, API registration (`hack/toy-mcp-server`, generated code) | none | see §7 | |

Controller and gateway meet only in the API server: the controller writes
`status`, the gateway polls it. What is hard:

* **stale reads everywhere.** The gateway authorizes with a *copy* of a snapshot
  of a cluster that has moved on; the controller decides with three caches that
  lag independently. Each is guarded by one comparison (`policyMaxAge`,
  generations, resourceVersions), and the properties ask whether that suffices.
* **time.** A 5 s ticker, a 10 s List deadline and a 15 s policy age have to
  fit; the limiter uses clock readings in an order other than the one they were
  taken in; the deadline of a client may pass between any two of its steps.
* **limits.** 10,000 buckets, 32 reviews, 256 and 128 labels, 100,000 benchmark
  calls: what happens at the limit, and whether everything taken is given back.
* **failure between steps.** Failed Lists, TokenReviews that never answer,
  aborted streams, lost answers, conflicts, restarts of the controller; POSTs
  that may or may not have reached a tool.
* **late callbacks.** Progress of one call may be delivered during the next.

What makes each component correct: the limiter never over-admits and never
throttles without cause; the registry never publishes a state that did not exist
or dates it too late; the gateway forwards only what a recent policy permits, on
a credential reviewed for this request, answers every request and counts it
once; the controller never touches other people's objects, reports ready only
what was rolled out, and gets there in the end; what the demo client reports is
what happened at the server, and it ends. `PROJECT.json` lists the hazards at
their lines.

## 2. Modules

| module | models | notes |
|---|---|---|
| `TokenBucket` | `allowAt` as operators on the map of buckets | used by both limiter and gateway |
| `AgentLimiter` | `Allow` under concurrent handlers | reading the clock and taking the mutex are two steps |
| `ServerLifecycle` | the `MCPServer` object, `IsReady`, the ways it may change | operators only; the interface between `Registry` and `Controller` |
| `Registry` | polling, `Resolve`, `/readyz`, the cluster changing | `RegistrySpec` (anything may fail), `TimelySpec` (a healthy gateway) |
| `Gateway` | `ServeHTTP` and `Authenticate`, metrics | extends `Registry` and `TokenBucket`: the composition |
| `AccessContract` | what the gateway promises | abstract; `Gateway` implements it |
| `Controller` | `Reconcile` for one `MCPServer` | caches, queue, conflicts, restarts |
| `BenchmarkReport` | limits, plan, percentiles, overhead | pure functions |
| `Runbook` | the two tools and `observe` | executions of several calls, hang-ups |
| `Benchmark` | phases, workers, calls, callbacks | extends `Runbook` and `BenchmarkReport`: client and server composed |
| `DemoClient` | the four modes of the client | extends `Benchmark` |
| `MC*` | TLC instances | initial states, symmetries |
| `AgentLimiterProofs`, `RegistryProofs`, `GatewayProofs`, `ControllerProofs`, `BenchmarkReportProofs`, `DemoClientProofs`, `DemoBackendProofs`, `DemoReportProofs` | theorems | §4; the last four extend one another in this order |

**How gateway and controller fit together.** `Registry` lets its environment
change an `MCPServer` only by `Created`, `SpecEdited`, `StatusWritten` and
`MarkedDeleting` (or removal). `Controller` has the same object with different
detail; `Shared(m)` is what the gateway sees of it, and `LifecycleRespected`
says that every change there is one of the same operators. So what is shown of
the gateway under that assumption is shown for the controller's actual
behaviour, without exploring the product of the two.

Correspondence, beyond the map in `PROJECT.json`:

* **TokenBucket.** Ticks and quanta replace nanoseconds and float64 tokens: a
  quantum is what one tick refills and `Token` what a request costs, so any
  rational rate is a choice of the tick. Rounding is not modelled.
* **AgentLimiter.** `call[c]` holds the reading `Allow` took; `Refuse`,
  `Throttle` and `Grant` are the three outcomes of `allowAt`. `latest` and
  `spent` are history. `MaxDelay` bounds the time between `time.Now()` and
  `Lock()`; Go gives no such bound, so results are stated relative to it.
* **Registry.** A refresh is three steps: read the clock, be answered, publish.
  `tickReady` is the ticker's one-element channel, filled at first because
  `Start` refreshes at once. `history` records every cluster state with every
  time it was current; no guard reads it.
* **Gateway.** `req[r].pc` is the place in `ServeHTTP`; a step is the code
  between two points where another goroutine can interfere. Accounting is part
  of the step that returns, as the deferred calls are. In `Gateway` the limiter's
  clock reading and critical section are one step; `AgentLimiter` has them
  apart. A credential is named by the account it belongs to; syntax checks of
  headers and user names are the distinction between a usable one and
  `NoCredential`, resp. a rejection. A backend answers with any of
  `BackendStatuses`. `status` and `result` are what the deferred calls find in the
  recorder and in `completed`; `Counted` is the tuple of label values they count
  the request under.
* **Controller.** `fresh[k]` says that a cache holds the current
  resourceVersion, which is all that optimistic locking compares. An informer
  catches up in one step, `due` remembering whether an event on the way concerns
  an owned child: watch events are assumed not to be lost. `CreateOrUpdate` is
  `InSync`, `Write` or `WriteFails`; image, port and probe are one value, the
  spec, and an edit that keeps it (of the policy, say) is a new generation too.
  `rollout` sums up the replica counts and conditions `deploymentReadiness`
  reads. The queue hands a request to one worker at a time and an error puts it
  back; the delay of the backoff is not modelled. `earned` is history.
* **BenchmarkReport.** The four nested loops of `Benchmark` are one function from
  the place of a phase to its parameters. `Sorted` says where `sort.Float64s` puts
  a duration: behind those that are less, and behind equal ones that stand before
  it. `Rank` is in whole numbers; the code's `math.Ceil(p*N)` agrees, because the
  floating-point .95 and .99 lie just below and .50 is exact.
* **Runbook.** `exec[c]` is the handler run for call c. `open` falls when the
  caller hangs up; from then on the context may or may not be seen done, by the
  handler and again by `observe`, which is how a finished call may be counted
  `cancelled`. A handler whose caller has gone still runs to its end and is
  counted. `progress` is a bag: notifications arrive in any order, at any time.
* **Benchmark.** One action per stretch of `benchmarkWorker.call` between two
  points where a callback may come in; a 5xx for a call whose handler has been
  entered, a proxy's, appears as `Break`, and the categories the runbook server
  gives no cause for (`invalid_content`, `input_required`, a nil result) are not
  kept apart from the other failures. `StatusIsOwn` speaks of the HTTP statuses of
  the instance, not of `http_other`. The mutex makes the resets of `StartCall`
  and the reads of `FinishCall` atomic. `bench.pc` is the round of
  `benchmarkPhase` (set-up, warm-up, measured calls, close), and `EndRound` the
  `wg.Wait` between two. `first` is part of `updates`, being set by the callback
  that makes it positive; whether the 25 ms after it have passed is a choice of
  `FinishCall`. `own`, `answered` and `tally` are history.
* **DemoClient.** `client.pc` is the place in the mode's function. Writing to
  standard output may fail wherever the code checks it. A dial that ends with the
  deadline of the run does so when the context is done (`Dial`): Go arms a timer
  for the socket and one for the context at that same instant, and if the
  socket's fires first and `ctx.Err()` is read before the other has, the code
  takes the dial for a blocked one. `IsolationIsEarned` holds but for that moment.

External, modelled from how the code uses them: the API server with informers,
work queue and garbage collector, the Deployment controller, TokenReview, the
proxied backends, the MCP SDK, the network, users.

## 3. Runs

| run | instance | properties |
|---|---|---|
| `limiter` | 3 agents, 2 callers, 2 buckets, burst 1.5 requests, 6 ticks | `TypeOK`, `CapacityBound`, `RateBound`, `ThrottleJustified`, `EvictsIdleUpToDelay` |
| `limiter_eviction` | the same | violation of `EvictsOnlyIdle` |
| `registry` | 2 servers of one name, 1 agent, 2 changes, 5 ticks | `RegistryTypeOK`, `SnapshotIsReal` |
| `registry_timely` | interval : deadline : age = 2 : 4 : 6 as in the code, latency 3, 15 ticks | `FreshWhenHealthy` |
| `gateway_policy` | 1 request, 2 servers of one name, 2 changes, 3 ticks | `TypeOK`, `JustifiedForward`, `ImplementsContract` |
| `gateway_handlers` | 2 requests, 2 agents, 2 servers; one slot, bucket and label of each kind; backends that answer 200 or 302 | `FreshAuthentication`, `ReviewSlotsConserved`, `Accounting`, `LabelStability` |
| `gateway_live` | 2 requests, one slot | `EventuallyDecided` |
| `gateway_metering` | 1 request | violation of `VerifiedIsMetered` |
| `controller` | 2 specs, 2 edits and 2 errors after an established start | `TypeOK`, `ReadyWasEarned`, `OwnershipRespected`, `LifecycleRespected` |
| `controller_live` | 2 specs, 2 edits and 1 error from an empty namespace, 2 edits after an established start | `Converges`, `Quiesces` |
| `controller_rollout` | 2 specs, 2 edits of the MCPServer and none of a child, after an established start | violation of `ReadyEarnedThisGeneration` |
| `democlient` | all command lines; one worker through all four phases, two faults in the last one; configurations at and beyond each limit; up to 4 samples of any durations and one list of 20 | `DemoTypeOK`, `ProgressIsOwn`, `StatusIsOwn`, `BackendAgrees`, `ReportMatchesBackend`, `PlanIsSound`, `PercentilesAreNearestRank`, `IsolationIsEarned`, `Terminates` |

Why the bounds are enough for the cases aimed at. Eviction needs a full table, a
third agent and `IdleTTL` ticks; overtaking needs two callers. A legacy route
becomes ambiguous with two namespaces and one name. A revocation that is missed
by a failing poll and outlived by a handler needs `PolicyMaxAge` + 1 ticks and
one change; a second one lets readiness change as well. Two handlers and limits
of one make every table and channel full while another handler wants it. In the
controller an *edit* is a user's act or a failing pod, an *error* an API error, a
lost answer or a restart. Two edits suffice for the races behind
`OwnershipRespected` (a child is replaced by a stranger's and the spec edited
before the cache knows), because `MCEstablished` has the creation behind it and
a replacement is one act. They also suffice for `ReadyEarnedThisGeneration`, an
edit and its reversal; `MCServerEditsSpec` leaves a child's edits and pod
failures out, so that the trace shows what the controller does to itself.

The demo client has three kinds of initial state. From the *start*, every
command line is tried, and the benchmark either runs its four phases with one
worker, one warm-up and one measured call each, or has a wider configuration and
an expired deadline, which is enough to accept or reject it and to wind down
with two workers. In the *last phase* of a benchmark that has gone well so far,
two faults happen at any place: one lets a call fail late, the next hits the call
after it, which is what the attribution of progress and status needs. With *all
calls of the first phase made*, samples of any durations, with and without an
error, are aggregated. The latter two are states the program reaches from the
start, given the configuration and the call times they name; they keep apart what
does not interact (workers share nothing but `bench` and the counters).

Runs say `CHECK_DEADLOCK FALSE` because time, requests and edits are bounded, a
controller with nothing to do really stops, and the demo client exits.

**Fairness.** `gateway_live`: weak fairness of each handler's own steps, the
review deadline among them (Go schedules runnable goroutines, `context.WithTimeout`
fires); none for TokenReview, backends or clients. `controller_live`: weak
fairness of the worker, the informers, the Deployment controller and the garbage
collector; none for users, whose acts are bounded, which is how "once users are
quiet" is expressed. `democlient`: weak fairness of the deadline, of main and of
each worker, their timeouts included; strong fairness of the `ctx.Done()` case
of `WaitForStatus`, because Go picks among the ready cases of a `select` at
random and the ticker's case is ready again and again; none for servers,
networks and callbacks.

### Findings

* `EvictsOnlyIdle`: documentation and comment say active buckets are never
  evicted; a late reading moves `last` back, so this holds only up to the delay
  between the clock and the mutex. `EvictsIdleUpToDelay` states what is left of
  the promise, and the rate bound survives (both proved).
* `VerifiedIsMetered`: the documentation says all HTTP requests are metered; a
  malformed path is answered 400 before the limiter is asked.
* `ReadyEarnedThisGeneration`: the documentation says that `Ready=True` requires
  the current Deployment to be rolled out, and that an old replica cannot make a
  new rollout ready (architecture.md:78-81). The trace: A is edited to B,
  `Reconcile` writes B to the Deployment, and the edit is taken back before that
  write has reached the Deployment's informer. The status patch for B meets a
  conflict; the next `Reconcile` finds the cached Deployment with A, rolled out,
  has nothing to write and reports the newest generation ready, while the stored
  Deployment says B and is not even observed, until the cache catches up. That
  "these guarantees are eventually observed" (architecture.md:89-90) is said of
  how late the gateway, polling, sees a status; here it is the status that is
  early.
  `ReadyWasEarned` states what does hold (and is proved): this MCPServer's own
  Deployment was completely rolled out with the present spec under *some*
  generation.

## 4. Proofs

`AgentLimiterProofs`: `TypeCorrect`, `CapacityHolds`, `RateIsBounded`,
`ThrottlingIsJustified`, `EvictionIsNearlyIdle`, for every number of agents,
callers, buckets and ticks. Assumptions: burst at least one request, and
`IdleTTL >= Burst + 2 * MaxDelay`, which the defaults meet by minutes; the idle
TTL is a constant, but rate and burst come from the environment, and `envFloat`
and `envInt` do not enforce that the burst refills within it.
`RateBound` is not inductive: the state says nothing of how a window was spent.
The invariant follows one number per bucket, the *credit* `tokens - last`.
Refilling never raises it, a grant lowers it by `Token`, and the cap keeps it at
most `Burst - t` for every reading t, so what a window starting at s has admitted
is missing from it (`SpentIsDebited`: credit ≤ burst − s − spent). Eviction
discards the credit, but only once time alone has refilled it
(`EvictedIsRefilled`), which is where the idle TTL is needed; `CallsRecent` and
`BucketsRecent` bound how far readings lie apart. For the converse,
`ThrottlingIsJustified`, credit must not be lost either: each bucket has a start s
such that credit plus what was spent since s is at least the burst less s and one
`MaxDelay` (`CreditIsSpent`). A refill that hits the cap starts a new window, any
other keeps the sum, a grant moves its price from credit to spent. Eviction spares
active agents up to `MaxDelay` because `last` never lies further than that
behind the newest reading.

`RegistryProofs`: `SnapshotsAreReal`, `RegistryTypeCorrect`, `HealthyStaysFresh`.
The invariant adds that history contains the present and nothing of the future,
and that an answer on its way is a past state no older than the refresh's clock
reading (`PollIsReal`). `SnapshotIsReal` also says that nothing is routed, and
`/readyz` answers 503, before there is a snapshot. `HealthyStaysFresh` is about
`TimelySpec` and assumes `ApiIsFast`: latency plus interval, and twice the latency,
are at most `policyMaxAge`; with the code's 5 s and 15 s, no refresh takes more
than 7.5 s. Both halves are needed: TLC finds the policy expired with (interval,
latency, age) = (2, 3, 5) and with (4, 2, 5), and not with (2, 3, 6) and (4, 2, 6).
The code's own bound on a List, 10 s, is not enough. `TimelyInv` says how old
a refresh under way and the entries it will replace may be, depending on whether
the ticker's channel is full: an empty one means that no period has ended since
the last refresh began (`now % PollInterval` is the age of the last tick).

`GatewayProofs`: `ForwardsAreJustified`, `AuthenticationIsFresh`. On top of the
registry's invariant: any copy a handler holds is vouched for by one past
cluster state that leads the handler's own route to that server (`CopyIsReal`),
a handler has its copy where it is about to use it (`CopyInTime`), and nobody
passes the review who did not arrive with a valid credential (`Verified`). The
metrics and the limiter's buckets are not needed.

The same module, on what handlers share: `SlotsAreConserved`, `AccountingIsExact`,
`LabelsAreStable`, `GatewayTypeCorrect`, for every finite set of requests and all
limits. `ResourceInv` equates every shared counter with the number of handlers it
stands for: `reviews` with those in review (`SlotsOK`), the gauge with those
between their first and last step (`GaugeOK`), each element of the request counter
with the handlers that ended with those label values (`CountersOK`); a handler's
label is the server's name if the table has it and `_overflow` if the table is full
without it (`LabelsOK`), and since the table only grows to its limit and then stays,
two handlers never disagree. Every action moves one handler, so the
cardinalities change by at most one; `Move` is that common shape, and each action
is shown to be an instance of it.

The same module, on the access contract: `GatewayImplementsContract`, the refinement. `Call(x)` maps a
handler to one of the contract's four stages; `history` and the clock are
shared. Arriving is `Ask`, a forward is `Grant`, every other way out is
`Refuse`, the steps in between are stutters (`MiddleIsInvisible`), and the poller,
the clock and the cluster are `World` (`OthersAreTheWorld`). The guard of `Grant`
follows from `CopyIsReal` and from the freshness test at the moment of the
decision, so the contract adds to `JustifiedForward` *when* the state was recent
and that no decision is made twice or taken back.

`ControllerProofs`: `ControllerTypeCorrect`, `OwnershipIsRespected`,
`LifecycleIsRespected`, `ReadinessIsEarned`, for every number of specs, edits,
errors and restarts. The argument behind all of them is `Coherent`: what counts
as fresh *is* the stored object, so a write that passes the optimistic lock was
computed from the present state. `ReadyWasEarned` is not inductive: the status
comes from a verdict, the verdict from a cached Deployment, the cache from the
stored one. `EarnedEverywhere` says of each of these four that if it speaks for
the present MCPServer, the spec it speaks of has been earned; a new MCPServer of
the same name inherits nothing because no object anywhere carries a UID that has
not been given out (`UidsBounded`); an edit leaves `observedGeneration` behind.

`DemoClientProofs`: `IsolationIsProved`, `DemoTypeCorrect`, `ProgressIsOfItsCall`,
`StatusIsOfItsCall`, for every configuration, plan, number of workers, addresses
and faults. Assumptions: the limits are naturals and the defaults integers, with at
least one default concurrency (`LimitAssumption`); a configuration has integer
fields and HTTP statuses are naturals (`BenchmarkAssumption`, which says nothing of
whether a configuration is accepted); addresses are counted by naturals
(`AddressesAssumption`). Three layers:

* `IsolationInv` follows the probe's list of dials: those judged so far were
  timeouts, and one that ended with the deadline ended after it.
* `TypeInv` contains that an accepted configuration has a plan in which every phase
  has a tool and between one and the maximal number of workers
  (`AcceptedIsSound`), without which looking up the current phase is not safe.
* `CallInv` says which calls there are. A worker's counts and status are those of
  its present call and its token names that call (`OwnInv`); a handler run whose
  caller has not hung up is awaited, so it belongs to the present call of a present
  worker or to `Run` (`AwaitedInv`, `RunInv`); notifications on their way belong to
  a session of the current phase (`FlightInv`). `ProgressIsOwn` needs the last one:
  a token carries the round, worker and call number but not the phase, so a
  callback is told apart from one of another phase only by the session it came on.

`DemoBackendProofs`: `ClientAndBackendAgree`. Per tool two accounts are kept
(`AgreeInv`): executions counted, handlers running and calls that have not reached
the server are together at most the calls started (`EnteredOnce`); successes the
client has counted, workers that have received one and replies on their way are at
most the successes the server has counted (`CountedFirst`). Each action moves a
call from one set to another or drops it; none adds one except `StartCall` and
`ListTools`, which raise `started`. A hang-up leaves a running handler in the first
account and takes its reply out of the second, so the accounts are inequalities.

`BenchmarkReportProofs`: what the computations of `BenchmarkReport` return for every
input. Folds of the community modules are recursive functions on sets, and the
provers here cannot instantiate an induction rule for operators; the module uses
sets instead. A set of naturals that is not empty has a least element, so there is
no least counterexample (`LeastNumber`, `Induct`); a fold satisfies its equation,
by induction on the size of the subsets (`FoldExists`, `FoldInduct`). From this
follow that a sum is the number of pairs it sums (`SumIsCount`), that the joined
samples contain those of every worker (`JoinedHasAll`), that sorting gives every
place to exactly one sample (`EveryPlaceIsTaken`), and three results:

* `SummaryIsRight`: what `latencySummary` picks is a nearest-rank percentile.
* `PairsAreUnique`: each phase of an accepted plan has exactly one partner. The
  place in the plan is decomposed by division into concurrency, tool, repetition and
  target, and distinct concurrencies make the decomposition unique.
* `CallsAreBounded`: the product that `normalizeBenchmark` checks against the limit
  is at least the number of calls of the plan, phase by phase and worker by worker.

`DemoReportProofs`: `PlansAreSound`, `PercentilesAreCorrect`, `ReportIsTrue`, for every
configuration, number of workers and samples, and faults. The first two need of the
state only that the configuration in use was accepted and that the last measurement
is that of the samples the workers still hold (`MeasurementInv`). `ReportIsTrue` is
about the whole run:

* `Made` is the set of calls of the plan, over all phases up to now, that the
  workers have begun, resp. ended. As long as nothing has gone wrong, `started`
  and `succeeded` are the sizes of these two sets (`Exact` in `CleanInv`).
  Starting or finishing a call adds one element; ending a round or a phase leaves
  the sets as they are, since a worker that ends its round undisturbed has made all
  its calls (`RoundInv`).
* "Nothing has gone wrong" is not in the verdict at once: a failed worker or an
  expired deadline is only noticed at the end of a phase. `Clean` is what the
  verdict will find, and a phase judged successful was clean throughout, as no step
  takes a failure back (`SameRecord` in `DemoClientProofs`).
* At the end both sets are the whole plan, so `started` and `succeeded` agree. The
  accounts of `AgreeInv` put executions, handlers and pending calls between the two,
  so nothing is left running and the server counted these calls and no others
  (`NothingLeft`). `Run` makes one call and needs no more than `SingleInv`.

`RoundInv`, `CleanInv`, `SingleInv` and `MeasurementInv` were checked by TLC on all
states of `democlient` before they were proved. `CallTimes \subseteq Nat` in `BenchmarkAssumption` says that a call
takes a time that is not negative, as the monotonic clock guarantees.

The bounds of the exploration (`MaxTime`, `MaxEdits`, `MaxErrors`, `MaxFaults`) are
constants like any other, so the theorems hold for all of them. The theorems about
`Controller` and the demo client start from `Init` and `DemoInit`; the runs that
start elsewhere do so in states these reach.

Only model-checked: the liveness properties (`EventuallyDecided`, `Converges`,
`Quiesces`, `Terminates`), which need fairness and ENABLED and are out of the
prover's reach. So every theorem is about what may never happen: that something
does happen rests on the instances of the runs.

## 5. Mutants

Each property of a passing run has a mutant of the code it depends on, defined
before the definition it replaces and marked `Mutant:`; replacing that
definition makes TLC find the property violated.

## 6. Plan

Done: the core (limiter, registry, gateway, controller); the access contract and
its refinement; the interface between controller and gateway; the demo client
and the runbook server; the proofs of §4.

What could follow: larger instances of the liveness runs; the differences and
first-progress latencies of the benchmark's report, which are computed like what is
modelled; shorter proofs in `DemoClientProofs` where several actions share an
argument.

## 7. Not modelled

* The toy server is stateless; generated deep copies, scheme registration and
  manifests have no logic of their own.
* Environment parsing, `/metrics`, logging, header rewriting and path stripping
  of the proxied request, the headers `credentialTransport` sets and the
  redirects the client refuses, the duration histograms and the endpoint label:
  no state that a property here depends on.
* Floating point: the limiter's rounding, the benchmark's rates and differences
  of latencies. First-progress latencies are computed like the completion
  latencies that are modelled.
* What the SDK does on its own: the five-minute session timeout of the runbook
  server, and whether `Close` at the end of `Run`, which takes no context, is
  bounded. `Terminates` leaves that one wait out.
* Several gateway replicas: they share nothing but the API server, and the code
  documents that budgets are per process.
