# Karpetrack in TLA+

Karpetrack fits the nodes of a Kubernetes cluster on Rackspace Spot to the pods
that want to run there: it reads the pods, packs them on the node types on
offer, and asks the Spot API for node pools of the right sizes. This directory
holds specifications of the parts of the Go program in which order, failure and
concurrency matter, the TLC runs that check them, and TLAPS proofs of their main
properties for every value of the constants.

`PROJECT.json` lists the components, runs, findings, hazards and theorems, and
maps every definition to the lines of source it stands for.

## The system

The source has four programs' worth of code. (The controller described in the
repository's README - provisioner, optimizer, scaler - is not in the source
tree; the packages it would use are.)

| Part | State it keeps | Operations | Hard about it |
|---|---|---|---|
| `cmd/optimize`, `applyConfiguration` | nothing of its own between runs: the pools of the cloudspace are the state. Within a run: the plan, an index of the listed pools by class, the pools to delete | delete lost pools; list again; resize or create the pool of each planned class, with one retry at the minimum bid; collect the managed pools of other classes, sleep, delete them; uncordon nodes | a run is a long sequence of requests, each of which may fail, or land and report an error; it may die anywhere; cron jobs overlap, one sleeping for twenty minutes on a snapshot; other programs write the same pools |
| `cmd/optimize`, `fetchPods` | the result so far, `seenPods` | one listing per namespace and phase | pods change between two listings |
| `internal/spot`, `Client` | `sdkMu`; the pools are in the cloud | CreateNode, DeleteNode, ScaleNodePool, UpdateNodePool, ListNodes, ListManagedPools | read, decide, write against an API without transactions; ambiguous failures; bid retries under the lock |
| `internal/spot`, `PricingProvider` | the cached price list, `lastFetch`, `mu` | GetPricing, refresh; queries on the list | double-checked locking around a slow request; failures hidden behind old lists; time |
| `internal/scheduler`, `BinPacker` | the unassigned pods and the nodes so far | three packing strategies, the cheapest of which wins | soundness and termination of greedy loops; strategies that must agree on what fits |
| `internal/scheduler`, `CostOptimizer` and the rest | none | requests of pods, DaemonSet overhead, filters, packing, limits, the plan | steps that are each simple must agree: what a pod needs, what fits, what is paid, what was allowed |
| `cmd/discover-minbids` | none | bid very low on each class and read the minimum from the refusal | a bid that is accepted by surprise |
| `cmd/debug-api` | none | tries API calls | nothing: a developer's tool |

How they interact: `run` calls `fetchPods`, packs the pods (`CostOptimizer` calls
`Pack` on node types it takes from `PricingProvider`), turns the packing into a
plan - server class to count and bid - and hands that to `applyConfiguration`,
which talks to the Spot API through the SDK. `Client` works on the same pools
with requests of its own; it takes bids from the `PricingProvider`. Nothing
excludes two programs from each other: pools are shared state, and each program
works from listings that may be out of date.

What makes each part correct:

* apply: pools are retired only when everything in the plan is in place, and
  only managed pools of unplanned classes, or lost ones; one pool per class;
  nothing unused stays behind a run that reports success; `--dry-run` writes
  nothing; uncordoning comes last; a retried bid is refused only if the minimum
  has moved again, and is not much too high.
* fetchPods: every pod once.
* client: calls are atomic in their effect on pool sizes, and a call that
  reports success had it; bids survive a resize; every call returns.
* price cache: prices never go back; one request at a time, and none while the
  list is fresh; fresh means recent; every call returns.
* price queries: an alternative saves what was asked and is the cheapest there
  is; a cheapest instance is large enough; a bid covers the price; all of it
  although the list may be replaced between two reads.
* optimizer: at no time do the containers on a planned node, its DaemonSets'
  among them, need more than the node has; no limit of the caller is exceeded; the plan has the nodes of the
  packing and bids enough for each of them.
* discover-minbids: the pools it makes by accident are the only ones it deletes,
  and no run of the command deletes them for being unused.
* packing: each pod on exactly one node, no node oversubscribed, a packing is
  found if each pod fits somewhere, and the search ends.

## Modules

| Module | What it is |
|---|---|
| `Rollout` | abstract specification: what a run promises, in nodes bought per class |
| `ApplyPlan` | `applyConfiguration`, `detectLostPools`, `uncordonAllNodes`, and the API they talk to |
| `SoleRun` | a run that is alone, and the mapping by which it refines `Rollout` |
| `SharedPools` | `ApplyPlan` composed with the probe of `cmd/discover-minbids` |
| `MCApplyPlan`, `MCSharedPools` | instances |
| `ApplyPlanProofs`, `RolloutProofs`, `SharedPoolsProofs` | proofs: any number of overlapping runs; runs that follow one another, and their refinement; runs beside the probe |
| `NodeCounts` | abstract specification: what `Client` promises about pool sizes |
| `PoolClient` | `Client`, in detail; refines `NodeCounts` |
| `MCPoolClient`, `PoolClientProofs` | instances and proofs |
| `PriceFeed` | abstract specification: what `PricingProvider` promises about prices |
| `PricingCache` | `GetPricing` and `refresh`, in detail; refines `PriceFeed` |
| `PriceList` | what the queries compute from one list, as operators |
| `PricingQueries` | callers of the queries, composed of `PricingCache` and `PriceList` |
| `MCPricing`, `PricingProofs` | an instance, and proofs of the cache and of the queries |
| `BinPack` | `BinPacker.Pack` |
| `PodNeeds` | requirements of pods and DaemonSets, and what fits, as operators |
| `Optimizer` | `FindOptimalConfiguration`, `FindCheaperConfiguration` and `buildNodePoolPlan`, composed of `PodNeeds`, `PriceList` and `BinPack` |
| `MCBinPack`, `MCOptimizer` | instances |
| `BinPackProofs`, `OptimizerProofs` | proofs: sums and folds, `Pack` on any input; from containers and the price list to the plan |
| `PodFetch`, `MCPodFetch`, `PodFetchProofs` | `fetchPods` against a cluster that changes, instances and proofs |

Where the composition would only make the state larger the parts are joined by
a choice: the plan of `ApplyPlan` is any non-empty one, not only one that
`Optimizer` makes; the bids of `ApplyPlan` and `PoolClient` are any of a set; the
price list of `Optimizer` is any of a set, whichever edition it may be.

### ApplyPlan

`pools` is the listing of the API: for each name a class, a desired count, the
managed label and a status. `floor` is the lowest bid the API accepts for a
class. A run is a program counter, a job (its plan and flags) and `mem`, its
local variables. Each request to the API or
the cluster is one action, each failing one another: `ListPools`, `DeleteLost`
(one pool; failures are printed), `RelistPools` (which of two pools of a class
the index keeps depends on the order of the listing, and is left open),
`SkipClass`, `PrepareUpdate`, `PrepareCreate` (one class, in any order, as the
iteration of a Go map is random), then `CallAccepted`, `BidRejected` (the one
retry) or `CallError`, `CollectStale`, `Wake`, `DeleteStale`, `DeleteError`,
`ListNodes`, `UncordonNode` and their failures. `CallError` and `DeleteError`
may have been carried out: the answer was lost. `Crash` may strike between any
two steps. The world loses pools and gives them back, moves the minimum bids and
cordons nodes.

Abstracted: of the statuses, whether `detectLostPools` counts them as lost; of
the prices, thousandths of a dollar; names are minted afresh (`uuid.New`), and a
name may be taken again in the model once nothing refers to it, which only
renames pools and keeps the state finite. `SpotStep` and `NodeStep` tell the
steps that wait for the Spot API from those that wait for Kubernetes, which
matters for what may hang (see Fairness).

### Rounding of bids

Bids are rounded up to multiples of 0.005 (`BidPriceStep`) in float64, and not
as exact numbers would be: 0.035 / 0.005 is 7.000000000000001, so that 0.035,
a multiple already, becomes 0.04. Of the thousandths read from text this
happens to 35, 70, 140, 280, 555, 560, 1110 and others, in both functions
(`pricing.go:36`, `main.go:205`); 0.285 stays when it is read from text and
rises when it is the product 57 * 0.005. A price off the grid never rises by more
than to the next multiple, and no result is below its price, counted in thousandths.

The models therefore take the prices that rise from the constant `Raised`, and
the theorems hold for every set of them. `RoundBidPrice` of `PriceList` is a
function of the price. `RoundBids` of `ApplyPlan` and `PoolClient` leaves open
whether a price in `Raised` rises, since there the same number may come from a
text or from a product. A bid may be rounded twice on its way (`main.go:772`, then
`main.go:529`): 0.031 becomes 0.035 and then 0.04. `BidsCover`, `RetryBidEnough`
and `PlanMatches` say what holds of each rounding: the bid lies on the grid, is
never too low, and is at most a step too high.

Not modelled is the last digit: the client sends the product as it is, such as
0.17500000000000002 for 35 steps, where its comment (`client.go:560`) says that it
rounds to three decimals.

### Rollout and SoleRun

`Rollout` knows no names, bids, requests or answers: of each class, how many
nodes are bought, whether the command made their pool, and whether it is lost.
A run begins with a goal, looks for lost pools, clears them, grows the classes
of the goal, turns - only when the goal is in place - to the classes it once
bought and has no use for, retires those, and uncordons. `End` may come at any
point: a crash, an error, the regular end. `SoleRun` maps the one pool of each
class to what is bought of it, and the program counter of a run that writes
(not of a dry run) to the phase. That no action goes back to an earlier phase,
or retires before the turn, is what the refinement says beyond the single
properties; that each class has at most one pool is its assumption, and
`OnePoolPerClass` shows that such runs keep it so.

### SharedPools

The probe goes through the classes of the price list: `ProbeRefused` reads the
minimum from the refusal, `ProbeError` writes any other error down (and may have
made a pool: the answer was lost), `ProbeAccepted` has made a pool and
`ProbeDelete` deletes it, or fails and does not look. `ProbeCrash` may come
between. The runs of `ApplyPlan` see its pools like any other: they may resize
one as the pool of its class, or delete it as lost.

### PoolClient

A call takes `sdkMu` (`Lock`), lists and decides in one step - the listing
request is where it reads the pools, and nothing else of its is visible before
the request it decides on - sends the request (`CarryOut`, `Retry`, `SendError`)
and unlocks in `Return`. The answer may be lost, the minimum bid may move
between two requests, updates are merge patches from which zeroes are left out,
and `parseBidPrice` does not read the text in which the API states bids, so that
it returns its default. A request that times out has been carried out by then,
or never is. Two names stand for a class's own pool (`generatePoolName`, taken
to be different for different classes) and for a pool of another origin.

`NodeCounts` says what callers may rely on: between the start and the end of a
call there is one moment at which exactly one pool changes by exactly what was
asked; a call that does not have its effect returns an error (it may also
report an error although it had its effect: the answer was lost). The mapping
takes `size` from the desired counts and the phase of a call from its program
counter.

### PricingCache

Editions of the price list are numbered; the cache holds one. The clocks count
ticks, and no further than they matter: `age` up to the TTL, `since` (the
request for the list in the cache) up to TTL + Timeout, `flight` (a request
under way) up to the timeout, which is what the HTTP client guarantees. `Peek`
is the look under the read lock, one step because nothing blocks in it; `Lock`,
`Check`, `Serve` (the endpoint reads its list), `Store` and `FetchError` are
`refresh`. An invalid request URL, the one other error, does not exist for a
fixed endpoint.

`PriceFeed`: answers never go back, not even between callers, and an error is
given only as long as nobody has been given a price.

### PriceList and PricingQueries

`PriceList` follows the queries: entries without a name, cores, memory or price
are passed over, prices are the higher one of market price and median, memory is
cut to whole Gi (`FlexInt` in the list, the division in `meetsRequirements`),
and the order of equals under `sort.Slice` is left open. Quantities are in quarters
of a core or a Gi, so that the cut can be seen. `Split` stands for the cut of a class at
its last dash in `GetBidPriceForServerClass`.

In `PricingQueries` some callers of the cache are shoppers, with a question
each. A step of `GetPricing` that returns is joined with what the query does with
the list until it asks again or returns (`Getting`, `Use`). `FindCheaperAlternative`
asks twice, and the list may be another one by then: `BargainsReal` says what
can still be relied on, which is not that the saving is one in a single list -
the instance itself may be offered when its price has just fallen.

### PodNeeds and Optimizer

`Optimizer` begins in `run` with the requirements of the fetched pods, takes the
node types the filters leave (`GetAvailableNodeTypes`, `NoneAvailable`,
`PricingFails`), packs them with the actions of `BinPack`, and concludes with
the plan that `buildNodePoolPlan` makes for `applyConfiguration` or refuses a
packing that is too dear. It also begins with direct calls of `Pack`, so that
the packer is checked on more inputs than the optimizer gives it. The listed
GPUs never reach the packer (`getAvailableNodeTypes` sets none), so that pods and
nodes with GPUs are among the direct calls. `Advised` is the
comparison of `FindCheaperConfiguration`.

### BinPack

`Start` sorts pods and types (the order of equals under `sort.Slice` is left
open), `Place` adds one node, `Stuck` and `Complete` end a strategy, `Single` is
the third one. `Fit` and `RemovePods` are the loops of `fitPodsToNode` and
`removePods`, as folds over the pods in their order. Ratios are compared by cross-multiplication, memory stands for
ephemeral storage too, and quantities are small integers.

### PodFetch

`queue` holds the listings to come; `tally` how often a pod is in the result.
`settled` and `present` remember which pods have kept their phase, or have at
least been there, since the fetch began. Pods are created, start, end, and are
replaced by others of the same name, at any time.

## Runs

| Run | Checks | Shows |
|---|---|---|
| `sole` | `TypeOK`, `RetireOnlyAfterProvision`, `OnePoolPerClass`, `UnusedPoolsRetired`, `RetryBidEnough`, `OnlyUnusedOrLostDeleted`, `DryRunReadOnly`, `UncordonsLast`, `KeepsPromise`, `RunEndsOrUncordons` | runs one after the other, with every failure and a crash at every step, a minimum bid that moves and roundings that rise; the refinement of `Rollout` |
| `shared` | `DeletionsMeant` | two overlapping runs and the probe: who deletes which pool |
| `duplicates` | `UnusedPoolsRetired` fails | two pools of a class, of which the command sees one |
| `lostkept` | `ReplacedByHealthy` fails | a lost pool that cannot be deleted passes for a replacement |
| `client_calls` | `TypeOK`, `KeepsCount`, `CallReturns` | two goroutines in one client: refinement of `NodeCounts`, and no call hangs |
| `client_listedids` | `KeepsCount` fails | DeleteNode ignores the ids ListNodes gives |
| `client_bidlost` | `BidKept` fails | a resize replaces the bid |
| `cache_feed` | `TypeOK`, `NoNeedlessFetch`, `FreshIsRecent`, `BargainsReal`, `CheapestAdequate`, `BidsCover`, `KeepsFeed`, `CallReturns`, `QueryReturns` | three callers share the cache, one of them asks queries: refinement of `PriceFeed`, right answers, and no call hangs |
| `pack_packing` | `TypeOK`, `EveryPodOnce`, `NoOversubscription`, `PacksIfPossible`, `OnlySingleOverGPUs`, `PhasesFit`, `LimitsKept`, `PlanMatches`, `CountsAgree`, `LoopsEnd`, `Answers` | packings and plans of a small set of inputs |
| `pack_gpu` | `GPUsRespected` fails | a GPU pod on a node without GPU |
| `pods_lists` | `TypeOK`, `CountedOnce`, `SettledCounted` | no pod twice, no settled pod missed |
| `pods_missed` | `AllCounted` fails | a pod that starts between two listings is missed |

Bounds, and why they are enough:

* `sole`: two classes are what make-before-break is about (one planned, one
  not), sizes up to 2 make an update differ from a create and leave room for a
  resize in both directions; two names are a pool per class, and a pool of a
  class replaced by another one. The prices of one class, 12, 35 and 41, lie
  below, on and above a multiple that float64 raises (35): a bid is refused, the
  minimum moves up or down before the retry, the retry may rise by a step, and
  it may be refused again. The other class has one price, 3, since bids of
  different classes have nothing to do with each other.
* `shared`: two runs, two names, two classes of which one is probed, sizes left
  out and pools that do not fail: enough for a run to find, count as its own
  or leave alone a pool of the probe, and for the probe to find its pool gone.
  The bids 1 and 5 are the probing bid and one above it. What more runs, names,
  classes and lost pools add is left to the proof of the same property.
* `duplicates`: two runs; a third name, so that both can create a
  pool for one class beside the pool of another one; sizes are not what this
  run is about. It starts where each class has at most one pool.
* `lostkept`: pools are lost or not from the start and do not change.
* `client_calls`: two goroutines are enough for every interference of a
  listing with a request; sizes up to 2 reach growth, shrinkage, deletion of the
  last node and the quota. The prices 35, which rises,
  and 41 let the default bid of 10 be refused, and its retry too when the
  minimum moves.
* `cache_feed`: three callers, so that two queue behind a request; TTL 2 and
  Timeout 1 separate age from staleness; two editions are enough for an answer
  to go back and for a list to be replaced in the middle of a query. In one
  history the price of the instance itself falls, in the other one another type becomes
  cheaper; the lists hold a GPU that is cheaper than everything, entries without a
  name or a price, one that is too small, a median above and one below the
  market price, prices off the grid, and one on it that rises (35). One caller asks,
  in turn, for an alternative, a cheapest instance (of any category, and of one named by its
  short name), and bids (one that the list has, one that it names differently).
* `pack_packing`: three pods are the first number at which a strategy needs
  several rounds with several pods; two types, of which either is better per
  dollar or the only one that fits. The pods of the optimizer need (2, 1) and
  (1, 3) cores and Gi, from one container, from several, or from an init container; one list has a
  class in two regions with different sizes and prices, for which one bid must
  do, and a GPU that is cheaper than all; the callers have no limits, all of
  them, a category that no type is in, or DaemonSets to run and a category named
  by its short name; one price is 35, which rises. Called directly,
  pods need (2, 1), or (1, 2) and a GPU, and one of the capacities has one GPU:
  one strategy can place what another cannot, and two GPU pods can meet where
  there is one GPU.
* `pods_lists`: two namespaces, one with two pods, and every form of the flag:
  none, one, both, one twice.

Deadlock is checked everywhere but in `pack_packing` and `pack_gpu`: packing and
planning are an algorithm that ends.

### Fairness

* `ApplyPlan`, `RunEndsOrUncordons`: weak fairness of `SpotStep`, for each run. A
  run is one sequential process, and the HTTP client it gives to the Spot SDK
  has a timeout of thirty seconds (`main.go:432`), so that each of those
  requests ends. The Kubernetes client is made without one (`main.go:422`) and
  called with `context.Background()` (`main.go:659`, `main.go:688`): nothing says
  that listing or uncordoning nodes ever returns, `NodeStep` has no fairness,
  and the property ends where uncordoning begins. Nothing is assumed about the
  world: pools may be lost and minimum bids may move for ever.
* `PoolClient`, `PricingCache` and `PricingQueries`, `CallReturns` and
  `QueryReturns`: weak fairness of each step
  after the lock, again by the timeouts of the HTTP clients (`client.go:262`,
  `pricing.go:74`); strong fairness of taking the lock, since `sync.RWMutex`
  starves neither writers (a waiting writer keeps new readers out) nor readers.
  A query that has its first list asks for the second one (weak fairness of
  `AskAgain`: the next statement of the same goroutine).
* `Optimizer`, `Answers`: weak fairness of an algorithm's next step. It says that
  `Pack` returns, called directly or not.

## What is proved

TLAPS checks these for every number of runs, callers, classes, names, nodes,
every bound, TTL and timeout.

* `ApplyPlanProofs`. `TypeCorrect`; then `SnapshotsHold`, the inductive
  invariant of overlapping runs. It says how far a run may trust what it has
  listed: a pool never changes its class, and not its label while it lives
  (`SeenOK`); the pools to delete were listed, and their class is not in the
  plan (`StaleOK`); a minted name is nobody else's (`CreateOK`); what holds in
  each phase (`PhaseOK`). The name of a deleted pool would break the first two
  if it were minted again while a run remembers it, hence `Fresh`. The proof
  shows once that a step which only removes, resizes or adds unlisted pools
  leaves the memory of all the other runs valid, and then goes through the
  actions. `DeletionsJustified` (`OnlyUnusedOrLostDeleted`) and `DryRunHarmless`
  (`DryRunReadOnly`) follow. `RetriesEnough` (`RetryBidEnough`) needs less: the
  bid of a retry is made from the minimum the error named (`RetryOK`), and
  whatever `RoundBids` gives is enough for it (`RoundBidEnough`).
* `RolloutProofs`, for one run at a time (`Runners = {one}`; the runs may follow
  one another and die): `SoleRunsKeepProgress`, that what the run has listed is
  still so, and the classes it has handled are provisioned (`SoleInv`); from
  that `MakeBeforeBreak`, `UncordonComesLast` and `NeverTwoPools`. The run
  `duplicates` shows what the assumption is for.
  For the same runs `SurplusInv` adds to `SoleInv` what the
  run does not know from its own steps: that the pools to delete are exactly
  the managed ones of classes outside the plan (`StaleExact`), which rests on the listing
  being complete outside the plan (`OutsideKnown`). From it
  `NothingUnusedStays` (`UnusedPoolsRetired`) and the refinement
  `RunsAreRollouts` (`KeepsPromise`): the CHOOSE of the one pool of a class is
  first shown to be that pool, and to follow each kind of write; then each
  action maps to an action of `Rollout`, or to a stutter.
* `SharedPoolsProofs`, for any number of overlapping runs beside the probe.
  `SharedSnapshots`: the invariant of `ApplyPlanProofs` survives the steps of
  the probe, since it changes no pool but its own, and `ProbeInv`: its pool is
  still unlabelled and of its class, and no run is about to make one under its name,
  which rests on names being uuids. From both `SharedDeletions` (`DeletionsMeant`).
* `PodFetchProofs`, for any namespaces, pods and flags. `FetchInv` relates the
  counts to the listings still in the queue: nobody is counted twice, and who
  is settled and not yet counted will be met in a listing to come (`Covered`). From it `FetchTypes`,
  `FetchCountsOnce` (`CountedOnce`) and `FetchCountsSettled` (`SettledCounted`).
* `PoolClientProofs`. `ClientTypes`; `RequestsCurrent`, that the lock excludes
  and that a request under way fits the pools (`ClientInv`), without which an
  accepted request might have another effect than the one asked for; from both
  `ClientKeepsCount`: the initial states map to initial states of `NodeCounts`
  and each step to one of its steps or a stutter. Its assumptions are those the
  code needs: ids come from CreateNode (see `client_listedids`) and no size asked
  for is 0, because `desired,omitempty` (`client.go:54`) leaves it out of the
  patch (see Findings).
* `PricingProofs`, the cache. `CacheTypes` with the invariant `CacheInv`: only the
  holder of the lock is past it, replies are no older than the cache, no fetch
  while fresh, and the cached list is at most a timeout older than its arrival.
  From it `NoFetchWhileFresh`, `FreshMeansRecent` and the refinement
  `CacheKeepsFeed`.
* `PricingProofs`, the queries, for any lists, questions, callers and histories.
  First what the operators of `PriceList` give: `RoundsUp` (the bid lies on the
  grid, covers the price and is at most a step above it), `FirstIsCheapest` (the first
  option that saves enough is the cheapest of all; if it is none, no option
  saves enough), `SuitableKnown` and `BidsGood`. Then `QueryInv`: the price
  that `FindCheaperAlternative` holds between its reads comes from a list no
  newer than the one to come. With these `BargainsAreReal`,
  `CheapestIsAdequate` and `BidsAlwaysCover`; and `QueriesUseTheCache`, by
  which all that is proved of the cache holds beside the queries.
* `BinPackProofs`, for any pods, node types, prices and overhead. It begins with
  what the operators give: a sum over a finite set grows by what is added to the
  set (`SumAdds`), `Fit` takes some of the pods in their order, as many as have
  room, and at least one if one of them fits alone (`FitTakes`, `FitTakesSome`),
  `RemovePods` leaves the others (`RemovesThem`), and of the types that take a
  pod there is one that no other beats, since densities and utilizations compare
  like numbers (`Quotients`, `ChoiceExists`). `PackInv` is the invariant: to
  `TypeOK`, `EveryPodOnce` and `NoOversubscription` it adds that the sorted lists hold
  exactly the pods and the types (`Sorted`) and that once the first strategy is
  over there is a packing if each pod has room somewhere (`FoundAfterFirst`).
  `PacksIfPossible` is not inductive without it: it says nothing before the end.
  From it `TypesKept`, `PodsPlacedOnce`, `NeverOversubscribed`, `PackingFound`;
  `OnlySingleForgetsGPUs` (`OnlySingleOverGPUs`), which says exactly where the
  behaviour of `pack_gpu` comes from; and `PackTerminates` (`LoopsEnd`): each
  step lowers `Todo`, a natural number that is 4 (n + 1) at the start with n pods.
* `OptimizerProofs`, for any pods with containers, price lists and callers. First
  the operators again: `GetPodRequirements` is at least what any phase of a pod
  asks for (`NeedsOf`), and the overhead of the DaemonSets at least what theirs do
  (`OverheadOfPhase`, `OverheadCovers`); the plan is right after each node (`PlanGrows`,
  `PlanCovers`); `CanFitMultiple` takes exactly the pods `Fit` takes
  (`CountsFit`); an option has what its entry in the list has (`OptionHas`).
  `OptInv` is `PackInv` with where its input comes from: the needs from the
  containers (`Brought`), capacities and prices from the list and its filters
  (`AsListed`), the room kept free from the DaemonSets (`Reserved`), nothing packed
  before that (`Untouched`). The lemmas of
  `BinPackProofs` assume of their input no more than `OptInv` gives, so that they
  serve for both. `OptimizerPacks`, `EveryPhaseFits` (`PhasesFit`),
  `LimitsAlwaysKept` (`LimitsKept`), `PlanIsThePacking` (`PlanMatches`),
  `CountsAlwaysAgree` (`CountsAgree`), `OptimizerForgetsGPUs` and
  `OptimizerTerminates` follow.

Assumed of the constants in these two modules: that pods and types are finitely
many, requests and overhead natural numbers, and that capacities and prices are
positive. `GetInstanceTypes` makes sure of the latter by passing over entries
without cores, memory or a price, as `OptionHas` proves; direct callers
of `Pack` have to see to it, since a price of 0 would divide by 0.

The induction theorems of the library take a predicate as a parameter, which
the provers cannot instantiate. `BinPackProofs` does without: `Inductive` speaks of a
set of numbers in place of a predicate, and is proved from the well-foundedness
of < on Nat. With it `FoldExists` and `FoldUnique` show that the function by
which the community modules define a fold over a finite set exists and is the
only one, for a step given as a function, and `RunSteps` turns a fold over a
sequence into the trace of its intermediate results, about which facts are proved
index by index. Each fold of the model (`Summed`, `RaisedBy`, `Fit`, `Total`,
`BuildNodePoolPlan`, ...) is then an instance with a lemma of its own.

Every invariant and action property that a passing run checks is a theorem.
Only model-checked: liveness (`RunEndsOrUncordons`, `CallReturns`, `QueryReturns`,
`Answers`), which is out of the prover's reach. Of `Answers` the essential part is
`LoopsEnd`; what is left is that a step is possible until there is an answer.

## Findings

Six runs show the code doing something else than its comments and documentation
say: `duplicates`, `lostkept`, `client_listedids`, `client_bidlost`, `pack_gpu` and
`pods_missed`. `PROJECT.json` quotes the lines. More remarks belong here and have no
run of their own; the first two contradict comments as well:

* `RoundBidPrice` "rounds a bid price up to the nearest valid multiple of
  BidPriceStep" (`pricing.go:34`), but raises some multiples, such as 0.035, by a step
  (see Rounding); no bid is ever too low for it.
* "ScaleNodePool scales a node pool to the desired count" (`client.go:498`), but a
  count of 0 is left out of the patch: the call succeeds and the pool keeps its
  size. The command never scales to 0; `Targets` in `client_calls` and the
  assumption of `ClientKeepsCount` leave it out, and with 0 among the `Targets` TLC
  finds `KeepsCount` violated.
* Greedy packing does not find "the cheapest node configuration" of the comment at
  `costoptimizer.go:70`, as no greedy packing does.
* A lost pool that recovers between its listing and its deletion is deleted all
  the same; the second listing makes the run create it again
  (`RetireOnlyAfterProvision`).
* A shrinking update whose answer is lost may be repeated by the caller, and a
  second node goes: an id names its pool, not a node. `NodeCounts` lets a call
  that reports an error have had its effect.
* A failed fetch leaves the price list stale, and each caller in the queue asks
  the endpoint in turn: there is no limit of one request per TTL.
* `FindCheaperAlternative` compares the market price of the instance with the
  higher one of market price and median of the alternatives, so that it misses
  alternatives rather than promising too much; and it may offer the instance itself, if its price
  falls between the two reads.
* In the sample of the price list (`types_test.go:11`) regions are called
  `us-east-iad-1` and classes carry their region. `GetBidPriceForServerClass`
  looks for other names, so that with such a feed CreateNode always bids the
  static minimum; and a class is then never in two regions, which
  `buildNodePoolPlan` allows for.
* `run` never passes the DaemonSet overhead on: `PhasesFit` speaks of the DaemonSets
  that the caller of the optimizer passes on, which for `cmd/optimize` are none.
* A run beside the probe may count the probe's pool as its own and see it
  deleted; `DeletionsMeant` says what is left of the guarantees then.

## Not modelled

* `debug-api`: a developer's tool that tries API calls in a straight line.
* Authentication, flags, tables and JSON output: they change nothing. The forms
  of number the parsers of the price list accept are abstracted to what they
  give.
* `GetRegions`, `GetCategories` and `GetPriceForServerClass` of the price list, and
  `GetDaemonSetOverheadForNamespace`, `RankNodesByEfficiency`, `EstimateCost`,
  `AggregatePodRequirements`: read-only sums and lists, none of them called
  outside the tests.
* `GetNode` answers from the id alone; the mock mode of `Client` is a test double;
  the raw requests of `cmd/optimize` beside the SDK's have no caller.
* Binary floating point, but for the rounding of bids (above): prices and
  quantities are integers. So `Saves` is exact, where in float64 a saving of exactly the
  threshold may fall just below it, and an alternative be passed over.
* Taints, selectors and affinity: `PodRequirements` carries them, and nothing
  reads them.
