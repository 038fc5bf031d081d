# ottoscalr in TLA+

ottoscalr is a set of Kubernetes controllers that recommend and enforce
horizontal autoscaling. For each workload it keeps a `PolicyRecommendation`
object. A recommender computes an ideal HPA configuration; a workflow leads the
workload towards it through *graded policies*; an enforcement controller keeps an
HPA at the configuration that applies now. This directory holds TLA+ models of
these parts, what TLC checks of them and what TLAPS proves.

## Inventory

| Part | Source | State | Operations |
|---|---|---|---|
| policy store | `pkg/policy/store.go` | none (reads `Policy` objects) | safest, next, previous, default, by name, sorted |
| workflow and iterators | `pkg/reco/workflow.go`, `policyiterators.go`, `breach_analyzer.go` | none (reads the cache) | `Execute`, `NextPolicy` of Default, Aging, BreachAnalyzer |
| recommender | `pkg/reco/reco.go` | none | `Recommend`: search over targets, simulation of an HPA |
| reconciler | `pkg/controller/policyrecommendation_controller.go` | spec and conditions of the object | `Reconcile` (up to four patches), event filter |
| trigger handler | `pkg/trigger/trigger_handler.go` | an unbuffered channel, one goroutine | `QueueForExecution`, `QueueAllForExecution`, the loop |
| deployment trigger | `pkg/controller/deployment_trigger_controller.go` | workqueue | queue a recommendation when max-pods changes |
| monitors | `pkg/trigger/monitor.go` | map of monitors, semaphore, `HasBreached` | register, shut down, breach loop, periodic loop |
| enforcement controller | `pkg/controller/hpaenforcement_controller.go`, `pkg/autoscaler`, `pkg/registry` | the HPA, `HPAEnforced`, the workload's replicas | `Reconcile`, delete and reset, create or update |
| policy watcher | `pkg/controller/policy_controller.go` | finalizer and `IsDefault` of policies | `Reconcile` |
| registrar | `pkg/controller/policyrecommendation_registrar.go` | the object's existence, `Initialized` | `Reconcile` |
| metrics scraper | `pkg/metrics/scraper.go` | goroutines per instance and split | `GetAverageCPUUtilizationByWorkload`, `GetCPUUtilizationBreachDataPoints`, `GetACLByWorkload` |
| events and transformer | `pkg/integration`, `pkg/transformer` | none (reads a ConfigMap) | `GetDesiredEvents`, `Transform` |
| wiring | `cmd/main.go` | none | start-up |

The parts meet in the API server only, and through it in one informer cache per
kind of object. The registrar creates the `PolicyRecommendation`, queued for
execution, and a monitor. The reconciler runs the workflow and writes the result
with server-side apply. Monitors (on a breach and periodically), the policy
watcher (a policy changed) and the deployment trigger (an annotation changed)
queue the object again, the first two through the handler. The enforcement
controller follows the object's conditions.

What is hard: reads come from a cache that is behind; a write is several calls
and any of them can fail or be the last one before a crash; server-side apply
removes what a manager leaves out; events are filtered by comparing two
versions; several controllers write one object; monitors share a semaphore and a
channel; queries are answered in any order or not at all. `PROJECT.json` lists each of
these at its line under "hazards".

What makes each part correct:

- workflow and reconciler: what is applied never goes past the recommendation
  (README.md of the repository, "Graded Policies"), keeps the required replicas,
  moves one grade at a time and answers a breach; a request is not lost; the
  object does not get stuck in progress.
- enforcement: only finished, qualifying configurations are enforced; in the end
  the HPA is what is asked for; a workload without HPA is reset to its maximum;
  a user's HPA is left alone.
- policy watcher: at most one default; a policy goes only after its
  recommendations were queued, and it does go.
- registrar: a workload that stays gets its own object and a monitor.
- monitors: a breach that lasts leads to a request, HasBreached ends up true,
  stopping returns and leaves nothing behind.
- scraper and transformer: the data points are those of the instances that
  answered, in order and without gaps; what happens during an event does not
  count.
- recommender: it ends, with a configuration that is within the limits and would
  not have breached the red line in the window.

## Modules

| Module | Models |
|---|---|
| `PolicyStore` | the store's answers; the policies' specs are constants, which exist is a parameter |
| `RecoWorkflow` | the pure parts of the workflow and the iterators |
| `RecoObject` | one `PolicyRecommendation`: server, watch, cache, conditions with their owners, conflicts of Update |
| `RecoController` | the reconciler with the workflow, the handler, the deployment trigger, crashes, faults, the clock, breaches, deleted policies |
| `RecoProperties` | what it promises |
| `RecoAging` | `RecoController` with history variables, for the age of a configuration |
| `RecoCycle` | abstract: what a `PolicyRecommendation` promises those who read it |
| `RecoProofs` | theorems about `RecoController` |
| `GradeProofs` | theorems about `RecoController` and `RecoAging`: how a workload moves through the policies |
| `HPAEnforcement`, `EnforcementProperties` | the enforcement controller for one workload; recommendations, users and the cluster as environment |
| `EnforcementProofs` | theorems about `HPAEnforcement` |
| `Monitors` | the monitor manager, its monitors' goroutines, the semaphore, the handler and its channel |
| `MetricsScraper` | one query to several Prometheus instances, split into ranges |
| `Transformer` | the events and what they make of the data points |
| `Sorting` | the stable sort that both use |
| `HPASimulation` | the simulation of an HPA over a window, its savings and breaches: operators without state |
| `Recommender` | one call of `Recommend`; extends `MetricsScraper`, `Transformer` and `HPASimulation` |
| `PolicyWatcher` | the policy watcher with several policies |
| `Registrar` | the registrar for the workloads of one name |
| `ScraperProofs` | lemmas about recursion, folds and sorting, and what the scraper computes; extended by `RecommenderProofs` |
| `RecommenderProofs`, `MonitorsProofs`, `WatcherProofs`, `RegistrarProofs` | theorems about `Recommender`, `Monitors`, `PolicyWatcher`, `Registrar` |
| `MC...` | constants for TLC |

`PolicyStore` <- `RecoWorkflow` <- `RecoObject` <- `RecoController` <-
`RecoProperties` <- `RecoProofs` <- `GradeProofs`: each extends the one before;
`GradeProofs` also extends `RecoAging`.

`RecoCycle` ties the two halves of the system together. Its state is the progress
and the configuration an object shows; its steps are `Start`, `Change`, `Finish`
and `Err`, and the configuration changes only in progress. `RecoProperties` and
`EnforcementProperties` instantiate it with a refinement mapping: the reconciler,
with the handler and the deployment trigger writing the same object, implements
it (`ImplementsCycle`), and the enforcement controller, which relies on it, does
not disturb it (`LeavesCycleAlone`). Both are checked and proved.

`Recommender` and `RecoController` meet in the constant `Recommendation`:
`WithinLimits` is what `ControllerAssumption` assumes of it. `Monitors` and
`RecoController` both have the handler, the first with its channel, the second
with the whole object.

### Correspondence

A step of a controller is what the code does between two calls to the API
server, a cache or the metrics source. `pc` is the place in `Reconcile`; `task`
holds its local variables. The workqueue of controller-runtime runs an object
once at a time and remembers one more request, so it is a Boolean (`queued`), or
the set `queue` in `PolicyWatcher`. An error or `RequeueAfter` puts the object
back; the delay is left out.

*RecoController.* `Reconcile`, `PatchInProgress`, `Recommend`, one `Iterate...`
per iterator in any order (the code ranges over a map), `Generate`, `PatchSpec`,
`PatchStatus`, `PatchQueued` are the success path of `Reconcile`;
`ExecuteFails`, `IterateAgingErrs`, `GenerateErrs`, `PatchErrored`, `PatchFails`
its error paths. The cache is read again where the code reads it again: in every
iterator, twice in the breach analyzer, and in `shouldApplyReco`. The reads of
one iterator other than these are one step. `sort.Slice` is not stable, so the
store's answers are sets and policies of one risk index come in any order.
Conditions carry the set of managers that own them; `ApplyConditions` is
server-side apply, with ownership per condition rather than per field.

*HPAEnforcement.* The controller's step is a call that changes the API server,
together with the reads before it. This loses nothing: the controller reads three
caches of different kinds, and a delivery between two reads could as well come
after both. A call may change the server and still return an error (the lost
answer in `Goto`). Of the autoscaler clients the HPA v2 client is modelled.
`Relist` is an informer that lost its watch and reports one merged update.

*PolicyWatcher.* Versions of objects are counted, since an Update of a copy that
is not the newest fails. The requests to the handler are only remembered
(`warned`).

*Monitors.* A monitor is a pair of a workload and a number, so that one registered
after a deregistration is told from its predecessor. Each loop is at its `select`,
waits for the semaphore, patches or waits for the handler to receive. The
semaphore and the channel serve in the order of arrival (`acquirers`, `senders`).
Of the object the model keeps the `HasBreached` of every version between the
cached and the stored one; every write outdates the copy the handler holds.
`breaching` is "recent" while a window that ends now still holds a breach. The
handler's receive and its read of the cache are one step.

*MetricsScraper, Transformer, Recommender.* One call from its query to its answer.
Each split is a goroutine that answers or fails at any time; an instance responds
when all have, and results are aggregated in the order of arrival. Times are steps
from the start of the window. Values are integers and divisions are those of exact
arithmetic: the rounding of floating-point numbers is left out, and the instances
are chosen so that interpolations come out even. The simulation counts replicas,
as all resources are multiples of `perPodResources`. A `search` record holds the
local variables of `findOptimalHPAConfigurations`; one simulation is one step.

*Registrar.* A workload has a UID, so that one recreated under its name is told
from its predecessor, whose `PolicyRecommendation` the garbage collector removes.

### Bounds

Each `Max...` constant bounds one freedom of the environment and appears in a
guard: `MaxLag` (versions the cache is behind), `MaxClock`, and the numbers of
triggers, annotation changes, faults, crashes, relists, deletions, breaches,
marks and users' actions. Budgets of one or two suffice for what is checked
because one fault, crash or deletion can fall at every step, and two of them can
meet. `reco_grades` and `reco_expiry` have four policies, so that there is a grade
to skip and a utilization between two policies, and time to climb to the
recommendation and to be thrown back from it, with a failing call anywhere.
The cache is one version behind: with two versions and a failing call
`OneGradeAtATime` and `BreachIsAnswered` fail (see below). `reco_requests` has one
policy: which policy a recommendation picks does not matter to requests, and two
requesters, a fault and a crash fit in the time. In `enforcement` every user's action, deletion,
relist, failing call and crash can meet any two others (`MaxTroubles`); others write
an object only once its informer has caught up (`MaxLag`), but the controller's own
writes come on top, so its patch and a write by others are on their way together,
which a relist merges. The user's configuration has one number of replicas, as only
the controller's is looked at. `monitors` has two workloads and one permit of the semaphore,
so that one monitor waits for the other; one of the workloads breaches, and each
can be deregistered and registered again. `recommender` has a window of five
points in two splits, two instances, series with no point, with the ends only, with
one or two points missing and with a spike, events that overlap, touch, reach over an
end of the window, do not parse or lie apart with a point between them, two
configurations (one whose highest
targets are invalid), and workloads whose maximum comes from each of the three
places (the replicas when the annotation cannot be read), with an annotation of zero
among them.

Runs with `CHECK_DEADLOCK FALSE` end when the environment's budgets are spent
and the system rests. In `MCEnforcement` recommendations go on for ever and
deadlock is checked.

### Fairness

`FairSpec` of each module assumes weak fairness of the informers and of the
goroutines that run the controllers: a watch connection delivers and a runnable
goroutine is scheduled. No fault, crash, tick or trigger is assumed to happen or
to stop, other than by its bound. `HPAEnforcement` also assumes what the rest of
ottoscalr does: the registrar sets Initialized and the periodic trigger keeps
recommendations coming. Those come hours apart and a reconcile takes
milliseconds, hence the strong fairness of `Reconcile` while the cached
recommendation is finished: without it every single reconcile could fall into
the instants in which a new recommendation is in progress. `Registrar` assumes
that the garbage collector runs and that policies are installed some time.
`Monitors` assumes that the breach ticker ticks and goroutines run; a cancelled
loop comes back to its `select` again and again, where Go chooses among the ready
cases at random, hence the strong fairness of the Done case. It assumes nothing of
the periodic tick: `BreachIsRequested` and `SettlesOnTruth` come from the breach
loop alone. In `Recommender` every query ends, by its timeout at the latest.

## Runs

| Run | Checks |
|---|---|
| `reco_grades` | `TypeOK`, `NeverPastTarget`, `OneGradeAtATime`, `BreachIsAnswered`, `AgesBeforeItMoves`: four grades, a breach and a failing call, after which Reconcile may start from an old copy |
| `reco_faults` | `NeverPastTarget`, `KeepsRequiredReplicas`, `QuietIsGenerated`, `ImplementsCycle`: changing recommendations, a fault, a breach, all policies deleted; no error path leaves the object in progress, and readers can rely on the cycle |
| `reco_requests` | `RequestIsServed`, `QueuedIsExecuted`: no accepted request is lost, and a crash does not lose what is queued |
| `enforcement` | `TypeOK`, `EnforcesFinished`, `ReplicasAreReset`, `LeavesCycleAlone`, `Heals`: among users, deletions, failing calls, a relist and a crash nothing half written is enforced and the autoscaler ends up right; undisturbed, the replicas are reset |
| `watcher` | `TypeOK`, `AtMostOneDefault`, `WarnedBeforeGone`, `DeletionFinishes` |
| `registrar` | `TypeOK`, `QuietIsRegistered`, `RegistersInTheEnd` |
| `monitors` | `TypeOK`, `AliveAreRegistered`, `BlockedAreQueued`, `BreachIsRequested`, `SettlesOnTruth`, `StopReturns` |
| `recommender` | `TypeOK`, `AggregatesMaximum`, `HasNoGaps`, `OutliersAreInvisible`, `WithinLimits`, `NeverBreaches`, `TargetIsMaximal`, `RecommendEnds` |

The other runs are expected to end in a violation. Each states what a document,
comment or test of the repository says and shows a behaviour of the code that
differs; "findings" in `PROJECT.json` quotes the line.

| Run | Shows |
|---|---|
| `reco_target` | server-side apply drops TargetRecoAchieved, and a workload at its target leaves it |
| `reco_filter` | the event filter dereferences a nil GeneratedAt |
| `reco_expiry` | after a failing status patch an old TransitionedAt comes back, and a policy that was applied just now expires at once |
| `registrar_initialized` | after one failing call an object is never Initialized |

### Limits of the properties that hold

These properties hold only as stated; the models show what is beyond them when a
bound or a condition is changed.

- `OneGradeAtATime` fails in `reco_grades` with `MaxLag = 2`: the status patch fails
  after a breach took the workload back, and in the retry the aging iterator reads the
  version before that, whose policy has aged, while the breach analyzer reads the
  version after and finds the breach answered; the spec patch is not tied to what it
  was computed from. Without a failing call it takes `MaxLag = 4`, as a whole
  reconcile, which writes four versions, has to hide behind the lag.
- `BreachIsAnswered` fails likewise with `MaxLag = 2`, and with `MaxLag = 4` without a
  failing call: the analyzer then starts from an older version. With two policies of one risk index it can fail at any lag, as
  the policy before one in the sorted list can be its peer.
- `QuietIsGenerated` needs `NeverRestarted`: after a crash, or the panic of the
  filter, between the spec patch, which clears QueuedForExecution, and the status
  patch, the object stays in progress until the next trigger. For the same reason `RequestIsServed` says
  nothing once the process crashed.
- `KeepsRequiredReplicas` needs its condition: a recommendation whose maximum is
  below minRequiredReplicas keeps its minimum, though INSTALLATION.md says that
  no recommendation is below it.
- `ReplicasAreReset` needs `Undisturbed`: the autoscaler is deleted first and the
  workload scaled second, and a retry finds no autoscaler to read the maximum
  from.
- `EnforcesFinished` speaks of the controller's own autoscaler. Reconcile decides
  on a cached list and writes by name, so a user's autoscaler that took the name
  meanwhile is overwritten or deleted.
- RecoTaskQueued, set by the handler in a call of its own, can stay True after
  the recommendation; nothing in the code reads it.
- `AgesBeforeItMoves` is what is left of the age of a policy when a copy is old. The
  plain statement, `NextOnlyAfterExpiry`, is violated in `reco_expiry`: the status
  patch fails after the spec was patched, the retry starts before the spec is
  delivered, from a copy that has the configuration of the turn before, a breach
  brings the workload back to just that one, and `retrieveTransitionTime` keeps the
  TransitionedAt of the earlier turn. `AgesBeforeItMoves` names this case in its
  formula (`misled`): even then the workload moves up only from a configuration
  that was applied long enough ago in some turn (`HadIt`), and otherwise the time
  counts from the last. Both runs have the same bounds, so the case occurs in
  `reco_grades` too. Without a failing call the plain statement holds while the cache is
  one version behind (`ExpiryIsKept`, proved) and, model-checked, two; with three it
  fails without a failure, after a step forth and back. `AgesBeforeItMoves` fails with
  `MaxLag = 2` and a failing call, as the aging iterator may then read the time of
  another configuration.
- TransitionedAt moves with the configuration, not with the policy: of two policies
  that give one configuration the second expires at once, and the properties count
  from the configuration too. And it is the time at which a reconcile began, not that
  of the patch.
- `Heals` needs the next recommendation when somebody deletes the controller's
  autoscaler: `enqueueFunc` asks a new, empty object for its owners
  (hpaenforcement_controller.go:433), finds none and queues nothing.
- `AtMostOneDefault` does not say that one is left. Two policies marked one after
  the other can both lose the mark: each reconcile takes it from the others it
  finds in the cache and does not check that its own policy still has it
  (policy_controller.go:127).
- `BreachIsRequested` speaks of breaches that last. The window of a query is fixed
  before the wait for the semaphore (monitor.go:237) and the ticks meanwhile are
  dropped: a breach in between that ends is not seen. A query that fails counts as
  no breach and clears HasBreached until the next tick.
- `StopReturns` and `AliveAreRegistered` speak of calls that the tests make. The
  controllers never deregister a monitor, so that of a deleted workload runs on,
  and `cmd/main.go` creates the goroutine that would call Shutdown only after
  `mgr.Start` has returned, right before the process ends (main.go:362-376), so
  that it practically never runs.
- `NeverBreaches` does not say that the answer is the one that saves most
  (reco_test.go:21, "should return the optimal target utilization"). Savings and
  minimum of a candidate are those of the search's last simulation, at a target
  next to the one returned. With the loads 0, 120, 60, 120, 240, limits of 120, a lag
  of 2, at most 5 replicas and targets from 10 to 60 the answer is target 22 with
  minimum 2 and saves 9 replica steps, where 10 can be had.
- With a maxTarget of 92 or more the tolerated target is above 100
  (reco.go:181); a search that gets there fails, and with it the recommendation.
- `isMetricsAboveThreshold` counts the interpolated points, and the points that
  two splits share twice: a window with few fetched points can pass the threshold.
- `WithinLimits` demands the annotation's maximum only without a fault: any error of
  reading the annotation is taken for its absence (reco.go:333).
- `OutliersAreInvisible` needs a data point between any two events that do not touch.
  The intervals are worked off one after the other, and the line across one may end at
  a point of the next, before that one is replaced (metrics_transformer.go:120-128).
  With points at 0, 3, 6, 9 and events from 2 to 4 and from 5 to 7, the value at 6, an
  outlier, decides the value at 3.
- An event whose start does not parse begins before every window, and everything
  before its end is removed (custom_event_integration.go:67).

## Proofs

`RecoProofs` proves of `RecoController`, for all values of the constants:

- `TypeCorrect`: `Spec => []TypeOK`;
- `TargetIsTheLimit`: `Spec => []NeverPastTarget`;
- `RequiredReplicasAreKept`: `Spec => []KeepsRequiredReplicas`.

Assumptions: `PolicyAssumption` (cuts are percentages, risk indices and
utilizations natural numbers), `GradedAssumption` (a policy of a lower risk index
has no higher utilization; true of the policies in `charts/`),
`WorkflowAssumption`, `LagAssumption` and `ControllerAssumption` (a
recommendation's minimum is not above its maximum). TLC evaluates all of them in
the runs of `MCReco`.

The two safety properties speak of the server's and the cache's copy and are not
inductive: `Deliver` moves a version from the watch into the cache, and
`PatchSpec` writes what the task computed several steps, reads and lost races
before. `IInv` adds that every version on the watch is good (`GoodObject`), that
the task's target is a transformed recommendation from `Recommend` on, and that
its configuration is within that target from `Generate` on (`GoodTask`). The
heart is `GenerateLemma`: a policy is applied only when its risk index is not
above that of the closest policy, whose utilization is not above the
recommendation's, so by the grading neither is the policy's own; and
`PolicyConfigLemma`: a cut of at most 100 % of the distance between minimum and
maximum, rounded down, does not undercut the minimum. Then there is one lemma per
action, of which only `PatchSpec` writes configurations, and `NextLemma` combines
them.

It also proves `Refinement`: `Spec => ImplementsCycle`. A step of
`RecoController` changes the configuration only in `PatchSpec`, so what has to be
known is that the object then says InProgress. That is not a fact about the
reconciler alone: the handler and the deployment trigger update the object from
copies, and the handler's patch drops conditions its manager no longer lists. The
inductive invariant `CycleInv` says that while the reconciler works the condition
has the value InProgress, that it has the value Generated when only the last patch
is left, and that the reconciler's manager owns it whenever it is set, so that no
other manager's patch can take it away. `RestsWhenGenerated`:
`Spec => []QuietIsGenerated` follows along the same lines: an idle reconciler that
is not queued has said Generated last (`RestInv`), as every error path queues the
object again, and the only other writer of conditions cannot drop that one. It
holds for every lag and number of faults; only a restart is excepted.

`GradeProofs` proves

- `GradeByGrade`: `Spec /\ IteratorsSeeTheLast => OneGradeAtATime`;
- `BreachGoesDown`:
  `OnePolicyPerGrade /\ Spec /\ IteratorsSeeTheLast => BreachIsAnswered`;
- `OneVersionBehind`: `MaxLag = 1 /\ Spec => IteratorsSeeTheLast`;
- `UpOnlyWhenAged`: `MaxLag = 1 /\ AgingSpec => AgesBeforeItMoves`;
- `ExpiryIsKept`:
  `MaxLag = 1 /\ MaxFaults = 0 /\ AgingSpec => NextOnlyAfterExpiry`.

The first two properties are not true for every lag, and their theorems say what they
really depend on: not that the cache is up to date, but that a step that reads it
finds the last recommendation there. Updates of the queueing fields and conditions,
deletions of policies, breaches, failing calls and crashes may come at any place.
The invariants follow the policy from the iterator to the patch: once the
aging iterator has answered, no live policy lies between the object's policy and the
one agreed on so far (`AgedInv`, `DecidedInv`), which is at most as risky after each
further answer (`SafestLemma`) and after `Generate` (`AppliedLemma`); deletions only
make the live policies fewer. `BreachInv` adds that the start of the reconcile is not after the
clock, so that a breach that is noticed too late is not one the recommendation had
to answer. `BreachLemma` needs that among the safer policies there is one of the most
risk; that is the well-foundedness of the natural numbers (`MostRiskLemma`).
`OneVersionBehind` rests on the order of the patches:
between the patch of the spec and the next iterators there is one of the status,
so with one version on its way it is not that of the spec.

`UpOnlyWhenAged` assumes nothing of what Reconcile reads. `RecordInv` says of every
copy of the object, at the server, on the watch, in the cache and in the task, that
its TransitionedAt is the time of some turn of its configuration, as a reconcile that
keeps a time takes it together with the configuration from one copy; and that the
object's is not before the last turn unless `misled`. `CopiesLemma` says that a step
makes no other copies than the object as it was or becomes. `AgeInv` then follows the
policy from the aging iterator to the patch, as above. For `ExpiryIsKept`, `NoFaultInv`
says that without a failing call Reconcile, too, has the last recommendation: only a
failing patch of the status lets the next reconcile begin while the spec is on its
way. Together with `reco_expiry` this says that the failing call is what it takes.

`EnforcementProofs` proves of `HPAEnforcement`, from `EnforcementAssumption`:

- `TypeCorrect`: `Spec => []TypeOK`;
- `OnlyFinishedIsEnforced`: `Spec => []EnforcesFinished`;
- `CycleIsLeftAlone`: `Spec => LeavesCycleAlone`;
- `ReplicasAreGivenBack`: `Spec => []ReplicasAreReset`.

`EnforcesFinished` speaks of the autoscaler, which `CreateOrUpdateAutoscaler` writes
from what the task read steps before from a cache that was behind. `IInv` follows
the configuration back: every version of the object that says Generated, in the
server, on the watch or in the cache, shows a configuration that was published
(`Honesty`); a task at "enforce" has such a configuration, and one that qualifies
(`GoodTask`). An update writes the spec of an autoscaler without looking at its
label, so it must be known whose autoscaler it hits: a cache with nothing on its
way to it is equal to the server (`Agreement`), and the last version on the way is
the server's. That a deleted autoscaler is not revived by an update is
`Exists`. The refinement is then a matter of one step per action: only the patch of
HPAEnforced and the environment write the object, and the patch leaves both fields.

For `ReplicasAreGivenBack`: the controller deletes the autoscaler and scales the
workload to the maximum it read
from a copy of it, so every copy, in the cache and on the watch, must show a
published configuration that qualifies (`CopiesInv`), and what is published is
a recommended configuration (`PublishedInv`), whose maximum is not zero.
`ResetInv` then says that an undisturbed workload without an autoscaler is at such a
maximum or about to be scaled to one; the budgets tell that it was undisturbed.

`RecommenderProofs` proves of `Recommender`:

- `RecommendationIsSafe`: `Spec => []NeverBreaches`;
- `RecommendationIsMaximal`: `Spec => []TargetIsMaximal`;
- `RecommendationIsWithinLimits`: `Spec => []WithinLimits`;
- `AggregateIsMaximum`: `Spec => []AggregatesMaximum`;
- `UtilizationHasNoGaps`: `Spec => []HasNoGaps`;
- `OutliersLeaveNoTrace`: `Spec => []OutliersAreInvisible`;
- `TypesAreKept`: `Spec => []TypeOK`.

The first three hold for every window, lag and limit and for whatever `simulateHPA` computes:
nothing is assumed of it, in particular not that a breach at one target means a
breach at every higher one. `RecommenderAssumption` asks for `minTarget <= maxTarget`,
as in the configurations of the repository (10 and 60 in `local-config.yaml`), and
`ScraperAssumption` for finitely many instances. `RangeInv` is the invariant of
the binary search, that the target below the range is safe and the one above it is
not, each unless it is outside of the configured ones; `CandidateInv` says that the
best pair so far was found so. The answer is read off the search when the minima
are used up, so `IInv` also keeps `answer = Recommended`. With `WithinLimits` the
assumption of `RecoProofs` about recommendations is itself a theorem.

The other four are about what the folds and recursive functions of the data compute,
for every input. TLA+ defines such a function as a `CHOOSE` of a solution, so it must
first be shown that there is one, and the library's theorems about this take an operator
that the provers cannot instantiate. `ScraperProofs` therefore begins with its own,
over sets and functions: every set of natural numbers has a least element
(`LeastLemma`), hence induction for a set of numbers (`InductionLemma`), hence a
recursion whose calls have a smaller measure has a solution (`RecursionLemma`), hence
a fold is a run through its list (`FoldLemma`, `FoldRunLemma`). With these:

- *Aggregate.* `ScraperInv` says that every split has been asked for at most once, that
  a result is the sorted concatenation of the splits of an instance that has answered
  them all, and what the response is made of. The sort places each element at its rank
  (`SliceStableLemma`: sorted, and a permutation). The merge is right only for lists in
  which a shared time occurs equally often (`Mergeable`): a time at the boundary of two
  splits occurs twice in every list that has it. That is why `AggregatesMaximum` counts
  occurrences; `IsAggregate` says it of the fold over any subset of the instances,
  and `UnionLemma` adds one.
- *Gaps.* `IsFilledUp` is the invariant over the points: each follows the one before
  within two steps, and what is filled in lies between two fetched points.
- *Outliers.* The points inside an interval are a block of the sorted list
  (`BlockLemma`), every event of the window lies inside a joined interval
  (`CoverLemma`). `Alike` relates two runs of the transformer on lists that differ inside
  events: after n intervals they differ inside the later ones only. A line would carry a
  difference out of an interval if one of its ends lay in a later one; it does not, as
  the point between the two intervals is still there (`Kept`) and is nearer
  (`AnchorsLemma`).
- *Types.* The data points are sorted (`PointsInv`), so a line of the transformer lies
  between two natural numbers; a valid target does not divide by zero; the timers are a
  list of natural numbers through the whole simulation (`SimulateLemma`); the instances
  are finitely many, so the longest latency exists (`LatencyLemma`).

`ScraperAssumption` asks for positive window, step and split interval and for series of
natural numbers, `RecommenderAssumption` for finitely many events with integer times and
for workloads with a CPU limit above zero. Nothing is assumed about the order of events
or points.

`MonitorsProofs` proves of `Monitors`, from `MonitorsAssumption`:

- `MonitorsAreTyped`: `Spec => []TypeOK`;
- `OnlyRegisteredAreAlive`: `Spec => []AliveAreRegistered`;
- `EveryBlockedIsQueued`: `Spec => []BlockedAreQueued`.

The three are inductive together with `ManagerInv`: the monitor that
`DeregisterMonitor` waits for is still the registered one, and what `Shutdown` has
left to stop is registered. The lock is what makes this true; without it a
registration could come between. Each goroutine's step is a lemma about one of two
queues of distinct elements (`Appended`, `Removed`, `Taken`), and `GoesOn` is what
all steps of one loop have in common.

`WatcherProofs` proves of `PolicyWatcher`:

- `WatcherIsTyped`: `Spec => []TypeOK`;
- `OneDefaultWhenQuiet`: `Spec => []AtMostOneDefault`;
- `GoneOnlyWhenWarned`: `Spec => WarnedBeforeGone`.

`AtMostOneDefault` speaks of a watcher with nothing left to do, so the invariant says
what is left when there are two defaults (`DefaultsInv`): one of the two is queued or
a version of it that passes the filter is on its way (`Due`), or the worker has one
as the default and the other on the list it marks, or will list it (`Handling`). That a version is on its way when the cache differs from the server,
in order, is `InformerInv`, where `Knows` relates each copy to the server's; it makes an
Update of a copy fail exactly if the copy is old. `WarnedBeforeGone` then needs
only `WorkerInv`: the finalizer is removed from a policy that was seen deleted and
whose recommendations were queued.

`RegistrarProofs` proves of `Registrar`, from `RegistrarAssumption`:

- `RegistrarIsTyped`: `Spec => []TypeOK`;
- `RegisteredWhenQuiet`: `"reco" \notin Relisted /\ Spec => []QuietIsRegistered`.

`PendingInv` says what keeps the registrar awake: a workload it knows of is queued,
under way or monitored; where it sees no `PolicyRecommendation` it is queued, under
way, or a version with one is still to be delivered, whose deletion it will then
see. The last is lost when the informer of PolicyRecommendations lists again, hence
the condition; it is the limit of the code that the comment of `RegistersInTheEnd`
describes. Registering in the end is this theorem and fairness; the latter part is
TLC's.

### Only model-checked

- All liveness properties (`QueuedIsExecuted`, `RequestIsServed`, `Heals`,
  `DeletionFinishes`, `RegistersInTheEnd`, `BreachIsRequested`, `SettlesOnTruth`,
  `StopReturns`, `RecommendEnds`): outside of what TLAPS does here.
- That without a failing call `OneGradeAtATime` and `BreachIsAnswered` hold with a
  cache two and three versions behind, and `NextOnlyAfterExpiry` with one two versions
  behind: `reco_grades` was also run with these bounds.

## Not modelled

The deletion of a `PolicyRecommendation` or workload in the middle of a reconcile
other than in `Registrar`; the HPA v1 client and Rollouts, whose control flow is
that of the modelled ones; the ScaledObject client, which deletes in the
foreground, so that KEDA decides when the object goes; the text of the queries to
Prometheus (`queries.go`) and what Prometheus makes of it; more than one series in
an answer; the rounding of floating-point numbers and a workload without CPU
limits, whose divisions by zero all end in "no operation"; a negative max-pods
annotation; which autoscalers of a namespace the recommender gets: it asks for them by
the field `spec.scaleTargetRef.name` (reco.go:46), while the one indexed is
`.spec.scaleTargetRef.name` (hpaenforcement_controller.go:57), and the model has one
maximum of an autoscaler per workload; the time zone of events;
Prometheus gauges, events and logs; `cmd/main.go` and generated code. `Heals` and
`RegistersInTheEnd` hold under the relists their configurations allow; the
registrar's comment on `RegistersInTheEnd` names the one that breaks it.

## Plan

1. That the simulation never has more replicas ready than the maximum, as a theorem
   about `simulateHPA` with the lemmas about folds.
2. `RecoCycle` as the environment of `HPAEnforcement` by name, in place of the
   actions `RecoStarts`, `RecoChanges` and `RecoFinishes`.
3. The fate of a `PolicyRecommendation` at a policy that is being deleted:
   `PolicyWatcher` composed with `RecoController`.
4. `PolicyStore` against a reference on sorted sequences.
