---------------------------- MODULE RecoController -----------------------------
(***************************************************************************)
(* The life of one PolicyRecommendation: the reconciler that generates its *)
(* recommendations (pkg/controller/policyrecommendation_controller.go,     *)
(* running the workflow of pkg/reco), the trigger handler and the          *)
(* deployment trigger that queue it for execution, the informer between    *)
(* them and the API server, failing calls and crashes of the process.      *)
(*                                                                         *)
(* A step is what happens between two calls to the API server, the cache   *)
(* or the metrics source.  The workqueue runs at most one reconcile of an  *)
(* object at a time and remembers at most one more (`queued`): a retry     *)
(* after an error or RequeueAfter is such a request, its delay left out.   *)
(***************************************************************************)
EXTENDS RecoObject

CONSTANTS
  Recommendation, \* the configurations the recommender may return
  DefaultPolicies,\* the policies marked IsDefault
  MaxClock,       \* bound: the last instant
  MaxTriggers,    \* bound: requests of monitors and of the policy watcher
  MaxAnnotations, \* bound: changes of the workload's max-pods annotation
  MaxFaults,      \* bound: failing calls
  MaxCrashes,     \* bound: restarts of the process
  MaxDeletions,   \* bound: policies deleted
  MaxBreaches     \* bound: breaches

(***************************************************************************)
(* A recommendation does not ask for more replicas at least than at most.  *)
(***************************************************************************)
ASSUME ControllerAssumption ==
  /\ Recommendation \subseteq HPAConfiguration
  /\ \A c \in Recommendation : c.Min <= c.Max
  /\ DefaultPolicies \subseteq Policy
  /\ MaxClock \in Nat \ {0}
  /\ {MaxTriggers, MaxAnnotations, MaxFaults, MaxCrashes, MaxDeletions, MaxBreaches} \subseteq Nat

VARIABLES
  clock,      \* the wall clock
  phase,      \* which policies exist, see PolicyStore
  breachedAt, \* when the metrics source last saw the workload above the red line
  queued,     \* the workqueue holds the object
  pc,         \* where the reconciler is
  task,       \* the reconciler's local variables
  handler,    \* the trigger handler: where it is and its `now`
  deployment, \* the deployment trigger controller, likewise
  panicked,   \* the event filter dereferenced a nil GeneratedAt
  budget      \* what is left of the bounds on the environment

controllerVars == <<queued, pc, task>>
updaterVars == <<handler, deployment>>
envVars == <<clock, phase, breachedAt, budget>>
vars == <<objectVars, controllerVars, updaterVars, envVars, panicked>>

Iterator == {"DefaultPolicy", "Aging", "BreachAnalyzer"}

Step == {"idle", "inProgress", "recommend", "iterate", "breach",
         "errored", "patchSpec", "patchStatus", "patchQueued"}

UpdaterStep == {"idle", "requested", "get", "update", "status"}

(***************************************************************************)
(* The variables of Reconcile and of the Execute it calls: generatedAt,    *)
(* its copy of the spec, targetRecoConfig, the iterators still to run, the *)
(* policy they agree on so far, and the result of the workflow.            *)
(***************************************************************************)
Task ==
  [ generatedAt : Nat,
    spec : PolicyRecommendationSpec,
    target : HPAConfiguration,
    iterators : SUBSET Iterator,
    next : MaybePolicy,
    config : HPAConfiguration,
    policy : MaybePolicy ]

EmptySpec ==
  [ queued |-> FALSE, queuedAt |-> NoTime, generatedAt |-> NoTime,
    transitionedAt |-> NoTime, policy |-> NoPolicy,
    target |-> EmptyConfig, current |-> EmptyConfig ]

NoTask ==
  [ generatedAt |-> NoTime, spec |-> EmptySpec, target |-> EmptyConfig,
    iterators |-> {}, next |-> NoPolicy, config |-> EmptyConfig, policy |-> NoPolicy ]

Budget == [trigger : Nat, annotation : Nat, fault : Nat, crash : Nat,
           deletion : Nat, breach : Nat]

(***************************************************************************)
(* The registrar creates the object queued for execution, at the safest    *)
(* policy, with no recommendation in it.                                   *)
(***************************************************************************)
Registered(policy, now) ==
  [ spec |-> [EmptySpec EXCEPT !.queued = TRUE, !.queuedAt = now,
                               !.transitionedAt = now, !.policy = policy],
    conditions |-> NoConditions ]

TypeOK ==
  /\ ObjectTypeOK
  /\ clock \in Nat
  /\ phase \in [Policy -> Phase]
  /\ breachedAt \in Nat
  /\ queued \in BOOLEAN
  /\ pc \in Step
  /\ task \in Task
  /\ handler \in [at : UpdaterStep, now : Nat]
  /\ deployment \in [at : UpdaterStep, now : Nat]
  /\ panicked \in BOOLEAN
  /\ budget \in Budget

Idle == [at |-> "idle", now |-> NoTime]

Init ==
  /\ clock = 1
  /\ phase \in [Policy -> {"live"}]
  /\ breachedAt = NoTime
  /\ \E p \in GetSafestPolicy(phase) : server = Registered(p, clock)
  /\ watch = << >>
  /\ cache = server
  /\ fresh = {}
  /\ queued = TRUE       \* the create event of an object queued for execution
  /\ pc = "idle"
  /\ task = NoTask
  /\ handler = Idle
  /\ deployment = Idle
  /\ panicked = FALSE
  /\ budget = [ trigger |-> MaxTriggers, annotation |-> MaxAnnotations,
                fault |-> MaxFaults, crash |-> MaxCrashes, deletion |-> MaxDeletions,
                breach |-> MaxBreaches ]

--------------------------------------------------------------------------------
(***************************************************************************)
(* The informer delivers a version; the filter of SetupWithManager decides *)
(* whether it queues the object.                                           *)
(***************************************************************************)

\* GenerationChangedPredicate
GenerationChanged(old, new) == old # new

RequeuedLater(old, new) ==
  new.queued /\ old.queuedAt # NoTime /\ old.queuedAt < new.queuedAt

\* The filter reaches newObjSpec.GeneratedAt.Time.
FilterReadsGeneratedAt(old, new) ==
  /\ GenerationChanged(old, new)
  /\ new.queuedAt # NoTime
  /\ ~(~old.queued /\ new.queued)
  /\ ~RequeuedLater(old, new)

FilterPanics(old, new) ==
  FilterReadsGeneratedAt(old, new) /\ new.generatedAt = NoTime

\* Fault for the mutants: only the transition of QueuedForExecution counts.
queuedTransitionPredicate(old, new) ==
  /\ GenerationChanged(old, new)
  /\ new.queuedAt # NoTime
  /\ ~old.queued /\ new.queued

queuedTaskPredicate(old, new) ==
  /\ GenerationChanged(old, new)
  /\ new.queuedAt # NoTime
  /\ \/ ~old.queued /\ new.queued
     \/ RequeuedLater(old, new)
     \/ new.queuedAt > new.generatedAt

\* Fault for the mutants: the filter drops create events.
RestartForgets ==
  /\ Relist
  /\ queued' = FALSE
  /\ pc' = "idle"
  /\ task' = NoTask
  /\ handler' = Idle
  /\ deployment' = Idle

(***************************************************************************)
(* The process starts: nothing is left of the workqueue, the reconciler,   *)
(* the handler and the triggers sent to it, and the create event of the    *)
(* first list queues the object when it is queued for execution.           *)
(***************************************************************************)
Restart ==
  /\ Relist
  /\ queued' = server.spec.queued
  /\ pc' = "idle"
  /\ task' = NoTask
  /\ handler' = Idle
  /\ deployment' = Idle

Deliver ==
  /\ watch # << >>
  /\ ~FilterPanics(cache.spec, Head(watch).spec)
  /\ cache' = Head(watch)
  /\ watch' = Tail(watch)
  /\ queued' = (queued \/ queuedTaskPredicate(cache.spec, Head(watch).spec))
  /\ UNCHANGED <<server, fresh, pc, task, updaterVars, envVars, panicked>>

\* A panic in an event filter ends the process.
DeliverPanics ==
  /\ watch # << >>
  /\ FilterPanics(cache.spec, Head(watch).spec)
  /\ panicked' = TRUE
  /\ Restart
  /\ UNCHANGED envVars

Crash ==
  /\ budget.crash > 0
  /\ budget' = [budget EXCEPT !.crash = @ - 1]
  /\ Restart
  /\ UNCHANGED <<clock, phase, breachedAt, panicked>>

--------------------------------------------------------------------------------
(***************************************************************************)
(* Reconcile.                                                              *)
(***************************************************************************)

Goto(step) == pc' = step /\ UNCHANGED <<queued, updaterVars, envVars, panicked>>

Fail == budget.fault > 0 /\ budget' = [budget EXCEPT !.fault = @ - 1]

\* Fault for the mutants: the object does not say that it is in progress.
ReconcileUnmarked ==
  /\ pc = "idle"
  /\ queued
  /\ queued' = FALSE
  /\ pc' = "recommend"
  /\ task' = [NoTask EXCEPT !.generatedAt = clock, !.spec = cache.spec]
  /\ UNCHANGED <<objectVars, updaterVars, envVars, panicked>>

Reconcile ==
  /\ pc = "idle"
  /\ queued
  /\ queued' = FALSE
  /\ pc' = "inProgress"
  /\ task' = [NoTask EXCEPT !.generatedAt = clock, !.spec = cache.spec]
  /\ UNCHANGED <<objectVars, updaterVars, envVars, panicked>>

PatchInProgress ==
  /\ pc = "inProgress"
  /\ StatusPatch("workflow", [t \in {"RecoTaskProgress"} |-> "InProgress"])
  /\ Goto("recommend")
  /\ task' = task

\* Fault for the mutants: the error is swallowed.
PatchFailsSilently ==
  /\ pc \in {"inProgress", "errored", "patchSpec", "patchStatus", "patchQueued"}
  /\ Fail
  /\ pc' = "idle"
  /\ task' = NoTask
  /\ UNCHANGED <<queued, objectVars, updaterVars, clock, phase, breachedAt, panicked>>

\* A patch fails: Reconcile returns the error, which queues the object again.
PatchFails ==
  /\ pc \in {"inProgress", "errored", "patchSpec", "patchStatus", "patchQueued"}
  /\ Fail
  /\ pc' = "idle"
  /\ task' = NoTask
  /\ queued' = TRUE
  /\ UNCHANGED <<objectVars, updaterVars, clock, phase, breachedAt, panicked>>

Recommend ==
  /\ pc = "recommend"
  /\ \E config \in Recommendation :
       task' = [task EXCEPT !.target = transformTargetRecoConfig(config),
                            !.iterators = Iterator]
  /\ Goto("iterate")
  /\ UNCHANGED objectVars

(***************************************************************************)
(* The recommender or an iterator fails, or the recommender has no         *)
(* recommendation to make.                                                 *)
(***************************************************************************)
ExecuteFails ==
  /\ pc \in {"recommend", "iterate", "breach"}
  /\ Fail
  /\ pc' = "errored"
  /\ UNCHANGED <<objectVars, queued, task, updaterVars, clock, phase, breachedAt, panicked>>

\* An iterator's answer goes into the safest policy so far.
Answer(iterator, policies) ==
  /\ \E p \in policies :
       task' = [task EXCEPT !.iterators = @ \ {iterator},
                            !.next = pickSafestPolicy(@, p)]
  /\ Goto("iterate")
  /\ UNCHANGED objectVars

\* The range over the map of iterators takes them in any order.
IterateDefault ==
  /\ pc = "iterate"
  /\ "DefaultPolicy" \in task.iterators
  /\ Answer("DefaultPolicy", DefaultNextPolicy(phase, DefaultPolicies))

IterateAging ==
  /\ pc = "iterate"
  /\ "Aging" \in task.iterators
  /\ Answer("Aging", AgingNextPolicy(phase, cache.spec, clock))

\* There are no policies at all: the aging iterator returns the store's error.
IterateAgingErrs ==
  /\ pc = "iterate"
  /\ "Aging" \in task.iterators
  /\ AgingNextPolicy(phase, cache.spec, clock) = {}
  /\ Goto("errored")
  /\ UNCHANGED <<objectVars, task>>

\* Data points above the red line between the last recommendation and now.
HasBreached(spec) ==
  /\ spec.policy # NoPolicy
  /\ spec.generatedAt # NoTime
  /\ breachedAt # NoTime
  /\ breachedAt >= spec.generatedAt

IterateNoBreach ==
  /\ pc = "iterate"
  /\ "BreachAnalyzer" \in task.iterators
  /\ ~HasBreached(cache.spec)
  /\ Answer("BreachAnalyzer", {NoPolicy})

IterateBreach ==
  /\ pc = "iterate"
  /\ "BreachAnalyzer" \in task.iterators
  /\ HasBreached(cache.spec)
  /\ Goto("breach")
  /\ UNCHANGED <<objectVars, task>>

\* The analyzer reads the object again after the query for breaches.
AnalyzeBreach ==
  /\ pc = "breach"
  /\ Answer("BreachAnalyzer", BreachNextPolicy(phase, cache.spec))

Generate ==
  /\ pc = "iterate"
  /\ task.iterators = {}
  /\ \E result \in generateNextRecoConfig(phase, task.target, task.next,
                     cache.conditions["TargetRecoAchieved"].value = "True") :
       task' = [task EXCEPT !.config = result.config, !.policy = result.policy]
  /\ Goto("patchSpec")
  /\ UNCHANGED objectVars

\* "closest safe policy not found"
GenerateErrs ==
  /\ pc = "iterate"
  /\ task.iterators = {}
  /\ findClosestSafePolicy(phase, task.target) = {}
  /\ Goto("errored")
  /\ UNCHANGED <<objectVars, task>>

PatchErrored ==
  /\ pc = "errored"
  /\ StatusPatch("workflow", [t \in {"RecoTaskProgress"} |-> "Errored"])
  /\ pc' = "idle"
  /\ task' = NoTask
  /\ queued' = TRUE
  /\ UNCHANGED <<updaterVars, envVars, panicked>>

\* Fault for the mutants: a change of the configuration is not looked for.
keepTransitionTime(config, spec, generatedAt) ==
  IF spec.transitionedAt = NoTime THEN generatedAt ELSE spec.transitionedAt

retrieveTransitionTime(config, spec, generatedAt) ==
  IF config # spec.current THEN generatedAt ELSE spec.transitionedAt

PatchedSpec(spec) ==
  [ spec EXCEPT !.queued = FALSE,
                !.target = task.target,
                !.current = task.config,
                !.policy = task.policy,
                !.transitionedAt =
                    retrieveTransitionTime(task.config, task.spec, task.generatedAt),
                !.generatedAt = task.generatedAt ]

PatchSpec ==
  /\ pc = "patchSpec"
  /\ Write([server EXCEPT !.spec = PatchedSpec(@)])
  /\ Goto("patchStatus")
  /\ task' = task

\* The conditions of a recommendation that was generated.
GeneratedConditions ==
  [ t \in {"RecoTaskProgress", "TargetRecoAchieved"} |->
      IF t = "RecoTaskProgress" THEN "Generated"
      ELSE IF task.target = task.config THEN "True" ELSE "False" ]

PatchStatus ==
  /\ pc = "patchStatus"
  /\ StatusPatch("workflow", GeneratedConditions)
  /\ Goto("patchQueued")
  /\ task' = task

\* The patch of the other manager holds the conditions collected so far too.
PatchQueued ==
  /\ pc = "patchQueued"
  /\ StatusPatch("queued", [ t \in ConditionType |->
                               IF t = "RecoTaskQueued" THEN "False"
                               ELSE GeneratedConditions[t] ])
  /\ Goto("idle")
  /\ task' = NoTask

--------------------------------------------------------------------------------
(***************************************************************************)
(* The trigger handler's loop.  A send on its channel waits for the        *)
(* receive, so a request is one step.  It gives up on any error.           *)
(***************************************************************************)

HandlerGoto(step) ==
  /\ handler' = IF step = "idle" THEN Idle ELSE [handler EXCEPT !.at = step]
  /\ UNCHANGED <<deployment, controllerVars, clock, phase, breachedAt, panicked>>

QueueForExecution ==
  /\ handler.at = "idle"
  /\ budget.trigger > 0
  /\ budget' = [budget EXCEPT !.trigger = @ - 1]
  /\ handler' = [at |-> "get", now |-> clock]
  /\ UNCHANGED <<objectVars, controllerVars, deployment, clock, phase, breachedAt, panicked>>

HandlerGet ==
  /\ handler.at = "get"
  /\ GetForUpdate("handler")
  /\ HandlerGoto("update")
  /\ UNCHANGED budget

HandlerUpdate ==
  /\ handler.at = "update"
  /\ UpdateQueued("handler", handler.now)
  /\ HandlerGoto("status")
  /\ UNCHANGED budget

\* The request is lost.
HandlerConflict ==
  /\ handler.at = "update"
  /\ Conflict("handler")
  /\ HandlerGoto("idle")
  /\ UNCHANGED <<objectVars, budget>>

HandlerPatchStatus ==
  /\ handler.at = "status"
  /\ StatusPatch("queued", [t \in {"RecoTaskQueued"} |-> "True"])
  /\ HandlerGoto("idle")
  /\ UNCHANGED budget

HandlerFails ==
  /\ handler.at \in {"get", "update", "status"}
  /\ Fail
  /\ HandlerGoto("idle")
  /\ UNCHANGED objectVars

--------------------------------------------------------------------------------
(***************************************************************************)
(* The deployment trigger controller.  An error is retried: its workqueue  *)
(* holds the workload again.                                               *)
(***************************************************************************)

DeploymentGoto(step) ==
  /\ deployment' = IF step \in {"idle", "requested"}
                     THEN [at |-> step, now |-> NoTime]
                     ELSE [deployment EXCEPT !.at = step]
  /\ UNCHANGED <<handler, controllerVars, clock, phase, breachedAt, panicked>>

AnnotationChanged ==
  /\ deployment.at = "idle"
  /\ budget.annotation > 0
  /\ budget' = [budget EXCEPT !.annotation = @ - 1]
  /\ DeploymentGoto("requested")
  /\ UNCHANGED objectVars

requeuePolicyRecommendation ==
  /\ deployment.at = "requested"
  /\ deployment' = [at |-> "get", now |-> clock]
  /\ UNCHANGED <<objectVars, controllerVars, handler, envVars, panicked>>

DeploymentGet ==
  /\ deployment.at = "get"
  /\ GetForUpdate("deployment")
  /\ DeploymentGoto("update")
  /\ UNCHANGED budget

DeploymentUpdate ==
  /\ deployment.at = "update"
  /\ UpdateQueued("deployment", deployment.now)
  /\ DeploymentGoto("idle")
  /\ UNCHANGED budget

DeploymentConflict ==
  /\ deployment.at = "update"
  /\ Conflict("deployment")
  /\ DeploymentGoto("requested")
  /\ UNCHANGED <<objectVars, budget>>

DeploymentFails ==
  /\ deployment.at \in {"get", "update"}
  /\ Fail
  /\ DeploymentGoto("requested")
  /\ UNCHANGED objectVars

--------------------------------------------------------------------------------
(***************************************************************************)
(* The environment.                                                        *)
(***************************************************************************)

Tick ==
  /\ clock < MaxClock
  /\ clock' = clock + 1
  /\ UNCHANGED <<objectVars, controllerVars, updaterVars, phase, breachedAt, budget, panicked>>

Breach ==
  /\ budget.breach > 0
  /\ budget' = [budget EXCEPT !.breach = @ - 1]
  /\ breachedAt' = clock
  /\ UNCHANGED <<objectVars, controllerVars, updaterVars, clock, phase, panicked>>

\* A user deletes a policy; its finalizer keeps it for the policy watcher.
DeletePolicy(p) ==
  /\ phase[p] = "live"
  /\ budget.deletion > 0
  /\ budget' = [budget EXCEPT !.deletion = @ - 1]
  /\ phase' = [phase EXCEPT ![p] = "deleting"]
  /\ UNCHANGED <<objectVars, controllerVars, updaterVars, clock, breachedAt, panicked>>

FinalizePolicy(p) ==
  /\ phase[p] = "deleting"
  /\ phase' = [phase EXCEPT ![p] = "absent"]
  /\ UNCHANGED <<objectVars, controllerVars, updaterVars, clock, breachedAt, budget, panicked>>

--------------------------------------------------------------------------------
Execute ==
  \/ Recommend \/ ExecuteFails
  \/ IterateDefault \/ IterateAging \/ IterateAgingErrs
  \/ IterateNoBreach \/ IterateBreach \/ AnalyzeBreach
  \/ Generate \/ GenerateErrs

ReconcilerNext ==
  \/ Reconcile \/ PatchInProgress \/ Execute \/ PatchErrored
  \/ PatchSpec \/ PatchStatus \/ PatchQueued \/ PatchFails

HandlerNext ==
  \/ QueueForExecution \/ HandlerGet \/ HandlerUpdate \/ HandlerConflict
  \/ HandlerPatchStatus \/ HandlerFails

DeploymentNext ==
  \/ AnnotationChanged \/ requeuePolicyRecommendation \/ DeploymentGet
  \/ DeploymentUpdate \/ DeploymentConflict \/ DeploymentFails

Environment ==
  \/ Tick \/ Breach \/ Crash
  \/ \E p \in Policy : DeletePolicy(p) \/ FinalizePolicy(p)

Next ==
  \/ Deliver \/ DeliverPanics
  \/ ReconcilerNext \/ HandlerNext \/ DeploymentNext \/ Environment

Spec == Init /\ [][Next]_vars

(***************************************************************************)
(* Fairness: the watch connection delivers, and the goroutines of the      *)
(* reconciler, of the handler and of the deployment trigger run.  Nothing  *)
(* is assumed of the environment: no clock tick, no trigger, no fault.     *)
(***************************************************************************)
ReconcilerProgress ==
  \/ Reconcile \/ PatchInProgress \/ Recommend
  \/ IterateDefault \/ IterateAging \/ IterateAgingErrs
  \/ IterateNoBreach \/ IterateBreach \/ AnalyzeBreach
  \/ Generate \/ GenerateErrs
  \/ PatchErrored \/ PatchSpec \/ PatchStatus \/ PatchQueued

HandlerProgress ==
  HandlerGet \/ HandlerUpdate \/ HandlerConflict \/ HandlerPatchStatus

DeploymentProgress ==
  \/ requeuePolicyRecommendation \/ DeploymentGet
  \/ DeploymentUpdate \/ DeploymentConflict

FairSpec ==
  /\ Spec
  /\ WF_vars(Deliver \/ DeliverPanics)
  /\ WF_vars(ReconcilerProgress)
  /\ WF_vars(HandlerProgress)
  /\ WF_vars(DeploymentProgress)
================================================================================
