------------------------------ MODULE RecoProofs -------------------------------
(***************************************************************************)
(* Proofs about RecoController: for all policies, recommendations, lags,   *)
(* faults and crashes the configuration that is applied stays within the   *)
(* recommendation and keeps the required replicas.                         *)
(*                                                                         *)
(* NeverPastTarget is not inductive: PatchSpec writes what the task holds, *)
(* Deliver puts what the watch holds into the cache.  IInv says of every   *)
(* copy of the object, and of the task once it has a recommendation, what  *)
(* NeverPastTarget and KeepsRequiredReplicas say of the server's object.   *)
(***************************************************************************)
EXTENDS RecoProperties, TLAPS

\* transformTargetRecoConfig keeps Min <= Max and raises Min to the required replicas.
LEMMA TransformLemma ==
  ASSUME NEW config \in HPAConfiguration, config.Min <= config.Max
  PROVE  /\ transformTargetRecoConfig(config) \in HPAConfiguration
         /\ transformTargetRecoConfig(config).Min <= transformTargetRecoConfig(config).Max
         /\ transformTargetRecoConfig(config).Max >= MinRequiredReplicas =>
              transformTargetRecoConfig(config).Min >= MinRequiredReplicas
BY WorkflowAssumption DEF transformTargetRecoConfig, HPAConfiguration

\* A percentage of the distance, rounded down, is at most the distance.
LEMMA CutLemma ==
  ASSUME NEW cut \in 0 .. 100, NEW d \in Nat
  PROVE  /\ (cut * d) \div 100 \in Nat
         /\ (cut * d) \div 100 <= d
<1>1. cut * d \in Nat
  OBVIOUS
<1>2. cut * d <= 100 * d
  OBVIOUS
<1>3. QED
  BY <1>1, <1>2

\* The configuration of a policy has the recommendation's Max and at least its Min.
LEMMA PolicyConfigLemma ==
  ASSUME NEW policy \in Policy, NEW config \in HPAConfiguration, config.Min <= config.Max
  PROVE  /\ createRecoConfigFromPolicy(policy, config) \in HPAConfiguration
         /\ createRecoConfigFromPolicy(policy, config).Max = config.Max
         /\ createRecoConfigFromPolicy(policy, config).Min >= config.Min
         /\ createRecoConfigFromPolicy(policy, config).TargetMetricValue = TargetUtilization[policy]
<1> DEFINE cut == MinReplicaPercentageCut[policy]
           d == config.Max - config.Min
<1>1. cut \in 0 .. 100 /\ d \in Nat /\ TargetUtilization[policy] \in Nat
  BY PolicyAssumption DEF HPAConfiguration
<1>2. (cut * d) \div 100 \in Nat /\ (cut * d) \div 100 <= d
  BY <1>1, CutLemma
<1> HIDE DEF cut
<1>3. QED
  BY <1>1, <1>2 DEF createRecoConfigFromPolicy, HPAConfiguration, cut

\* What the policy store returns: policies, or no policy where the caller expects none.
LEMMA StoreLemma ==
  ASSUME NEW ph, NEW S
  PROVE  /\ GetSafestPolicy(ph) \subseteq Policy
         /\ GetDefaultPolicy(ph, S) \subseteq Policy
         /\ \A n : GetNextPolicyByName(ph, n) \subseteq MaybePolicy
         /\ \A n : GetPreviousPolicyByName(ph, n) \subseteq MaybePolicy
         /\ \A n : GetPolicyByName(ph, n) \in MaybePolicy
         /\ \A c : findClosestSafePolicy(ph, c) \subseteq Policy
BY DEF GetSafestPolicy, GetDefaultPolicy, GetNextPolicyByName, GetPreviousPolicyByName,
       GetPolicyByName, findClosestSafePolicy, GetSortedPolicies, Present, Live, LeastRisk,
       MostRisk, Riskier, Safer, Peers, MaybePolicy

\* What the policy iterators return.
LEMMA IteratorLemma ==
  ASSUME NEW ph, NEW S, NEW spec, NEW now
  PROVE  /\ AgingNextPolicy(ph, spec, now) \subseteq MaybePolicy
         /\ DefaultNextPolicy(ph, S) \subseteq MaybePolicy
         /\ BreachNextPolicy(ph, spec) \subseteq MaybePolicy
<1>1. AgingNextPolicy(ph, spec, now) \subseteq MaybePolicy
  <2> DEFINE policy == GetPolicyByName(ph, spec.policy)
  <2>1. policy \in MaybePolicy /\ GetSafestPolicy(ph) \subseteq Policy
        /\ GetNextPolicyByName(ph, policy) \subseteq MaybePolicy
    BY StoreLemma
  <2> HIDE DEF policy
  <2>2. QED
    BY <2>1 DEF AgingNextPolicy, MaybePolicy, policy
<1>2. DefaultNextPolicy(ph, S) \subseteq MaybePolicy
  BY StoreLemma DEF DefaultNextPolicy, MaybePolicy
<1>3. BreachNextPolicy(ph, spec) \subseteq MaybePolicy
  BY StoreLemma DEF BreachNextPolicy
<1>4. QED
  BY <1>1, <1>2, <1>3

\* pickSafestPolicy returns one of its arguments.
LEMMA PickLemma ==
  ASSUME NEW p \in MaybePolicy, NEW q \in MaybePolicy
  PROVE  pickSafestPolicy(p, q) \in MaybePolicy
BY DEF pickSafestPolicy

LEMMA GenerateLemma ==
  ASSUME NEW ph, NEW config \in HPAConfiguration, config.Min <= config.Max,
         NEW policy \in MaybePolicy, NEW achieved \in BOOLEAN,
         NEW result \in generateNextRecoConfig(ph, config, policy, achieved)
  PROVE  /\ result.config \in HPAConfiguration
         /\ result.policy \in Policy
         /\ NotPast(result.config, config)
<1>1. PICK closest \in findClosestSafePolicy(ph, config) :
        result = IF shouldApplyReco(policy, closest, achieved)
                   THEN [config |-> config, policy |-> closest]
                   ELSE [config |-> createRecoConfigFromPolicy(policy, config),
                         policy |-> policy]
  BY DEF generateNextRecoConfig
<1>2. closest \in Policy /\ TargetUtilization[closest] <= config.TargetMetricValue
  BY <1>1 DEF findClosestSafePolicy, MostRisk, GetSortedPolicies, Live
<1>3. CASE shouldApplyReco(policy, closest, achieved)
  <2>1. result = [config |-> config, policy |-> closest]
    BY <1>1, <1>3
  <2>2. result.config = config /\ result.policy = closest
    BY <2>1
  <2>3. NotPast(config, config)
    BY DEF NotPast, HPAConfiguration
  <2>4. QED
    BY <1>2, <2>2, <2>3
<1>4. CASE ~shouldApplyReco(policy, closest, achieved)
  <2>1. policy \in Policy /\ RiskIndex[policy] <= RiskIndex[closest]
    <3>1. policy \in Policy /\ ~(RiskIndex[policy] > RiskIndex[closest])
      BY <1>4 DEF shouldApplyReco, MaybePolicy
    <3>2. QED
      BY <1>2, <3>1, PolicyAssumption
  <2>2. TargetUtilization[policy] <= TargetUtilization[closest]
    BY <1>2, <2>1, GradedAssumption
  <2>3. TargetUtilization[policy] <= config.TargetMetricValue
    BY <1>2, <2>1, <2>2, PolicyAssumption DEF HPAConfiguration
  <2>4. result = [config |-> createRecoConfigFromPolicy(policy, config), policy |-> policy]
    BY <1>1, <1>4
  <2>5. result.config = createRecoConfigFromPolicy(policy, config) /\ result.policy = policy
    BY <2>4
  <2>6. NotPast(createRecoConfigFromPolicy(policy, config), config)
    BY <2>1, <2>3, PolicyConfigLemma DEF NotPast
  <2>7. QED
    BY <2>1, <2>5, <2>6, PolicyConfigLemma
<1>5. QED
  BY <1>3, <1>4

--------------------------------------------------------------------------------
(***************************************************************************)
(* The inductive invariant.  A configuration the reconciler holds is good  *)
(* from the step that computes it on, and so is every version of the       *)
(* object: the server's, the cache's and those on their way.               *)
(***************************************************************************)
Recommended(config) ==
  /\ config.Min <= config.Max
  /\ config.Max >= MinRequiredReplicas => config.Min >= MinRequiredReplicas

GoodSpec(spec) == Recommended(spec.target) /\ WithinTarget(spec)

GoodObject ==
  /\ GoodSpec(server.spec)
  /\ GoodSpec(cache.spec)
  /\ \A i \in 1 .. Len(watch) : GoodSpec(watch[i].spec)

GoodTask ==
  /\ pc \in {"iterate", "breach", "patchSpec"} => Recommended(task.target)
  /\ pc = "patchSpec" => NotPast(task.config, task.target)

ControlTypeOK ==
  /\ clock \in Nat
  /\ phase \in [Policy -> Phase]
  /\ breachedAt \in Nat
  /\ queued \in BOOLEAN
  /\ pc \in Step
  /\ task \in Task
  /\ handler \in [at : UpdaterStep, now : Nat]
  /\ deployment \in [at : UpdaterStep, now : Nat]
  /\ panicked \in BOOLEAN
  /\ budget \in Budget

ObjectInv == ObjectTypeOK /\ GoodObject
ControlInv == ControlTypeOK /\ GoodTask
IInv == ObjectInv /\ ControlInv

\* A write to the API server keeps ObjectInv when what it writes is within its target.
LEMMA WriteLemma ==
  ASSUME ObjectInv, NEW object \in PolicyRecommendation, GoodSpec(object.spec), Write(object)
  PROVE  ObjectInv'
<1>1. /\ server' = object /\ cache' = cache /\ fresh' = {}
      /\ watch' = Append(watch, object) /\ watch \in Seq(PolicyRecommendation)
  BY DEF Write, ObjectInv, ObjectTypeOK
<1>2. ObjectTypeOK'
  BY <1>1 DEF ObjectInv, ObjectTypeOK
<1>3. \A i \in 1 .. Len(watch') : GoodSpec(watch'[i].spec)
  <2> SUFFICES ASSUME NEW i \in 1 .. Len(watch') PROVE GoodSpec(watch'[i].spec)
    OBVIOUS
  <2>1. Len(watch') = Len(watch) + 1 /\ Len(watch) \in Nat
    BY <1>1
  <2>2. CASE i = Len(watch) + 1
    <3>1. watch'[i] = object
      BY <1>1, <2>2
    <3>2. QED
      BY <3>1
  <2>3. CASE i # Len(watch) + 1
    <3>1. i \in 1 .. Len(watch) /\ watch'[i] = watch[i]
      BY <1>1, <2>1, <2>3
    <3>2. QED
      BY <3>1 DEF ObjectInv, GoodObject
  <2>4. QED
    BY <2>2, <2>3
<1>4. GoodSpec(server'.spec) /\ GoodSpec(cache'.spec)
  BY <1>1 DEF ObjectInv, GoodObject
<1>5. GoodObject'
  BY <1>3, <1>4 DEF GoodObject, GoodSpec, WithinTarget, NotPast, Recommended
<1>6. QED
  BY <1>2, <1>5 DEF ObjectInv

\* A status patch writes the spec as it was.
LEMMA StatusPatchLemma ==
  ASSUME ObjectInv, NEW manager \in Manager, NEW patch,
         \A t \in DOMAIN patch : patch[t] \in ConditionValue,
         StatusPatch(manager, patch)
  PROVE  ObjectInv'
<1> DEFINE conditions == ApplyConditions(server.conditions, manager, patch)
           object == [server EXCEPT !.conditions = conditions]
<1>1. server \in PolicyRecommendation /\ server.conditions \in Conditions
  BY DEF ObjectInv, ObjectTypeOK, PolicyRecommendation
<1>2. conditions \in Conditions
  BY <1>1 DEF ApplyConditions, Conditions, ConditionValue, Manager
<1> HIDE DEF conditions
<1>3. object \in PolicyRecommendation /\ object.spec = server.spec
  BY <1>1, <1>2 DEF PolicyRecommendation
<1>4. GoodSpec(object.spec)
  BY <1>3 DEF ObjectInv, GoodObject
<1>5. Write(object)
  BY DEF StatusPatch, conditions
<1> HIDE DEF object
<1>6. QED
  BY <1>3, <1>4, <1>5, WriteLemma

\* An Update of an updater changes the two queueing fields only.
LEMMA UpdateQueuedLemma ==
  ASSUME ObjectInv, NEW client, NEW now \in Nat, UpdateQueued(client, now)
  PROVE  ObjectInv'
<1> DEFINE object == [server EXCEPT !.spec.queued = TRUE, !.spec.queuedAt = now]
<1>1. server \in PolicyRecommendation /\ GoodSpec(server.spec)
  BY DEF ObjectInv, ObjectTypeOK, GoodObject
<1>2. object \in PolicyRecommendation
  BY <1>1 DEF PolicyRecommendation, PolicyRecommendationSpec
<1>3. object.spec.target = server.spec.target /\ object.spec.current = server.spec.current
  BY <1>1 DEF PolicyRecommendation, PolicyRecommendationSpec
<1>4. Write(object)
  BY DEF UpdateQueued
<1> HIDE DEF object
<1>5. GoodSpec(object.spec)
  BY <1>1, <1>3 DEF GoodSpec, WithinTarget
<1>6. QED
  BY <1>2, <1>4, <1>5, WriteLemma

\* Reading the cache changes no copy of the object.
LEMMA GetForUpdateLemma ==
  ASSUME ObjectInv, NEW client \in Updater, GetForUpdate(client)
  PROVE  ObjectInv'
BY DEF GetForUpdate, ObjectInv, ObjectTypeOK, GoodObject, GoodSpec, WithinTarget, NotPast, Recommended

\* A relist copies the server's object, which ObjectInv speaks about, into the cache.
LEMMA RelistLemma ==
  ASSUME ObjectInv, Relist
  PROVE  ObjectInv'
<1>1. server' = server /\ cache' = server /\ watch' = << >> /\ fresh' = {}
  BY DEF Relist
<1>2. ObjectTypeOK'
  BY <1>1 DEF ObjectInv, ObjectTypeOK
<1>3. GoodObject'
  BY <1>1 DEF ObjectInv, GoodObject, GoodSpec, WithinTarget, NotPast, Recommended
<1>4. QED
  BY <1>2, <1>3 DEF ObjectInv

\* A step that leaves the object alone keeps ObjectInv.
LEMMA UnchangedObjectLemma ==
  ASSUME ObjectInv, UNCHANGED objectVars
  PROVE  ObjectInv'
BY DEF objectVars, ObjectInv, ObjectTypeOK, GoodObject, GoodSpec, WithinTarget, NotPast, Recommended

--------------------------------------------------------------------------------
(***************************************************************************)
(* The steps of the reconciler.                                            *)
(***************************************************************************)
\* The empty task and the empty spec have their types.
LEMMA NoTaskLemma == NoTask \in Task /\ EmptySpec \in PolicyRecommendationSpec
BY DEF NoTask, Task, EmptySpec, PolicyRecommendationSpec, EmptyConfig, HPAConfiguration,
       MaybePolicy, NoTime, Iterator

\* The environment's and the updaters' variables keep their types.
LEMMA GotoLemma ==
  ASSUME ControlTypeOK, NEW step \in Step, Goto(step), task' \in Task
  PROVE  ControlTypeOK' /\ pc' = step
BY DEF Goto, ControlTypeOK, updaterVars, envVars

\* A failing call costs one of the budget's faults.
LEMMA FailLemma ==
  ASSUME ControlTypeOK, Fail
  PROVE  budget' \in Budget
BY DEF Fail, ControlTypeOK, Budget

\* Reconcile starts with a copy of the cache's spec.
LEMMA ReconcileLemma ==
  ASSUME IInv, Reconcile
  PROVE  IInv'
<1>1. ObjectInv'
  BY UnchangedObjectLemma DEF IInv, Reconcile
<1>2. task' \in Task
  <2>1. cache.spec \in PolicyRecommendationSpec /\ clock \in Nat
    BY DEF IInv, ObjectInv, ObjectTypeOK, PolicyRecommendation, ControlInv, ControlTypeOK
  <2>2. task' = [NoTask EXCEPT !.generatedAt = clock, !.spec = cache.spec]
    BY DEF Reconcile
  <2>3. QED
    BY <2>1, <2>2, NoTaskLemma DEF Task
<1>3. ControlTypeOK' /\ pc' = "inProgress"
  BY <1>2 DEF IInv, ControlInv, ControlTypeOK, Reconcile, updaterVars, envVars, Step
<1>4. GoodTask'
  BY <1>3 DEF GoodTask
<1>5. QED
  BY <1>1, <1>3, <1>4 DEF IInv, ControlInv

\* The InProgress patch writes no spec.
LEMMA PatchInProgressLemma ==
  ASSUME IInv, PatchInProgress
  PROVE  IInv'
<1>1. ObjectInv'
  <2> DEFINE patch == [t \in {"RecoTaskProgress"} |-> "InProgress"]
  <2>1. \A t \in DOMAIN patch : patch[t] \in ConditionValue
    BY DEF ConditionValue
  <2>2. StatusPatch("workflow", patch)
    BY DEF PatchInProgress
  <2> HIDE DEF patch
  <2>3. QED
    BY <2>1, <2>2, StatusPatchLemma DEF IInv, Manager
<1>2. ControlTypeOK' /\ pc' = "recommend"
  BY GotoLemma DEF IInv, ControlInv, ControlTypeOK, PatchInProgress, Step
<1>3. GoodTask'
  BY <1>2 DEF GoodTask
<1>4. QED
  BY <1>1, <1>2, <1>3 DEF IInv, ControlInv

\* A failed patch drops the task.
LEMMA PatchFailsLemma ==
  ASSUME IInv, PatchFails
  PROVE  IInv'
<1>1. ObjectInv'
  BY UnchangedObjectLemma DEF IInv, PatchFails
<1>2. ControlTypeOK' /\ pc' = "idle"
  BY FailLemma, NoTaskLemma
     DEF IInv, ControlInv, ControlTypeOK, PatchFails, updaterVars, Step
<1>3. GoodTask'
  BY <1>2 DEF GoodTask
<1>4. QED
  BY <1>1, <1>2, <1>3 DEF IInv, ControlInv

\* The recommendation is kept in the task raised to the required replicas.
LEMMA RecommendLemma ==
  ASSUME IInv, Recommend
  PROVE  IInv'
<1>1. ObjectInv'
  BY UnchangedObjectLemma DEF IInv, Recommend
<1>2. PICK config \in Recommendation :
        task' = [task EXCEPT !.target = transformTargetRecoConfig(config),
                             !.iterators = Iterator]
  BY DEF Recommend
<1> DEFINE target == transformTargetRecoConfig(config)
<1>3. target \in HPAConfiguration /\ Recommended(target)
  BY TransformLemma, ControllerAssumption DEF Recommended
<1> HIDE DEF target
<1>4. task' \in Task /\ task'.target = target
  BY <1>2, <1>3 DEF IInv, ControlInv, ControlTypeOK, Task, target
<1>5. ControlTypeOK' /\ pc' = "iterate"
  BY <1>4, GotoLemma DEF IInv, ControlInv, Recommend, Step
<1>6. GoodTask'
  BY <1>3, <1>4, <1>5 DEF GoodTask, Recommended
<1>7. QED
  BY <1>1, <1>5, <1>6 DEF IInv, ControlInv

\* An error of the recommender writes nothing.
LEMMA ExecuteFailsLemma ==
  ASSUME IInv, ExecuteFails
  PROVE  IInv'
<1>1. ObjectInv'
  BY UnchangedObjectLemma DEF IInv, ExecuteFails
<1>2. ControlTypeOK' /\ pc' = "errored"
  BY FailLemma DEF IInv, ControlInv, ControlTypeOK, ExecuteFails, updaterVars, Step
<1>3. GoodTask'
  BY <1>2 DEF GoodTask
<1>4. QED
  BY <1>1, <1>2, <1>3 DEF IInv, ControlInv

\* The answer of an iterator changes only the policy agreed on so far.
LEMMA AnswerLemma ==
  ASSUME IInv, pc \in {"iterate", "breach"}, NEW iterator, NEW policies \in SUBSET MaybePolicy,
         Answer(iterator, policies)
  PROVE  IInv'
<1>1. ObjectInv'
  BY UnchangedObjectLemma DEF IInv, Answer
<1>2. PICK p \in policies :
        task' = [task EXCEPT !.iterators = @ \ {iterator}, !.next = pickSafestPolicy(@, p)]
  BY DEF Answer
<1>3. task \in Task /\ task.next \in MaybePolicy
  BY DEF IInv, ControlInv, ControlTypeOK, Task
<1>4. pickSafestPolicy(task.next, p) \in MaybePolicy
  BY <1>3, PickLemma
<1>5. task' \in Task /\ task'.target = task.target
  BY <1>2, <1>3, <1>4 DEF Task
<1>6. ControlTypeOK' /\ pc' = "iterate"
  BY <1>5, GotoLemma DEF IInv, ControlInv, Answer, Step
<1>7. Recommended(task.target)
  BY DEF IInv, ControlInv, GoodTask
<1>8. GoodTask'
  BY <1>5, <1>6, <1>7 DEF GoodTask, Recommended
<1>9. QED
  BY <1>1, <1>6, <1>8 DEF IInv, ControlInv

\* The configuration the workflow generates is within the task's target.
LEMMA GenerateStepLemma ==
  ASSUME IInv, Generate
  PROVE  IInv'
<1> DEFINE achieved == cache.conditions["TargetRecoAchieved"].value = "True"
<1>1. ObjectInv'
  BY UnchangedObjectLemma DEF IInv, Generate
<1>2. PICK result \in generateNextRecoConfig(phase, task.target, task.next, achieved) :
        task' = [task EXCEPT !.config = result.config, !.policy = result.policy]
  BY DEF Generate
<1>3. /\ task \in Task /\ task.target \in HPAConfiguration /\ task.next \in MaybePolicy
      /\ Recommended(task.target)
  BY DEF IInv, ControlInv, ControlTypeOK, Task, GoodTask, Generate
<1>4. achieved \in BOOLEAN
  OBVIOUS
<1> HIDE DEF achieved
<1>5. /\ result.config \in HPAConfiguration /\ result.policy \in Policy
      /\ NotPast(result.config, task.target)
  BY <1>2, <1>3, <1>4, GenerateLemma DEF Recommended
<1>6. task' \in Task /\ task'.target = task.target /\ task'.config = result.config
  BY <1>2, <1>3, <1>5 DEF Task, MaybePolicy
<1>7. ControlTypeOK' /\ pc' = "patchSpec"
  BY <1>6, GotoLemma DEF IInv, ControlInv, Generate, Step
<1>8. GoodTask'
  BY <1>3, <1>5, <1>6, <1>7 DEF GoodTask, Recommended, NotPast
<1>9. QED
  BY <1>1, <1>7, <1>8 DEF IInv, ControlInv

\* A step to the error path keeps the task, which is written no more.
LEMMA ToErroredLemma ==
  ASSUME IInv, Goto("errored"), UNCHANGED <<objectVars, task>>
  PROVE  IInv'
<1>1. ObjectInv'
  BY UnchangedObjectLemma DEF IInv
<1>2. ControlTypeOK' /\ pc' = "errored"
  BY GotoLemma DEF IInv, ControlInv, ControlTypeOK, Step
<1>3. GoodTask'
  BY <1>2 DEF GoodTask
<1>4. QED
  BY <1>1, <1>2, <1>3 DEF IInv, ControlInv

\* Every step of the workflow keeps the invariant.
LEMMA ExecuteLemma ==
  ASSUME IInv, Execute
  PROVE  IInv'
<1>1. CASE Recommend
  BY <1>1, RecommendLemma
<1>2. CASE ExecuteFails
  BY <1>2, ExecuteFailsLemma
<1>3. CASE IterateDefault
  BY <1>3, AnswerLemma, IteratorLemma DEF IterateDefault
<1>4. CASE IterateAging
  BY <1>4, AnswerLemma, IteratorLemma DEF IterateAging
<1>5. CASE IterateAgingErrs
  BY <1>5, ToErroredLemma DEF IterateAgingErrs
<1>6. CASE IterateNoBreach
  <2>1. {NoPolicy} \in SUBSET MaybePolicy
    BY DEF MaybePolicy
  <2>2. QED
    BY <1>6, <2>1, AnswerLemma DEF IterateNoBreach
<1>7. CASE IterateBreach
  <2>1. ObjectInv'
    BY <1>7, UnchangedObjectLemma DEF IInv, IterateBreach
  <2>2. ControlTypeOK' /\ pc' = "breach" /\ task' = task
    BY <1>7, GotoLemma DEF IInv, ControlInv, ControlTypeOK, IterateBreach, Step
  <2>3. GoodTask'
    BY <1>7, <2>2 DEF IInv, ControlInv, GoodTask, Recommended, IterateBreach
  <2>4. QED
    BY <2>1, <2>2, <2>3 DEF IInv, ControlInv
<1>8. CASE AnalyzeBreach
  BY <1>8, AnswerLemma, IteratorLemma DEF AnalyzeBreach
<1>9. CASE Generate
  BY <1>9, GenerateStepLemma
<1>10. CASE GenerateErrs
  BY <1>10, ToErroredLemma DEF GenerateErrs
<1>11. QED
  BY <1>1, <1>2, <1>3, <1>4, <1>5, <1>6, <1>7, <1>8, <1>9, <1>10 DEF Execute

\* The Errored patch writes no spec.
LEMMA PatchErroredLemma ==
  ASSUME IInv, PatchErrored
  PROVE  IInv'
<1>1. ObjectInv'
  <2> DEFINE patch == [t \in {"RecoTaskProgress"} |-> "Errored"]
  <2>1. \A t \in DOMAIN patch : patch[t] \in ConditionValue
    BY DEF ConditionValue
  <2>2. StatusPatch("workflow", patch)
    BY DEF PatchErrored
  <2> HIDE DEF patch
  <2>3. QED
    BY <2>1, <2>2, StatusPatchLemma DEF IInv, Manager
<1>2. ControlTypeOK' /\ pc' = "idle"
  BY NoTaskLemma DEF IInv, ControlInv, ControlTypeOK, PatchErrored, updaterVars, envVars, Step
<1>3. GoodTask'
  BY <1>2 DEF GoodTask
<1>4. QED
  BY <1>1, <1>2, <1>3 DEF IInv, ControlInv

\* The one step that writes a configuration: it is the one that was generated.
LEMMA PatchSpecLemma ==
  ASSUME IInv, PatchSpec
  PROVE  IInv'
<1> DEFINE object == [server EXCEPT !.spec = PatchedSpec(server.spec)]
           time == retrieveTransitionTime(task.config, task.spec, task.generatedAt)
<1>1. /\ server \in PolicyRecommendation /\ server.spec \in PolicyRecommendationSpec
      /\ task \in Task /\ task.spec \in PolicyRecommendationSpec
      /\ task.generatedAt \in Nat /\ task.target \in HPAConfiguration
      /\ task.config \in HPAConfiguration /\ task.policy \in MaybePolicy
  BY DEF IInv, ObjectInv, ObjectTypeOK, ControlInv, ControlTypeOK, PolicyRecommendation, Task
<1>2. time \in Nat
  BY <1>1 DEF retrieveTransitionTime, PolicyRecommendationSpec
<1> HIDE DEF time
<1>3. /\ PatchedSpec(server.spec) \in PolicyRecommendationSpec
      /\ PatchedSpec(server.spec).target = task.target
      /\ PatchedSpec(server.spec).current = task.config
  BY <1>1, <1>2 DEF PatchedSpec, PolicyRecommendationSpec, time
<1>4. Recommended(task.target) /\ NotPast(task.config, task.target)
  BY DEF IInv, ControlInv, GoodTask, PatchSpec
<1>5. GoodSpec(PatchedSpec(server.spec))
  BY <1>3, <1>4 DEF GoodSpec, WithinTarget
<1>6. object \in PolicyRecommendation /\ object.spec = PatchedSpec(server.spec)
  BY <1>1, <1>3 DEF PolicyRecommendation
<1>7. Write(object)
  BY DEF PatchSpec
<1> HIDE DEF object
<1>8. ObjectInv'
  BY <1>5, <1>6, <1>7, WriteLemma DEF IInv
<1>9. ControlTypeOK' /\ pc' = "patchStatus"
  BY <1>1, GotoLemma DEF IInv, ControlInv, PatchSpec, Step
<1>10. GoodTask'
  BY <1>9 DEF GoodTask
<1>11. QED
  BY <1>8, <1>9, <1>10 DEF IInv, ControlInv

\* The patch of the generated conditions writes no spec.
LEMMA PatchStatusLemma ==
  ASSUME IInv, PatchStatus
  PROVE  IInv'
<1>1. \A t \in DOMAIN GeneratedConditions : GeneratedConditions[t] \in ConditionValue
  BY DEF GeneratedConditions, ConditionValue
<1>2. ObjectInv'
  BY <1>1, StatusPatchLemma DEF IInv, PatchStatus, Manager
<1>3. ControlTypeOK' /\ pc' = "patchQueued"
  BY GotoLemma DEF IInv, ControlInv, ControlTypeOK, PatchStatus, Step
<1>4. GoodTask'
  BY <1>3 DEF GoodTask
<1>5. QED
  BY <1>2, <1>3, <1>4 DEF IInv, ControlInv

\* The patch of RecoTaskQueued writes no spec.
LEMMA PatchQueuedLemma ==
  ASSUME IInv, PatchQueued
  PROVE  IInv'
<1> DEFINE patch == [t \in ConditionType |-> IF t = "RecoTaskQueued" THEN "False"
                                             ELSE GeneratedConditions[t]]
<1>1. \A t \in DOMAIN patch : patch[t] \in ConditionValue
  BY DEF GeneratedConditions, ConditionValue, ConditionType
<1>2. StatusPatch("queued", patch)
  BY DEF PatchQueued
<1> HIDE DEF patch
<1>3. ObjectInv'
  BY <1>1, <1>2, StatusPatchLemma DEF IInv, Manager
<1>4. ControlTypeOK' /\ pc' = "idle"
  BY GotoLemma, NoTaskLemma DEF IInv, ControlInv, PatchQueued, Step
<1>5. GoodTask'
  BY <1>4 DEF GoodTask
<1>6. QED
  BY <1>3, <1>4, <1>5 DEF IInv, ControlInv

\* Every step of the reconciler keeps the invariant.
LEMMA ReconcilerLemma ==
  ASSUME IInv, ReconcilerNext
  PROVE  IInv'
BY ReconcileLemma, PatchInProgressLemma, ExecuteLemma, PatchErroredLemma, PatchSpecLemma,
   PatchStatusLemma, PatchQueuedLemma, PatchFailsLemma DEF ReconcilerNext

--------------------------------------------------------------------------------
(***************************************************************************)
(* The other actors write no configuration.                                *)
(***************************************************************************)
\* What is known of the task depends on the reconciler's variables alone.
LEMMA SameTaskLemma ==
  ASSUME ControlInv, UNCHANGED <<pc, task>>
  PROVE  GoodTask'
BY DEF ControlInv, GoodTask, Recommended, NotPast

\* The trigger handler writes the queueing fields and a status condition.
LEMMA HandlerLemma ==
  ASSUME IInv, HandlerNext
  PROVE  IInv'
<1>1. CASE QueueForExecution
  <2>1. ObjectInv'
    BY <1>1, UnchangedObjectLemma DEF IInv, QueueForExecution
  <2>2. ControlTypeOK' /\ UNCHANGED <<pc, task>>
    BY <1>1 DEF IInv, ControlInv, ControlTypeOK, QueueForExecution, controllerVars,
                UpdaterStep, Budget
  <2>3. QED
    BY <2>1, <2>2, SameTaskLemma DEF IInv, ControlInv
<1> DEFINE Moved == \E step \in UpdaterStep : HandlerGoto(step)
<1>2. ASSUME Moved, budget' \in Budget
      PROVE  ControlInv'
  <2>1. PICK step \in UpdaterStep : HandlerGoto(step)
    BY <1>2
  <2>2. ControlTypeOK' /\ UNCHANGED <<pc, task>>
    BY <1>2, <2>1 DEF IInv, ControlInv, ControlTypeOK, HandlerGoto, controllerVars, Idle,
                      UpdaterStep, NoTime
  <2>3. QED
    BY <2>2, SameTaskLemma DEF IInv, ControlInv
<1>3. handler.now \in Nat /\ budget \in Budget
  BY DEF IInv, ControlInv, ControlTypeOK
<1>4. CASE HandlerGet
  <2>1. ObjectInv'
    BY <1>4, GetForUpdateLemma DEF IInv, HandlerGet, Updater
  <2>2. Moved /\ budget' \in Budget
    BY <1>3, <1>4 DEF HandlerGet, UpdaterStep
  <2>3. QED
    BY <1>2, <2>1, <2>2 DEF IInv
<1>5. CASE HandlerUpdate
  <2>1. ObjectInv'
    BY <1>3, <1>5, UpdateQueuedLemma DEF IInv, HandlerUpdate
  <2>2. Moved /\ budget' \in Budget
    BY <1>3, <1>5 DEF HandlerUpdate, UpdaterStep
  <2>3. QED
    BY <1>2, <2>1, <2>2 DEF IInv
<1>6. CASE HandlerConflict
  <2>1. ObjectInv'
    BY <1>6, UnchangedObjectLemma DEF IInv, HandlerConflict
  <2>2. Moved /\ budget' \in Budget
    BY <1>3, <1>6 DEF HandlerConflict, UpdaterStep
  <2>3. QED
    BY <1>2, <2>1, <2>2 DEF IInv
<1>7. CASE HandlerPatchStatus
  <2> DEFINE patch == [t \in {"RecoTaskQueued"} |-> "True"]
  <2>1. \A t \in DOMAIN patch : patch[t] \in ConditionValue
    BY DEF ConditionValue
  <2>2. StatusPatch("queued", patch)
    BY <1>7 DEF HandlerPatchStatus
  <2> HIDE DEF patch
  <2>3. ObjectInv'
    BY <2>1, <2>2, StatusPatchLemma DEF IInv, Manager
  <2>4. Moved /\ budget' \in Budget
    BY <1>3, <1>7 DEF HandlerPatchStatus, UpdaterStep
  <2>5. QED
    BY <1>2, <2>3, <2>4 DEF IInv
<1>8. CASE HandlerFails
  <2>1. ObjectInv'
    BY <1>8, UnchangedObjectLemma DEF IInv, HandlerFails
  <2>2. Moved /\ budget' \in Budget
    BY <1>8, FailLemma DEF IInv, ControlInv, HandlerFails, UpdaterStep
  <2>3. QED
    BY <1>2, <2>1, <2>2 DEF IInv
<1>9. QED
  BY <1>1, <1>4, <1>5, <1>6, <1>7, <1>8 DEF HandlerNext

\* The deployment trigger writes the queueing fields.
LEMMA DeploymentLemma ==
  ASSUME IInv, DeploymentNext
  PROVE  IInv'
<1> DEFINE Moved == \E step \in UpdaterStep : DeploymentGoto(step)
<1>1. ASSUME Moved, budget' \in Budget
      PROVE  ControlInv'
  <2>1. PICK step \in UpdaterStep : DeploymentGoto(step)
    BY <1>1
  <2>2. ControlTypeOK' /\ UNCHANGED <<pc, task>>
    BY <1>1, <2>1 DEF IInv, ControlInv, ControlTypeOK, DeploymentGoto, controllerVars,
                      UpdaterStep, NoTime
  <2>3. QED
    BY <2>2, SameTaskLemma DEF IInv, ControlInv
<1>2. deployment.now \in Nat /\ budget \in Budget
  BY DEF IInv, ControlInv, ControlTypeOK
<1>3. CASE AnnotationChanged
  <2>1. ObjectInv'
    BY <1>3, UnchangedObjectLemma DEF IInv, AnnotationChanged
  <2>2. Moved /\ budget' \in Budget
    BY <1>2, <1>3 DEF AnnotationChanged, UpdaterStep, Budget
  <2>3. QED
    BY <1>1, <2>1, <2>2 DEF IInv
<1>4. CASE requeuePolicyRecommendation
  <2>1. ObjectInv'
    BY <1>4, UnchangedObjectLemma DEF IInv, requeuePolicyRecommendation
  <2>2. ControlTypeOK' /\ UNCHANGED <<pc, task>>
    BY <1>4 DEF IInv, ControlInv, ControlTypeOK, requeuePolicyRecommendation, controllerVars,
                envVars, UpdaterStep
  <2>3. QED
    BY <2>1, <2>2, SameTaskLemma DEF IInv, ControlInv
<1>5. CASE DeploymentGet
  <2>1. ObjectInv'
    BY <1>5, GetForUpdateLemma DEF IInv, DeploymentGet, Updater
  <2>2. Moved /\ budget' \in Budget
    BY <1>2, <1>5 DEF DeploymentGet, UpdaterStep
  <2>3. QED
    BY <1>1, <2>1, <2>2 DEF IInv
<1>6. CASE DeploymentUpdate
  <2>1. ObjectInv'
    BY <1>2, <1>6, UpdateQueuedLemma DEF IInv, DeploymentUpdate
  <2>2. Moved /\ budget' \in Budget
    BY <1>2, <1>6 DEF DeploymentUpdate, UpdaterStep
  <2>3. QED
    BY <1>1, <2>1, <2>2 DEF IInv
<1>7. CASE DeploymentConflict
  <2>1. ObjectInv'
    BY <1>7, UnchangedObjectLemma DEF IInv, DeploymentConflict
  <2>2. Moved /\ budget' \in Budget
    BY <1>2, <1>7 DEF DeploymentConflict, UpdaterStep
  <2>3. QED
    BY <1>1, <2>1, <2>2 DEF IInv
<1>8. CASE DeploymentFails
  <2>1. ObjectInv'
    BY <1>8, UnchangedObjectLemma DEF IInv, DeploymentFails
  <2>2. Moved /\ budget' \in Budget
    BY <1>8, FailLemma DEF IInv, ControlInv, DeploymentFails, UpdaterStep
  <2>3. QED
    BY <1>1, <2>1, <2>2 DEF IInv
<1>9. QED
  BY <1>3, <1>4, <1>5, <1>6, <1>7, <1>8 DEF DeploymentNext

\* A restart forgets the task and lists the object.
LEMMA RestartLemma ==
  ASSUME IInv, Restart, UNCHANGED <<clock, phase, breachedAt>>, budget' \in Budget,
         panicked' \in BOOLEAN
  PROVE  IInv'
<1>1. ObjectInv'
  BY RelistLemma DEF IInv, Restart
<1>2. server.spec.queued \in BOOLEAN
  BY DEF IInv, ObjectInv, ObjectTypeOK, PolicyRecommendation, PolicyRecommendationSpec
<1>3. ControlTypeOK' /\ pc' = "idle"
  BY <1>2, NoTaskLemma DEF IInv, ControlInv, ControlTypeOK, Restart, Step, Idle, UpdaterStep,
                           NoTime
<1>4. GoodTask'
  BY <1>3 DEF GoodTask
<1>5. QED
  BY <1>1, <1>3, <1>4 DEF IInv, ControlInv

\* A delivered version was written by a step that kept ObjectInv.
LEMMA DeliverLemma ==
  ASSUME IInv, Deliver
  PROVE  IInv'
<1>1. /\ watch \in Seq(PolicyRecommendation) /\ watch # << >>
      /\ cache' = Head(watch) /\ watch' = Tail(watch) /\ UNCHANGED <<server, fresh>>
  BY DEF IInv, ObjectInv, ObjectTypeOK, Deliver
<1>2. ObjectTypeOK'
  <2>1. Head(watch) \in PolicyRecommendation /\ Tail(watch) \in Seq(PolicyRecommendation)
    BY <1>1
  <2>2. QED
    BY <1>1, <2>1 DEF IInv, ObjectInv, ObjectTypeOK
<1>3. \A i \in 1 .. Len(watch) : GoodSpec(watch[i].spec)
  BY DEF IInv, ObjectInv, GoodObject
<1>4. GoodSpec(cache'.spec)
  <2>1. Head(watch) = watch[1] /\ 1 \in 1 .. Len(watch)
    BY <1>1
  <2>2. QED
    BY <1>1, <1>3, <2>1
<1>5. \A i \in 1 .. Len(watch') : GoodSpec(watch'[i].spec)
  <2> SUFFICES ASSUME NEW i \in 1 .. Len(watch') PROVE GoodSpec(watch'[i].spec)
    OBVIOUS
  <2>1. watch'[i] = watch[i + 1] /\ i + 1 \in 1 .. Len(watch)
    BY <1>1
  <2>2. QED
    BY <1>3, <2>1
<1>6. GoodObject'
  BY <1>1, <1>4, <1>5
     DEF IInv, ObjectInv, GoodObject, GoodSpec, WithinTarget, NotPast, Recommended
<1>7. ControlTypeOK' /\ UNCHANGED <<pc, task>>
  BY DEF IInv, ControlInv, ControlTypeOK, Deliver, updaterVars, envVars
<1>8. QED
  BY <1>2, <1>6, <1>7, SameTaskLemma DEF IInv, ObjectInv, ControlInv

\* The environment writes neither the object nor the task.
LEMMA EnvironmentLemma ==
  ASSUME IInv, Environment
  PROVE  IInv'
<1>1. CASE Tick
  <2>1. ObjectInv'
    BY <1>1, UnchangedObjectLemma DEF IInv, Tick
  <2>2. ControlTypeOK' /\ UNCHANGED <<pc, task>>
    BY <1>1 DEF IInv, ControlInv, ControlTypeOK, Tick, controllerVars, updaterVars
  <2>3. QED
    BY <2>1, <2>2, SameTaskLemma DEF IInv, ControlInv
<1>2. CASE Breach
  <2>1. ObjectInv'
    BY <1>2, UnchangedObjectLemma DEF IInv, Breach
  <2>2. ControlTypeOK' /\ UNCHANGED <<pc, task>>
    BY <1>2 DEF IInv, ControlInv, ControlTypeOK, Breach, controllerVars, updaterVars, Budget
  <2>3. QED
    BY <2>1, <2>2, SameTaskLemma DEF IInv, ControlInv
<1>3. CASE Crash
  BY <1>3, RestartLemma DEF IInv, ControlInv, ControlTypeOK, Crash, Budget
<1>4. ASSUME NEW p \in Policy, DeletePolicy(p) \/ FinalizePolicy(p)
      PROVE  IInv'
  <2>1. ObjectInv'
    BY <1>4, UnchangedObjectLemma DEF IInv, DeletePolicy, FinalizePolicy
  <2>2. ControlTypeOK' /\ UNCHANGED <<pc, task>>
    BY <1>4 DEF IInv, ControlInv, ControlTypeOK, DeletePolicy, FinalizePolicy, controllerVars,
                updaterVars, Budget, Phase
  <2>3. QED
    BY <2>1, <2>2, SameTaskLemma DEF IInv, ControlInv
<1>5. QED
  BY <1>1, <1>2, <1>3, <1>4 DEF Environment

--------------------------------------------------------------------------------
\* The object the registrar creates is within its (empty) target.
LEMMA InitLemma == Init => IInv
<1> SUFFICES ASSUME Init PROVE IInv
  OBVIOUS
<1>1. PICK p \in GetSafestPolicy(phase) : server = Registered(p, clock)
  BY DEF Init
<1>2. p \in MaybePolicy /\ clock = 1
  BY StoreLemma DEF MaybePolicy, Init
<1>3. NoConditions \in Conditions
  BY DEF NoConditions, Conditions, ConditionValue
<1>4. server \in PolicyRecommendation
  BY <1>1, <1>2, <1>3, NoTaskLemma DEF Registered, PolicyRecommendation, PolicyRecommendationSpec
<1>5. server.spec.target = EmptyConfig /\ server.spec.current = EmptyConfig
  BY <1>1, <1>2 DEF Registered, EmptySpec
<1>6. GoodSpec(server.spec)
  BY <1>5, WorkflowAssumption DEF GoodSpec, WithinTarget, NotPast, Recommended, EmptyConfig
<1>7. ObjectInv
  <2>1. cache = server /\ watch = << >> /\ fresh = {}
    BY DEF Init
  <2>2. ObjectTypeOK
    BY <1>4, <2>1 DEF ObjectTypeOK
  <2>3. GoodObject
    BY <1>6, <2>1 DEF GoodObject
  <2>4. QED
    BY <2>2, <2>3 DEF ObjectInv
<1>8. ControlTypeOK /\ pc = "idle"
  BY NoTaskLemma, ControllerAssumption
     DEF Init, ControlTypeOK, Phase, NoTime, Step, Idle, UpdaterStep, Budget
<1>9. GoodTask
  BY <1>8 DEF GoodTask
<1>10. QED
  BY <1>7, <1>8, <1>9 DEF IInv, ControlInv

\* IInv is inductive.
LEMMA NextLemma == IInv /\ [Next]_vars => IInv'
<1> SUFFICES ASSUME IInv, [Next]_vars PROVE IInv'
  OBVIOUS
<1>1. CASE Deliver
  BY <1>1, DeliverLemma
<1>2. CASE DeliverPanics
  BY <1>2, RestartLemma DEF IInv, ControlInv, ControlTypeOK, DeliverPanics, envVars
<1>3. CASE ReconcilerNext
  BY <1>3, ReconcilerLemma
<1>4. CASE HandlerNext
  BY <1>4, HandlerLemma
<1>5. CASE DeploymentNext
  BY <1>5, DeploymentLemma
<1>6. CASE Environment
  BY <1>6, EnvironmentLemma
<1>7. CASE UNCHANGED vars
  <2>1. ObjectInv'
    BY <1>7, UnchangedObjectLemma DEF IInv, vars
  <2>2. ControlTypeOK' /\ UNCHANGED <<pc, task>>
    BY <1>7 DEF IInv, ControlInv, ControlTypeOK, vars, controllerVars, updaterVars, envVars
  <2>3. QED
    BY <2>1, <2>2, SameTaskLemma DEF IInv, ControlInv
<1>8. QED
  BY <1>1, <1>2, <1>3, <1>4, <1>5, <1>6, <1>7 DEF Next

(***************************************************************************)
(* The inductive invariant holds: every copy of the object (the server's,  *)
(* the cache's and those on the watch) and every task the reconciler is    *)
(* about to write is typed, within its target and above the required       *)
(* replicas.                                                               *)
(***************************************************************************)
THEOREM Invariance == Spec => []IInv
BY InitLemma, NextLemma, PTL DEF Spec

(***************************************************************************)
(* Every variable keeps its type: the replica counts stay natural numbers  *)
(* under the percentage cut (workflow.go, createRecoConfigFromPolicy) and  *)
(* the reconciler's task is always one of Task.                            *)
(***************************************************************************)
THEOREM TypeCorrect == Spec => []TypeOK
<1>1. IInv => TypeOK
  BY DEF IInv, ObjectInv, ControlInv, ControlTypeOK, TypeOK
<1>2. QED
  BY <1>1, Invariance, PTL

(***************************************************************************)
(* For every set of graded policies, every recommender whose answers have  *)
(* Min <= Max, any lag of the cache, any number of crashes and failing     *)
(* calls, the applied configuration never goes past the recommendation.    *)
(***************************************************************************)
THEOREM TargetIsTheLimit == Spec => []NeverPastTarget
<1>1. IInv => NeverPastTarget
  BY DEF IInv, ObjectInv, GoodObject, GoodSpec, NeverPastTarget
<1>2. QED
  BY <1>1, Invariance, PTL

(***************************************************************************)
(* Under the same conditions a workload that may have the required number  *)
(* of replicas has it as its minimum.                                      *)
(***************************************************************************)
THEOREM RequiredReplicasAreKept == Spec => []KeepsRequiredReplicas
<1>1. IInv => KeepsRequiredReplicas
  <2> SUFFICES ASSUME IInv PROVE KeepsRequiredReplicas
    OBVIOUS
  <2>1. /\ server.spec.current \in HPAConfiguration /\ server.spec.target \in HPAConfiguration
        /\ GoodSpec(server.spec)
    BY DEF IInv, ObjectInv, ObjectTypeOK, GoodObject, PolicyRecommendation,
           PolicyRecommendationSpec
  <2>2. QED
    BY <2>1, WorkflowAssumption
       DEF GoodSpec, WithinTarget, NotPast, Recommended, KeepsRequiredReplicas, HPAConfiguration
<1>2. QED
  BY <1>1, Invariance, PTL
--------------------------------------------------------------------------------
(***************************************************************************)
(* RecoController implements RecoCycle.  That needs CycleInv: what the     *)
(* object says of its progress follows from where the reconciler is, and   *)
(* the field manager of the reconciler owns that condition, so that the    *)
(* patches of the other manager cannot remove it.                          *)
(***************************************************************************)
Progress == server.conditions["RecoTaskProgress"]

\* The steps of Reconcile between the patch of InProgress and the last but one.
Working == {"recommend", "iterate", "breach", "errored", "patchSpec", "patchStatus"}

CycleInv ==
  /\ pc \in Working => Progress.value = "InProgress"
  /\ pc = "patchQueued" => Progress.value = "Generated"
  /\ Progress.value # "none" => "workflow" \in Progress.owners

CycleStep == Cycle!Next \/ UNCHANGED Cycle!cycleVars

\* What a status patch makes of the condition, and that it leaves the spec alone.
LEMMA ApplyLemma ==
  ASSUME ObjectInv, NEW manager, NEW patch, StatusPatch(manager, patch)
  PROVE  /\ server'.spec = server.spec
         /\ "RecoTaskProgress" \in DOMAIN patch =>
              /\ Progress'.value = patch["RecoTaskProgress"]
              /\ Progress'.owners = Progress.owners \cup {manager}
         /\ "RecoTaskProgress" \notin DOMAIN patch =>
              /\ Progress'.owners = Progress.owners \ {manager}
              /\ Progress.owners \ {manager} # {} => Progress'.value = Progress.value
              /\ Progress.owners \ {manager} = {} => Progress'.value = "none"
<1> DEFINE conditions == ApplyConditions(server.conditions, manager, patch)
<1>1. server \in PolicyRecommendation
  BY DEF ObjectInv, ObjectTypeOK
<1>2. server' = [server EXCEPT !.conditions = conditions]
  BY DEF StatusPatch, Write
<1>3. server'.spec = server.spec /\ server'.conditions = conditions
  BY <1>1, <1>2 DEF PolicyRecommendation
<1>4. "RecoTaskProgress" \in ConditionType
  BY DEF ConditionType
<1>5. Progress' = conditions["RecoTaskProgress"]
  BY <1>3 DEF Progress
<1>6. CASE "RecoTaskProgress" \in DOMAIN patch
  <2>1. conditions["RecoTaskProgress"] =
          [value |-> patch["RecoTaskProgress"], owners |-> Progress.owners \cup {manager}]
    BY <1>4, <1>6 DEF ApplyConditions, Progress
  <2>2. QED
    BY <1>3, <1>5, <1>6, <2>1
<1>7. CASE "RecoTaskProgress" \notin DOMAIN patch
  <2>1. conditions["RecoTaskProgress"] =
          [value |-> IF Progress.owners \ {manager} = {} THEN "none" ELSE Progress.value,
           owners |-> Progress.owners \ {manager}]
    BY <1>4, <1>7 DEF ApplyConditions, Progress
  <2>2. QED
    BY <1>3, <1>5, <1>7, <2>1
<1>8. QED
  BY <1>6, <1>7

\* A step that changes neither progress nor configuration, and takes the
\* reconciler nowhere CycleInv speaks of, except from one working step to another.
LEMMA StutterLemma ==
  ASSUME CycleInv, Progress' = Progress, server'.spec.current = server.spec.current,
         pc' = pc \/ pc' \in {"idle", "inProgress"} \/ {pc, pc'} \subseteq Working
  PROVE  CycleInv' /\ CycleStep
<1>1. CycleInv'
  BY DEF CycleInv, Working
<1>2. UNCHANGED Cycle!cycleVars
  BY DEF Cycle!cycleVars, Progress
<1>3. QED
  BY <1>1, <1>2 DEF CycleStep

\* A step that does not write to the API server.
LEMMA NoWriteLemma ==
  ASSUME CycleInv, server' = server,
         pc' = pc \/ pc' \in {"idle", "inProgress"} \/ {pc, pc'} \subseteq Working
  PROVE  CycleInv' /\ CycleStep
<1>1. Progress' = Progress /\ server'.spec.current = server.spec.current
  BY DEF Progress
<1>2. QED
  BY <1>1, StutterLemma

\* Execute only reads.
LEMMA ExecuteCycleLemma ==
  ASSUME CycleInv, Execute
  PROVE  CycleInv' /\ CycleStep
<1>1. server' = server /\ {pc, pc'} \subseteq Working
  BY DEF Execute, Recommend, ExecuteFails, IterateDefault, IterateAging, IterateAgingErrs,
         IterateNoBreach, IterateBreach, AnalyzeBreach, Generate, GenerateErrs, Answer, Goto,
         objectVars, Working
<1>2. QED
  BY <1>1, NoWriteLemma

\* The patches of the reconciler are the steps of the cycle.
LEMMA ReconcilerCycleLemma ==
  ASSUME IInv, CycleInv, ReconcilerNext
  PROVE  CycleInv' /\ CycleStep
<1> USE DEF IInv
<1>1. CASE Reconcile
  BY <1>1, NoWriteLemma DEF Reconcile, objectVars
<1>2. CASE PatchInProgress
  <2> DEFINE patch == [t \in {"RecoTaskProgress"} |-> "InProgress"]
  <2>1. StatusPatch("workflow", patch) /\ pc' = "recommend"
    BY <1>2 DEF PatchInProgress, Goto
  <2>2. "RecoTaskProgress" \in DOMAIN patch /\ patch["RecoTaskProgress"] = "InProgress"
    OBVIOUS
  <2> HIDE DEF patch
  <2>3. /\ server'.spec = server.spec /\ Progress'.value = "InProgress"
        /\ "workflow" \in Progress'.owners
    BY <2>1, <2>2, ApplyLemma
  <2>4. CycleInv'
    BY <2>1, <2>3 DEF CycleInv, Working
  <2>5. Cycle!Start
    BY <2>3 DEF Cycle!Start, Progress
  <2>6. QED
    BY <2>4, <2>5 DEF CycleStep, Cycle!Next
<1>3. CASE Execute
  BY <1>3, ExecuteCycleLemma
<1>4. CASE PatchErrored
  <2> DEFINE patch == [t \in {"RecoTaskProgress"} |-> "Errored"]
  <2>1. StatusPatch("workflow", patch) /\ pc = "errored" /\ pc' = "idle"
    BY <1>4 DEF PatchErrored
  <2>2. "RecoTaskProgress" \in DOMAIN patch /\ patch["RecoTaskProgress"] = "Errored"
    OBVIOUS
  <2> HIDE DEF patch
  <2>3. /\ server'.spec = server.spec /\ Progress'.value = "Errored"
        /\ "workflow" \in Progress'.owners
    BY <2>1, <2>2, ApplyLemma
  <2>4. CycleInv'
    BY <2>1, <2>3 DEF CycleInv, Working
  <2>5. Cycle!Err
    BY <2>1, <2>3 DEF Cycle!Err, Progress, CycleInv, Working
  <2>6. QED
    BY <2>4, <2>5 DEF CycleStep, Cycle!Next
<1>5. CASE PatchSpec
  <2>1. /\ server' = [server EXCEPT !.spec = PatchedSpec(@)]
        /\ pc = "patchSpec" /\ pc' = "patchStatus"
    BY <1>5 DEF PatchSpec, Goto, Write
  <2>2. server \in PolicyRecommendation /\ task.config \in HPAConfiguration
    BY DEF ObjectInv, ObjectTypeOK, ControlInv, ControlTypeOK, Task
  <2>3. Progress' = Progress /\ server'.spec = PatchedSpec(server.spec)
    BY <2>1, <2>2 DEF PolicyRecommendation, Progress
  <2>4. PatchedSpec(server.spec).current = task.config
    BY <2>2 DEF PatchedSpec, PolicyRecommendation, PolicyRecommendationSpec
  <2>5. CycleInv'
    BY <2>1, <2>3 DEF CycleInv, Working
  <2>6. Cycle!Change
    BY <2>1, <2>2, <2>3, <2>4 DEF Cycle!Change, Progress, CycleInv, Working
  <2>7. QED
    BY <2>5, <2>6 DEF CycleStep, Cycle!Next
<1>6. CASE PatchStatus
  <2> DEFINE patch == GeneratedConditions
  <2>1. StatusPatch("workflow", patch) /\ pc = "patchStatus" /\ pc' = "patchQueued"
    BY <1>6 DEF PatchStatus, Goto
  <2>2. "RecoTaskProgress" \in DOMAIN patch /\ patch["RecoTaskProgress"] = "Generated"
    BY DEF GeneratedConditions
  <2> HIDE DEF patch
  <2>3. /\ server'.spec = server.spec /\ Progress'.value = "Generated"
        /\ "workflow" \in Progress'.owners
    BY <2>1, <2>2, ApplyLemma
  <2>4. CycleInv'
    BY <2>1, <2>3 DEF CycleInv, Working
  <2>5. Cycle!Finish
    BY <2>1, <2>3 DEF Cycle!Finish, Progress, CycleInv, Working
  <2>6. QED
    BY <2>4, <2>5 DEF CycleStep, Cycle!Next
<1>7. CASE PatchQueued
  <2> DEFINE patch == [t \in ConditionType |->
                         IF t = "RecoTaskQueued" THEN "False" ELSE GeneratedConditions[t]]
  <2>1. StatusPatch("queued", patch) /\ pc = "patchQueued" /\ pc' = "idle"
    BY <1>7 DEF PatchQueued, Goto
  <2>2. "RecoTaskProgress" \in DOMAIN patch /\ patch["RecoTaskProgress"] = "Generated"
    BY DEF GeneratedConditions, ConditionType
  <2> HIDE DEF patch
  <2>3. /\ server'.spec = server.spec /\ Progress'.value = "Generated"
        /\ Progress'.owners = Progress.owners \cup {"queued"}
    BY <2>1, <2>2, ApplyLemma
  <2>4. Progress.value = "Generated" /\ "workflow" \in Progress.owners
    BY <2>1 DEF CycleInv
  <2>5. CycleInv'
    BY <2>1, <2>3, <2>4 DEF CycleInv, Working
  <2>6. UNCHANGED Cycle!cycleVars
    BY <2>3, <2>4 DEF Cycle!cycleVars, Progress
  <2>7. QED
    BY <2>5, <2>6 DEF CycleStep
<1>8. CASE PatchFails
  BY <1>8, NoWriteLemma DEF PatchFails, objectVars
<1>9. QED
  BY <1>1, <1>2, <1>3, <1>4, <1>5, <1>6, <1>7, <1>8 DEF ReconcilerNext

\* An Update of the handler or of the deployment trigger queues the object and
\* no more.
LEMMA UpdateLemma ==
  ASSUME IInv, NEW client, NEW now, UpdateQueued(client, now)
  PROVE  Progress' = Progress /\ server'.spec.current = server.spec.current
<1>1. server \in PolicyRecommendation
  BY DEF IInv, ObjectInv, ObjectTypeOK
<1>2. server' = [server EXCEPT !.spec.queued = TRUE, !.spec.queuedAt = now]
  BY DEF UpdateQueued, Write
<1>3. QED
  BY <1>1, <1>2 DEF PolicyRecommendation, PolicyRecommendationSpec, Progress

\* The status patch of the handler leaves out RecoTaskProgress, which stays as the
\* reconciler's manager owns it.
LEMMA HandlerPatchLemma ==
  ASSUME IInv, CycleInv, HandlerPatchStatus
  PROVE  /\ server'.spec = server.spec
         /\ Progress'.value = Progress.value
         /\ Progress'.owners = Progress.owners \ {"queued"}
<1> DEFINE patch == [t \in {"RecoTaskQueued"} |-> "True"]
<1>1. StatusPatch("queued", patch)
  BY DEF HandlerPatchStatus
<1>2. "RecoTaskProgress" \notin DOMAIN patch
  OBVIOUS
<1> HIDE DEF patch
<1>3. /\ server'.spec = server.spec
      /\ Progress'.owners = Progress.owners \ {"queued"}
      /\ Progress.owners \ {"queued"} # {} => Progress'.value = Progress.value
      /\ Progress.owners \ {"queued"} = {} => Progress'.value = "none"
  BY <1>1, <1>2, ApplyLemma DEF IInv
<1>4. CASE Progress.value = "none"
  BY <1>3, <1>4
<1>5. CASE Progress.value # "none"
  <2>1. "workflow" \in Progress.owners \ {"queued"}
    BY <1>5 DEF CycleInv
  <2>2. QED
    BY <1>3, <2>1
<1>6. QED
  BY <1>4, <1>5

LEMMA HandlerCycleLemma ==
  ASSUME IInv, CycleInv, HandlerNext
  PROVE  CycleInv' /\ CycleStep
<1>1. pc' = pc
  BY DEF HandlerNext, QueueForExecution, HandlerGet, HandlerUpdate, HandlerConflict,
         HandlerPatchStatus, HandlerFails, HandlerGoto, controllerVars
<1>2. CASE HandlerUpdate
  BY <1>1, <1>2, UpdateLemma, StutterLemma DEF HandlerUpdate
<1>3. CASE HandlerPatchStatus
  <2>1. /\ server'.spec = server.spec /\ Progress'.value = Progress.value
        /\ Progress'.owners = Progress.owners \ {"queued"}
    BY <1>3, HandlerPatchLemma
  <2>2. CycleInv'
    BY <1>1, <2>1 DEF CycleInv, Working
  <2>3. UNCHANGED Cycle!cycleVars
    BY <2>1 DEF Cycle!cycleVars, Progress
  <2>4. QED
    BY <2>2, <2>3 DEF CycleStep
<1>4. CASE QueueForExecution \/ HandlerGet \/ HandlerConflict \/ HandlerFails
  <2>1. server' = server
    BY <1>4 DEF QueueForExecution, HandlerGet, HandlerConflict, HandlerFails, GetForUpdate,
                objectVars
  <2>2. QED
    BY <1>1, <2>1, NoWriteLemma
<1>5. QED
  BY <1>2, <1>3, <1>4 DEF HandlerNext

\* The deployment trigger writes with Update only.
LEMMA DeploymentCycleLemma ==
  ASSUME IInv, CycleInv, DeploymentNext
  PROVE  CycleInv' /\ CycleStep
<1>1. pc' = pc
  BY DEF DeploymentNext, AnnotationChanged, requeuePolicyRecommendation, DeploymentGet,
         DeploymentUpdate, DeploymentConflict, DeploymentFails, DeploymentGoto, controllerVars
<1>2. CASE DeploymentUpdate
  BY <1>1, <1>2, UpdateLemma, StutterLemma DEF DeploymentUpdate
<1>3. CASE ~DeploymentUpdate
  <2>1. server' = server
    BY <1>3 DEF DeploymentNext, AnnotationChanged, requeuePolicyRecommendation, DeploymentGet,
                DeploymentConflict, DeploymentFails, GetForUpdate, objectVars
  <2>2. QED
    BY <1>1, <2>1, NoWriteLemma
<1>4. QED
  BY <1>2, <1>3

\* Deliveries, restarts and the environment do not write to the API server.
LEMMA OtherCycleLemma ==
  ASSUME CycleInv, Deliver \/ DeliverPanics \/ Environment \/ UNCHANGED vars
  PROVE  CycleInv' /\ CycleStep
<1>1. server' = server /\ (pc' = pc \/ pc' = "idle")
  BY DEF Deliver, DeliverPanics, Environment, Tick, Breach, Crash, DeletePolicy,
         FinalizePolicy, Restart, Relist, objectVars, controllerVars, vars
<1>2. QED
  BY <1>1, NoWriteLemma

LEMMA CycleInitLemma == Init => CycleInv /\ Cycle!Init
<1> SUFFICES ASSUME Init PROVE CycleInv /\ Cycle!Init
  OBVIOUS
<1>1. PICK p \in GetSafestPolicy(phase) : server = Registered(p, clock)
  BY DEF Init
<1>2. Progress.value = "none" /\ server.spec.current = EmptyConfig
  BY <1>1 DEF Registered, NoConditions, ConditionType, EmptySpec, Progress
<1>3. CycleInv
  BY <1>2 DEF Init, CycleInv, Working
<1>4. Cycle!Init
  BY <1>2 DEF Cycle!Init, Progress
<1>5. QED
  BY <1>3, <1>4

LEMMA CycleNextLemma == IInv /\ CycleInv /\ [Next]_vars => CycleInv' /\ CycleStep
BY ReconcilerCycleLemma, HandlerCycleLemma, DeploymentCycleLemma, OtherCycleLemma DEF Next

(***************************************************************************)
(* The reconciler implements RecoCycle: for every set of policies and      *)
(* recommendations, any lag, faults, crashes and requests of the handler,  *)
(* the configuration changes only while the object says InProgress, and    *)
(* Generated or Errored only follow InProgress                             *)
(* (policyrecommendation_controller.go, Reconcile).                        *)
(***************************************************************************)
THEOREM Refinement == Spec => ImplementsCycle
<1>1. CycleStep => [Cycle!Next]_(Cycle!cycleVars)
  BY DEF CycleStep
<1>2. QED
  BY <1>1, CycleInitLemma, CycleNextLemma, Invariance, PTL
     DEF Spec, ImplementsCycle, Cycle!Spec

--------------------------------------------------------------------------------
(***************************************************************************)
(* The reconciler does not rest before a recommendation is finished.       *)
(***************************************************************************)
RestInv ==
  /\ budget.crash <= MaxCrashes
  /\ NeverRestarted /\ pc = "idle" /\ ~queued => Progress.value = "Generated"

\* A step that costs no crash and, if the reconciler rests after it, either
\* rested before with the same progress or leaves a finished recommendation.
LEMMA RestLemma ==
  ASSUME RestInv, budget'.crash = budget.crash, panicked' = panicked,
         \/ pc' # "idle" \/ queued' \/ Progress'.value = "Generated"
         \/ pc' = pc /\ (queued => queued') /\ Progress'.value = Progress.value
  PROVE  RestInv'
BY DEF RestInv, NeverRestarted

\* Other budgets than that of the crashes.
LEMMA BudgetLemma ==
  ASSUME IInv, NEW what \in {"trigger", "annotation", "fault", "deletion", "breach"},
         budget' = [budget EXCEPT ![what] = @ - 1]
  PROVE  budget'.crash = budget.crash
BY DEF IInv, ControlInv, ControlTypeOK, Budget

LEMMA ReconcilerRestLemma ==
  ASSUME IInv, CycleInv, RestInv, ReconcilerNext
  PROVE  RestInv'
<1>1. budget'.crash = budget.crash /\ panicked' = panicked
  <2>1. CASE Fail
    BY <2>1, BudgetLemma DEF Fail, ReconcilerNext, Reconcile, PatchInProgress, Execute,
       PatchErrored, PatchSpec, PatchStatus, PatchQueued, PatchFails, Recommend, ExecuteFails,
       IterateDefault, IterateAging, IterateAgingErrs, IterateNoBreach, IterateBreach,
       AnalyzeBreach, Generate, GenerateErrs, Answer, Goto
  <2>2. CASE ~Fail
    BY <2>2 DEF ReconcilerNext, Reconcile, PatchInProgress, Execute,
       PatchErrored, PatchSpec, PatchStatus, PatchQueued, PatchFails, Recommend, ExecuteFails,
       IterateDefault, IterateAging, IterateAgingErrs, IterateNoBreach, IterateBreach,
       AnalyzeBreach, Generate, GenerateErrs, Answer, Goto, envVars
  <2> QED
    BY <2>1, <2>2
<1>2. CASE PatchQueued
  <2> DEFINE patch == [t \in ConditionType |->
                         IF t = "RecoTaskQueued" THEN "False" ELSE GeneratedConditions[t]]
  <2>1. StatusPatch("queued", patch)
    BY <1>2 DEF PatchQueued
  <2>2. "RecoTaskProgress" \in DOMAIN patch /\ patch["RecoTaskProgress"] = "Generated"
    BY DEF GeneratedConditions, ConditionType
  <2> HIDE DEF patch
  <2>3. Progress'.value = "Generated"
    BY <2>1, <2>2, ApplyLemma DEF IInv
  <2> QED
    BY <1>1, <2>3, RestLemma
<1>3. CASE PatchErrored \/ PatchFails
  BY <1>1, <1>3, RestLemma DEF PatchErrored, PatchFails
<1>4. CASE Reconcile \/ PatchInProgress \/ PatchSpec \/ PatchStatus
  BY <1>1, <1>4, RestLemma DEF Reconcile, PatchInProgress, PatchSpec, PatchStatus, Goto
<1>5. CASE Execute
  <2>1. pc' # "idle"
    BY <1>5 DEF Execute, Recommend, ExecuteFails, IterateDefault, IterateAging,
       IterateAgingErrs, IterateNoBreach, IterateBreach, AnalyzeBreach, Generate,
       GenerateErrs, Answer, Goto
  <2> QED
    BY <1>1, <2>1, RestLemma
<1> QED
  BY <1>2, <1>3, <1>4, <1>5 DEF ReconcilerNext

LEMMA UpdaterRestLemma ==
  ASSUME IInv, CycleInv, RestInv, HandlerNext \/ DeploymentNext
  PROVE  RestInv'
<1>1. /\ UNCHANGED controllerVars /\ panicked' = panicked
      /\ \/ budget' = budget
         \/ \E what \in {"trigger", "annotation", "fault"} :
              budget' = [budget EXCEPT ![what] = @ - 1]
  BY DEF HandlerNext, QueueForExecution, HandlerGet, HandlerUpdate, HandlerConflict,
         HandlerPatchStatus, HandlerFails, HandlerGoto, DeploymentNext, AnnotationChanged,
         requeuePolicyRecommendation, DeploymentGet, DeploymentUpdate, DeploymentConflict,
         DeploymentFails, DeploymentGoto, Fail, envVars
<1>2. budget'.crash = budget.crash
  BY <1>1, BudgetLemma
<1>3. Progress'.value = Progress.value
  <2>1. CASE HandlerUpdate \/ DeploymentUpdate
    BY <2>1, UpdateLemma DEF HandlerUpdate, DeploymentUpdate
  <2>2. CASE HandlerPatchStatus
    BY <2>2, HandlerPatchLemma
  <2>3. CASE ~(HandlerUpdate \/ DeploymentUpdate \/ HandlerPatchStatus)
    <3>1. server' = server
      BY <2>3 DEF HandlerNext, QueueForExecution, HandlerGet, HandlerConflict, HandlerFails,
         DeploymentNext, AnnotationChanged, requeuePolicyRecommendation, DeploymentGet,
         DeploymentConflict, DeploymentFails, GetForUpdate, objectVars
    <3> QED
      BY <3>1 DEF Progress
  <2> QED
    BY <2>1, <2>2, <2>3
<1> QED
  BY <1>1, <1>2, <1>3, RestLemma DEF controllerVars

LEMMA OtherRestLemma ==
  ASSUME IInv, RestInv, Deliver \/ DeliverPanics \/ Environment \/ UNCHANGED vars
  PROVE  RestInv'
<1>1. Progress' = Progress
  <2>1. server' = server
    BY DEF Deliver, DeliverPanics, Environment, Tick, Breach, Crash, DeletePolicy,
           FinalizePolicy, Restart, Relist, objectVars, vars
  <2> QED
    BY <2>1 DEF Progress
<1>2. CASE Deliver
  BY <1>1, <1>2, RestLemma DEF Deliver, envVars
<1>3. CASE DeliverPanics
  BY <1>3 DEF DeliverPanics, envVars, RestInv, NeverRestarted
<1>4. CASE Crash
  <2>1. MaxCrashes \in Nat /\ budget.crash \in Nat
    BY ControllerAssumption DEF IInv, ControlInv, ControlTypeOK, Budget
  <2>2. budget'.crash = budget.crash - 1
    BY <1>4 DEF Crash, IInv, ControlInv, ControlTypeOK, Budget
  <2> QED
    BY <2>1, <2>2 DEF RestInv, NeverRestarted
<1>5. CASE Tick \/ Breach \/ (\E p \in Policy : DeletePolicy(p) \/ FinalizePolicy(p))
  <2>1. /\ UNCHANGED controllerVars /\ panicked' = panicked
        /\ \/ budget' = budget
           \/ \E what \in {"deletion", "breach"} : budget' = [budget EXCEPT ![what] = @ - 1]
    BY <1>5 DEF Tick, Breach, DeletePolicy, FinalizePolicy
  <2>2. budget'.crash = budget.crash
    BY <2>1, BudgetLemma
  <2> QED
    BY <1>1, <2>1, <2>2, RestLemma DEF controllerVars
<1>6. CASE UNCHANGED vars
  BY <1>1, <1>6, RestLemma DEF vars, controllerVars, envVars
<1> QED
  BY <1>2, <1>3, <1>4, <1>5, <1>6 DEF Environment

(***************************************************************************)
(* Whatever fails, is deleted, requested or breached, and however far the  *)
(* cache is behind: as long as the process does not end, the reconciler is *)
(* done only with a recommendation that says Generated                     *)
(* (policyrecommendation_controller.go, the error paths of Reconcile).     *)
(***************************************************************************)
THEOREM RestsWhenGenerated == Spec => []QuietIsGenerated
<1>1. Init => RestInv
  BY ControllerAssumption DEF Init, RestInv
<1>2. IInv /\ CycleInv /\ RestInv /\ [Next]_vars => RestInv'
  BY ReconcilerRestLemma, UpdaterRestLemma, OtherRestLemma DEF Next
<1>3. RestInv => QuietIsGenerated
  BY DEF RestInv, QuietIsGenerated, Quiet, Progress
<1> QED
  BY <1>1, <1>2, <1>3, CycleInitLemma, CycleNextLemma, Invariance, PTL DEF Spec
================================================================================
