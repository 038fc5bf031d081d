----------------------------- MODULE RecoWorkflow ------------------------------
(***************************************************************************)
(* The recommendation workflow (pkg/reco/workflow.go) and its policy       *)
(* iterators as operators: what one execution computes from the            *)
(* recommender's answer, the policies and the PolicyRecommendation it      *)
(* read.  As in PolicyStore an operator that depends on the order of a     *)
(* sort is the set of its possible results, and the empty set is an error. *)
(***************************************************************************)
EXTENDS PolicyStore

CONSTANTS
  MinRequiredReplicas, \* minRequiredReplicas of the workflow builder
  PolicyExpiryAge      \* Age of the aging iterator

ASSUME WorkflowAssumption ==
  /\ MinRequiredReplicas \in Nat \ {0}
  /\ PolicyExpiryAge \in Nat

\* A nil *metav1.Time.  Every real time is later.
NoTime == 0

HPAConfiguration == [Min : Nat, Max : Nat, TargetMetricValue : Nat]

EmptyConfig == [Min |-> 0, Max |-> 0, TargetMetricValue |-> 0]

--------------------------------------------------------------------------------
\* Fault for the mutants: the required number of replicas is ignored.
untransformedTargetRecoConfig(config) == config

(***************************************************************************)
(* The recommendation raised to the required number of replicas, unless    *)
(* even its maximum is lower.                                              *)
(***************************************************************************)
transformTargetRecoConfig(config) ==
  IF config.Max >= MinRequiredReplicas /\ config.Min < MinRequiredReplicas
    THEN [config EXCEPT !.Min = MinRequiredReplicas]
    ELSE config

\* Fault for the mutants: the cut is taken for a fraction of ten.
tenfoldRecoConfigFromPolicy(policy, config) ==
  [ Min |-> config.Max
              - (MinReplicaPercentageCut[policy] * (config.Max - config.Min)) \div 10,
    Max |-> config.Max,
    TargetMetricValue |-> TargetUtilization[policy] ]

(***************************************************************************)
(* The configuration of a policy on the way to a recommendation.  The      *)
(* division is an integer one, before the Ceil sees it: it rounds down.    *)
(***************************************************************************)
createRecoConfigFromPolicy(policy, config) ==
  [ Min |-> config.Max
              - (MinReplicaPercentageCut[policy] * (config.Max - config.Min)) \div 100,
    Max |-> config.Max,
    TargetMetricValue |-> TargetUtilization[policy] ]

\* Fault for the mutants: the utilization is not compared.
riskiestFullCutPolicy(phase, config) ==
  MostRisk({p \in GetSortedPolicies(phase) : MinReplicaPercentageCut[p] = 100})

(***************************************************************************)
(* The last policy of the sorted list that gives up all the replicas the   *)
(* recommendation gives up at a utilization that is not above the          *)
(* recommended one.                                                        *)
(***************************************************************************)
findClosestSafePolicy(phase, config) ==
  MostRisk({p \in GetSortedPolicies(phase) :
              /\ MinReplicaPercentageCut[p] = 100
              /\ TargetUtilization[p] <= config.TargetMetricValue})

pickSafestPolicy(p1, p2) ==
  IF p1 = NoPolicy THEN p2
  ELSE IF p2 = NoPolicy THEN p1
  ELSE IF RiskIndex[p1] <= RiskIndex[p2] THEN p1 ELSE p2

\* Fault for the mutants: a policy past the recommendation is applied.
shouldApplyRecoOnceAchieved(policy, closest, achieved) ==
  \/ policy = NoPolicy
  \/ achieved /\ RiskIndex[policy] = RiskIndex[closest]

(***************************************************************************)
(* Whether the recommendation itself is applied instead of the policy the  *)
(* iterators agreed on.  closest is an answer of findClosestSafePolicy and *)
(* achieved the TargetRecoAchieved condition.                              *)
(***************************************************************************)
shouldApplyReco(policy, closest, achieved) ==
  \/ policy = NoPolicy
  \/ RiskIndex[policy] > RiskIndex[closest]
  \/ achieved /\ RiskIndex[policy] = RiskIndex[closest]

(***************************************************************************)
(* The configuration to apply and the policy to record; empty when no      *)
(* policy is close to the recommendation.                                  *)
(***************************************************************************)
generateNextRecoConfig(phase, config, policy, achieved) ==
  { IF shouldApplyReco(policy, closest, achieved)
      THEN [config |-> config, policy |-> closest]
      ELSE [config |-> createRecoConfigFromPolicy(policy, config), policy |-> policy] :
    closest \in findClosestSafePolicy(phase, config) }

--------------------------------------------------------------------------------
(***************************************************************************)
(* The policy iterators.                                                   *)
(***************************************************************************)

isAgeBeyondExpiry(spec, now) ==
  /\ spec.transitionedAt # NoTime
  /\ spec.transitionedAt + PolicyExpiryAge <= now

(***************************************************************************)
(* Aging: the policy of the PolicyRecommendation, the next one once it has *)
(* expired, the safest one when there is none or it was deleted.           *)
(***************************************************************************)
AgingNextPolicy(phase, spec, now) ==
  LET policy == GetPolicyByName(phase, spec.policy)
  IN  IF policy = NoPolicy THEN GetSafestPolicy(phase)
      ELSE IF ~isAgeBeyondExpiry(spec, now) THEN {policy}
      ELSE {IF p = NoPolicy THEN policy ELSE p : p \in GetNextPolicyByName(phase, policy)}

(***************************************************************************)
(* Default: the default policy; an error of the store is no opinion.       *)
(***************************************************************************)
DefaultNextPolicy(phase, default) ==
  LET policies == GetDefaultPolicy(phase, default)
  IN  IF policies = {} THEN {NoPolicy} ELSE policies

\* Fault for the mutants: the wrong neighbour.
BreachTakesNextPolicy(phase, spec) == GetNextPolicyByName(phase, spec.policy)

(***************************************************************************)
(* Breach analyzer, once a breach is found: the previous policy.  It has   *)
(* no opinion when there is none; every error of the store is swallowed,   *)
(* so a deleted policy is no opinion either.                               *)
(***************************************************************************)
BreachNextPolicy(phase, spec) == GetPreviousPolicyByName(phase, spec.policy)

================================================================================
