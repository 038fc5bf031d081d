---------------------------- MODULE RecoProperties -----------------------------
(***************************************************************************)
(* What RecoController promises.                                           *)
(***************************************************************************)
EXTENDS RecoController

--------------------------------------------------------------------------------
(***************************************************************************)
(* The configuration that is applied never goes past the recommendation:   *)
(* it allows no fewer replicas, the same at most, and no higher            *)
(* utilization, in the object the reconciler writes and in the copy of it  *)
(* the enforcement controller reads.  Two policies, three iterators that   *)
(* read the cache at different times and two integer roundings stand       *)
(* between the two configurations (workflow.go, generateNextRecoConfig).   *)
(***************************************************************************)
NotPast(config, target) ==
  /\ config.Max = target.Max
  /\ config.Min >= target.Min
  /\ config.TargetMetricValue <= target.TargetMetricValue

WithinTarget(spec) == NotPast(spec.current, spec.target)

NeverPastTarget == WithinTarget(server.spec) /\ WithinTarget(cache.spec)

(***************************************************************************)
(* A workload that may have the required number of replicas keeps it,      *)
(* whatever policy it is at (workflow.go, transformTargetRecoConfig).      *)
(***************************************************************************)
KeepsRequiredReplicas ==
  server.spec.current.Max >= MinRequiredReplicas =>
    server.spec.current.Min >= MinRequiredReplicas

(***************************************************************************)
(* What the next two properties rest on: whatever else it is behind in,    *)
(* the cache the iterators read has the last recommendation.  The aging    *)
(* iterator and the breach analyzer each read it at a time of their own.   *)
(***************************************************************************)
SameReco(s, t) ==
  /\ s.policy = t.policy
  /\ s.generatedAt = t.generatedAt
  /\ s.transitionedAt = t.transitionedAt
  /\ s.current = t.current

SeesTheLast == SameReco(cache.spec, server.spec)

IteratorReads == IterateAging \/ IterateNoBreach \/ IterateBreach \/ AnalyzeBreach

IteratorsSeeTheLast == [][IteratorReads => SeesTheLast]_vars

(***************************************************************************)
(* A new recommendation takes the workload to no policy beyond the next    *)
(* one: no live policy lies between the policy it was at and the new one   *)
(* (policyiterators.go, AgingPolicyIterator.NextPolicy).                   *)
(***************************************************************************)
MovesOneGrade ==
  LET old == server.spec.policy
      new == server'.spec.policy
  IN  old # new => \A p \in Live(phase) :
                     ~(RiskIndex[old] < RiskIndex[p] /\ RiskIndex[p] < RiskIndex[new])

OneGradeAtATime == [][MovesOneGrade]_server

(***************************************************************************)
(* A breach since the last recommendation, seen before this one began,     *)
(* takes the workload to a safer policy, if there is one                   *)
(* (breach_analyzer.go, NextPolicy and workflow.go, pickSafestPolicy).     *)
(***************************************************************************)
AnswersBreach ==
  /\ server.spec.generatedAt # NoTime
  /\ server'.spec.generatedAt # server.spec.generatedAt
  /\ server.spec.generatedAt <= breachedAt
  /\ breachedAt < server'.spec.generatedAt
  /\ phase[server.spec.policy] = "live"
  /\ Safer(Live(phase), server.spec.policy) # {}
  => RiskIndex[server'.spec.policy] < RiskIndex[server.spec.policy]

BreachIsAnswered == [][AnswersBreach]_server

(***************************************************************************)
(* The object is one the enforcement controller may rely on: through       *)
(* failing calls, crashes and the patches of the handler, its              *)
(* configuration changes only while it says InProgress, and it says        *)
(* Generated or Errored only after InProgress                              *)
(* (policyrecommendation_controller.go, the order of Reconcile's patches   *)
(* and the conditions each of them applies).                               *)
(***************************************************************************)
Cycle ==
  INSTANCE RecoCycle WITH
    Configuration <- HPAConfiguration,
    NoConfiguration <- EmptyConfig,
    progress <- server.conditions["RecoTaskProgress"].value,
    config <- server.spec.current

ImplementsCycle == Cycle!Spec

(***************************************************************************)
(* Nothing runs, waits or is on its way.                                   *)
(***************************************************************************)
Quiet == pc = "idle" /\ ~queued /\ watch = << >> /\ handler.at = "idle"

(***************************************************************************)
(* The process never ended, by a crash or by the panic of the event filter *)
(* (policyrecommendation_controller.go:392).                               *)
(***************************************************************************)
NeverRestarted == budget.crash = MaxCrashes /\ ~panicked

(***************************************************************************)
(* When nothing is left to do the object shows a finished recommendation:  *)
(* no error path of Reconcile leaves RecoTaskProgress at InProgress or     *)
(* Errored, where the enforcement controller ignores the object, without a *)
(* request to run again.  After a restart an object that is no longer      *)
(* queued for execution may be left in progress.                           *)
(***************************************************************************)
QuietIsGenerated ==
  NeverRestarted /\ Quiet => server.conditions["RecoTaskProgress"].value = "Generated"

(***************************************************************************)
(* A request the API server accepted while a recommendation was already    *)
(* being generated is not lost when that one ends: it is followed by a     *)
(* recommendation generated at or after it (queuedTaskPredicate).  Only a  *)
(* crash forgets the comparison of two versions that tells it is there.    *)
(***************************************************************************)
RequestPending == server.spec.queuedAt > server.spec.generatedAt

NoCrash == budget.crash = MaxCrashes

RequestIsServed == RequestPending /\ NoCrash ~> ~RequestPending \/ ~NoCrash

(***************************************************************************)
(* An object queued for execution is executed, though the process crashes  *)
(* (queuedTaskPredicate's CreateFunc).                                     *)
(***************************************************************************)
QueuedIsExecuted == server.spec.queued ~> ~server.spec.queued

--------------------------------------------------------------------------------
(***************************************************************************)
(* The comment on queuedTaskPredicate's second case: the updates that get  *)
(* there carry a later QueuedForExecutionAt.  The filter is not to reach   *)
(* the GeneratedAt of an object that has none.                             *)
(***************************************************************************)
FilterNeverPanics == ~panicked

(***************************************************************************)
(* workflow_test.go: a workload at its target that is at the closest       *)
(* policy of the recommendation stays at the target.  Here: without a      *)
(* breach, and with the recommendation as it was.                          *)
(***************************************************************************)
TargetIsKept ==
  [][ /\ server.spec.generatedAt # NoTime
      /\ server.spec.current = server.spec.target
      /\ server'.spec.target = server.spec.target
      /\ breachedAt = NoTime
      => server'.spec.current = server.spec.current
    ]_server

================================================================================
