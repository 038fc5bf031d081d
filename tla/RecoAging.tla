------------------------------- MODULE RecoAging -------------------------------
(***************************************************************************)
(* RecoController with the times at which configurations were applied as   *)
(* history variables.  The object's own record of them, TransitionedAt, is *)
(* computed from a cached copy of the object.                              *)
(***************************************************************************)
EXTENDS RecoProperties

VARIABLES
  applied,   \* history: every <<configuration, start of a reconcile that wrote it>>
  appliedAt, \* history: when the reconcile began that changed the configuration
  misled     \* history: TransitionedAt was kept from a copy of an earlier turn

historyVars == <<applied, appliedAt, misled>>

agingVars == <<vars, historyVars>>

AgingInit ==
  /\ Init
  /\ applied = {<<server.spec.current, server.spec.transitionedAt>>}
  /\ appliedAt = server.spec.transitionedAt
  /\ misled = FALSE

(***************************************************************************)
(* The copy Reconcile started with has the configuration that is written,  *)
(* but from another turn than the object, or the object has another one.   *)
(***************************************************************************)
Turn(spec) == <<spec.current, spec.transitionedAt>>

KeepsEarlierTurn ==
  task.config = task.spec.current /\ Turn(task.spec) # Turn(server.spec)

Applies ==
  /\ PatchSpec
  /\ applied' = applied \union {<<task.config, task.generatedAt>>}
  /\ appliedAt' = IF task.config = server.spec.current THEN appliedAt ELSE task.generatedAt
  /\ misled' = (KeepsEarlierTurn \/ (misled /\ task.config = server.spec.current))

AgingNext ==
  \/ Applies
  \/ Next /\ ~PatchSpec /\ UNCHANGED historyVars

AgingSpec == AgingInit /\ [][AgingNext]_agingVars

--------------------------------------------------------------------------------
(***************************************************************************)
(* The step takes the workload on to a riskier policy; if its policy is    *)
(* being deleted there is none to wait for.                                *)
(***************************************************************************)
MovesUp ==
  LET old == server.spec.policy
      new == server'.spec.policy
  IN  /\ old # NoPolicy /\ new # old
      /\ phase[old] = "live"
      /\ RiskIndex[old] < RiskIndex[new]

Expired(time) == time + PolicyExpiryAge <= clock

HadIt == \E a \in applied : a[1] = server.spec.current /\ Expired(a[2])

(***************************************************************************)
(* A workload goes on to a riskier policy only from a configuration that   *)
(* was applied the age of a policy ago, now or in an earlier turn, however *)
(* old the copies were that its TransitionedAt was taken from; and since   *)
(* it was applied last unless a reconcile, having started from an old      *)
(* copy, brought back the TransitionedAt of the earlier turn               *)
(* (policyrecommendation_controller.go, retrieveTransitionTime, and        *)
(* policyiterators.go, isAgeBeyondExpiry).                                 *)
(***************************************************************************)
MovesWhenAged ==
  MovesUp => HadIt /\ (misled \/ Expired(appliedAt))

AgesBeforeItMoves == [][MovesWhenAged]_server

(***************************************************************************)
(* INSTALLATION.md on policyExpiryAge: after this time a policy expires    *)
(* and the next policy in the list can be applied.                         *)
(***************************************************************************)
NextOnlyAfterExpiry == [][MovesUp => Expired(appliedAt)]_server

================================================================================
