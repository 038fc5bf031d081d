------------------------------ MODULE PolicyStore ------------------------------
(***************************************************************************)
(* The graded policies and the questions pkg/policy/store.go answers about *)
(* them.                                                                   *)
(*                                                                         *)
(* The specs of the Policy objects are the constants RiskIndex, ...; which *)
(* of them exist is state, and is a parameter of every operator here:      *)
(*   phase[p]  "absent"   no such object,                                  *)
(*             "live"     an object without a deletion timestamp,          *)
(*             "deleting" an object that waits for its finalizer;          *)
(*   default   the policies whose IsDefault is set.                        *)
(*                                                                         *)
(* The store sorts with sort.Slice, which is not stable, a list that comes *)
(* from a cache in no particular order: policies of one risk index come    *)
(* out in any order, and an operator here is the SET of the answers.       *)
(* NoPolicy is the answer "none", or an error the caller treats as none.   *)
(***************************************************************************)
EXTENDS Integers

CONSTANTS
  Policy,                  \* the names of the Policy objects
  NoPolicy,                \* a nil policy, or the empty name
  RiskIndex,               \* spec.riskIndex of each
  MinReplicaPercentageCut, \* spec.minReplicaPercentageCut of each
  TargetUtilization        \* spec.targetUtilization of each

(***************************************************************************)
(* Risk indices and utilizations are not negative and a cut is a           *)
(* percentage.  The CRD does not enforce this; the shipped policies        *)
(* (charts/ottoscalr/templates/policies.yaml) satisfy it.                  *)
(***************************************************************************)
ASSUME PolicyAssumption ==
  /\ NoPolicy \notin Policy
  /\ RiskIndex \in [Policy -> Nat]
  /\ MinReplicaPercentageCut \in [Policy -> 0 .. 100]
  /\ TargetUtilization \in [Policy -> Nat]

(***************************************************************************)
(* What "graded" means: a policy of a lower risk index never asks for a    *)
(* higher utilization.  True of the shipped policies.                      *)
(***************************************************************************)
ASSUME GradedAssumption ==
  \A p, q \in Policy :
    RiskIndex[p] <= RiskIndex[q] => TargetUtilization[p] <= TargetUtilization[q]

MaybePolicy == Policy \cup {NoPolicy}

Phase == {"absent", "live", "deleting"}

Present(phase) == {p \in Policy : phase[p] # "absent"}
Live(phase) == {p \in Policy : phase[p] = "live"}

\* The elements of S of the least, the greatest, risk index.
LeastRisk(S) == {p \in S : \A q \in S : RiskIndex[p] <= RiskIndex[q]}
MostRisk(S) == {p \in S : \A q \in S : RiskIndex[q] <= RiskIndex[p]}

Riskier(S, p) == {q \in S : RiskIndex[q] > RiskIndex[p]}
Safer(S, p) == {q \in S : RiskIndex[q] < RiskIndex[p]}
Peers(S, p) == {q \in S : RiskIndex[q] = RiskIndex[p] /\ q # p}

--------------------------------------------------------------------------------
(***************************************************************************)
(* GetSafestPolicy does not skip the policies being deleted.               *)
(***************************************************************************)
GetSafestPolicy(phase) == LeastRisk(Present(phase))

GetPolicyByName(phase, name) == IF name \in Present(phase) THEN name ELSE NoPolicy

(***************************************************************************)
(* The items of GetSortedPolicies: only the policies that are not being    *)
(* deleted.                                                                *)
(***************************************************************************)
GetSortedPolicies(phase) == Live(phase)

\* Fault for the mutants: any riskier policy.
AnyRiskierPolicy(phase, name) ==
  LET above == Riskier(GetSortedPolicies(phase), name)
  IN  IF above = {} THEN {NoPolicy} ELSE above

(***************************************************************************)
(* The neighbour of a policy in the sorted list.  The policies of its own  *)
(* risk index can stand on either side of it.  NoPolicy stands for         *)
(* NoNextPolicyFoundErr: the policy is the last one, or is not in the list *)
(* because it is being deleted.                                            *)
(***************************************************************************)
GetNextPolicyByName(phase, name) ==
  LET list == GetSortedPolicies(phase)
      above == LeastRisk(Riskier(list, name))
  IN  IF name \notin list
        THEN {NoPolicy}
        ELSE Peers(list, name)
               \cup (IF above = {} THEN {NoPolicy} ELSE above)

GetPreviousPolicyByName(phase, name) ==
  LET list == GetSortedPolicies(phase)
      below == MostRisk(Safer(list, name))
  IN  IF name \notin list
        THEN {NoPolicy}
        ELSE Peers(list, name)
               \cup (IF below = {} THEN {NoPolicy} ELSE below)

(***************************************************************************)
(* The default policy of the least risk index, one being deleted included. *)
(***************************************************************************)
GetDefaultPolicy(phase, default) == LeastRisk(Present(phase) \cap default)

================================================================================
