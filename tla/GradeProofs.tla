------------------------------ MODULE GradeProofs ------------------------------
(***************************************************************************)
(* How a workload moves through the policies.  The iterators read a cache, *)
(* so the theorems on grades and breaches have as their condition that     *)
(* what they read is the last recommendation; OneVersionBehind says when   *)
(* that is so, and UpOnlyWhenAged and ExpiryIsKept build on it.            *)
(*                                                                         *)
(* Between the reads and PatchSpec the reconciler holds a policy that is   *)
(* about to be written.  GradeInv and BreachInv say of it, from the step   *)
(* of the iterator on, what the properties say of the step that writes it, *)
(* while policies are deleted, breaches happen and the object is queued    *)
(* again.                                                                  *)
(***************************************************************************)
EXTENDS RecoAging, RecoProofs, WellFoundedInduction

--------------------------------------------------------------------------------
(***************************************************************************)
(* The policies the iterators choose.                                      *)
(***************************************************************************)
LEMMA RiskLemma == \A p \in Policy : RiskIndex[p] \in Nat
BY PolicyAssumption

\* No live policy lies between the two.
NoneBetween(old, new, ph) ==
  \A q \in Live(ph) : ~(RiskIndex[old] < RiskIndex[q] /\ RiskIndex[q] < RiskIndex[new])

\* The aging iterator goes at most one grade up, and only when the time has come.
LEMMA AgingLemma ==
  ASSUME NEW ph \in [Policy -> Phase], NEW spec, spec.policy \in Policy, NEW now,
         NEW p \in AgingNextPolicy(ph, spec, now)
  PROVE  /\ p \in Policy
         /\ NoneBetween(spec.policy, p, ph)
         /\ ph[spec.policy] = "live" /\ RiskIndex[spec.policy] < RiskIndex[p] =>
              isAgeBeyondExpiry(spec, now)
<1> DEFINE old == spec.policy
<1>1. CASE old \notin Present(ph)
  <2>1. p \in LeastRisk(Present(ph))
    BY <1>1, PolicyAssumption DEF AgingNextPolicy, GetPolicyByName, GetSafestPolicy
  <2>2. p \in Policy /\ \A q \in Live(ph) : RiskIndex[p] <= RiskIndex[q]
    BY <2>1 DEF LeastRisk, Present, Live
  <2> QED
    BY <1>1, <2>2, RiskLemma DEF NoneBetween, Present, Live
<1>2. CASE old \in Present(ph) /\ ~isAgeBeyondExpiry(spec, now)
  <2>1. p = old
    BY <1>2, PolicyAssumption DEF AgingNextPolicy, GetPolicyByName, Present
  <2> QED
    BY <2>1, RiskLemma DEF NoneBetween, Live
<1>3. CASE old \in Present(ph) /\ isAgeBeyondExpiry(spec, now)
  <2>1. PICK r \in GetNextPolicyByName(ph, old) : p = IF r = NoPolicy THEN old ELSE r
    BY <1>3, PolicyAssumption DEF AgingNextPolicy, GetPolicyByName, Present
  <2>2. \/ r = NoPolicy
        \/ r \in Peers(Live(ph), old)
        \/ r \in LeastRisk(Riskier(Live(ph), old))
    BY DEF GetNextPolicyByName, GetSortedPolicies
  <2>3. p \in Policy
    BY <2>1, <2>2 DEF Peers, LeastRisk, Riskier, Live
  <2>4. NoneBetween(old, p, ph)
    <3>1. CASE p = old \/ r \in Peers(Live(ph), old)
      <4>1. RiskIndex[p] = RiskIndex[old]
        BY <2>1, <3>1 DEF Peers
      <4> QED
        BY <2>3, <4>1, RiskLemma DEF NoneBetween, Live
    <3>2. CASE r \in LeastRisk(Riskier(Live(ph), old)) /\ p = r
      <4>1. \A q \in Live(ph) : RiskIndex[q] > RiskIndex[old] => RiskIndex[p] <= RiskIndex[q]
        BY <3>2 DEF LeastRisk, Riskier
      <4> QED
        <5> SUFFICES ASSUME NEW q \in Live(ph), RiskIndex[old] < RiskIndex[q],
                            RiskIndex[q] < RiskIndex[p]
                     PROVE  FALSE
          BY DEF NoneBetween
        <5>1. q \in Policy /\ RiskIndex[q] \in Nat /\ RiskIndex[p] \in Nat
              /\ RiskIndex[old] \in Nat
          BY <2>3, RiskLemma DEF Live
        <5>2. RiskIndex[p] <= RiskIndex[q]
          BY <4>1, <5>1
        <5> QED
          BY <5>1, <5>2
    <3> QED
      BY <2>1, <2>2, <3>1, <3>2
  <2> QED
    BY <1>3, <2>3, <2>4
<1> QED
  BY <1>1, <1>2, <1>3

\* Among policies of bounded risk there is one of the most risk.
LEMMA MostRiskLemma ==
  ASSUME NEW S \in SUBSET Policy, S # {}, NEW bound \in Nat,
         \A q \in S : RiskIndex[q] <= bound
  PROVE  MostRisk(S) # {}
<1> DEFINE T == {bound - RiskIndex[q] : q \in S}
           R == OpToRel(<, Nat)
<1>1. T \subseteq Nat /\ T # {}
  BY RiskLemma
<1>2. \A x, y \in Nat : <<y, x>> \notin R => x <= y
  BY DEF OpToRel
<1>3. IsWellFoundedOn(R, Nat)
  BY NatLessThanWellFounded
<1> HIDE DEF T, R
<1>4. \E x \in T : \A y \in T : <<y, x>> \notin R
  BY <1>1, <1>3, WFMin
<1>5. PICK x \in T : \A y \in T : x <= y
  BY <1>1, <1>2, <1>4
<1>6. PICK p \in S : x = bound - RiskIndex[p]
  BY DEF T
<1>7. \A q \in S : RiskIndex[q] <= RiskIndex[p]
  <2> SUFFICES ASSUME NEW q \in S PROVE RiskIndex[q] <= RiskIndex[p]
    OBVIOUS
  <2>1. bound - RiskIndex[p] <= bound - RiskIndex[q]
    BY <1>5, <1>6 DEF T
  <2> QED
    BY <2>1, RiskLemma
<1> QED
  BY <1>7 DEF MostRisk

\* No two policies share a risk index; true of the shipped ones.
OnePolicyPerGrade == \A p, q \in Policy : RiskIndex[p] = RiskIndex[q] => p = q

\* The breach analyzer goes down, if there is somewhere to go.
LEMMA BreachLemma ==
  ASSUME OnePolicyPerGrade, NEW ph \in [Policy -> Phase], NEW spec, spec.policy \in Policy,
         ph[spec.policy] = "live", Safer(Live(ph), spec.policy) # {},
         NEW p \in BreachNextPolicy(ph, spec)
  PROVE  p \in Policy /\ RiskIndex[p] < RiskIndex[spec.policy]
<1> DEFINE old == spec.policy
           below == MostRisk(Safer(Live(ph), old))
<1>1. old \in Live(ph) /\ Peers(Live(ph), old) = {}
  BY DEF Live, Peers, OnePolicyPerGrade
<1>2. below # {}
  <2>1. Safer(Live(ph), old) \in SUBSET Policy /\ RiskIndex[old] \in Nat
    BY RiskLemma DEF Safer, Live
  <2>2. \A q \in Safer(Live(ph), old) : RiskIndex[q] <= RiskIndex[old]
    BY RiskLemma DEF Safer, Live
  <2> QED
    BY <2>1, <2>2, MostRiskLemma
<1>3. p \in below
  BY <1>1, <1>2 DEF BreachNextPolicy, GetPreviousPolicyByName, GetSortedPolicies
<1> QED
  BY <1>3 DEF MostRisk, Safer, Live

\* pickSafestPolicy returns the policy that is not riskier than the other.
LEMMA SafestLemma ==
  ASSUME NEW p \in MaybePolicy, NEW q \in MaybePolicy
  PROVE  LET safest == pickSafestPolicy(p, q)
         IN  /\ p \in Policy => safest \in Policy /\ RiskIndex[safest] <= RiskIndex[p]
             /\ q \in Policy => safest \in Policy /\ RiskIndex[safest] <= RiskIndex[q]
BY RiskLemma, PolicyAssumption DEF pickSafestPolicy, MaybePolicy

\* The policy applied is not riskier than the one the iterators agreed on.
LEMMA AppliedLemma ==
  ASSUME NEW ph, NEW config, NEW policy \in Policy, NEW achieved,
         NEW result \in generateNextRecoConfig(ph, config, policy, achieved)
  PROVE  result.policy \in Policy /\ RiskIndex[result.policy] <= RiskIndex[policy]
<1>1. PICK closest \in findClosestSafePolicy(ph, config) :
        result = IF shouldApplyReco(policy, closest, achieved)
                   THEN [config |-> config, policy |-> closest]
                   ELSE [config |-> createRecoConfigFromPolicy(policy, config),
                         policy |-> policy]
  BY DEF generateNextRecoConfig
<1>2. closest \in Policy
  BY <1>1, StoreLemma
<1>3. CASE shouldApplyReco(policy, closest, achieved)
  <2>1. result.policy = closest
    BY <1>1, <1>3
  <2> QED
    BY <1>2, <1>3, <2>1, RiskLemma, PolicyAssumption DEF shouldApplyReco
<1>4. CASE ~shouldApplyReco(policy, closest, achieved)
  BY <1>1, <1>4, RiskLemma
<1> QED
  BY <1>3, <1>4

--------------------------------------------------------------------------------
(***************************************************************************)
(* What the steps of RecoController do to the last recommendation and to   *)
(* what the reconciler is about to write.                                  *)
(***************************************************************************)
Iterating == {"iterate", "breach"}

Deciding == Iterating \cup {"patchSpec"}

\* The reconciler does not move and the recommendation stays.
Still == UNCHANGED <<pc, task>> /\ SameReco(server'.spec, server.spec)

\* The reconciler goes where it holds no policy to be written.
Leaves ==
  /\ pc' \notin Deciding
  /\ \/ pc' = "idle"
     \/ Reconcile
     \/ /\ pc # "idle" /\ pc' # "inProgress" /\ task' = task
        /\ pc' = "recommend" => pc = "inProgress"
  /\ PatchSpec \/ SameReco(server'.spec, server.spec)

\* Time goes on, policies only disappear, and a breach is a breach now.
Around ==
  /\ clock' \in Nat /\ clock <= clock'
  /\ \A p \in Policy : phase'[p] = "live" => phase[p] = "live"
  /\ breachedAt' \in {breachedAt, clock}

Decides ==
  \/ Recommend \/ IterateDefault \/ IterateAging
  \/ IterateNoBreach \/ IterateBreach \/ AnalyzeBreach \/ Generate

LEMMA AroundLemma ==
  ASSUME IInv, [Next]_vars
  PROVE  Around
<1>1. clock \in Nat /\ phase \in [Policy -> Phase]
  BY DEF IInv, ControlInv, ControlTypeOK
<1>2. CASE UNCHANGED <<clock, phase, breachedAt>>
  BY <1>1, <1>2 DEF Around
<1>3. CASE Tick
  BY <1>1, <1>3 DEF Around, Tick
<1>4. CASE Breach
  BY <1>1, <1>4 DEF Around, Breach
<1>5. ASSUME NEW p \in Policy, DeletePolicy(p) \/ FinalizePolicy(p)
      PROVE  Around
  BY <1>1, <1>5 DEF Around, DeletePolicy, FinalizePolicy
<1>6. CASE ~(Environment /\ ~Crash)
  <2>1. UNCHANGED <<clock, phase, breachedAt>>
    BY <1>6 DEF Next, Deliver, DeliverPanics, ReconcilerNext, Reconcile, PatchInProgress,
       Execute, Recommend, ExecuteFails, IterateDefault, IterateAging, IterateAgingErrs,
       IterateNoBreach, IterateBreach, AnalyzeBreach, Generate, GenerateErrs, Answer, Goto,
       PatchErrored, PatchSpec, PatchStatus, PatchQueued, PatchFails, HandlerNext,
       QueueForExecution, HandlerGet, HandlerUpdate, HandlerConflict, HandlerPatchStatus,
       HandlerFails, HandlerGoto, DeploymentNext, AnnotationChanged,
       requeuePolicyRecommendation, DeploymentGet, DeploymentUpdate, DeploymentConflict,
       DeploymentFails, DeploymentGoto, Crash, envVars, vars
  <2> QED
    BY <1>2, <2>1
<1> QED
  BY <1>3, <1>4, <1>5, <1>6 DEF Environment

\* A step that writes nothing, and one that writes conditions or the queueing fields.
LEMMA SameLemma ==
  /\ server' = server => SameReco(server'.spec, server.spec)
  /\ server'.spec = server.spec => SameReco(server'.spec, server.spec)
BY DEF SameReco

LEMMA QueuedLemma ==
  ASSUME IInv, NEW client, NEW now, UpdateQueued(client, now)
  PROVE  SameReco(server'.spec, server.spec)
<1>1. server \in PolicyRecommendation
  BY DEF IInv, ObjectInv, ObjectTypeOK
<1>2. server' = [server EXCEPT !.spec.queued = TRUE, !.spec.queuedAt = now]
  BY DEF UpdateQueued, Write
<1> QED
  BY <1>1, <1>2 DEF PolicyRecommendation, PolicyRecommendationSpec, SameReco

LEMMA PatchedLemma ==
  ASSUME IInv, NEW manager, NEW patch, StatusPatch(manager, patch)
  PROVE  SameReco(server'.spec, server.spec)
BY ApplyLemma, SameLemma DEF IInv

LEMMA StepLemma ==
  ASSUME IInv, [Next]_vars
  PROVE  Still \/ Leaves \/ Decides
<1>1. CASE Deliver \/ (Environment /\ ~Crash) \/ UNCHANGED vars
  <2>1. UNCHANGED <<pc, task>> /\ server' = server
    BY <1>1 DEF Deliver, Environment, Tick, Breach, DeletePolicy, FinalizePolicy,
                controllerVars, objectVars, vars
  <2> QED
    BY <2>1, SameLemma DEF Still
<1>2. CASE DeliverPanics \/ Crash
  <2>1. pc' = "idle" /\ server' = server
    BY <1>2 DEF DeliverPanics, Crash, Restart, Relist
  <2> QED
    BY <2>1, SameLemma DEF Leaves, Deciding, Iterating
<1>3. CASE HandlerNext \/ DeploymentNext
  <2>1. UNCHANGED <<pc, task>>
    BY <1>3 DEF HandlerNext, QueueForExecution, HandlerGet, HandlerUpdate, HandlerConflict,
         HandlerPatchStatus, HandlerFails, HandlerGoto, DeploymentNext, AnnotationChanged,
         requeuePolicyRecommendation, DeploymentGet, DeploymentUpdate, DeploymentConflict,
         DeploymentFails, DeploymentGoto, controllerVars
  <2>2. CASE HandlerUpdate \/ DeploymentUpdate
    BY <2>1, <2>2, QueuedLemma DEF Still, HandlerUpdate, DeploymentUpdate
  <2>3. CASE HandlerPatchStatus
    BY <2>1, <2>3, PatchedLemma DEF Still, HandlerPatchStatus
  <2>4. CASE ~(HandlerUpdate \/ DeploymentUpdate \/ HandlerPatchStatus)
    <3>1. server' = server
      BY <1>3, <2>4 DEF HandlerNext, QueueForExecution, HandlerGet, HandlerConflict,
         HandlerFails, DeploymentNext, AnnotationChanged, requeuePolicyRecommendation,
         DeploymentGet, DeploymentConflict, DeploymentFails, GetForUpdate, objectVars
    <3> QED
      BY <2>1, <3>1, SameLemma DEF Still
  <2> QED
    BY <2>2, <2>3, <2>4
<1>4. CASE Reconcile \/ PatchFails \/ ExecuteFails \/ IterateAgingErrs \/ GenerateErrs
  <2>1. server' = server
    BY <1>4 DEF Reconcile, PatchFails, ExecuteFails, IterateAgingErrs, GenerateErrs, objectVars
  <2>2. CASE Reconcile \/ PatchFails
    <3>1. pc' \in {"inProgress", "idle"} /\ (pc' = "idle" \/ Reconcile)
      BY <2>2 DEF Reconcile, PatchFails
    <3> QED
      BY <2>1, <3>1, SameLemma DEF Leaves, Deciding, Iterating
  <2>3. CASE ExecuteFails \/ IterateAgingErrs \/ GenerateErrs
    <3>1. pc \in {"recommend", "iterate", "breach"} /\ pc' = "errored" /\ task' = task
      BY <2>3 DEF ExecuteFails, IterateAgingErrs, GenerateErrs, Goto
    <3> QED
      BY <2>1, <3>1, SameLemma DEF Leaves, Deciding, Iterating
  <2> QED
    BY <1>4, <2>2, <2>3
<1>5. CASE PatchInProgress \/ PatchErrored \/ PatchStatus \/ PatchQueued
  <2>1. SameReco(server'.spec, server.spec)
    <3>1. \E manager : \E patch : StatusPatch(manager, patch)
      BY <1>5 DEF PatchInProgress, PatchErrored, PatchStatus, PatchQueued
    <3> QED
      BY <3>1, PatchedLemma
  <2>2. /\ pc' \in {"recommend", "idle", "patchQueued"}
        /\ pc' = "idle" \/ (pc \in {"inProgress", "patchStatus"} /\ task' = task)
        /\ pc' = "recommend" => pc = "inProgress"
    BY <1>5 DEF PatchInProgress, PatchErrored, PatchStatus, PatchQueued, Goto
  <2> QED
    BY <2>1, <2>2 DEF Leaves, Deciding, Iterating
<1>6. CASE PatchSpec
  BY <1>6 DEF Leaves, PatchSpec, Goto, Deciding, Iterating
<1>7. CASE Decides
  BY <1>7
<1> QED
  BY <1>1, <1>2, <1>3, <1>4, <1>5, <1>6, <1>7
     DEF Next, ReconcilerNext, Execute, Decides, Environment

--------------------------------------------------------------------------------
(***************************************************************************)
(* One grade at a time.                                                    *)
(***************************************************************************)
PolicyInv == server.spec.policy \in Policy

AgedInv ==
  pc \in Iterating /\ "Aging" \notin task.iterators =>
    task.next \in Policy /\ NoneBetween(server.spec.policy, task.next, phase)

DecidedInv ==
  pc = "patchSpec" =>
    task.policy \in Policy /\ NoneBetween(server.spec.policy, task.policy, phase)

GradeInv == PolicyInv /\ AgedInv /\ DecidedInv

\* A safer policy, and fewer live ones, leave nothing new in between.
LEMMA BetweenLemma ==
  ASSUME NEW old \in Policy, NEW p \in Policy, NEW q \in Policy, RiskIndex[q] <= RiskIndex[p],
         NEW ph, NEW after, \A r \in Policy : after[r] = "live" => ph[r] = "live",
         NoneBetween(old, p, ph)
  PROVE  NoneBetween(old, q, after)
<1> SUFFICES ASSUME NEW r \in Live(after), RiskIndex[old] < RiskIndex[r],
                    RiskIndex[r] < RiskIndex[q]
             PROVE  FALSE
  BY DEF NoneBetween
<1>1. r \in Live(ph) /\ r \in Policy
  BY DEF Live
<1>2. RiskIndex[r] < RiskIndex[p]
  BY <1>1, RiskLemma
<1> QED
  BY <1>1, <1>2 DEF NoneBetween

\* What an iterator's answer makes of the task.
LEMMA AgreedLemma ==
  ASSUME IInv, NEW iterator \in Iterator, NEW policies, policies \subseteq MaybePolicy,
         Answer(iterator, policies)
  PROVE  /\ pc' = "iterate" /\ server' = server
         /\ UNCHANGED <<clock, phase, breachedAt>>
         /\ task' \in Task /\ task'.generatedAt = task.generatedAt /\ task'.spec = task.spec
         /\ task'.iterators = task.iterators \ {iterator}
         /\ \E p \in policies : task'.next = pickSafestPolicy(task.next, p)
         /\ task.next \in MaybePolicy
<1>1. task \in Task
  BY DEF IInv, ControlInv, ControlTypeOK
<1>2. PICK p \in policies :
        task' = [task EXCEPT !.iterators = @ \ {iterator},
                             !.next = pickSafestPolicy(@, p)]
  BY DEF Answer
<1>3. task.next \in MaybePolicy /\ pickSafestPolicy(task.next, p) \in MaybePolicy
  BY <1>1, PickLemma DEF Task
<1>4. pc' = "iterate" /\ server' = server /\ UNCHANGED <<clock, phase, breachedAt>>
  BY DEF Answer, Goto, envVars, objectVars
<1>5. task' \in Task
  BY <1>1, <1>2, <1>3 DEF Task
<1>6. /\ task'.generatedAt = task.generatedAt /\ task'.spec = task.spec
      /\ task'.iterators = task.iterators \ {iterator}
      /\ task'.next = pickSafestPolicy(task.next, p)
  BY <1>1, <1>2 DEF Task
<1> QED
  BY <1>2, <1>3, <1>4, <1>5, <1>6

LEMMA GradeStillLemma ==
  ASSUME GradeInv, Still, Around
  PROVE  GradeInv'
<1>1. /\ pc' = pc /\ task' = task /\ server'.spec.policy = server.spec.policy
      /\ server.spec.policy \in Policy
  BY DEF Still, SameReco, GradeInv, PolicyInv
<1>2. \A p \in Policy : NoneBetween(server.spec.policy, p, phase) =>
                        NoneBetween(server.spec.policy, p, phase')
  <2> SUFFICES ASSUME NEW p \in Policy, NoneBetween(server.spec.policy, p, phase)
               PROVE  NoneBetween(server.spec.policy, p, phase')
    OBVIOUS
  <2>1. RiskIndex[p] <= RiskIndex[p]
    BY RiskLemma
  <2> QED
    BY <1>1, <2>1, BetweenLemma DEF Around
<1>3. AgedInv'
  BY <1>1, <1>2 DEF GradeInv, AgedInv, NoneBetween
<1>4. DecidedInv'
  BY <1>1, <1>2 DEF GradeInv, DecidedInv, NoneBetween
<1> QED
  BY <1>1, <1>3, <1>4 DEF GradeInv, PolicyInv

LEMMA GradeLeavesLemma ==
  ASSUME IInv, GradeInv, Leaves
  PROVE  GradeInv'
<1>1. server'.spec.policy \in Policy
  <2>1. CASE PatchSpec
    <3>1. server' = [server EXCEPT !.spec = PatchedSpec(@)] /\ pc = "patchSpec"
      BY <2>1 DEF PatchSpec, Write
    <3>2. server \in PolicyRecommendation
      BY DEF IInv, ObjectInv, ObjectTypeOK
    <3>3. server'.spec.policy = task.policy
      BY <3>1, <3>2 DEF PolicyRecommendation, PolicyRecommendationSpec, PatchedSpec
    <3> QED
      BY <3>1, <3>3 DEF GradeInv, DecidedInv
  <2>2. CASE SameReco(server'.spec, server.spec)
    BY <2>2 DEF SameReco, GradeInv, PolicyInv
  <2> QED
    BY <2>1, <2>2 DEF Leaves
<1> QED
  BY <1>1 DEF Leaves, Deciding, GradeInv, PolicyInv, AgedInv, DecidedInv

\* An iterator other than the aging one, whatever it answers, leads to nothing riskier.
LEMMA GradeAnswerLemma ==
  ASSUME IInv, GradeInv, pc \in Iterating, NEW iterator \in Iterator \ {"Aging"},
         NEW policies \in SUBSET MaybePolicy, Answer(iterator, policies)
  PROVE  GradeInv'
<1>1. PICK p \in policies :
        /\ pc' = "iterate" /\ server' = server /\ phase' = phase
        /\ task'.iterators = task.iterators \ {iterator}
        /\ task'.next = pickSafestPolicy(task.next, p)
        /\ task.next \in MaybePolicy
  BY AgreedLemma
<1>2. ASSUME "Aging" \notin task'.iterators
      PROVE  task'.next \in Policy /\ NoneBetween(server.spec.policy, task'.next, phase)
  <2>1. task.next \in Policy /\ NoneBetween(server.spec.policy, task.next, phase)
    BY <1>1, <1>2 DEF GradeInv, AgedInv
  <2>2. task'.next \in Policy /\ RiskIndex[task'.next] <= RiskIndex[task.next]
    BY <1>1, <2>1, SafestLemma
  <2>3. server.spec.policy \in Policy
    BY DEF GradeInv, PolicyInv
  <2> QED
    BY <2>1, <2>2, <2>3, BetweenLemma
<1>3. AgedInv'
  BY <1>1, <1>2 DEF AgedInv
<1> QED
  BY <1>1, <1>3 DEF GradeInv, PolicyInv, DecidedInv

LEMMA GradeAgingLemma ==
  ASSUME IInv, GradeInv, IterateAging, SeesTheLast
  PROVE  GradeInv'
<1>1. /\ phase \in [Policy -> Phase] /\ server.spec.policy \in Policy
      /\ cache.spec.policy = server.spec.policy
  BY DEF IInv, ControlInv, ControlTypeOK, GradeInv, PolicyInv, SeesTheLast, SameReco
<1>2. AgingNextPolicy(phase, cache.spec, clock) \subseteq MaybePolicy
  BY IteratorLemma
<1>3. PICK p \in AgingNextPolicy(phase, cache.spec, clock) :
        /\ pc' = "iterate" /\ server' = server /\ phase' = phase
        /\ task'.next = pickSafestPolicy(task.next, p)
        /\ task.next \in MaybePolicy
  BY <1>2, AgreedLemma DEF IterateAging, Iterator
<1>4. p \in Policy /\ NoneBetween(server.spec.policy, p, phase)
  BY <1>1, AgingLemma
<1>5. task'.next \in Policy /\ RiskIndex[task'.next] <= RiskIndex[p]
  BY <1>3, <1>4, SafestLemma DEF MaybePolicy
<1>6. NoneBetween(server.spec.policy, task'.next, phase)
  BY <1>1, <1>4, <1>5, BetweenLemma
<1> QED
  BY <1>1, <1>3, <1>5, <1>6 DEF GradeInv, PolicyInv, AgedInv, DecidedInv

\* What Generate makes of the policy the iterators agreed on.
LEMMA GeneratedLemma ==
  ASSUME IInv, Generate, task.next \in Policy
  PROVE  /\ pc' = "patchSpec" /\ server' = server
         /\ UNCHANGED <<clock, phase, breachedAt>>
         /\ task'.generatedAt = task.generatedAt /\ task'.spec = task.spec
         /\ task'.policy \in Policy /\ RiskIndex[task'.policy] <= RiskIndex[task.next]
<1>1. task \in Task
  BY DEF IInv, ControlInv, ControlTypeOK
<1>2. PICK result \in generateNextRecoConfig(phase, task.target, task.next,
                        cache.conditions["TargetRecoAchieved"].value = "True") :
        task' = [task EXCEPT !.config = result.config, !.policy = result.policy]
  BY DEF Generate
<1>3. result.policy \in Policy /\ RiskIndex[result.policy] <= RiskIndex[task.next]
  BY AppliedLemma
<1>4. /\ task'.generatedAt = task.generatedAt /\ task'.spec = task.spec
      /\ task'.policy = result.policy
  BY <1>1, <1>2 DEF Task
<1> QED
  BY <1>3, <1>4 DEF Generate, Goto, envVars, objectVars

LEMMA GradeDecidesLemma ==
  ASSUME IInv, GradeInv, Decides, IteratorReads => SeesTheLast
  PROVE  GradeInv'
<1>1. CASE Recommend
  <2>1. task \in Task
    BY DEF IInv, ControlInv, ControlTypeOK
  <2>2. pc' = "iterate" /\ server' = server /\ task'.iterators = Iterator
    BY <1>1, <2>1 DEF Recommend, Goto, objectVars, Task
  <2> QED
    BY <2>2 DEF GradeInv, PolicyInv, AgedInv, DecidedInv, Iterator
<1>2. CASE IterateDefault
  BY <1>2, GradeAnswerLemma, IteratorLemma DEF IterateDefault, Iterating, Iterator
<1>3. CASE IterateAging
  BY <1>3, GradeAgingLemma DEF IteratorReads
<1>4. CASE IterateNoBreach
  BY <1>4, GradeAnswerLemma DEF IterateNoBreach, Iterating, Iterator, MaybePolicy
<1>5. CASE IterateBreach
  <2>1. pc = "iterate" /\ pc' = "breach" /\ server' = server /\ task' = task /\ phase' = phase
    BY <1>5 DEF IterateBreach, Goto, objectVars, envVars
  <2> QED
    BY <2>1 DEF GradeInv, PolicyInv, AgedInv, DecidedInv, Iterating
<1>6. CASE AnalyzeBreach
  BY <1>6, GradeAnswerLemma, IteratorLemma DEF AnalyzeBreach, Iterating, Iterator
<1>7. CASE Generate
  <2>1. task.next \in Policy /\ NoneBetween(server.spec.policy, task.next, phase)
    BY <1>7 DEF Generate, GradeInv, AgedInv, Iterating
  <2>2. /\ pc' = "patchSpec" /\ server' = server /\ phase' = phase
        /\ task'.policy \in Policy /\ RiskIndex[task'.policy] <= RiskIndex[task.next]
    BY <1>7, <2>1, GeneratedLemma
  <2>3. NoneBetween(server.spec.policy, task'.policy, phase)
    BY <2>1, <2>2, BetweenLemma DEF GradeInv, PolicyInv
  <2> QED
    BY <2>2, <2>3 DEF GradeInv, PolicyInv, AgedInv, DecidedInv, Iterating
<1> QED
  BY <1>1, <1>2, <1>3, <1>4, <1>5, <1>6, <1>7 DEF Decides

LEMMA GradeNextLemma ==
  IInv /\ GradeInv /\ [Next]_vars /\ [IteratorReads => SeesTheLast]_vars => GradeInv'
<1> SUFFICES ASSUME IInv, GradeInv, [Next]_vars, [IteratorReads => SeesTheLast]_vars
             PROVE  GradeInv'
  OBVIOUS
<1>1. Around
  BY AroundLemma
<1>2. CASE Still \/ UNCHANGED vars
  <2>1. Still
    BY <1>2, SameLemma DEF Still, vars, controllerVars, objectVars
  <2> QED
    BY <1>1, <2>1, GradeStillLemma
<1>3. CASE Leaves
  BY <1>3, GradeLeavesLemma
<1>4. CASE Decides /\ (IteratorReads => SeesTheLast)
  BY <1>4, GradeDecidesLemma
<1> QED
  BY <1>2, <1>3, <1>4, StepLemma

\* The registrar starts at the safest policy.
LEMMA GradeInitLemma == Init => GradeInv
<1> SUFFICES ASSUME Init PROVE GradeInv
  OBVIOUS
<1>1. PICK p \in GetSafestPolicy(phase) : server = Registered(p, clock)
  BY DEF Init
<1>2. server.spec.policy = p /\ p \in Policy
  BY <1>1, StoreLemma DEF Registered, EmptySpec
<1> QED
  BY <1>2 DEF Init, GradeInv, PolicyInv, AgedInv, DecidedInv, Iterating

\* Only PatchSpec changes the recommendation, to what the task holds.
LEMMA ChangeLemma ==
  ASSUME IInv, [Next]_vars, ~SameReco(server'.spec, server.spec)
  PROVE  /\ PatchSpec /\ pc = "patchSpec" /\ pc' = "patchStatus"
         /\ server'.spec.policy = task.policy
         /\ server'.spec.generatedAt = task.generatedAt
         /\ server'.spec.current = task.config
         /\ server'.spec.transitionedAt =
              retrieveTransitionTime(task.config, task.spec, task.generatedAt)
<1>1. PatchSpec
  <2>1. ~Decides
    BY SameLemma DEF Decides, Recommend, IterateDefault, IterateAging, IterateNoBreach,
       IterateBreach, AnalyzeBreach, Generate, Answer, objectVars
  <2> QED
    BY <2>1, StepLemma DEF Still, Leaves
<1>2. /\ server' = [server EXCEPT !.spec = PatchedSpec(@)]
      /\ pc = "patchSpec" /\ pc' = "patchStatus"
  BY <1>1 DEF PatchSpec, Write, Goto
<1>3. server \in PolicyRecommendation
  BY DEF IInv, ObjectInv, ObjectTypeOK
<1> QED
  BY <1>1, <1>2, <1>3 DEF PolicyRecommendation, PolicyRecommendationSpec, PatchedSpec

(***************************************************************************)
(* For any policies, also several of one risk index, and while they are    *)
(* deleted: a recommendation goes at most to the next live policy,         *)
(* provided the aging iterator reads the last recommendation               *)
(* (policyiterators.go, NextPolicy; workflow.go, pickSafestPolicy).        *)
(***************************************************************************)
THEOREM GradeByGrade == Spec /\ IteratorsSeeTheLast => OneGradeAtATime
<1>1. IInv /\ GradeInv /\ [Next]_vars => [MovesOneGrade]_server
  <2> SUFFICES ASSUME IInv, GradeInv, [Next]_vars, server'.spec.policy # server.spec.policy
               PROVE  NoneBetween(server.spec.policy, server'.spec.policy, phase)
    BY DEF MovesOneGrade, NoneBetween
  <2>1. pc = "patchSpec" /\ server'.spec.policy = task.policy
    BY ChangeLemma DEF SameReco
  <2> QED
    BY <2>1 DEF GradeInv, DecidedInv
<1> QED
  BY <1>1, GradeInitLemma, GradeNextLemma, Invariance, PTL
     DEF Spec, IteratorsSeeTheLast, OneGradeAtATime

--------------------------------------------------------------------------------
(***************************************************************************)
(* Down after a breach.                                                    *)
(***************************************************************************)

\* There was a breach since the last recommendation, before this one began.
Breached ==
  /\ server.spec.generatedAt # NoTime
  /\ server.spec.generatedAt <= breachedAt
  /\ breachedAt < task.generatedAt

CanGoDown ==
  phase[server.spec.policy] = "live" /\ Safer(Live(phase), server.spec.policy) # {}

GoesDown(p) == p \in Policy /\ RiskIndex[p] < RiskIndex[server.spec.policy]

BreachInv ==
  /\ pc # "idle" => task.generatedAt <= clock
  /\ pc = "breach" => "BreachAnalyzer" \in task.iterators
  /\ pc \in Iterating /\ "BreachAnalyzer" \notin task.iterators /\ Breached /\ CanGoDown =>
       GoesDown(task.next)
  /\ pc = "patchSpec" /\ Breached /\ CanGoDown => GoesDown(task.policy)

LEMMA NumbersLemma ==
  ASSUME IInv
  PROVE  /\ clock \in Nat /\ breachedAt \in Nat /\ task \in Task /\ task.generatedAt \in Nat
         /\ server.spec.generatedAt \in Nat
         /\ phase \in [Policy -> Phase]
BY DEF IInv, ObjectInv, ObjectTypeOK, PolicyRecommendation, PolicyRecommendationSpec,
       ControlInv, ControlTypeOK, Task

\* A breach that happens now is none of this recommendation.
LEMMA BreachStillLemma ==
  ASSUME IInv, PolicyInv, BreachInv, Still, Around
  PROVE  BreachInv'
<1>1. /\ pc' = pc /\ task' = task /\ server'.spec.policy = server.spec.policy
      /\ server'.spec.generatedAt = server.spec.generatedAt
  BY DEF Still, SameReco
<1>2. pc # "idle" => task.generatedAt <= clock'
  BY <1>1, NumbersLemma DEF BreachInv, Around
<1>3. CanGoDown' => CanGoDown
  <2> SUFFICES ASSUME CanGoDown' PROVE CanGoDown
    OBVIOUS
  <2>1. PICK q \in Safer(Live(phase'), server.spec.policy) : TRUE
    BY <1>1 DEF CanGoDown
  <2>2. q \in Safer(Live(phase), server.spec.policy)
    BY <2>1 DEF Safer, Live, Around
  <2>3. phase[server.spec.policy] = "live"
    BY <1>1 DEF CanGoDown, Around, PolicyInv
  <2> QED
    BY <2>2, <2>3 DEF CanGoDown
<1>4. pc # "idle" /\ Breached' => Breached
  <2> SUFFICES ASSUME pc # "idle", Breached' PROVE Breached
    OBVIOUS
  <2>1. task.generatedAt <= clock /\ breachedAt' < task.generatedAt
    BY <1>1 DEF BreachInv, Breached
  <2>2. breachedAt' = breachedAt
    BY <2>1, NumbersLemma DEF Around
  <2> QED
    BY <1>1, <2>2 DEF Breached
<1> QED
  BY <1>1, <1>2, <1>3, <1>4 DEF BreachInv, Iterating, GoesDown

LEMMA BreachLeavesLemma ==
  ASSUME IInv, BreachInv, Leaves, Around
  PROVE  BreachInv'
<1>1. pc' # "idle" => task'.generatedAt <= clock'
  <2>1. CASE Reconcile
    <3>1. task' = [NoTask EXCEPT !.generatedAt = clock, !.spec = cache.spec]
      BY <2>1 DEF Reconcile
    <3>2. task'.generatedAt = clock
      BY <3>1 DEF NoTask
    <3> QED
      BY <3>2 DEF Around
  <2>2. CASE pc # "idle" /\ task' = task
    <3>1. task.generatedAt <= clock
      BY <2>2 DEF BreachInv
    <3> QED
      BY <2>2, <3>1, NumbersLemma DEF Around
  <2> QED
    BY <2>1, <2>2 DEF Leaves
<1> QED
  BY <1>1 DEF Leaves, Deciding, Iterating, BreachInv

\* The answers of the other iterators lead to nothing riskier.
LEMMA BreachAnswerLemma ==
  ASSUME IInv, PolicyInv, BreachInv, pc = "iterate",
         NEW iterator \in Iterator \ {"BreachAnalyzer"},
         NEW policies \in SUBSET MaybePolicy, Answer(iterator, policies)
  PROVE  BreachInv'
<1>1. PICK p \in policies :
        /\ pc' = "iterate" /\ server' = server /\ UNCHANGED <<clock, phase, breachedAt>>
        /\ task'.generatedAt = task.generatedAt
        /\ task'.iterators = task.iterators \ {iterator}
        /\ task'.next = pickSafestPolicy(task.next, p)
        /\ task.next \in MaybePolicy
  BY AgreedLemma
<1>2. (Breached' <=> Breached) /\ (CanGoDown' <=> CanGoDown)
  BY <1>1 DEF Breached, CanGoDown
<1>3. ASSUME "BreachAnalyzer" \notin task'.iterators, Breached, CanGoDown
      PROVE  GoesDown(task'.next)
  <2>1. GoesDown(task.next)
    BY <1>1, <1>3 DEF BreachInv, Iterating
  <2>2. task'.next \in Policy /\ RiskIndex[task'.next] <= RiskIndex[task.next]
    BY <1>1, <2>1, SafestLemma DEF GoesDown
  <2> QED
    BY <2>1, <2>2, RiskLemma DEF GoesDown, PolicyInv
<1> QED
  BY <1>1, <1>2, <1>3 DEF BreachInv, GoesDown

\* The analyzer's own answer goes down; it gives none only if there was no breach.
LEMMA BreachAnalyzerLemma ==
  ASSUME OnePolicyPerGrade, IInv, PolicyInv, BreachInv, SeesTheLast,
         IterateNoBreach \/ AnalyzeBreach
  PROVE  BreachInv'
<1> DEFINE policies == IF IterateNoBreach THEN {NoPolicy} ELSE BreachNextPolicy(phase, cache.spec)
<1>1. policies \in SUBSET MaybePolicy /\ Answer("BreachAnalyzer", policies)
  BY IteratorLemma DEF IterateNoBreach, AnalyzeBreach, MaybePolicy
<1>2. PICK p \in policies :
        /\ pc' = "iterate" /\ server' = server /\ UNCHANGED <<clock, phase, breachedAt>>
        /\ task'.generatedAt = task.generatedAt
        /\ task'.next = pickSafestPolicy(task.next, p)
        /\ task.next \in MaybePolicy
  BY <1>1, AgreedLemma DEF Iterator
<1>3. (Breached' <=> Breached) /\ (CanGoDown' <=> CanGoDown)
  BY <1>2 DEF Breached, CanGoDown
<1>4. /\ cache.spec.policy = server.spec.policy /\ server.spec.policy \in Policy
      /\ cache.spec.generatedAt = server.spec.generatedAt
  BY DEF SeesTheLast, SameReco, PolicyInv
<1>5. ASSUME Breached, CanGoDown
      PROVE  GoesDown(task'.next)
  <2>1. ~IterateNoBreach
    <3>1. HasBreached(cache.spec)
      BY <1>4, <1>5, NumbersLemma, PolicyAssumption DEF HasBreached, Breached, NoTime
    <3> QED
      BY <3>1 DEF IterateNoBreach
  <2>2. p \in Policy /\ RiskIndex[p] < RiskIndex[server.spec.policy]
    BY <1>4, <1>5, <2>1, NumbersLemma, BreachLemma DEF CanGoDown
  <2>3. task'.next \in Policy /\ RiskIndex[task'.next] <= RiskIndex[p]
    BY <1>2, <2>2, SafestLemma DEF MaybePolicy
  <2> QED
    BY <1>4, <2>2, <2>3, RiskLemma DEF GoesDown
<1>6. pc # "idle"
  BY DEF IterateNoBreach, AnalyzeBreach
<1> QED
  BY <1>2, <1>3, <1>5, <1>6 DEF BreachInv, GoesDown

LEMMA BreachDecidesLemma ==
  ASSUME OnePolicyPerGrade, IInv, GradeInv, BreachInv, Decides, IteratorReads => SeesTheLast
  PROVE  BreachInv'
<1> USE DEF GradeInv
<1>1. CASE Recommend
  <2>1. task \in Task
    BY NumbersLemma
  <2>2. /\ pc = "recommend" /\ pc' = "iterate" /\ clock' = clock
        /\ task'.iterators = Iterator /\ task'.generatedAt = task.generatedAt
    BY <1>1, <2>1 DEF Recommend, Goto, envVars, Task
  <2> QED
    BY <2>2 DEF BreachInv, Iterator
<1>2. CASE IterateDefault
  BY <1>2, BreachAnswerLemma, IteratorLemma DEF IterateDefault, Iterator
<1>3. CASE IterateAging
  BY <1>3, BreachAnswerLemma, IteratorLemma DEF IterateAging, Iterator
<1>4. CASE IterateNoBreach \/ AnalyzeBreach
  BY <1>4, BreachAnalyzerLemma DEF IteratorReads
<1>5. CASE IterateBreach
  <2>1. /\ pc = "iterate" /\ pc' = "breach" /\ "BreachAnalyzer" \in task.iterators
        /\ task' = task /\ clock' = clock
    BY <1>5 DEF IterateBreach, Goto, envVars
  <2> QED
    BY <2>1 DEF BreachInv
<1>6. CASE Generate
  <2>1. pc = "iterate" /\ task.iterators = {} /\ task.next \in Policy
    BY <1>6 DEF Generate, AgedInv, Iterating
  <2>2. /\ pc' = "patchSpec" /\ server' = server /\ UNCHANGED <<clock, phase, breachedAt>>
        /\ task'.generatedAt = task.generatedAt
        /\ task'.policy \in Policy /\ RiskIndex[task'.policy] <= RiskIndex[task.next]
    BY <1>6, <2>1, GeneratedLemma
  <2>3. (Breached' <=> Breached) /\ (CanGoDown' <=> CanGoDown)
    BY <2>2 DEF Breached, CanGoDown
  <2>4. ASSUME Breached, CanGoDown
        PROVE  GoesDown(task'.policy)
    <3>1. GoesDown(task.next)
      BY <2>1, <2>4 DEF BreachInv, Iterating
    <3> QED
      BY <2>2, <3>1, RiskLemma DEF GoesDown, PolicyInv
  <2> QED
    BY <2>1, <2>2, <2>3, <2>4 DEF BreachInv, GoesDown, Iterating
<1> QED
  BY <1>1, <1>2, <1>3, <1>4, <1>5, <1>6 DEF Decides

LEMMA BreachNextLemma ==
  ASSUME OnePolicyPerGrade
  PROVE  /\ IInv /\ GradeInv /\ BreachInv
         /\ [Next]_vars /\ [IteratorReads => SeesTheLast]_vars
         => BreachInv'
<1> SUFFICES ASSUME IInv, GradeInv, BreachInv, [Next]_vars,
                    [IteratorReads => SeesTheLast]_vars
             PROVE  BreachInv'
  OBVIOUS
<1>1. Around
  BY AroundLemma
<1>2. CASE Still \/ UNCHANGED vars
  <2>1. Still
    BY <1>2, SameLemma DEF Still, vars, controllerVars, objectVars
  <2> QED
    BY <1>1, <2>1, BreachStillLemma DEF GradeInv
<1>3. CASE Leaves
  BY <1>1, <1>3, BreachLeavesLemma
<1>4. CASE Decides /\ (IteratorReads => SeesTheLast)
  BY <1>4, BreachDecidesLemma
<1> QED
  BY <1>2, <1>3, <1>4, StepLemma

(***************************************************************************)
(* With one policy per risk index: a recommendation that begins after a    *)
(* breach, which began after the last recommendation, goes to a safer      *)
(* policy if there is one, whatever the other iterators say and whatever   *)
(* breaches and deletions come between, provided the analyzer reads the    *)
(* last recommendation both times (breach_analyzer.go, NextPolicy).        *)
(***************************************************************************)
THEOREM BreachGoesDown ==
  OnePolicyPerGrade /\ Spec /\ IteratorsSeeTheLast => BreachIsAnswered
<1> SUFFICES ASSUME OnePolicyPerGrade
             PROVE  Spec /\ IteratorsSeeTheLast => BreachIsAnswered
  OBVIOUS
<1>1. Init => BreachInv
  BY DEF Init, BreachInv, Iterating
<1>2. /\ IInv /\ GradeInv /\ BreachInv
      /\ [Next]_vars /\ [IteratorReads => SeesTheLast]_vars
      => BreachInv'
  BY BreachNextLemma
<1>3. IInv /\ BreachInv /\ [Next]_vars => [AnswersBreach]_server
  <2> SUFFICES ASSUME IInv, BreachInv, [Next]_vars,
                      server'.spec.generatedAt # server.spec.generatedAt,
                      server.spec.generatedAt # NoTime,
                      server.spec.generatedAt <= breachedAt,
                      breachedAt < server'.spec.generatedAt, CanGoDown
               PROVE  RiskIndex[server'.spec.policy] < RiskIndex[server.spec.policy]
    BY DEF AnswersBreach, CanGoDown
  <2>1. /\ pc = "patchSpec" /\ server'.spec.policy = task.policy
        /\ server'.spec.generatedAt = task.generatedAt
    BY ChangeLemma DEF SameReco
  <2> QED
    BY <2>1 DEF BreachInv, Breached, GoesDown
<1> QED
  BY <1>1, <1>2, <1>3, GradeInitLemma, GradeNextLemma, Invariance, PTL
     DEF Spec, IteratorsSeeTheLast, BreachIsAnswered

--------------------------------------------------------------------------------
(***************************************************************************)
(* A cache that is one version behind has the last recommendation: between *)
(* PatchSpec and the iterators of the next reconcile there is a patch of   *)
(* the status, which the API server accepts after the spec was delivered.  *)
(***************************************************************************)
Reading == {"recommend", "iterate", "breach", "errored", "patchSpec"}

LagInv ==
  /\ watch = << >> => cache = server
  /\ watch # << >> => watch = <<server>>
  /\ pc \in Reading => SeesTheLast

\* A write finds the cache up to date.
LEMMA LagWriteLemma ==
  ASSUME MaxLag = 1, IInv, LagInv, NEW object, Write(object),
         SameReco(server'.spec, server.spec) \/ pc' \notin Reading
  PROVE  LagInv'
<1>1. /\ watch \in Seq(PolicyRecommendation) /\ Len(watch) < 1
      /\ server' = object /\ watch' = Append(watch, object) /\ cache' = cache
  BY DEF IInv, ObjectInv, ObjectTypeOK, Write
<1>2. watch = << >>
  BY <1>1
<1>3. cache = server /\ watch' = <<server'>>
  BY <1>1, <1>2 DEF LagInv
<1>4. pc' \in Reading => SeesTheLast'
  BY <1>1, <1>3 DEF SeesTheLast, SameReco
<1> QED
  BY <1>3, <1>4 DEF LagInv

\* After a delivery and after a list the cache is up to date.
LEMMA LagReadLemma ==
  ASSUME server' = server, cache' = server, watch' = << >>
  PROVE  LagInv'
BY DEF LagInv, SeesTheLast, SameReco

LEMMA LagSameLemma ==
  ASSUME LagInv, UNCHANGED <<server, watch, cache>>, pc' \in Reading => pc \in Reading
  PROVE  LagInv'
BY DEF LagInv, SeesTheLast, SameReco

LEMMA LagNextLemma ==
  ASSUME MaxLag = 1
  PROVE  IInv /\ LagInv /\ [Next]_vars => LagInv'
<1> SUFFICES ASSUME IInv, LagInv, [Next]_vars PROVE LagInv'
  OBVIOUS
<1>1. CASE Deliver
  <2>1. watch = <<server>> /\ server' = server /\ cache' = Head(watch) /\ watch' = Tail(watch)
    BY <1>1 DEF Deliver, LagInv
  <2> QED
    BY <2>1, LagReadLemma
<1>2. CASE DeliverPanics \/ Crash
  BY <1>2, LagReadLemma DEF DeliverPanics, Crash, Restart, Relist
<1>3. CASE Reconcile \/ PatchFails \/ Execute
  <2>1. UNCHANGED <<server, watch, cache>>
    BY <1>3 DEF Reconcile, PatchFails, Execute, Recommend, ExecuteFails, IterateDefault,
       IterateAging, IterateAgingErrs, IterateNoBreach, IterateBreach, AnalyzeBreach,
       Generate, GenerateErrs, Answer, objectVars
  <2>2. pc' \in Reading => pc \in Reading
    BY <1>3 DEF Reconcile, PatchFails, Execute, Recommend, ExecuteFails, IterateDefault,
       IterateAging, IterateAgingErrs, IterateNoBreach, IterateBreach, AnalyzeBreach,
       Generate, GenerateErrs, Reading
  <2> QED
    BY <2>1, <2>2, LagSameLemma
<1>4. CASE PatchInProgress \/ PatchErrored \/ PatchStatus \/ PatchQueued
  <2>1. PICK manager, patch : StatusPatch(manager, patch)
    BY <1>4 DEF PatchInProgress, PatchErrored, PatchStatus, PatchQueued
  <2>2. SameReco(server'.spec, server.spec)
    BY <2>1, PatchedLemma
  <2> QED
    BY <2>1, <2>2, LagWriteLemma DEF StatusPatch
<1>5. CASE PatchSpec
  <2>1. pc' \notin Reading
    BY <1>5 DEF PatchSpec, Goto, Reading
  <2> QED
    BY <1>5, <2>1, LagWriteLemma DEF PatchSpec
<1>6. CASE HandlerNext \/ DeploymentNext
  <2>1. pc' = pc
    BY <1>6 DEF HandlerNext, QueueForExecution, HandlerGet, HandlerUpdate, HandlerConflict,
         HandlerPatchStatus, HandlerFails, HandlerGoto, DeploymentNext, AnnotationChanged,
         requeuePolicyRecommendation, DeploymentGet, DeploymentUpdate, DeploymentConflict,
         DeploymentFails, DeploymentGoto, controllerVars
  <2>2. CASE HandlerUpdate \/ DeploymentUpdate
    <3>1. PICK client, now : UpdateQueued(client, now)
      BY <2>2 DEF HandlerUpdate, DeploymentUpdate
    <3>2. SameReco(server'.spec, server.spec)
      BY <3>1, QueuedLemma
    <3> QED
      BY <3>1, <3>2, LagWriteLemma DEF UpdateQueued
  <2>3. CASE HandlerPatchStatus
    <3>1. PICK manager, patch : StatusPatch(manager, patch)
      BY <2>3 DEF HandlerPatchStatus
    <3>2. SameReco(server'.spec, server.spec)
      BY <3>1, PatchedLemma
    <3> QED
      BY <3>1, <3>2, LagWriteLemma DEF StatusPatch
  <2>4. CASE ~(HandlerUpdate \/ DeploymentUpdate \/ HandlerPatchStatus)
    <3>1. UNCHANGED <<server, watch, cache>>
      BY <1>6, <2>4 DEF HandlerNext, QueueForExecution, HandlerGet, HandlerConflict,
         HandlerFails, DeploymentNext, AnnotationChanged, requeuePolicyRecommendation,
         DeploymentGet, DeploymentConflict, DeploymentFails, GetForUpdate, objectVars
    <3> QED
      BY <2>1, <3>1, LagSameLemma
  <2> QED
    BY <2>2, <2>3, <2>4
<1>7. CASE (Environment /\ ~Crash) \/ UNCHANGED vars
  <2>1. UNCHANGED <<server, watch, cache>> /\ pc' = pc
    BY <1>7 DEF Environment, Tick, Breach, DeletePolicy, FinalizePolicy, controllerVars,
                objectVars, vars
  <2> QED
    BY <2>1, LagSameLemma
<1> QED
  BY <1>1, <1>2, <1>3, <1>4, <1>5, <1>6, <1>7 DEF Next, ReconcilerNext, Environment

(***************************************************************************)
(* The condition of the theorems on grades holds while the cache is at     *)
(* most one version behind, through every failing call and crash.          *)
(***************************************************************************)
THEOREM OneVersionBehind == MaxLag = 1 /\ Spec => IteratorsSeeTheLast
<1> SUFFICES ASSUME MaxLag = 1 PROVE Spec => IteratorsSeeTheLast
  OBVIOUS
<1>1. Init => LagInv
  BY DEF Init, LagInv, Reading
<1>2. IInv /\ LagInv /\ [Next]_vars => LagInv'
  BY LagNextLemma
<1>3. LagInv => [IteratorReads => SeesTheLast]_vars
  BY DEF LagInv, Reading, IteratorReads, IterateAging, IterateNoBreach, IterateBreach,
         AnalyzeBreach
<1> QED
  BY <1>1, <1>2, <1>3, Invariance, PTL DEF Spec, IteratorsSeeTheLast

--------------------------------------------------------------------------------
(***************************************************************************)
(* The copies of the object.                                               *)
(***************************************************************************)
Copies == {server, cache} \cup {watch[i] : i \in 1 .. Len(watch)}

\* A step makes no copies but of the object as it was or becomes.
CopiesKept == \A object \in Copies' : object \in Copies \/ object = server'

LEMMA WriteCopiesLemma ==
  ASSUME IInv, NEW object, Write(object)
  PROVE  CopiesKept
<1>1. /\ watch \in Seq(PolicyRecommendation)
      /\ server' = object /\ watch' = Append(watch, object) /\ cache' = cache
  BY DEF IInv, ObjectInv, ObjectTypeOK, Write
<1>2. ASSUME NEW i \in 1 .. Len(watch')
      PROVE  watch'[i] \in Copies \/ watch'[i] = server'
  <2>1. CASE i = Len(watch) + 1
    BY <1>1, <2>1
  <2>2. CASE i # Len(watch) + 1
    <3>1. i \in 1 .. Len(watch) /\ watch'[i] = watch[i]
      BY <1>1, <1>2, <2>2
    <3> QED
      BY <3>1 DEF Copies
  <2> QED
    BY <2>1, <2>2
<1> QED
  BY <1>1, <1>2 DEF CopiesKept, Copies

LEMMA SameCopiesLemma ==
  ASSUME UNCHANGED <<server, watch, cache>>
  PROVE  CopiesKept
BY DEF CopiesKept, Copies

LEMMA RelistCopiesLemma ==
  ASSUME Relist
  PROVE  CopiesKept
<1>1. server' = server /\ cache' = server /\ watch' = << >>
  BY DEF Relist
<1> QED
  BY <1>1 DEF CopiesKept, Copies

LEMMA DeliverCopiesLemma ==
  ASSUME IInv, Deliver
  PROVE  CopiesKept
<1>1. /\ watch \in Seq(PolicyRecommendation) /\ watch # << >>
      /\ server' = server /\ cache' = Head(watch) /\ watch' = Tail(watch)
  BY DEF IInv, ObjectInv, ObjectTypeOK, Deliver
<1>2. cache' = watch[1] /\ 1 \in 1 .. Len(watch)
  BY <1>1
<1>3. ASSUME NEW i \in 1 .. Len(watch')
      PROVE  watch'[i] \in Copies
  <2>1. i + 1 \in 1 .. Len(watch) /\ watch'[i] = watch[i + 1]
    BY <1>1, <1>3
  <2> QED
    BY <2>1 DEF Copies
<1> QED
  BY <1>1, <1>2, <1>3 DEF CopiesKept, Copies

LEMMA CopiesLemma ==
  ASSUME IInv, [Next]_vars
  PROVE  CopiesKept
<1>1. CASE Deliver
  BY <1>1, DeliverCopiesLemma
<1>2. CASE DeliverPanics \/ Crash
  BY <1>2, RelistCopiesLemma DEF DeliverPanics, Crash, Restart
<1>3. CASE Reconcile \/ PatchFails \/ Execute
  <2>1. UNCHANGED <<server, watch, cache>>
    BY <1>3 DEF Reconcile, PatchFails, Execute, Recommend, ExecuteFails, IterateDefault,
       IterateAging, IterateAgingErrs, IterateNoBreach, IterateBreach, AnalyzeBreach,
       Generate, GenerateErrs, Answer, objectVars
  <2> QED
    BY <2>1, SameCopiesLemma
<1>4. CASE PatchInProgress \/ PatchErrored \/ PatchStatus \/ PatchQueued \/ PatchSpec
  BY <1>4, WriteCopiesLemma DEF PatchInProgress, PatchErrored, PatchStatus, PatchQueued,
     PatchSpec, StatusPatch
<1>5. CASE HandlerUpdate \/ DeploymentUpdate \/ HandlerPatchStatus
  BY <1>5, WriteCopiesLemma DEF HandlerUpdate, DeploymentUpdate, HandlerPatchStatus,
     UpdateQueued, StatusPatch
<1>6. CASE \/ QueueForExecution \/ HandlerGet \/ HandlerConflict \/ HandlerFails
           \/ AnnotationChanged \/ requeuePolicyRecommendation \/ DeploymentGet
           \/ DeploymentConflict \/ DeploymentFails
  <2>1. UNCHANGED <<server, watch, cache>>
    BY <1>6 DEF QueueForExecution, HandlerGet, HandlerConflict, HandlerFails,
       AnnotationChanged, requeuePolicyRecommendation, DeploymentGet, DeploymentConflict,
       DeploymentFails, GetForUpdate, objectVars
  <2> QED
    BY <2>1, SameCopiesLemma
<1>7. CASE (Environment /\ ~Crash) \/ UNCHANGED vars
  <2>1. UNCHANGED <<server, watch, cache>>
    BY <1>7 DEF Environment, Tick, Breach, DeletePolicy, FinalizePolicy, objectVars, vars
  <2> QED
    BY <2>1, SameCopiesLemma
<1> QED
  BY <1>1, <1>2, <1>3, <1>4, <1>5, <1>6, <1>7
     DEF Next, ReconcilerNext, HandlerNext, DeploymentNext, Environment

--------------------------------------------------------------------------------
(***************************************************************************)
(* Up only after the age of a policy.                                      *)
(***************************************************************************)
Started == {"inProgress", "recommend", "iterate", "breach", "patchSpec"}

HistoryTypeOK ==
  /\ applied \subseteq HPAConfiguration \X Nat
  /\ appliedAt \in Nat /\ appliedAt <= clock

Recorded(spec) == Turn(spec) \in applied

\* What an object says of its configuration was once true, and of the last turn
\* unless an earlier one was kept.
RecordInv ==
  /\ HistoryTypeOK
  /\ \A object \in Copies : Recorded(object.spec)
  /\ pc \in Started => /\ Recorded(task.spec)
                       /\ appliedAt <= task.generatedAt /\ task.generatedAt <= clock
  /\ ~misled => appliedAt <= server.spec.transitionedAt

Aged(p) ==
  phase[server.spec.policy] = "live" /\ RiskIndex[server.spec.policy] < RiskIndex[p] =>
    HadIt /\ (misled \/ Expired(appliedAt))

AgeInv ==
  /\ pc \in Iterating /\ "Aging" \notin task.iterators => Aged(task.next)
  /\ pc = "patchSpec" => Aged(task.policy)

\* Only the patch of the spec makes history, or changes what the history is about.
LEMMA HistoryLemma ==
  ASSUME IInv, [AgingNext]_agingVars, [Next]_vars, ~PatchSpec
  PROVE  UNCHANGED historyVars /\ SameReco(server'.spec, server.spec)
BY ChangeLemma DEF AgingNext, Applies, agingVars, historyVars

\* The copy Reconcile took and its time stay in the task.
LEMMA TaskSpecLemma ==
  ASSUME IInv, [Next]_vars, pc' \in Started, ~Reconcile
  PROVE  /\ pc \in Started /\ task'.spec = task.spec
         /\ task'.generatedAt = task.generatedAt
<1>1. task \in Task
  BY NumbersLemma
<1>2. CASE Still
  BY <1>2 DEF Still
<1>3. CASE Leaves
  <2>1. pc' \in {"inProgress", "recommend"}
    BY <1>3 DEF Leaves, Started, Deciding, Iterating
  <2> QED
    BY <1>3, <2>1 DEF Leaves, Started
<1>4. CASE Decides
  <2>1. CASE Recommend
    BY <1>1, <2>1 DEF Recommend, Started, Task
  <2>2. CASE IterateDefault
    BY <2>2, AgreedLemma, IteratorLemma DEF IterateDefault, Iterator, Started
  <2>3. CASE IterateAging
    BY <2>3, AgreedLemma, IteratorLemma DEF IterateAging, Iterator, Started
  <2>4. CASE IterateNoBreach
    BY <2>4, AgreedLemma DEF IterateNoBreach, Iterator, Started, MaybePolicy
  <2>5. CASE IterateBreach
    BY <2>5 DEF IterateBreach, Started
  <2>6. CASE AnalyzeBreach
    BY <2>6, AgreedLemma, IteratorLemma DEF AnalyzeBreach, Iterator, Started
  <2>7. CASE Generate
    BY <1>1, <2>7 DEF Generate, Started, Task
  <2> QED
    BY <1>4, <2>1, <2>2, <2>3, <2>4, <2>5, <2>6, <2>7 DEF Decides
<1> QED
  BY <1>2, <1>3, <1>4, StepLemma

LEMMA RecordOtherLemma ==
  ASSUME IInv, RecordInv, [Next]_vars, ~PatchSpec,
         UNCHANGED historyVars, SameReco(server'.spec, server.spec)
  PROVE  RecordInv'
<1>1. /\ clock \in Nat /\ clock' \in Nat /\ clock <= clock'
      /\ UNCHANGED <<applied, appliedAt, misled>>
  BY AroundLemma, NumbersLemma DEF Around, historyVars
<1>2. HistoryTypeOK'
  BY <1>1 DEF RecordInv, HistoryTypeOK
<1>3. \A object \in Copies' : Recorded(object.spec)
  BY CopiesLemma DEF CopiesKept, RecordInv, Recorded, Turn, SameReco, Copies
<1>4. ASSUME pc' \in Started
      PROVE  /\ Turn(task'.spec) \in applied
             /\ appliedAt <= task'.generatedAt /\ task'.generatedAt <= clock'
  <2>1. CASE Reconcile
    <3>1. task' = [NoTask EXCEPT !.generatedAt = clock, !.spec = cache.spec]
      BY <2>1 DEF Reconcile
    <3>2. task'.spec = cache.spec /\ task'.generatedAt = clock
      BY <3>1 DEF NoTask
    <3> QED
      BY <1>1, <3>2 DEF RecordInv, HistoryTypeOK, Recorded, Copies
  <2>2. CASE ~Reconcile
    <3>1. /\ pc \in Started /\ task'.spec = task.spec
          /\ task'.generatedAt = task.generatedAt
      BY <1>4, <2>2, TaskSpecLemma
    <3>2. task.generatedAt \in Nat
      BY NumbersLemma
    <3> QED
      BY <1>1, <3>1, <3>2 DEF RecordInv, HistoryTypeOK, Recorded
  <2> QED
    BY <2>1, <2>2
<1>5. ~misled' => appliedAt' <= server'.spec.transitionedAt
  BY <1>1 DEF RecordInv, SameReco
<1> QED
  BY <1>1, <1>2, <1>3, <1>4, <1>5 DEF RecordInv, Recorded, Turn

\* What is written is a turn of the copy or a new one; it is an earlier one only
\* if the history says so.
LEMMA RecordPatchLemma ==
  ASSUME IInv, RecordInv, [Next]_vars, Applies
  PROVE  RecordInv'
<1>1. /\ pc = "patchSpec" /\ pc' = "patchStatus" /\ UNCHANGED <<clock, task>>
      /\ server' = [server EXCEPT !.spec = PatchedSpec(@)]
  BY DEF Applies, PatchSpec, Write, Goto, envVars
<1>2. /\ server'.spec.current = task.config
      /\ server'.spec.transitionedAt =
           retrieveTransitionTime(task.config, task.spec, task.generatedAt)
  <2>1. server \in PolicyRecommendation
    BY DEF IInv, ObjectInv, ObjectTypeOK
  <2> QED
    BY <1>1, <2>1 DEF PolicyRecommendation, PolicyRecommendationSpec, PatchedSpec
<1>3. /\ task.config \in HPAConfiguration /\ task.generatedAt \in Nat /\ clock \in Nat
      /\ Turn(task.spec) \in applied
      /\ appliedAt <= task.generatedAt /\ task.generatedAt <= clock
      /\ applied \subseteq HPAConfiguration \X Nat /\ appliedAt \in Nat /\ appliedAt <= clock
  BY <1>1, NumbersLemma DEF RecordInv, HistoryTypeOK, Started, Recorded, Task
<1>4. HistoryTypeOK'
  BY <1>1, <1>3 DEF Applies, HistoryTypeOK
<1>5. Turn(server'.spec) \in applied'
  BY <1>2, <1>3 DEF Applies, Turn, retrieveTransitionTime
<1>6. \A object \in Copies' : Turn(object.spec) \in applied'
  BY <1>5, CopiesLemma DEF CopiesKept, RecordInv, Recorded, Applies
<1>7. ASSUME ~misled'
      PROVE  appliedAt' <= server'.spec.transitionedAt
  <2>1. ~KeepsEarlierTurn /\ (misled => task.config # server.spec.current)
    BY <1>7 DEF Applies
  <2>2. CASE task.config # task.spec.current
    BY <1>2, <1>3, <2>2 DEF Applies, retrieveTransitionTime
  <2>3. CASE task.config = task.spec.current
    <3>1. Turn(task.spec) = Turn(server.spec)
      BY <2>1, <2>3 DEF KeepsEarlierTurn
    <3>2. /\ task.config = server.spec.current
          /\ server'.spec.transitionedAt = server.spec.transitionedAt
      BY <1>2, <2>3, <3>1 DEF Turn, retrieveTransitionTime
    <3> QED
      BY <2>1, <3>2 DEF Applies, RecordInv
  <2> QED
    BY <2>2, <2>3
<1> QED
  BY <1>1, <1>4, <1>6, <1>7 DEF RecordInv, Recorded, Turn, Started

LEMMA RecordNextLemma ==
  ASSUME IInv, RecordInv, [AgingNext]_agingVars, [Next]_vars
  PROVE  RecordInv'
<1>1. CASE PatchSpec
  <2>1. Applies
    BY <1>1 DEF AgingNext, agingVars, vars, controllerVars, PatchSpec, Goto
  <2> QED
    BY <2>1, RecordPatchLemma
<1>2. CASE ~PatchSpec
  BY <1>2, HistoryLemma, RecordOtherLemma
<1> QED
  BY <1>1, <1>2

\* A policy that is not riskier is one the workload has waited long enough for too.
LEMMA AgedLemma ==
  ASSUME PolicyInv, NEW p \in Policy, NEW q \in Policy, RiskIndex[q] <= RiskIndex[p], Aged(p)
  PROVE  Aged(q)
BY RiskLemma DEF Aged, PolicyInv

\* Waiting long enough stays so.
LEMMA AgedLaterLemma ==
  ASSUME IInv, RecordInv, Around, UNCHANGED historyVars, SameReco(server'.spec, server.spec),
         GradeInv, NEW p, Aged(p)
  PROVE  phase'[server'.spec.policy] = "live" /\ RiskIndex[server'.spec.policy] < RiskIndex[p] =>
           (HadIt /\ (misled \/ Expired(appliedAt)))'
<1>1. /\ server'.spec.policy = server.spec.policy /\ server'.spec.current = server.spec.current
      /\ server.spec.policy \in Policy
      /\ UNCHANGED <<applied, appliedAt, misled>>
  BY DEF SameReco, GradeInv, PolicyInv, historyVars
<1>2. SUFFICES ASSUME phase'[server.spec.policy] = "live",
                      RiskIndex[server.spec.policy] < RiskIndex[p]
               PROVE  (HadIt /\ (misled \/ Expired(appliedAt)))'
  BY <1>1
<1>3. HadIt /\ (misled \/ Expired(appliedAt))
  BY <1>1, <1>2, NumbersLemma DEF Around, Aged
<1>4. \A t \in Nat : Expired(t) => t + PolicyExpiryAge <= clock'
  BY NumbersLemma, WorkflowAssumption DEF Around, Expired
<1>5. PICK a \in applied : a[1] = server.spec.current /\ Expired(a[2])
  BY <1>3 DEF HadIt
<1>6. a[2] \in Nat /\ appliedAt \in Nat
  BY <1>5 DEF RecordInv, HistoryTypeOK
<1> QED
  BY <1>1, <1>3, <1>4, <1>5, <1>6 DEF HadIt, Expired

LEMMA AgeStillLemma ==
  ASSUME IInv, GradeInv, RecordInv, AgeInv, Still, Around, UNCHANGED historyVars
  PROVE  AgeInv'
<1>1. pc' = pc /\ task' = task /\ SameReco(server'.spec, server.spec)
  BY DEF Still
<1>2. ASSUME NEW p, Aged(p)
      PROVE  phase'[server'.spec.policy] = "live"
               /\ RiskIndex[server'.spec.policy] < RiskIndex[p] =>
                    (HadIt /\ (misled \/ Expired(appliedAt)))'
  BY <1>1, <1>2, AgedLaterLemma
<1> QED
  BY <1>1, <1>2 DEF AgeInv, Aged

\* No policy gets older or younger by an answer.
LEMMA AgedSameLemma ==
  ASSUME server' = server, UNCHANGED <<clock, phase>>, UNCHANGED historyVars, NEW p, Aged(p)
  PROVE  phase'[server'.spec.policy] = "live" /\ RiskIndex[server'.spec.policy] < RiskIndex[p] =>
           (HadIt /\ (misled \/ Expired(appliedAt)))'
BY DEF Aged, HadIt, Expired, historyVars

LEMMA AgeAnswerLemma ==
  ASSUME IInv, GradeInv, AgeInv, UNCHANGED historyVars, pc \in Iterating,
         NEW iterator \in Iterator \ {"Aging"},
         NEW policies \in SUBSET MaybePolicy, Answer(iterator, policies)
  PROVE  AgeInv'
<1>1. PICK p \in policies :
        /\ pc' = "iterate" /\ server' = server /\ UNCHANGED <<clock, phase>>
        /\ task'.iterators = task.iterators \ {iterator}
        /\ task'.next = pickSafestPolicy(task.next, p)
        /\ task.next \in MaybePolicy
  BY AgreedLemma
<1>2. ASSUME "Aging" \notin task'.iterators
      PROVE  Aged(task'.next)
  <2>1. task.next \in Policy /\ Aged(task.next)
    BY <1>1, <1>2 DEF GradeInv, AgedInv, AgeInv
  <2>2. task'.next \in Policy /\ RiskIndex[task'.next] <= RiskIndex[task.next]
    BY <1>1, <2>1, SafestLemma
  <2> QED
    BY <2>1, <2>2, AgedLemma DEF GradeInv
<1> QED
  BY <1>1, <1>2, AgedSameLemma DEF AgeInv, Aged

LEMMA AgeAgingLemma ==
  ASSUME IInv, GradeInv, RecordInv, UNCHANGED historyVars, IterateAging, SeesTheLast
  PROVE  AgeInv'
<1>1. /\ phase \in [Policy -> Phase] /\ server.spec.policy \in Policy
      /\ cache.spec.policy = server.spec.policy
      /\ cache.spec.transitionedAt = server.spec.transitionedAt
  BY NumbersLemma DEF GradeInv, PolicyInv, SeesTheLast, SameReco
<1>2. AgingNextPolicy(phase, cache.spec, clock) \subseteq MaybePolicy
  BY IteratorLemma
<1>3. PICK p \in AgingNextPolicy(phase, cache.spec, clock) :
        /\ pc' = "iterate" /\ server' = server /\ UNCHANGED <<clock, phase>>
        /\ task'.next = pickSafestPolicy(task.next, p)
        /\ task.next \in MaybePolicy
  BY <1>2, AgreedLemma DEF IterateAging, Iterator
<1>4. isAgeBeyondExpiry(cache.spec, clock) => HadIt /\ (misled \/ Expired(appliedAt))
  <2> SUFFICES ASSUME isAgeBeyondExpiry(cache.spec, clock)
               PROVE  HadIt /\ (misled \/ Expired(appliedAt))
    OBVIOUS
  <2>1. Expired(server.spec.transitionedAt)
    BY <1>1 DEF isAgeBeyondExpiry, Expired
  <2>2. /\ Turn(server.spec) \in applied /\ appliedAt \in Nat /\ clock \in Nat
        /\ server.spec.transitionedAt \in Nat
    BY NumbersLemma
       DEF RecordInv, Recorded, Copies, HistoryTypeOK, IInv, ObjectInv, ObjectTypeOK,
           PolicyRecommendation, PolicyRecommendationSpec
  <2>3. HadIt
    BY <2>1, <2>2 DEF HadIt, Turn
  <2>4. ~misled => Expired(appliedAt)
    BY <2>1, <2>2, WorkflowAssumption DEF RecordInv, Expired
  <2> QED
    BY <2>3, <2>4
<1>5. p \in Policy /\ Aged(p)
  BY <1>1, <1>4, AgingLemma DEF Aged
<1>6. task'.next \in Policy /\ RiskIndex[task'.next] <= RiskIndex[p]
  BY <1>3, <1>5, SafestLemma DEF MaybePolicy
<1>7. Aged(task'.next)
  BY <1>5, <1>6, AgedLemma DEF GradeInv
<1> QED
  BY <1>3, <1>7, AgedSameLemma DEF AgeInv, Aged

LEMMA AgeDecidesLemma ==
  ASSUME IInv, GradeInv, RecordInv, AgeInv, Decides, IteratorReads => SeesTheLast,
         UNCHANGED historyVars
  PROVE  AgeInv'
<1>1. CASE Recommend
  <2>1. task \in Task
    BY NumbersLemma
  <2>2. pc' = "iterate" /\ task'.iterators = Iterator
    BY <1>1, <2>1 DEF Recommend, Goto, Task
  <2> QED
    BY <2>2 DEF AgeInv, Iterator
<1>2. CASE IterateDefault
  BY <1>2, AgeAnswerLemma, IteratorLemma DEF IterateDefault, Iterating, Iterator
<1>3. CASE IterateAging
  BY <1>3, AgeAgingLemma DEF IteratorReads
<1>4. CASE IterateNoBreach
  BY <1>4, AgeAnswerLemma DEF IterateNoBreach, Iterating, Iterator, MaybePolicy
<1>5. CASE IterateBreach
  <2>1. /\ pc = "iterate" /\ pc' = "breach" /\ server' = server /\ task' = task
        /\ UNCHANGED <<clock, phase>>
    BY <1>5 DEF IterateBreach, Goto, objectVars, envVars
  <2> QED
    BY <2>1, AgedSameLemma DEF AgeInv, Aged, Iterating
<1>6. CASE AnalyzeBreach
  BY <1>6, AgeAnswerLemma, IteratorLemma DEF AnalyzeBreach, Iterating, Iterator
<1>7. CASE Generate
  <2>1. task.next \in Policy /\ Aged(task.next)
    BY <1>7 DEF Generate, GradeInv, AgedInv, AgeInv, Iterating
  <2>2. /\ pc' = "patchSpec" /\ server' = server /\ UNCHANGED <<clock, phase>>
        /\ task'.policy \in Policy /\ RiskIndex[task'.policy] <= RiskIndex[task.next]
    BY <1>7, <2>1, GeneratedLemma
  <2>3. Aged(task'.policy)
    BY <2>1, <2>2, AgedLemma DEF GradeInv
  <2> QED
    BY <2>2, <2>3, AgedSameLemma DEF AgeInv, Aged, Iterating
<1> QED
  BY <1>1, <1>2, <1>3, <1>4, <1>5, <1>6, <1>7 DEF Decides

LEMMA AgeNextLemma ==
  ASSUME IInv, GradeInv, RecordInv, AgeInv, [AgingNext]_agingVars, [Next]_vars,
         [IteratorReads => SeesTheLast]_vars
  PROVE  AgeInv'
<1>1. CASE Still \/ UNCHANGED vars
  <2>1. Still /\ pc' = pc
    BY <1>1, SameLemma DEF Still, vars, controllerVars, objectVars
  <2>2. UNCHANGED historyVars
    BY <2>1, HistoryLemma DEF PatchSpec, Goto
  <2> QED
    BY <2>1, <2>2, AroundLemma, AgeStillLemma
<1>2. CASE Leaves
  BY <1>2 DEF Leaves, Deciding, AgeInv
<1>3. CASE Decides /\ (IteratorReads => SeesTheLast)
  <2>1. ~PatchSpec
    BY <1>3 DEF Decides, Recommend, IterateDefault, IterateAging, IterateNoBreach,
       IterateBreach, AnalyzeBreach, Generate, PatchSpec
  <2> QED
    BY <1>3, <2>1, HistoryLemma, AgeDecidesLemma
<1> QED
  BY <1>1, <1>2, <1>3, StepLemma

(***************************************************************************)
(* A workload goes on to a riskier policy only from a configuration that   *)
(* was applied the age of a policy ago: TransitionedAt is always the time  *)
(* of some turn of that configuration, however old the copy it is computed *)
(* from, and of the last turn unless the copy had an earlier one.  Neither *)
(* faults, crashes, the default policy nor a deletion go around it         *)
(* (policyrecommendation_controller.go, retrieveTransitionTime;            *)
(* policyiterators.go, isAgeBeyondExpiry).  What the iterators read is the *)
(* last recommendation while the cache is one version behind; nothing is   *)
(* assumed of what Reconcile reads.                                        *)
(***************************************************************************)
THEOREM UpOnlyWhenAged == MaxLag = 1 /\ AgingSpec => AgesBeforeItMoves
<1>1. AgingInit => Init /\ RecordInv /\ AgeInv
  <2> SUFFICES ASSUME AgingInit PROVE Init /\ RecordInv /\ AgeInv
    OBVIOUS
  <2>1. Init /\ IInv
    BY InitLemma DEF AgingInit
  <2>2. pc = "idle" /\ watch = << >> /\ cache = server /\ clock = 1
    BY <2>1 DEF Init
  <2>3. server.spec.transitionedAt = clock
    <3>1. PICK policy : server = Registered(policy, clock)
      BY <2>1 DEF Init
    <3>2. server.spec = [EmptySpec EXCEPT !.queued = TRUE, !.queuedAt = clock,
                                          !.transitionedAt = clock, !.policy = policy]
      BY <3>1 DEF Registered
    <3> QED
      BY <3>2 DEF EmptySpec
  <2>4. HistoryTypeOK
    BY <2>1, <2>2, <2>3 DEF AgingInit, HistoryTypeOK, IInv, ObjectInv, ObjectTypeOK,
       PolicyRecommendation, PolicyRecommendationSpec
  <2> QED
    BY <2>1, <2>2, <2>4
       DEF AgingInit, RecordInv, Copies, Recorded, Turn, AgeInv, Started, Iterating,
           HistoryTypeOK
<1>2. [AgingNext]_agingVars => [Next]_vars
  BY DEF AgingNext, Applies, Next, ReconcilerNext, agingVars
<1>3. IInv /\ RecordInv /\ [AgingNext]_agingVars => RecordInv'
  BY <1>2, RecordNextLemma
<1>4. /\ IInv /\ GradeInv /\ RecordInv /\ AgeInv
      /\ [AgingNext]_agingVars /\ [IteratorReads => SeesTheLast]_vars
      => AgeInv'
  BY <1>2, AgeNextLemma
<1>5. IInv /\ AgeInv /\ [Next]_vars => [MovesWhenAged]_server
  <2> SUFFICES ASSUME IInv, AgeInv, [Next]_vars, MovesUp
               PROVE  HadIt /\ (misled \/ Expired(appliedAt))
    BY DEF MovesWhenAged
  <2>1. pc = "patchSpec" /\ server'.spec.policy = task.policy
    BY ChangeLemma DEF SameReco, MovesUp
  <2> QED
    BY <2>1 DEF AgeInv, Aged, MovesUp
<1>6. AgingSpec => Spec
  BY <1>1, <1>2, PTL DEF AgingSpec, Spec
<1>7. SUFFICES ASSUME MaxLag = 1 PROVE AgingSpec => AgesBeforeItMoves
  OBVIOUS
<1>8. Spec => IteratorsSeeTheLast
  BY <1>7, OneVersionBehind
<1> QED
  BY <1>1, <1>2, <1>3, <1>4, <1>5, <1>6, <1>8, GradeInitLemma, GradeNextLemma, Invariance,
     PTL DEF AgingSpec, IteratorsSeeTheLast, AgesBeforeItMoves

--------------------------------------------------------------------------------
(***************************************************************************)
(* Without failing calls Reconcile has the last recommendation too.        *)
(***************************************************************************)
Beginning == {"idle", "inProgress", "patchQueued"}

\* The patch of the spec may be on its way only until that of the status.
NoFaultInv ==
  /\ budget.fault = 0
  /\ pc \in Beginning => SeesTheLast
  /\ pc \in Started => SameReco(task.spec, server.spec)

LEMMA NoFaultBudgetLemma ==
  ASSUME IInv, [Next]_vars, budget.fault = 0
  PROVE  budget'.fault = 0 /\ ~PatchFails
<1>1. budget \in Budget
  BY DEF IInv, ControlInv, ControlTypeOK
<1>2. ~Fail
  BY DEF Fail
<1>3. ~PatchFails /\ ~ExecuteFails /\ ~HandlerFails /\ ~DeploymentFails
  BY <1>2 DEF PatchFails, ExecuteFails, HandlerFails, DeploymentFails
<1>4. CASE budget' = budget
  BY <1>3, <1>4
<1>5. CASE Crash \/ Breach \/ (\E p \in Policy : DeletePolicy(p))
             \/ QueueForExecution \/ AnnotationChanged
  BY <1>1, <1>3, <1>5 DEF Crash, Breach, DeletePolicy, QueueForExecution, AnnotationChanged, Budget
<1>6. CASE Deliver \/ DeliverPanics \/ ReconcilerNext \/ UNCHANGED vars
  <2>1. budget' = budget
    BY <1>3, <1>6 DEF Deliver, DeliverPanics, ReconcilerNext, Reconcile, PatchInProgress,
       PatchErrored, PatchSpec, PatchStatus, PatchQueued, Execute, Recommend, IterateDefault,
       IterateAging, IterateAgingErrs, IterateNoBreach, IterateBreach, AnalyzeBreach,
       Generate, GenerateErrs, Answer, Goto, envVars, vars
  <2> QED
    BY <1>4, <2>1
<1>7. CASE \/ HandlerGet \/ HandlerUpdate \/ HandlerConflict \/ HandlerPatchStatus
           \/ requeuePolicyRecommendation \/ DeploymentGet \/ DeploymentUpdate
           \/ DeploymentConflict \/ Tick \/ (\E p \in Policy : FinalizePolicy(p))
  <2>1. budget' = budget
    BY <1>7 DEF HandlerGet, HandlerUpdate, HandlerConflict, HandlerPatchStatus,
       requeuePolicyRecommendation, DeploymentGet, DeploymentUpdate, DeploymentConflict,
       Tick, FinalizePolicy, envVars
  <2> QED
    BY <1>4, <2>1
<1> QED
  BY <1>3, <1>5, <1>6, <1>7 DEF Next, HandlerNext, DeploymentNext, Environment

\* The patch of the status is accepted after the spec was delivered.
LEMMA BeginningLemma ==
  ASSUME MaxLag = 1, IInv, LagInv, LagInv', NoFaultInv, [Next]_vars, pc' \in Beginning
  PROVE  SeesTheLast'
<1>1. CASE watch' = << >>
  BY <1>1 DEF LagInv, SeesTheLast, SameReco
<1>2. CASE DeliverPanics \/ Crash
  BY <1>1, <1>2 DEF DeliverPanics, Crash, Restart, Relist
<1>3. ASSUME NEW object, Write(object), SameReco(server'.spec, server.spec)
      PROVE  SeesTheLast'
  <2>1. watch \in Seq(PolicyRecommendation) /\ Len(watch) < 1 /\ cache' = cache
    BY <1>3 DEF IInv, ObjectInv, ObjectTypeOK, Write
  <2>2. cache = server
    BY <2>1 DEF LagInv
  <2> QED
    BY <1>3, <2>1, <2>2 DEF SeesTheLast, SameReco
<1>4. CASE PatchInProgress \/ PatchErrored \/ PatchStatus \/ PatchQueued \/ HandlerPatchStatus
  <2>1. PICK manager, patch : StatusPatch(manager, patch)
    BY <1>4 DEF PatchInProgress, PatchErrored, PatchStatus, PatchQueued, HandlerPatchStatus
  <2> QED
    BY <1>3, <2>1, PatchedLemma DEF StatusPatch
<1>5. CASE HandlerUpdate \/ DeploymentUpdate
  <2>1. PICK client, now : UpdateQueued(client, now)
    BY <1>5 DEF HandlerUpdate, DeploymentUpdate
  <2> QED
    BY <1>3, <2>1, QueuedLemma DEF UpdateQueued
<1>6. CASE Deliver
  <2>1. watch = <<server>> /\ watch' = Tail(watch)
    BY <1>6 DEF Deliver, LagInv
  <2>2. watch' = << >>
    BY <2>1
  <2> QED
    BY <1>1, <2>2
<1>7. CASE Reconcile
  BY <1>7 DEF Reconcile, objectVars, NoFaultInv, Beginning, SeesTheLast, SameReco
<1>8. CASE Execute \/ PatchSpec
  BY <1>8 DEF Beginning, PatchSpec, Goto, Execute, Recommend, ExecuteFails, IterateDefault,
     IterateAging, IterateAgingErrs, IterateNoBreach, IterateBreach, AnalyzeBreach, Generate,
     GenerateErrs, Answer
<1>9. CASE PatchFails
  BY <1>9, NoFaultBudgetLemma DEF NoFaultInv
<1>10. CASE UNCHANGED <<server, cache, pc>>
  BY <1>10 DEF NoFaultInv, SeesTheLast, SameReco
<1>11. CASE \/ QueueForExecution \/ HandlerGet \/ HandlerConflict \/ HandlerFails
            \/ AnnotationChanged \/ requeuePolicyRecommendation \/ DeploymentGet
            \/ DeploymentConflict \/ DeploymentFails
  <2>1. UNCHANGED <<server, cache, pc>>
    BY <1>11 DEF QueueForExecution, HandlerGet, HandlerConflict, HandlerFails,
       AnnotationChanged, requeuePolicyRecommendation, DeploymentGet, DeploymentConflict,
       DeploymentFails, GetForUpdate, HandlerGoto, DeploymentGoto, controllerVars, objectVars
  <2> QED
    BY <1>10, <2>1
<1>12. CASE (Environment /\ ~Crash) \/ UNCHANGED vars
  <2>1. UNCHANGED <<server, cache, pc>>
    BY <1>12 DEF Environment, Tick, Breach, DeletePolicy, FinalizePolicy, controllerVars,
       objectVars, vars
  <2> QED
    BY <1>10, <2>1
<1> QED
  BY <1>2, <1>4, <1>5, <1>6, <1>7, <1>8, <1>9, <1>11, <1>12
     DEF Next, ReconcilerNext, HandlerNext, DeploymentNext, Environment

LEMMA NoFaultNextLemma ==
  ASSUME MaxLag = 1, IInv, LagInv, LagInv', NoFaultInv, [Next]_vars
  PROVE  NoFaultInv'
<1>1. budget'.fault = 0
  BY NoFaultBudgetLemma DEF NoFaultInv
<1>2. pc' \in Beginning => SeesTheLast'
  BY BeginningLemma
<1>3. ASSUME pc' \in Started
      PROVE  SameReco(task'.spec, server'.spec)
  <2>1. CASE Reconcile
    <3>1. task' = [NoTask EXCEPT !.generatedAt = clock, !.spec = cache.spec]
      BY <2>1 DEF Reconcile
    <3>2. task'.spec = cache.spec /\ server' = server /\ pc = "idle"
      BY <2>1, <3>1 DEF NoTask, Reconcile, objectVars
    <3> QED
      BY <3>2 DEF NoFaultInv, Beginning, SeesTheLast
  <2>2. CASE ~Reconcile
    <3>1. pc \in Started /\ task'.spec = task.spec
      BY <1>3, <2>2, TaskSpecLemma
    <3>2. SameReco(server'.spec, server.spec)
      BY <1>3, ChangeLemma DEF Started
    <3> QED
      BY <3>1, <3>2 DEF NoFaultInv, SameReco
  <2> QED
    BY <2>1, <2>2
<1> QED
  BY <1>1, <1>2, <1>3 DEF NoFaultInv

\* A copy that has the last recommendation has no earlier turn.
LEMMA NeverMisledLemma ==
  ASSUME NoFaultInv, ~misled, [AgingNext]_agingVars
  PROVE  ~misled'
<1>1. CASE Applies
  <2>1. SameReco(task.spec, server.spec)
    BY <1>1 DEF Applies, PatchSpec, NoFaultInv, Started
  <2> QED
    BY <1>1, <2>1 DEF Applies, KeepsEarlierTurn, Turn, SameReco
<1>2. CASE ~Applies
  BY <1>2 DEF AgingNext, agingVars, historyVars
<1> QED
  BY <1>1, <1>2

(***************************************************************************)
(* While no call fails, a cache one version behind does keep what          *)
(* INSTALLATION.md says of policyExpiryAge, through every crash, breach,   *)
(* deletion and request: the patch of the status, accepted only when the   *)
(* spec was delivered, stands between PatchSpec and the next Reconcile     *)
(* (policyrecommendation_controller.go, the order of Reconcile's patches). *)
(***************************************************************************)
THEOREM ExpiryIsKept ==
  MaxLag = 1 /\ MaxFaults = 0 /\ AgingSpec => NextOnlyAfterExpiry
<1> SUFFICES ASSUME MaxLag = 1, MaxFaults = 0 PROVE AgingSpec => NextOnlyAfterExpiry
  OBVIOUS
<1>1. AgingInit => Init /\ LagInv /\ NoFaultInv /\ ~misled
  BY DEF AgingInit, Init, LagInv, Reading, NoFaultInv, Started, SeesTheLast, SameReco
<1>2. [AgingNext]_agingVars => [Next]_vars
  BY DEF AgingNext, Applies, Next, ReconcilerNext, agingVars
<1>3. IInv /\ LagInv /\ [Next]_vars => LagInv'
  BY LagNextLemma
<1>4. IInv /\ LagInv /\ LagInv' /\ NoFaultInv /\ [Next]_vars => NoFaultInv'
  BY NoFaultNextLemma
<1>5. NoFaultInv /\ ~misled /\ [AgingNext]_agingVars => ~misled'
  BY NeverMisledLemma
<1>6. ~misled /\ [MovesWhenAged]_server => [MovesUp => Expired(appliedAt)]_server
  BY DEF MovesWhenAged
<1>7. AgingSpec => Spec
  BY <1>1, <1>2, PTL DEF AgingSpec, Spec
<1> QED
  BY <1>1, <1>2, <1>3, <1>4, <1>5, <1>6, <1>7, UpOnlyWhenAged, Invariance, PTL
     DEF AgingSpec, AgesBeforeItMoves, NextOnlyAfterExpiry

================================================================================
