------------------------------- MODULE Registrar -------------------------------
(***************************************************************************)
(* The registrar (pkg/controller/policyrecommendation_registrar.go) for    *)
(* the workloads of one name: it creates the PolicyRecommendation of a     *)
(* workload, marks it Initialized and starts the workload's monitor        *)
(* (pkg/trigger/monitor.go, RegisterMonitor).                              *)
(*                                                                         *)
(* A workload may be deleted and created again under its name; the UID     *)
(* tells the two apart.  The PolicyRecommendation refers to its owner by   *)
(* UID and the cluster's garbage collector deletes it once that is gone.   *)
(***************************************************************************)
EXTENDS Integers, Sequences

CONSTANTS
  Namespace,           \* of the workload
  IncludedNamespaces,
  ExcludedNamespaces,
  MaxWorkloads,        \* bound: workloads created under the name
  MaxDeletions,        \* bound: PolicyRecommendations that users delete
  Relisted,            \* bound: the kinds whose informer may lose its watch
  MaxRelists,          \* bound: how often one does
  MaxFaults,           \* bound: failing calls
  MaxCrashes           \* bound: restarts of the process

ASSUME RegistrarAssumption ==
  /\ Relisted \subseteq {"workload", "reco"}
  /\ {MaxWorkloads, MaxDeletions, MaxRelists, MaxFaults, MaxCrashes} \subseteq Nat

VARIABLES
  server,   \* the workload's UID (0: there is none) and the PolicyRecommendation
  watch,    \* the versions not delivered yet, of each
  cache,    \* the versions delivered last
  policies, \* whether the policy store has a policy
  queued,   \* the workqueue holds the name
  pc,       \* where the reconciler is
  uid,      \* the workload it read
  monitored,\* the monitor manager has a monitor for the name
  budget    \* what is left of the bounds

informerVars == <<server, watch, cache>>
controllerVars == <<queued, pc, uid, monitored>>
vars == <<informerVars, controllerVars, policies, budget>>

Kind == {"workload", "reco"}

\* owner = 0: there is no PolicyRecommendation.
Reco == [owner : Nat, initialized : BOOLEAN]
NoReco == [owner |-> 0, initialized |-> FALSE]

Objects == [workload : Nat, reco : Reco]

TypeOK ==
  /\ server \in Objects
  /\ server.reco.owner = 0 => server.reco = NoReco
  /\ watch \in [workload : Seq(Nat), reco : Seq(Reco)]
  /\ cache \in Objects
  /\ policies \in BOOLEAN
  /\ queued \in BOOLEAN
  /\ pc \in {"idle", "create", "patch"}
  /\ uid \in Nat
  /\ monitored \in BOOLEAN
  /\ budget \in [workload : Nat, deletion : Nat, relist : Nat, fault : Nat, crash : Nat]

Init ==
  /\ server = [workload |-> 0, reco |-> NoReco]
  /\ watch = [k \in Kind |-> << >>]
  /\ cache = server
  /\ policies \in BOOLEAN
  /\ queued = FALSE
  /\ pc = "idle"
  /\ uid = 0
  /\ monitored = FALSE
  /\ budget = [workload |-> MaxWorkloads, deletion |-> MaxDeletions, relist |-> MaxRelists,
               fault |-> MaxFaults, crash |-> MaxCrashes]

Spend(what) ==
  /\ budget[what] > 0
  /\ budget' = [budget EXCEPT ![what] = @ - 1]

--------------------------------------------------------------------------------
(***************************************************************************)
(* The informers and the events that queue the workload: it was created,   *)
(* or its PolicyRecommendation was deleted.                                *)
(***************************************************************************)
isWhitelistedNamespace ==
  IF IncludedNamespaces # {} THEN Namespace \in IncludedNamespaces
                             ELSE Namespace \notin ExcludedNamespaces

createPredicate(old, new) == old = 0 /\ new # 0

\* Fault for the mutants: deletions of PolicyRecommendations are ignored.
noDeletePredicate(old, new) == FALSE

deletePredicate(old, new) == old.owner # 0 /\ new.owner = 0

Wakes(kind, old, new) ==
  /\ isWhitelistedNamespace
  /\ CASE kind = "workload" -> createPredicate(old, new)
       [] kind = "reco" -> deletePredicate(old, new)

Write(kind, object) ==
  /\ server' = [server EXCEPT ![kind] = object]
  /\ watch' = [watch EXCEPT ![kind] = Append(@, object)]
  /\ cache' = cache

Deliver(kind) ==
  /\ watch[kind] # << >>
  /\ queued' = (queued \/ Wakes(kind, cache[kind], Head(watch[kind])))
  /\ cache' = [cache EXCEPT ![kind] = Head(watch[kind])]
  /\ watch' = [watch EXCEPT ![kind] = Tail(@)]
  /\ UNCHANGED <<server, pc, uid, monitored, policies, budget>>

\* An informer lists again and sees only the difference.
Relist(kind) ==
  /\ kind \in Relisted /\ Len(watch[kind]) > 1
  /\ Spend("relist")
  /\ queued' = (queued \/ Wakes(kind, cache[kind], server[kind]))
  /\ cache' = [cache EXCEPT ![kind] = server[kind]]
  /\ watch' = [watch EXCEPT ![kind] = << >>]
  /\ UNCHANGED <<server, pc, uid, monitored, policies>>

--------------------------------------------------------------------------------
(***************************************************************************)
(* The reconciler.                                                         *)
(***************************************************************************)
\* Fault for the mutants: an error is not returned.
GiveUp ==
  /\ pc' = "idle"
  /\ UNCHANGED <<queued, monitored>>

Requeue ==
  /\ pc' = "idle"
  /\ queued' = TRUE
  /\ UNCHANGED monitored

\* An existing monitor is kept.
RegisterMonitor == monitored' = TRUE

\* After a call that changed something: the answer may be lost.
Answered(goOn) ==
  \/ goOn /\ UNCHANGED budget
  \/ Spend("fault") /\ Requeue

Reconcile ==
  /\ pc = "idle" /\ queued
  /\ \/ /\ cache.workload = 0
        /\ queued' = FALSE
        /\ UNCHANGED <<pc, uid, monitored>>
     \/ /\ cache.workload # 0 /\ cache.reco.owner # 0    \* already exists
        /\ queued' = FALSE
        /\ RegisterMonitor
        /\ UNCHANGED <<pc, uid>>
     \/ /\ cache.workload # 0 /\ cache.reco.owner = 0 /\ ~policies
        /\ Requeue
        /\ UNCHANGED uid
     \/ /\ cache.workload # 0 /\ cache.reco.owner = 0 /\ policies
        /\ queued' = FALSE
        /\ pc' = "create"
        /\ uid' = cache.workload
        /\ UNCHANGED monitored
  /\ UNCHANGED <<informerVars, policies, budget>>

createPolicyRecommendation ==
  /\ pc = "create"
  /\ IF server.reco.owner # 0
       THEN Requeue /\ UNCHANGED <<informerVars, budget>>
       ELSE /\ Write("reco", [owner |-> uid, initialized |-> FALSE])
            /\ Answered(pc' = "patch" /\ UNCHANGED <<queued, monitored>>)
  /\ UNCHANGED <<uid, policies>>

\* Fault for the mutants: the patch creates what is missing.
PatchOrCreate ==
  /\ pc = "patch"
  /\ Write("reco", [server.reco EXCEPT !.initialized = TRUE])
  /\ Answered(pc' = "idle" /\ RegisterMonitor /\ UNCHANGED queued)
  /\ UNCHANGED <<uid, policies>>

\* That the object is gone again is no error.
PatchInitialized ==
  /\ pc = "patch"
  /\ IF server.reco.owner = 0
       THEN UNCHANGED informerVars
       ELSE Write("reco", [server.reco EXCEPT !.initialized = TRUE])
  /\ Answered(pc' = "idle" /\ RegisterMonitor /\ UNCHANGED queued)
  /\ UNCHANGED <<uid, policies>>

Fails ==
  /\ pc # "idle"
  /\ Spend("fault")
  /\ Requeue
  /\ UNCHANGED <<informerVars, uid, policies>>

\* A new process has no monitors and sees a create event of every workload.
Crash ==
  /\ Spend("crash")
  /\ cache' = server
  /\ watch' = [k \in Kind |-> << >>]
  /\ queued' = (isWhitelistedNamespace /\ server.workload # 0)
  /\ pc' = "idle"
  /\ monitored' = FALSE
  /\ UNCHANGED <<server, uid, policies>>

--------------------------------------------------------------------------------
(***************************************************************************)
(* The cluster and its users.                                              *)
(***************************************************************************)
CreateWorkload ==
  /\ server.workload = 0
  /\ Spend("workload")
  /\ Write("workload", MaxWorkloads - budget'.workload)
  /\ UNCHANGED <<controllerVars, policies>>

DeleteWorkload ==
  /\ server.workload # 0
  /\ Write("workload", 0)
  /\ UNCHANGED <<controllerVars, policies, budget>>

CollectGarbage ==
  /\ server.reco.owner \notin {0, server.workload}
  /\ Write("reco", NoReco)
  /\ UNCHANGED <<controllerVars, policies, budget>>

DeleteReco ==
  /\ server.reco.owner # 0
  /\ Spend("deletion")
  /\ Write("reco", NoReco)
  /\ UNCHANGED <<controllerVars, policies>>

InstallPolicies ==
  /\ ~policies
  /\ policies' = TRUE
  /\ UNCHANGED <<informerVars, controllerVars, budget>>

Register == Reconcile \/ createPolicyRecommendation \/ PatchInitialized

Next ==
  \/ \E kind \in Kind : Deliver(kind) \/ Relist(kind)
  \/ Register
  \/ Fails
  \/ Crash
  \/ CreateWorkload
  \/ DeleteWorkload
  \/ CollectGarbage
  \/ DeleteReco
  \/ InstallPolicies

Spec == Init /\ [][Next]_vars

(***************************************************************************)
(* Informers deliver, the worker runs, the garbage collector collects, and *)
(* policies are installed some time.                                       *)
(***************************************************************************)
FairSpec ==
  /\ Spec
  /\ \A kind \in Kind : WF_vars(Deliver(kind))
  /\ WF_vars(Register)
  /\ WF_vars(CollectGarbage)
  /\ WF_vars(InstallPolicies)

--------------------------------------------------------------------------------
(***************************************************************************)
(* In the end a workload that stays has a PolicyRecommendation of its own, *)
(* not one of a predecessor of its name, and a monitor, whatever was       *)
(* deleted, failed or was missed before.  (One thing must not be missed:   *)
(* the deletion of a PolicyRecommendation whose creation was missed too,   *)
(* so Relisted is {"workload"} where this is checked.)                     *)
(***************************************************************************)
Registered ==
  server.workload # 0 => server.reco.owner = server.workload /\ monitored

RegistersInTheEnd == <>[]Registered

\* Nothing is left to do; the garbage is collected too.
Quiet ==
  /\ pc = "idle" /\ ~queued
  /\ \A kind \in Kind : watch[kind] = << >>
  /\ server.reco.owner \in {0, server.workload}

(***************************************************************************)
(* The registrar is never at rest with work left: a failed call, an event  *)
(* that found nothing, a workload of an old UID or the deletion of a       *)
(* PolicyRecommendation that was just created leave a request, a version   *)
(* that will wake it, or garbage (policyrecommendation_registrar.go,       *)
(* createPredicate, deletePredicate and the errors Reconcile returns).     *)
(* With the exception above: Relisted must not have "reco".                *)
(***************************************************************************)
QuietIsRegistered == isWhitelistedNamespace /\ Quiet => Registered

(***************************************************************************)
(* api/v1alpha1: a PolicyRecommendation is initialized post the creation   *)
(* of a workload.                                                          *)
(***************************************************************************)
QuietIsInitialized == Quiet /\ server.reco.owner # 0 => server.reco.initialized

================================================================================
