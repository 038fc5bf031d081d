---------------------------- MODULE HPAEnforcement -----------------------------
(***************************************************************************)
(* The enforcement controller                                              *)
(* (pkg/controller/hpaenforcement_controller.go) for one                   *)
(* PolicyRecommendation: it keeps an autoscaler for the workload at the    *)
(* configuration of the last finished recommendation, or removes it.       *)
(*                                                                         *)
(* The API server holds three kinds of objects, each with an informer:     *)
(*   "reco"        the PolicyRecommendation, as far as it is read here,    *)
(*   "workload"    its enable/skip-hpa-enforcement annotation,             *)
(*   "autoscalers" the HPAs whose scale target is the workload: the one    *)
(*                 with the workload's name, and whether there is another. *)
(* Autoscalers are those of pkg/autoscaler/hpa_client_v2.go.               *)
(*                                                                         *)
(* A step of the controller is one call that changes the API server,       *)
(* together with the reads of caches before it: a cache is read by this    *)
(* controller only, so a delivery between two reads of different caches    *)
(* may as well come after both.                                            *)
(***************************************************************************)
EXTENDS Integers, Sequences

CONSTANTS
  Configs,             \* the configurations that are recommended
  UserConfig,          \* the configuration of an autoscaler a user created
  MinRequiredReplicas, \* hpaEnforcer.minRequiredReplicas
  WhitelistMode,       \* hpaEnforcer.whitelistMode
  IsDryRun,            \* hpaEnforcer.isDryRun
  Namespace,           \* the namespace of the workload
  IncludedNamespaces,
  ExcludedNamespaces,
  MaxLag,              \* bound: versions of an object its informer is behind
  MaxConfigs,          \* bound: recommendations that change the configuration
  MaxAnnotations,      \* bound: changes of the annotation
  MaxUsers,            \* bound: autoscalers users create or delete
  MaxDeletions,        \* bound: deletions of the controller's autoscaler by others
  MaxRelists,          \* bound: informers that lose their watch
  MaxFaults,           \* bound: failing calls
  MaxCrashes,          \* bound: restarts of the process
  MaxTroubles          \* bound: of the last five, altogether

NoConfig == [Min |-> 0, Max |-> 0, TargetMetricValue |-> 0]

HPAConfiguration == [Min : Nat, Max : Nat, TargetMetricValue : Nat]

ASSUME EnforcementAssumption ==
  /\ Configs \subseteq HPAConfiguration
  /\ UserConfig \in HPAConfiguration \ {NoConfig}
  /\ MinRequiredReplicas \in Nat
  /\ {WhitelistMode, IsDryRun} \subseteq BOOLEAN
  /\ MaxLag \in Nat \ {0}
  /\ {MaxConfigs, MaxAnnotations, MaxUsers, MaxDeletions, MaxRelists, MaxFaults, MaxCrashes,
      MaxTroubles} \subseteq Nat

VARIABLES
  server,   \* the objects of each kind
  watch,    \* the versions not yet delivered by each informer
  cache,    \* the version each informer delivered last
  replicas, \* spec.replicas of the workload
  queued,   \* the workqueue holds the PolicyRecommendation
  pc,       \* where the reconciler is
  task,     \* its copy of the configuration and its verdict
  published,\* history: the configurations of finished recommendations
  budget    \* what is left of the bounds

informerVars == <<server, watch, cache>>
controllerVars == <<queued, pc, task>>
vars == <<informerVars, controllerVars, replicas, published, budget>>

Kind == {"reco", "workload", "autoscalers"}

(***************************************************************************)
(* The HPAEnforced condition by its reason; "none" when it is absent.      *)
(* "Created" has the status True, the others False.                        *)
(***************************************************************************)
Reason == {"Created", "AlreadyExists", "InvalidPolicyReco", "Disabled"}

Reco == [initialized : BOOLEAN, generated : BOOLEAN, config : HPAConfiguration,
         enforced : Reason \cup {"none"}]

\* The value of the annotation: strconv.ParseBool takes "other" for false.
Annotation == {"absent", "true", "other"}

(***************************************************************************)
(* by: who created the autoscaler that has the workload's name ("none":    *)
(* there is none); the created-by label tells the two apart.  config is    *)
(* its spec, other whether a user has one of another name.                 *)
(***************************************************************************)
Autoscalers == [by : {"none", "ottoscalr", "user"}, config : HPAConfiguration, other : BOOLEAN]

Objects == [reco : Reco, workload : Annotation, autoscalers : Autoscalers]

\* own: the version differs from the one before it in HPAEnforced.
Versions(S) == Seq([object : S, own : BOOLEAN])

Budget == [config : Nat, annotation : Nat, user : Nat, deletion : Nat,
           relist : Nat, fault : Nat, crash : Nat]

Exists(autoscalers) == autoscalers.by # "none" <=> autoscalers.config # NoConfig

TypeOK ==
  /\ server \in Objects /\ Exists(server.autoscalers)
  /\ watch \in [reco : Versions(Reco), workload : Versions(Annotation),
                autoscalers : Versions(Autoscalers)]
  /\ cache \in Objects
  /\ replicas \in Nat
  /\ queued \in BOOLEAN
  /\ pc \in {"idle", "delete", "scale", "enforce", "patch"}
  /\ task \in [config : HPAConfiguration, verdict : Reason]
  /\ published \subseteq HPAConfiguration
  /\ budget \in Budget

--------------------------------------------------------------------------------
(***************************************************************************)
(* What Reconcile finds.                                                   *)
(***************************************************************************)

isInitialized(reco) == reco.initialized

\* Fault for the mutants: the progress of the recommendation is not looked at.
isRecoStarted(reco) == TRUE

isRecoGenerated(reco) == reco.generated

Qualifies(config) ==
  /\ config.Max > MinRequiredReplicas
  /\ config.Min > MinRequiredReplicas
  /\ config.Min <= config.Max

\* By the enable annotation in whitelist mode, by the skip annotation in blacklist mode.
Allowed(annotation) == (annotation = "true") <=> WhitelistMode

UserManaged(autoscalers) == autoscalers.by = "user" \/ autoscalers.other

Verdict(config, annotation, autoscalers) ==
  CASE UserManaged(autoscalers) -> "AlreadyExists"
    [] ~UserManaged(autoscalers) /\ ~Qualifies(config) -> "InvalidPolicyReco"
    [] ~UserManaged(autoscalers) /\ Qualifies(config) /\ ~Allowed(annotation) -> "Disabled"
    [] OTHER -> "Created"

(***************************************************************************)
(* Which events queue the PolicyRecommendation (SetupWithManager).         *)
(***************************************************************************)

isWhitelistedNamespace ==
  IF IncludedNamespaces # {} THEN Namespace \in IncludedNamespaces
                             ELSE Namespace \notin ExcludedNamespaces

\* Fault for the mutants: the condition is the wrong way round.
ownUpdatePredicate(own) == own

\* The filter on the PolicyRecommendation: not what the controller itself wrote.
updatePredicate(own) == ~own

\* AnnotationChangedPredicate, then policyrecoEnqueueFunc.
policyrecoEnqueueFunc(old, new) == old # new

(***************************************************************************)
(* The handler of deleted autoscalers looks for the owners of a new, empty *)
(* object instead of those of the one that was deleted: there are none and *)
(* it queues nothing.                                                      *)
(***************************************************************************)
enqueueFunc(old, new) == FALSE

Wakes(kind, old, new, own) ==
  /\ isWhitelistedNamespace
  /\ CASE kind = "reco" -> updatePredicate(own)
       [] kind = "workload" -> policyrecoEnqueueFunc(old, new)
       [] kind = "autoscalers" -> enqueueFunc(old, new)

--------------------------------------------------------------------------------
Init ==
  /\ server = [ reco |-> [initialized |-> FALSE, generated |-> FALSE,
                          config |-> NoConfig, enforced |-> "none"],
                workload |-> "absent",
                autoscalers |-> [by |-> "none", config |-> NoConfig, other |-> FALSE] ]
  /\ watch = [k \in Kind |-> << >>]
  /\ cache = server
  /\ replicas \in {c.Max : c \in Configs}
  /\ queued = isWhitelistedNamespace
  /\ pc = "idle"
  /\ task = [config |-> NoConfig, verdict |-> "Disabled"]
  /\ published = {}
  /\ budget = [ config |-> MaxConfigs, annotation |-> MaxAnnotations, user |-> MaxUsers,
                deletion |-> MaxDeletions, relist |-> MaxRelists, fault |-> MaxFaults,
                crash |-> MaxCrashes ]

(***************************************************************************)
(* The API server.                                                         *)
(***************************************************************************)
Troubles == (MaxUsers - budget.user) + (MaxDeletions - budget.deletion)
             + (MaxRelists - budget.relist) + (MaxFaults - budget.fault)
             + (MaxCrashes - budget.crash)

Spend(what) ==
  /\ budget[what] > 0
  /\ what \notin {"config", "annotation"} => Troubles < MaxTroubles
  /\ budget' = [budget EXCEPT ![what] = @ - 1]

Write(kind, object, own) ==
  /\ server' = [server EXCEPT ![kind] = object]
  /\ watch' = [watch EXCEPT ![kind] = Append(@, [object |-> object, own |-> own])]
  /\ cache' = cache

\* A write by others, as far as the bound on the lag allows.
OthersWrite(kind, object) ==
  /\ Len(watch[kind]) < MaxLag
  /\ Write(kind, object, FALSE)

(***************************************************************************)
(* The informers.                                                          *)
(***************************************************************************)
Deliver(kind) ==
  /\ watch[kind] # << >>
  /\ LET event == Head(watch[kind])
     IN  /\ queued' = (queued \/ Wakes(kind, cache[kind], event.object, event.own))
         /\ cache' = [cache EXCEPT ![kind] = event.object]
  /\ watch' = [watch EXCEPT ![kind] = Tail(@)]
  /\ UNCHANGED <<server, pc, task, replicas, published, budget>>

(***************************************************************************)
(* An informer that lost its watch lists again and reports one update from *)
(* what it had to what there is.                                           *)
(***************************************************************************)
Relist(kind) ==
  /\ Len(watch[kind]) > 1
  /\ Spend("relist")
  /\ LET own == \E i \in DOMAIN watch[kind] : watch[kind][i].own
     IN  queued' = (queued \/ Wakes(kind, cache[kind], server[kind], own))
  /\ cache' = [cache EXCEPT ![kind] = server[kind]]
  /\ watch' = [watch EXCEPT ![kind] = << >>]
  /\ UNCHANGED <<server, pc, task, replicas, published>>

(***************************************************************************)
(* A new process lists all objects; a create event passes every filter.    *)
(***************************************************************************)
Crash ==
  /\ Spend("crash")
  /\ cache' = server
  /\ watch' = [k \in Kind |-> << >>]
  /\ queued' = isWhitelistedNamespace
  /\ pc' = "idle"
  /\ UNCHANGED <<server, task, replicas, published>>

--------------------------------------------------------------------------------
(***************************************************************************)
(* The reconciler.  After a call that changed the API server it goes on,   *)
(* or the answer was lost, and the error it returns queues the object      *)
(* again.  Fails is a call that changed nothing.                           *)
(***************************************************************************)
Requeue ==
  /\ pc' = "idle"
  /\ queued' = TRUE

Goto(step) ==
  \/ /\ pc' = step
     /\ UNCHANGED <<queued, budget>>
  \/ /\ Spend("fault")
     /\ Requeue

Reconcile ==
  /\ pc = "idle" /\ queued
  /\ queued' = FALSE
  /\ LET reco == cache.reco
         verdict == Verdict(reco.config, cache.workload, cache.autoscalers)
     IN  IF isInitialized(reco) /\ isRecoGenerated(reco)
           THEN /\ task' = [config |-> reco.config, verdict |-> verdict]
                /\ pc' = CASE verdict = "AlreadyExists" -> "patch"
                           [] verdict \in {"InvalidPolicyReco", "Disabled"} -> "delete"
                           [] verdict = "Created" -> IF IsDryRun THEN "idle" ELSE "enforce"
           ELSE UNCHANGED <<task, pc>>
  /\ UNCHANGED <<informerVars, replicas, published, budget>>

Fails ==
  /\ pc # "idle"
  /\ Spend("fault")
  /\ Requeue
  /\ UNCHANGED <<informerVars, task, replicas, published>>

\* Fault for the mutants: only the label is removed.
Unlabelled(autoscalers) == [autoscalers EXCEPT !.by = "none"]

(***************************************************************************)
(* deleteControllerManagedAutoscaler lists the autoscalers with the        *)
(* created-by label in the cache.  The deletion names the autoscaler: it   *)
(* hits whatever has the name.  When nothing has, the workload keeps its   *)
(* replicas; otherwise it is scaled to the maximum the list showed.        *)
(***************************************************************************)
Deleted(autoscalers) == [autoscalers EXCEPT !.by = "none", !.config = NoConfig]

deleteControllerManagedAutoscaler ==
  /\ pc = "delete"
  /\ LET listed == cache.autoscalers
         found == server.autoscalers
     IN  IF listed.by = "ottoscalr" /\ found.by # "none"
           THEN /\ Write("autoscalers", Deleted(found), FALSE)
                /\ task' = [task EXCEPT !.config = listed.config]
                /\ Goto(IF listed.config.Max = 0 THEN "patch" ELSE "scale")
           ELSE /\ pc' = "patch"
                /\ UNCHANGED <<informerVars, task, queued, budget>>
  /\ UNCHANGED <<replicas, published>>

\* Fault for the mutants: the workload is scaled to the minimum.
ScaleToMin ==
  /\ pc = "scale"
  /\ replicas' = task.config.Min
  /\ Goto("patch")
  /\ UNCHANGED <<informerVars, task, published>>

Scale ==
  /\ pc = "scale"
  /\ replicas' = task.config.Max
  /\ Goto("patch")
  /\ UNCHANGED <<informerVars, task, published>>

(***************************************************************************)
(* controllerutil.CreateOrUpdate: the cache decides between a create,      *)
(* which fails when the autoscaler exists, and an update of its spec alone *)
(* (not of its label), which fails when the copy is not the newest and is  *)
(* left out when it changes nothing.                                       *)
(***************************************************************************)
CreateOrUpdateAutoscaler ==
  /\ pc = "enforce"
  /\ LET copy == cache.autoscalers
         found == server.autoscalers
         create == copy.by = "none"
     IN  \/ /\ ~create /\ copy.config = task.config
            /\ pc' = "patch"
            /\ UNCHANGED <<informerVars, queued, budget>>
         \/ /\ IF create THEN found.by # "none"
                         ELSE copy.config # task.config /\ watch.autoscalers # << >>
            /\ Requeue
            /\ UNCHANGED <<informerVars, budget>>
         \/ /\ create /\ found.by = "none"
            /\ Write("autoscalers",
                     [found EXCEPT !.by = "ottoscalr", !.config = task.config], FALSE)
            /\ Goto("patch")
         \/ /\ ~create /\ copy.config # task.config /\ watch.autoscalers = << >>
            /\ Write("autoscalers", [found EXCEPT !.config = task.config], FALSE)
            /\ Goto("patch")
  /\ UNCHANGED <<task, replicas, published>>

\* Fault for the mutants: the configuration that was read is written back.
UpdateHPAEnforced ==
  /\ pc = "patch"
  /\ Write("reco", [server.reco EXCEPT !.config = task.config, !.enforced = task.verdict], TRUE)
  /\ Goto("idle")
  /\ UNCHANGED <<task, replicas, published>>

(***************************************************************************)
(* The patch of HPAEnforced stamps it with the time, to the second: a      *)
(* patch that repeats the condition within a second changes nothing.       *)
(***************************************************************************)
PatchHPAEnforced ==
  /\ pc = "patch"
  /\ LET patched == [server.reco EXCEPT !.enforced = task.verdict]
     IN  \/ Write("reco", patched, TRUE)
         \/ patched = server.reco /\ UNCHANGED informerVars
  /\ Goto("idle")
  /\ UNCHANGED <<task, replicas, published>>

--------------------------------------------------------------------------------
(***************************************************************************)
(* The rest of the system.  RecoController: a recommendation starts, sets  *)
(* the configuration, or leaves it, and finishes; the periodic trigger     *)
(* starts one again and again.                                             *)
(***************************************************************************)
Initialize ==
  /\ ~server.reco.initialized
  /\ OthersWrite("reco", [server.reco EXCEPT !.initialized = TRUE])
  /\ UNCHANGED <<controllerVars, replicas, published, budget>>

RecoStarts ==
  /\ server.reco.generated
  /\ OthersWrite("reco", [server.reco EXCEPT !.generated = FALSE])
  /\ UNCHANGED <<controllerVars, replicas, published, budget>>

RecoChanges ==
  /\ ~server.reco.generated
  /\ Spend("config")
  /\ \E c \in Configs : OthersWrite("reco", [server.reco EXCEPT !.config = c])
  /\ UNCHANGED <<controllerVars, replicas, published>>

RecoFinishes ==
  /\ ~server.reco.generated
  /\ server.reco.config # NoConfig
  /\ OthersWrite("reco", [server.reco EXCEPT !.generated = TRUE])
  /\ published' = published \cup {server.reco.config}
  /\ UNCHANGED <<controllerVars, replicas, budget>>

AnnotationChanges ==
  /\ Spend("annotation")
  /\ \E a \in Annotation \ {server.workload} : OthersWrite("workload", a)
  /\ UNCHANGED <<controllerVars, replicas, published>>

UserActs ==
  /\ Spend("user")
  /\ LET found == server.autoscalers
     IN  \/ /\ found.by = "none"
            /\ OthersWrite("autoscalers", [found EXCEPT !.by = "user", !.config = UserConfig])
         \/ /\ found.by = "user"
            /\ OthersWrite("autoscalers", Deleted(found))
         \/ OthersWrite("autoscalers", [found EXCEPT !.other = ~@])
  /\ UNCHANGED <<controllerVars, replicas, published>>

OthersDelete ==
  /\ Spend("deletion")
  /\ server.autoscalers.by = "ottoscalr"
  /\ OthersWrite("autoscalers", Deleted(server.autoscalers))
  /\ UNCHANGED <<controllerVars, replicas, published>>

\* The cluster's autoscaler scales the workload.
Autoscale ==
  /\ server.autoscalers.by # "none"
  /\ replicas' \in server.autoscalers.config.Min .. server.autoscalers.config.Max
  /\ UNCHANGED <<informerVars, controllerVars, published, budget>>

--------------------------------------------------------------------------------
Enforce ==
  \/ Reconcile
  \/ deleteControllerManagedAutoscaler
  \/ Scale
  \/ CreateOrUpdateAutoscaler
  \/ PatchHPAEnforced

Environment ==
  \/ Initialize
  \/ RecoStarts
  \/ RecoChanges
  \/ RecoFinishes
  \/ AnnotationChanges
  \/ UserActs
  \/ OthersDelete
  \/ Autoscale

Next ==
  \/ \E kind \in Kind : Deliver(kind) \/ Relist(kind)
  \/ Enforce
  \/ Fails
  \/ Crash
  \/ Environment

Spec == Init /\ [][Next]_vars

(***************************************************************************)
(* Informers deliver, the worker runs what is queued, the registrar sets   *)
(* Initialized, and the periodic trigger keeps recommendations coming.     *)
(* They come hours apart: a reconcile that again and again could start     *)
(* while the last one is finished does so (strong fairness).               *)
(***************************************************************************)
FairSpec ==
  /\ Spec
  /\ \A kind \in Kind : WF_vars(Deliver(kind))
  /\ WF_vars(Enforce)
  /\ SF_vars(Reconcile /\ isInitialized(cache.reco) /\ isRecoGenerated(cache.reco))
  /\ WF_vars(Initialize)
  /\ WF_vars(RecoStarts)
  /\ WF_vars(RecoFinishes)

================================================================================
