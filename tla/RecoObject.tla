------------------------------ MODULE RecoObject -------------------------------
(***************************************************************************)
(* One PolicyRecommendation object: the API server's copy of it, the       *)
(* informer's cache of it that every controller reads, and the versions    *)
(* the watch has not delivered yet.                                        *)
(*                                                                         *)
(* A condition of the status is owned by the field managers that applied   *)
(* it.  Server-side apply removes a condition a manager leaves out of its  *)
(* patch when no other manager owns it (the list of conditions is a map    *)
(* keyed by type).  Ownership is kept per condition here, not per field of *)
(* a condition.  The conditions of other managers (Initialized,            *)
(* HasBreached, HPAEnforced) are no concern of these actors.               *)
(***************************************************************************)
EXTENDS RecoWorkflow, Sequences

CONSTANT MaxLag \* bound: versions of the object the watch may be behind

ASSUME LagAssumption == MaxLag \in Nat \ {0}

VARIABLES
  server, \* the API server's copy
  watch,  \* the versions on their way to the cache, oldest first
  cache,  \* the informer's copy
  fresh   \* the clients whose copy, read for an Update, is still the newest version

objectVars == <<server, watch, cache, fresh>>

\* PolicyRecoWorkflowCtrlName and RecoQueuedStatusManager
Manager == {"workflow", "queued"}

ConditionType == {"RecoTaskProgress", "RecoTaskQueued", "TargetRecoAchieved"}

\* "none": there is no such condition.  RecoTaskProgress is told by its reason,
\* the other two by their status.
ConditionValue == {"none", "InProgress", "Errored", "Generated", "True", "False"}

\* A client that reads the object, changes it and sends it back with Update
Updater == {"handler", "deployment"}

PolicyRecommendationSpec ==
  [ queued : BOOLEAN,         \* QueuedForExecution
    queuedAt : Nat,           \* QueuedForExecutionAt
    generatedAt : Nat,
    transitionedAt : Nat,
    policy : MaybePolicy,
    target : HPAConfiguration,    \* TargetHPAConfiguration
    current : HPAConfiguration ]  \* CurrentHPAConfiguration

Conditions ==
  [ConditionType -> [value : ConditionValue, owners : SUBSET Manager]]

PolicyRecommendation == [spec : PolicyRecommendationSpec, conditions : Conditions]

NoConditions == [t \in ConditionType |-> [value |-> "none", owners |-> {}]]

ObjectTypeOK ==
  /\ server \in PolicyRecommendation
  /\ cache \in PolicyRecommendation
  /\ watch \in Seq(PolicyRecommendation)
  /\ fresh \subseteq Updater

--------------------------------------------------------------------------------
(***************************************************************************)
(* The conditions after `manager` applies a status patch that holds        *)
(* exactly the conditions of `patch`, with ForceOwnership.                 *)
(***************************************************************************)
ApplyConditions(conditions, manager, patch) ==
  [ t \in ConditionType |->
      IF t \in DOMAIN patch
        THEN [value |-> patch[t], owners |-> conditions[t].owners \cup {manager}]
        ELSE LET others == conditions[t].owners \ {manager}
             IN  [ value |-> IF others = {} THEN "none" ELSE conditions[t].value,
                   owners |-> others ] ]

(***************************************************************************)
(* A write that succeeds makes a new version, which no client has read.    *)
(***************************************************************************)
Write(object) ==
  /\ Len(watch) < MaxLag
  /\ server' = object
  /\ watch' = Append(watch, object)
  /\ fresh' = {}
  /\ cache' = cache

StatusPatch(manager, patch) ==
  Write([server EXCEPT !.conditions = ApplyConditions(@, manager, patch)])

(***************************************************************************)
(* A client reads the cache before an Update.  The Update is accepted only *)
(* while that copy has the newest resource version.                        *)
(***************************************************************************)
GetForUpdate(client) ==
  /\ fresh' = IF watch = << >> THEN fresh \cup {client} ELSE fresh \ {client}
  /\ UNCHANGED <<server, watch, cache>>

Conflict(client) == client \notin fresh

\* The copy is the server's object, as there was no conflict.
UpdateQueued(client, now) ==
  /\ ~Conflict(client)
  /\ Write([server EXCEPT !.spec.queued = TRUE, !.spec.queuedAt = now])

(***************************************************************************)
(* The informer starts from a list.                                        *)
(***************************************************************************)
Relist ==
  /\ cache' = server
  /\ watch' = << >>
  /\ fresh' = {}
  /\ UNCHANGED server

================================================================================
