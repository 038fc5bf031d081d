----------------------------- MODULE PolicyWatcher -----------------------------
(***************************************************************************)
(* The policy watcher (pkg/controller/policy_controller.go): it keeps at   *)
(* most one policy marked default and holds a policy that is deleted until *)
(* the PolicyRecommendations that are at it have been queued again.        *)
(*                                                                         *)
(* One worker reconciles the policies of the workqueue, one at a time.  It *)
(* reads an informer's cache and updates the API server, which accepts an  *)
(* update only of the newest version of an object.                         *)
(***************************************************************************)
EXTENDS Integers, Sequences, FiniteSets

CONSTANTS
  Policy,       \* the names of the policies
  MaxMarks,     \* bound: times a user changes IsDefault
  MaxDeletions, \* bound: policies a user deletes
  MaxFaults,    \* bound: failing calls
  MaxCrashes    \* bound: restarts of the process

ASSUME WatcherAssumption ==
  {MaxMarks, MaxDeletions, MaxFaults, MaxCrashes} \subseteq Nat

VARIABLES
  server, \* the policies
  watch,  \* the versions not delivered yet, of all policies in one order
  cache,  \* the policies as the informer delivered them
  queue,  \* the workqueue
  pc,     \* where the worker is
  policy, \* its copy of the policy it reconciles, and the policy's name
  others, \* the policies it still has to mark non-default, as it listed them
  warned, \* history: the policies at which, since they were deleted, all
          \* PolicyRecommendations were queued
  budget  \* what is left of the bounds

informerVars == <<server, watch, cache>>
workerVars == <<queue, pc, policy, others>>
vars == <<informerVars, workerVars, warned, budget>>

Phase == {"absent", "live", "deleting"}

Object == [phase : Phase, isDefault : BOOLEAN, finalizer : BOOLEAN, version : Nat]

TypeOK ==
  /\ server \in [Policy -> Object]
  /\ \A p \in Policy : /\ server[p].phase = "deleting" => server[p].finalizer
                       /\ server[p].phase = "absent" => ~server[p].finalizer
  /\ watch \in Seq([name : Policy, object : Object])
  /\ cache \in [Policy -> Object]
  /\ queue \subseteq Policy
  /\ pc \in {"idle", "addFinalizer", "requeue", "removeFinalizer", "undefault"}
  /\ policy \in [name : Policy, object : Object]
  /\ others \subseteq [name : Policy, version : Nat]
  /\ warned \subseteq Policy
  /\ budget \in [mark : Nat, deletion : Nat, fault : Nat, crash : Nat]

(***************************************************************************)
(* The policies are created, one of them as default, and the process       *)
(* starts.                                                                 *)
(***************************************************************************)
Init ==
  /\ \E d \in Policy :
       server = [p \in Policy |-> [phase |-> "live", isDefault |-> p = d,
                                   finalizer |-> FALSE, version |-> 1]]
  /\ watch = << >>
  /\ cache = server
  /\ queue = Policy
  /\ pc = "idle"
  /\ policy \in [name : Policy, object : {server[p] : p \in Policy}]
  /\ policy.object = server[policy.name]
  /\ others = {}
  /\ warned = {}
  /\ budget = [mark |-> MaxMarks, deletion |-> MaxDeletions, fault |-> MaxFaults,
               crash |-> MaxCrashes]

Spend(what) ==
  /\ budget[what] > 0
  /\ budget' = [budget EXCEPT ![what] = @ - 1]

--------------------------------------------------------------------------------
(***************************************************************************)
(* The API server and the informer.                                        *)
(***************************************************************************)
Write(p, object) ==
  LET new == [object EXCEPT !.version = server[p].version + 1]
  IN  /\ server' = [server EXCEPT ![p] = new]
      /\ watch' = Append(watch, [name |-> p, object |-> new])
      /\ cache' = cache

\* Fault for the mutants: a change of the spec is not looked at.
phasePredicate(old, new) == old.phase # new.phase

(***************************************************************************)
(* reconcilePredicate or a new generation: the spec, or the deletion       *)
(* timestamp, changed; creations and deletions always.                     *)
(***************************************************************************)
reconcilePredicate(old, new) ==
  old.isDefault # new.isDefault \/ old.phase # new.phase

Deliver ==
  /\ watch # << >>
  /\ LET p == Head(watch).name
         new == Head(watch).object
     IN  /\ queue' = IF reconcilePredicate(cache[p], new) THEN queue \cup {p} ELSE queue
         /\ cache' = [cache EXCEPT ![p] = new]
  /\ watch' = Tail(watch)
  /\ UNCHANGED <<server, pc, policy, others, warned, budget>>

--------------------------------------------------------------------------------
\* Fault for the mutants: an error of the finalizer's removal is swallowed.
GiveUp ==
  /\ pc' = "idle"
  /\ queue' = IF pc = "removeFinalizer" THEN queue ELSE queue \cup {policy.name}
  /\ UNCHANGED <<policy, others>>

(***************************************************************************)
(* The worker.                                                             *)
(***************************************************************************)
Requeue ==
  /\ pc' = "idle"
  /\ queue' = queue \cup {policy.name}
  /\ UNCHANGED <<policy, others>>

\* An update of a copy that is not the newest version, or of nothing, fails.
Stale(p, version) == server[p].phase = "absent" \/ server[p].version # version

\* Fault for the mutants: a policy that is deleted is let go at once.
ReconcileHastily(p) ==
  /\ pc = "idle" /\ p \in queue
  /\ queue' = queue \ {p}
  /\ IF cache[p].phase = "absent"
       THEN UNCHANGED <<pc, policy>>
       ELSE /\ policy' = [name |-> p, object |-> cache[p]]
            /\ pc' = IF cache[p].phase = "deleting" THEN "removeFinalizer" ELSE "addFinalizer"
  /\ UNCHANGED <<informerVars, others, warned, budget>>

Reconcile(p) ==
  /\ pc = "idle" /\ p \in queue
  /\ queue' = queue \ {p}
  /\ IF cache[p].phase = "absent"
       THEN UNCHANGED <<pc, policy>>
       ELSE /\ policy' = [name |-> p, object |-> cache[p]]
            /\ pc' = IF cache[p].finalizer THEN "requeue" ELSE "addFinalizer"
  /\ UNCHANGED <<informerVars, others, warned, budget>>

\* Fault for the mutants: written whatever has become of the policy.
forceFinalizer ==
  /\ pc = "addFinalizer"
  /\ Write(policy.name, [server[policy.name] EXCEPT !.finalizer = TRUE])
  /\ policy' = [policy EXCEPT !.object = server'[policy.name]]
  /\ pc' = "requeue"
  /\ UNCHANGED <<queue, others, warned, budget>>

addFinalizer ==
  /\ pc = "addFinalizer"
  /\ ~Stale(policy.name, policy.object.version)
  /\ Write(policy.name, [policy.object EXCEPT !.finalizer = TRUE])
  /\ policy' = [policy EXCEPT !.object = server'[policy.name]]
  /\ pc' = "requeue"
  /\ UNCHANGED <<queue, others, warned, budget>>

(***************************************************************************)
(* handleReconcilation queues every PolicyRecommendation at this policy.   *)
(* What follows is read off the copy of the policy.                        *)
(***************************************************************************)
handleReconcilation ==
  /\ pc = "requeue"
  /\ warned' = IF policy.object.phase = "deleting" THEN warned \cup {policy.name} ELSE warned
  /\ pc' = CASE policy.object.phase = "deleting" -> "removeFinalizer"
             [] policy.object.phase = "live" /\ policy.object.isDefault -> "undefault"
             [] OTHER -> "idle"
  /\ others' = { [name |-> q, version |-> cache[q].version] :
                  q \in {q \in Policy \ {policy.name} :
                          cache[q].phase # "absent" /\ cache[q].isDefault} }
  /\ UNCHANGED <<informerVars, queue, policy, budget>>

removeFinalizer ==
  /\ pc = "removeFinalizer"
  /\ ~Stale(policy.name, policy.object.version)
  /\ Write(policy.name, [policy.object EXCEPT !.phase = "absent", !.finalizer = FALSE,
                                              !.isDefault = FALSE])
  /\ pc' = "idle"
  /\ UNCHANGED <<queue, policy, others, warned, budget>>

(***************************************************************************)
(* The other default policies are marked non-default one by one, in the    *)
(* versions that were listed, then all PolicyRecommendations are queued.   *)
(***************************************************************************)
Undefault ==
  /\ pc = "undefault"
  /\ \E q \in others :
       /\ ~Stale(q.name, q.version)
       /\ Write(q.name, [server[q.name] EXCEPT !.isDefault = FALSE])
       /\ others' = others \ {q}
  /\ UNCHANGED <<queue, pc, policy, warned, budget>>

Undefaulted ==
  /\ pc = "undefault" /\ others = {}
  /\ pc' = "idle"
  /\ UNCHANGED <<informerVars, queue, policy, others, warned, budget>>

Conflict ==
  /\ \/ pc \in {"addFinalizer", "removeFinalizer"} /\ Stale(policy.name, policy.object.version)
     \/ pc = "undefault" /\ \E q \in others : Stale(q.name, q.version)
  /\ Requeue
  /\ UNCHANGED <<informerVars, warned, budget>>

Fails ==
  /\ pc # "idle"
  /\ Spend("fault")
  /\ Requeue
  /\ UNCHANGED <<informerVars, warned>>

\* A new process lists the policies; their create events pass the filter.
Crash ==
  /\ Spend("crash")
  /\ pc' = "idle"
  /\ cache' = server
  /\ watch' = << >>
  /\ queue' = {p \in Policy : server[p].phase # "absent"}
  /\ UNCHANGED <<server, policy, others, warned>>

--------------------------------------------------------------------------------
(***************************************************************************)
(* Users mark, unmark and delete policies.  The API server removes an      *)
(* object without finalizers at once.                                      *)
(***************************************************************************)
Mark(p) ==
  /\ Spend("mark")
  /\ server[p].phase = "live"
  /\ Write(p, [server[p] EXCEPT !.isDefault = ~@])
  /\ UNCHANGED <<workerVars, warned>>

Delete(p) ==
  /\ Spend("deletion")
  /\ server[p].phase = "live"
  /\ Write(p, IF server[p].finalizer
                THEN [server[p] EXCEPT !.phase = "deleting"]
                ELSE [server[p] EXCEPT !.phase = "absent", !.isDefault = FALSE])
  /\ UNCHANGED <<workerVars, warned>>

Work ==
  \/ \E p \in Policy : Reconcile(p)
  \/ addFinalizer
  \/ handleReconcilation
  \/ removeFinalizer
  \/ Undefault
  \/ Undefaulted
  \/ Conflict

Next ==
  \/ Deliver
  \/ Work
  \/ Fails
  \/ Crash
  \/ \E p \in Policy : Mark(p) \/ Delete(p)

Spec == Init /\ [][Next]_vars

\* The informer delivers and the worker runs.
FairSpec == Spec /\ WF_vars(Deliver) /\ WF_vars(Work)

--------------------------------------------------------------------------------
Quiet == pc = "idle" /\ queue = {} /\ watch = << >>

Defaults == {p \in Policy : server[p].phase = "live" /\ server[p].isDefault}

(***************************************************************************)
(* When nothing is left to do at most one policy is the default, though    *)
(* users mark several at a time, updates conflict and the list of other    *)
(* policies is a cached one (Reconcile: "ensure no other policy is marked  *)
(* as default").                                                           *)
(***************************************************************************)
AtMostOneDefault == Quiet => Cardinality(Defaults) <= 1

(***************************************************************************)
(* A policy that a user deletes is gone in the end: conflicting updates,   *)
(* failures and restarts do not leave its finalizer behind.                *)
(***************************************************************************)
DeletionFinishes ==
  \A p \in Policy : server[p].phase = "deleting" ~> server[p].phase = "absent"

(***************************************************************************)
(* The watcher lets go of a policy only after the PolicyRecommendations at *)
(* it were queued, since it was deleted (the finalizer's purpose).         *)
(***************************************************************************)
WarnedBeforeGone ==
  [][ \A p \in Policy :
        server[p].phase = "deleting" /\ server'[p].phase = "absent" => p \in warned ]_server

================================================================================
