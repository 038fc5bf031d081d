------------------------- MODULE EnforcementProperties -------------------------
(***************************************************************************)
(* What HPAEnforcement promises.                                           *)
(***************************************************************************)
EXTENDS HPAEnforcement

(***************************************************************************)
(* The autoscalers are what the finished recommendation and the workload's *)
(* annotation ask for.                                                     *)
(***************************************************************************)
Wanted == Verdict(server.reco.config, server.workload, server.autoscalers)

InSync ==
  isInitialized(server.reco) /\ isRecoGenerated(server.reco) =>
    /\ Wanted \in {"InvalidPolicyReco", "Disabled"} => server.autoscalers.by # "ottoscalr"
    /\ Wanted = "Created" /\ ~IsDryRun => /\ server.autoscalers.by = "ottoscalr"
                                          /\ server.autoscalers.config = server.reco.config

Quiet == pc = "idle" /\ ~queued /\ \A kind \in Kind : watch[kind] = << >>

--------------------------------------------------------------------------------
(***************************************************************************)
(* The controller enforces only configurations of recommendations that     *)
(* were finished, and that qualify, though it reads the object while       *)
(* RecoController writes it in three patches (isRecoGenerated).            *)
(***************************************************************************)
EnforcesFinished ==
  server.autoscalers.by = "ottoscalr" =>
    /\ server.autoscalers.config \in published
    /\ Qualifies(server.autoscalers.config)

(***************************************************************************)
(* The patch of HPAEnforced does not disturb the recommendation it is      *)
(* written into: whatever the controller, its informers and users do, the  *)
(* object goes on behaving as RecoCycle says (hpaenforcement_controller.go *)
(* 281-289, which applies one condition and not the copy that was read).   *)
(***************************************************************************)
Cycle ==
  INSTANCE RecoCycle WITH
    Configuration <- HPAConfiguration,
    NoConfiguration <- NoConfig,
    progress <- IF server.reco.generated THEN "Generated" ELSE "InProgress",
    config <- server.reco.config

LeavesCycleAlone == Cycle!Spec

(***************************************************************************)
(* Once the environment calms down the autoscaler is and stays what is     *)
(* asked for: recommendations keep coming, and every one of them repairs   *)
(* what a lagging cache, a lost watch, a failed call, a crash, a user or   *)
(* the deletion of the autoscaler left behind (Reconcile is idempotent and *)
(* reads all its input).                                                   *)
(***************************************************************************)
Heals == <>[]InSync

(***************************************************************************)
(* A workload whose autoscaler the controller removed is back at its       *)
(* maximum of replicas, once nothing is left to do                         *)
(* (deleteControllerManagedAutoscaler and hpaenforcement_controller_test,  *)
(* which expects the replicas to be the maximum).  The code does so unless *)
(* a call fails or the process crashes between the deletion and the reset, *)
(* or somebody else removes or replaces the autoscaler.                    *)
(***************************************************************************)
Undisturbed == /\ budget.fault = MaxFaults
               /\ budget.crash = MaxCrashes
               /\ budget.user = MaxUsers
               /\ budget.deletion = MaxDeletions

ReplicasAreReset ==
  Quiet /\ Undisturbed /\ server.autoscalers.by = "none" =>
    \E c \in Configs : replicas = c.Max

================================================================================
