----------------------------- MODULE FotaStates -----------------------------
(***************************************************************************)
(* The two state machines of the vehicle side of a FOTA campaign, as       *)
(* vehicle_task_state.cpp and execution_state.cpp declare them: the life   *)
(* of a VehicleTask with the transitions its documentation calls valid,    *)
(* and the states of one installation attempt (Execution).  The program    *)
(* does not call the transition predicates; FotaOrchestrator states how    *)
(* far it follows the first.                                               *)
(***************************************************************************)

VehicleTaskStates ==
    {"None", "Discovered", "ConsentPending", "DownloadPending", "Downloading",
     "Ready", "WaitingWindow", "PermitPending", "Executing", "RetryPending",
     "RollbackPending", "Paused", "Completed", "Ended"}

ExecutionStates ==
    {"PermitPersisted", "Ready", "InstallStarted", "Install", "Reboot",
     "PostCheck", "Rollback", "ResultPending", "Succeeded", "Failed",
     "RolledBack", "Canceled"}

IsTerminalVehicleTask(s) == s \in {"Completed", "Ended"}

-----------------------------------------------------------------------------

(* documentedTransition of vehicle_task_state.cpp: the arrows of the       *)
(* VehicleTask diagram, as a set of pairs.                                 *)
DocumentedVehicleTask ==
    {<<"None", "Discovered">>}
      \cup {"Discovered"} \X {"ConsentPending", "DownloadPending", "Paused"}
      \cup {"ConsentPending"} \X {"DownloadPending", "Ended"}
      \cup {<<"DownloadPending", "Downloading">>, <<"Downloading", "Ready">>}
      \cup {"Ready"} \X {"WaitingWindow", "Paused"}
      \cup {<<"WaitingWindow", "PermitPending">>, <<"PermitPending", "Executing">>}
      \cup {"Executing"} \X {"RetryPending", "RollbackPending", "Completed", "Paused"}
      \cup {<<"RetryPending", "PermitPending">>, <<"RollbackPending", "Executing">>}
      \cup {"Paused"} \X {"Discovered", "Ended"}

(* A self transition is always valid, a terminal state is never left, and  *)
(* every other state may escape to Ended.                                  *)
IsValidVehicleTaskTransition(from, to) ==
    \/ from = to
    \/ /\ ~IsTerminalVehicleTask(from)
       /\ to = "Ended" \/ <<from, to>> \in DocumentedVehicleTask

-----------------------------------------------------------------------------

(* fromProtoVehicleTask followed by doFinalize's default: the cloud's      *)
(* VehicleTaskStatus names are those of the states, and UNSPECIFIED, which *)
(* maps to None, is taken as Completed.                                    *)
Mut_StateFromCloud(status) == status
StateFromCloud(status) == IF status = "None" THEN "Completed" ELSE status
=============================================================================
