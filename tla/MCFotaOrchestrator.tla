------------------------- MODULE MCFotaOrchestrator -------------------------
(***************************************************************************)
(* Constants of the model-checking runs of FotaOrchestrator.               *)
(***************************************************************************)
EXTENDS FotaOrchestrator

CONSTANTS task1, task2, rev1, rev2

OneRevision == [t \in Tasks |-> rev1]
RevisionPerTask == [t \in Tasks |-> IF t = task1 THEN rev1 ELSE rev2]

(* What a cloud that follows the VehicleTask diagram answers to a final    *)
(* result, and the same with a return to detection, as from Paused.        *)
DiagramStatuses == {"Completed", "Ended", "RetryPending", "RollbackPending", "Paused", "None"}
WithRedetection == DiagramStatuses \cup {"Discovered"}
=============================================================================
