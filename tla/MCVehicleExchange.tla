------------------------- MODULE MCVehicleExchange -------------------------
(***************************************************************************)
(* Constants of the model-checking run of VehicleExchange: requests of     *)
(* step(), two of them of one type, and the acknowledgements of workers.   *)
(***************************************************************************)
EXTENDS VehicleExchange

CONSTANTS step, w1, w2

Req(id, type, size) == [id |-> id, type |-> type, size |-> size]

SomeRequests ==
    [c \in {step, w1, w2} |->
        CASE c = step -> {Req("event-1", "ExecutionEvent", "fits"),
                          Req("event-2", "ExecutionEvent", "fits"),
                          Req("consent", "ConsentReport", "envelope"),
                          Req("log", "LogUploadResult", "payload")}
          [] c = w1 -> {Req("ctrlack-1", "ControlAckReport", "fits")}
          [] c = w2 -> {Req("ctrlack-2", "ControlAckReport", "fits")}]

(* What InFlightIsBounded is proved from.                                  *)
ASSUME NoIdIsShared == IdsAreOwn
=============================================================================
