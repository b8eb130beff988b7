-------------------------- MODULE VehicleExchange --------------------------
(***************************************************************************)
(* A call of the FOTA cloud: FotaCloudProxyViaTransport, its codec and     *)
(* SomeIpVehicleMessageTransport::exchange, by several threads at once,    *)
(* beside the daemon's stop.                                               *)
(*                                                                         *)
(* A thread's step ends at an atomic flag, at a section under              *)
(* inflightMutex_, and where the framework or the clock can act.  Time is  *)
(* abstract: the deadline of an entry of the table is read off the system  *)
(* clock, which may be set, and so passes at any moment; the caller waits  *)
(* on the steady clock.  Outside are the framework, the TBOX and the       *)
(* cloud: a call may be delivered or not, answered late, twice, for        *)
(* another request, in a wrong form, or never.                             *)
(***************************************************************************)
EXTENDS Naturals, FiniteSets

CONSTANTS
    Stepper,       \* the thread that runs step(): main, then the timer
    Workers,       \* the downlink workers
    RequestsOf,    \* the requests of each thread: [id, type, size]
    MaxInFlight,   \* cfg.maxInFlight
    FailureCodes,  \* CGW-FW-03xx codes of a call the framework ends itself
    Nothing        \* no value

Callers == {Stepper} \cup Workers
Requests == UNION {RequestsOf[c] : c \in Callers}
Ids == {m.id : m \in Requests}

(* A message id is "req-" and the idempotency key, which names the call    *)
(* and the task, package, execution or revision it is about.               *)
ASSUME ExchangeAssumption ==
    /\ Stepper \notin Workers /\ IsFiniteSet(Workers)
    /\ MaxInFlight \in Nat
    /\ Nothing \notin Ids /\ Nothing \notin Requests
    /\ \A m, n \in Requests : m.id = n.id => m.type = n.type

(* No two threads make a call with the same id: so with one worker, the    *)
(* default, for only the workers acknowledge controls.  Two workers have   *)
(* the same id when both work on one control revision, delivered again.    *)
IdsAreOwn ==
    \A c, d \in Callers : \A m \in RequestsOf[c], n \in RequestsOf[d] : m.id = n.id => c = d

VARIABLES
    main,          \* where the daemon's stop stands
    stopping,      \* stopping_
    at, msg,       \* where each caller stands, and its request
    late,          \* the deadline of the caller's entry has passed
    table,         \* inflight_: from message ids to the caller that entered it
    answer,        \* what the caller's future holds
    result,        \* how the caller's last call ended
    received       \* the requests that reached the cloud

vars == <<main, stopping, at, msg, late, table, answer, result, received>>

-----------------------------------------------------------------------------
(* The typed methods of the proxy: the answer each request waits for.      *)
ResponseType ==
    [TaskCheckRequest |-> "TaskCheckResponse",
     ConsentReport |-> "ConsentResponse",
     DownloadGrantRequest |-> "DownloadGrantResponse",
     StageResultReport |-> "StageResultResponse",
     InstallPermitRequest |-> "InstallPermitResponse",
     ExecutionEvent |-> "EventResponse",
     ControlAckReport |-> "ControlAckResponse",
     FinalResultReport |-> "FinalResultResponse",
     LogGrantRequest |-> "LogGrantResponse",
     LogUploadResult |-> "LogResultResponse",
     ReconcileRequest |-> "ReconcileResponse",
     PolicyRequest |-> "PolicyResponse"]

(* What may be wrong with an answer besides its type and correlation.      *)
Defects == {"undecodable", "kind", "service", "version", "expired", "large", "empty", "unparsable"}

Answers(ids, types, defects) == [code : {"none"}, corr : ids, type : types, defect : defects]

AllTypes == {ResponseType[m.type] : m \in Requests}

Failures == [code : FailureCodes, corr : {Nothing}, type : {Nothing}, defect : {"none"}]

OutcomeOfCode(code) ==
    CASE code = "0305" -> "Timeout"
      [] code = "0306" -> "ProtocolError"
      [] code \in {"0307", "0308", "0309"} -> "Rejected"
      [] code = "0310" -> "Stopping"
      [] code \in {"0301", "0302", "0303", "0304"} -> "Unavailable"
      [] OTHER -> "Unknown"

(* What the transport makes of an answer.  One that came too late is the   *)
(* framework's: it completes no call.                                      *)
OutcomeOfAnswer(m, a) ==
    CASE a.defect = "undecodable" -> "ProtocolError"
      [] a.corr # m.id -> "ProtocolError"
      [] a.defect = "kind" -> "ProtocolError"
      [] a.defect \in {"service", "expired"} -> "Rejected"
      [] a.defect = "version" -> "VersionMismatch"
      [] a.defect = "large" -> "PayloadTooLarge"
      [] OTHER -> "Accepted"

(* FotaMessageCodec::decode.  It looks at the clock once more: any answer  *)
(* may have expired by then.                                               *)
Mut_CodecAccepts(m, a) ==
    /\ a.defect \notin {"service", "kind", "version", "expired", "empty", "unparsable"}
    /\ a.corr = m.id

CodecAccepts(m, a) ==
    /\ a.defect \notin {"service", "kind", "version", "expired", "empty", "unparsable"}
    /\ a.type = ResponseType[m.type]
    /\ a.corr = m.id

(* throwFor: what an outcome means to the business code.                   *)
KindOf(outcome) ==
    CASE outcome = "Unavailable" -> "Unavailable"
      [] outcome \in {"VersionMismatch", "PayloadTooLarge", "ProtocolError"} -> "Codec"
      [] outcome = "Stopping" -> "Internal"
      [] OTHER -> "Timeout"

(* What a call ends with, and the request it was made with.                *)
Returned(m, a) == [kind |-> "returned", value |-> a, request |-> m]
Thrown(m, outcome) == [kind |-> KindOf(outcome), value |-> Nothing, request |-> m]

-----------------------------------------------------------------------------
(* The in-flight table.                                                    *)
Evicted == [id \in {i \in DOMAIN table : ~late[table[i]]} |-> table[id]]

Mut_HasRoom(t) == Cardinality(DOMAIN t) <= MaxInFlight
HasRoom(t) == Cardinality(DOMAIN t) < MaxInFlight

Without(id) == [i \in DOMAIN table \ {id} |-> table[i]]

Ends(c, r) ==
    /\ at' = [at EXCEPT ![c] = "idle"]
    /\ result' = [result EXCEPT ![c] = r]
    /\ msg' = [msg EXCEPT ![c] = Nothing]

Goes(c, pc) == at' = [at EXCEPT ![c] = pc]

(* The checks before the table: stopping_, then the envelope, which        *)
(* encodeRequest has just made; its deadline may have passed since.        *)
Begin(c) ==
    /\ at[c] = "idle"
    /\ \E m \in RequestsOf[c] :
           \/ stopping /\ Ends(c, Thrown(m, "Stopping"))
           \/ ~stopping /\ Ends(c, Thrown(m, "Rejected"))
           \/ ~stopping /\ m.size = "payload" /\ Ends(c, Thrown(m, "PayloadTooLarge"))
           \/ /\ ~stopping /\ m.size # "payload"
              /\ Goes(c, "reserve")
              /\ msg' = [msg EXCEPT ![c] = m]
              /\ result' = [result EXCEPT ![c] = Nothing]
    /\ UNCHANGED <<main, stopping, late, table, answer, received>>

Reserve(c) ==
    /\ at[c] = "reserve"
    /\ IF msg[c].id \notin DOMAIN Evicted /\ HasRoom(Evicted)
       THEN /\ table' = [id \in DOMAIN Evicted \cup {msg[c].id} |->
                            IF id = msg[c].id THEN c ELSE table[id]]
            /\ late' = [late EXCEPT ![c] = FALSE]
            /\ Goes(c, "send") /\ UNCHANGED <<msg, result>>
       ELSE /\ table' = Evicted
            /\ Ends(c, Thrown(msg[c], "Rejected")) /\ UNCHANGED late
    /\ UNCHANGED <<main, stopping, answer, received>>

Mut_TooLarge(c) ==
    /\ at[c] = "send" /\ msg[c].size = "envelope"
    /\ Ends(c, Thrown(msg[c], "PayloadTooLarge"))
    /\ UNCHANGED <<main, stopping, late, table, answer, received>>

TooLarge(c) ==
    /\ at[c] = "send" /\ msg[c].size = "envelope"
    /\ table' = Without(msg[c].id)
    /\ Ends(c, Thrown(msg[c], "PayloadTooLarge"))
    /\ UNCHANGED <<main, stopping, late, answer, received>>

(* callAsync, without the framework's own retries.                         *)
Send(c) ==
    /\ at[c] = "send" /\ msg[c].size = "fits"
    /\ Goes(c, "wait")
    /\ \/ received' = received \cup {[id |-> msg[c].id, type |-> msg[c].type]}
       \/ UNCHANGED received
    /\ UNCHANGED <<main, stopping, msg, late, table, answer, result>>

(* wait_for ends with an answer or without.                                *)
TakeAnswer(c) ==
    /\ at[c] = "wait" /\ answer[c] # Nothing
    /\ Goes(c, "release")
    /\ UNCHANGED <<main, stopping, msg, late, table, answer, result, received>>

Mut_GiveUp(c) == FALSE

GiveUp(c) ==
    /\ at[c] = "wait" /\ answer[c] = Nothing
    /\ Goes(c, "release")
    /\ UNCHANGED <<main, stopping, msg, late, table, answer, result, received>>

Release(c) ==
    /\ at[c] = "release"
    /\ table' = Without(msg[c].id)
    /\ Goes(c, "finish")
    /\ UNCHANGED <<main, stopping, msg, late, answer, result, received>>

(* An unavailable service may by now be one of another version.            *)
Failed(outcome) == IF outcome = "Unavailable" THEN {outcome, "VersionMismatch"} ELSE {outcome}

(* The future stays with the framework when its caller has given up.       *)
Finish(c) ==
    /\ at[c] = "finish"
    /\ LET a == answer[c]
           m == msg[c]
       IN  CASE a = Nothing -> Ends(c, Thrown(m, "Timeout"))
             [] a.code # "none" -> \E o \in Failed(OutcomeOfCode(a.code)) : Ends(c, Thrown(m, o))
             [] OutcomeOfAnswer(m, a) # "Accepted" -> Ends(c, Thrown(m, OutcomeOfAnswer(m, a)))
             [] OTHER -> \/ CodecAccepts(m, a) /\ Ends(c, Returned(m, a))
                         \/ Ends(c, Thrown(m, "ProtocolError"))
    /\ answer' = [answer EXCEPT ![c] = Nothing]
    /\ UNCHANGED <<main, stopping, late, table, received>>

-----------------------------------------------------------------------------
(* Outside.  The cloud answers what has reached it, to whichever call and  *)
(* with an answer of any type; or an answer has a defect; or the framework *)
(* ends the call.                                                          *)
Answer(c) ==
    /\ at[c] = "wait" /\ answer[c] = Nothing
    /\ \E a \in Answers({m.id : m \in received} \cup {Nothing}, AllTypes, {"none"})
               \cup Answers({msg[c].id}, {ResponseType[msg[c].type]}, Defects)
               \cup Failures :
           answer' = [answer EXCEPT ![c] = a]
    /\ UNCHANGED <<main, stopping, at, msg, late, table, result, received>>

DeadlinePasses(c) ==
    /\ at[c] \in {"send", "wait", "release"} /\ ~late[c]
    /\ late' = [late EXCEPT ![c] = TRUE]
    /\ UNCHANGED <<main, stopping, at, msg, table, answer, result, received>>

-----------------------------------------------------------------------------
(* FotaDaemon::stop: the timer thread is joined, then the transport        *)
(* refuses new calls, joins its workers, waits a bounded time for the      *)
(* table to empty, releases the service and clears the table.              *)
JoinTimer ==
    /\ main = "running" /\ at[Stepper] = "idle"
    /\ main' = "timer" /\ at' = [at EXCEPT ![Stepper] = "off"]
    /\ UNCHANGED <<stopping, msg, late, table, answer, result, received>>

RefuseNew ==
    /\ main = "timer"
    /\ main' = "refusing" /\ stopping' = TRUE
    /\ UNCHANGED <<at, msg, late, table, answer, result, received>>

Mut_JoinWorkers ==
    /\ main = "refusing"
    /\ main' = "joined"
    /\ UNCHANGED <<stopping, at, msg, late, table, answer, result, received>>

JoinWorkers ==
    /\ main = "refusing" /\ \A w \in Workers : at[w] = "idle"
    /\ main' = "joined" /\ at' = [c \in Callers |-> "off"]
    /\ UNCHANGED <<stopping, msg, late, table, answer, result, received>>

ReleaseService ==
    /\ main = "joined"
    /\ main' = "released" /\ table' = [id \in {} |-> Nothing]
    /\ UNCHANGED <<stopping, at, msg, late, answer, result, received>>

-----------------------------------------------------------------------------
Init ==
    /\ main = "running" /\ stopping = FALSE
    /\ at = [c \in Callers |-> "idle"] /\ msg = [c \in Callers |-> Nothing]
    /\ late = [c \in Callers |-> FALSE]
    /\ table = [id \in {} |-> Nothing]
    /\ answer = [c \in Callers |-> Nothing]
    /\ result = [c \in Callers |-> Nothing]
    /\ received = {}

InCall(c) ==
    Reserve(c) \/ TooLarge(c) \/ Send(c) \/ TakeAnswer(c) \/ GiveUp(c) \/ Release(c) \/ Finish(c)

Stop == JoinTimer \/ RefuseNew \/ JoinWorkers \/ ReleaseService

Next ==
    \/ Stop
    \/ \E c \in Callers : Begin(c) \/ InCall(c) \/ Answer(c) \/ DeadlinePasses(c)

(* A caller in a call is scheduled, and its wait ends; so does stop(),     *)
(* whose workers enter no further call once the transport is stopping.     *)
Fairness ==
    /\ \A c \in Callers : WF_vars(InCall(c))
    /\ WF_vars(RefuseNew \/ JoinWorkers \/ ReleaseService)

Spec == Init /\ [][Next]_vars /\ Fairness
-----------------------------------------------------------------------------
(* The caller is between its entry in the table and its removal.           *)
Calling(c) == at[c] \in {"send", "wait", "release"}

Kinds == {"returned", "Timeout", "Unavailable", "Codec", "Internal"}

(* Every variable holds a value of its kind.                               *)
TypeOK ==
    /\ main \in {"running", "timer", "refusing", "joined", "released"} /\ stopping \in BOOLEAN
    /\ \A c \in Callers :
           /\ at[c] \in {"idle", "reserve", "send", "wait", "release", "finish", "off"}
           /\ at[c] \in {"idle", "off"} <=> msg[c] = Nothing
           /\ answer[c] \in {Nothing} \cup Failures
                            \cup Answers(Ids \cup {Nothing}, AllTypes, Defects \cup {"none"})
           /\ result[c] # Nothing => result[c].kind \in Kinds
    /\ late \in [Callers -> BOOLEAN]
    /\ DOMAIN table \subseteq Ids /\ \A id \in DOMAIN table : table[id] \in Callers

(* What the business code is given is the answer of the right type to the  *)
(* request it made last, and that request had reached the cloud: nothing   *)
(* else that comes back, late, twice, for an earlier request or another    *)
(* caller, completes a call (someip_vehicle_message_transport.cpp:296,     *)
(* fota_message_codec.hpp:199).  A call made again has the id it had.      *)
AnswerIsOwn ==
    \A c \in Callers :
        result[c] # Nothing /\ result[c].kind = "returned" =>
            LET a == result[c].value
                m == result[c].request
            IN  /\ a.corr = m.id /\ a.type = ResponseType[m.type]
                /\ [id |-> m.id, type |-> m.type] \in received

(* The table bounds the calls whose deadline has not passed, and a call    *)
(* keeps its place until then: neither an expired neighbour nor its late   *)
(* removal takes it away (evictExpiredInflight, releaseInflight).  It is   *)
(* so where ids are own.                                                   *)
InFlightIsBounded ==
    /\ \A c \in Callers : Calling(c) /\ ~late[c] => msg[c].id \in DOMAIN table /\ table[msg[c].id] = c
    /\ Cardinality({c \in Callers : Calling(c) /\ ~late[c]}) <= MaxInFlight

(* Every way out of a call takes its entry along: an idle transport has an *)
(* empty table, and stop() need not wait for an entry nobody removes.      *)
NoEntryLeaks == \A id \in DOMAIN table : Calling(table[id]) /\ msg[table[id]].id = id

(* No call is under way once the service is released, although exchange()  *)
(* looks at stopping_ only once: all its callers were joined before.       *)
ReleasedIsQuiet == main = "released" => \A c \in Callers : ~Calling(c)

(* stop() comes to its end however the calls under way end.                *)
StopReleases == main = "timer" ~> main = "released"
=============================================================================
