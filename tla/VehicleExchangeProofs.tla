----------------------- MODULE VehicleExchangeProofs -----------------------
(***************************************************************************)
(* What VehicleExchange guarantees for any number of workers, requests and *)
(* places in the table, whatever the framework and the cloud answer.       *)
(***************************************************************************)
EXTENDS VehicleExchange, FiniteSetTheorems, TLAPS

Pcs == {"idle", "reserve", "send", "wait", "release", "finish", "off"}

(* Where each caller stands, and with which request.                       *)
PlaceInv ==
    /\ at \in [Callers -> Pcs] /\ late \in [Callers -> BOOLEAN]
    /\ msg \in [Callers -> Requests \cup {Nothing}]
    /\ \A c \in Callers :
           IF at[c] \in {"idle", "off"} THEN msg[c] = Nothing ELSE msg[c] \in RequestsOf[c]

(* Who has been joined.                                                    *)
MainInv ==
    /\ main \in {"running", "timer", "refusing", "joined", "released"} /\ stopping \in BOOLEAN
    /\ main # "running" => at[Stepper] = "off"
    /\ main \in {"joined", "released"} => \A c \in Callers : at[c] = "off"

(* A call in time has its entry, if no two threads use one id.             *)
HeldInv ==
    \A c \in Callers : Calling(c) /\ ~late[c] => msg[c].id \in DOMAIN table /\ table[msg[c].id] = c

RoomInv == IsFiniteSet(DOMAIN table) /\ Cardinality(DOMAIN table) <= MaxInFlight

(* The table: the entries are of calls, and no more than there is room for.*)
TableInv ==
    /\ DOMAIN table \subseteq Ids /\ \A id \in DOMAIN table : table[id] \in Callers
    /\ NoEntryLeaks /\ RoomInv

CallInv == PlaceInv /\ MainInv /\ TableInv

-----------------------------------------------------------------------------
LEMMA EmptyTable ==
    LET t == [id \in {} |-> Nothing]
    IN  DOMAIN t = {} /\ IsFiniteSet(DOMAIN t) /\ Cardinality(DOMAIN t) <= MaxInFlight
BY FS_EmptySet, ExchangeAssumption

LEMMA CallInit == Init => CallInv
<1> SUFFICES ASSUME Init PROVE CallInv
    OBVIOUS
<1>1. PlaceInv /\ MainInv
    BY DEF Init, PlaceInv, MainInv, Pcs
<1>2. TableInv
    BY EmptyTable DEF Init, TableInv, NoEntryLeaks, RoomInv
<1> QED
    BY <1>1, <1>2 DEF CallInv

(* Two callers never have the same message id.                             *)
LEMMA OwnId ==
    ASSUME IdsAreOwn, PlaceInv, NEW c \in Callers, NEW d \in Callers, Calling(c), Calling(d), msg[c].id = msg[d].id
    PROVE  c = d
<1>1. msg[c] \in RequestsOf[c] /\ msg[d] \in RequestsOf[d]
    BY DEF PlaceInv, Calling
<1> QED
    BY <1>1 DEF IdsAreOwn

(* A step that leaves the table alone, and nobody enters or leaves a call. *)
LEMMA QuietTable ==
    ASSUME TableInv, UNCHANGED table,
           \A c \in Callers : Calling(c)' <=> Calling(c),
           \A c \in Callers : Calling(c) => msg'[c] = msg[c] /\ (late[c] => late'[c])
    PROVE  TableInv' /\ (HeldInv => HeldInv')
<1>1. TableInv'
    BY DEF TableInv, NoEntryLeaks, RoomInv
<1>2. HeldInv => HeldInv'
    BY DEF HeldInv
<1> QED
    BY <1>1, <1>2

(* A call leaves, and its entry with it.                                   *)
LEMMA LeavesTable ==
    ASSUME PlaceInv, TableInv, NEW c \in Callers, Calling(c),
           table' = Without(msg[c].id), ~Calling(c)', UNCHANGED late,
           \A d \in Callers \ {c} : at'[d] = at[d] /\ msg'[d] = msg[d]
    PROVE  TableInv' /\ (IdsAreOwn /\ HeldInv => HeldInv')
<1>1. DOMAIN table' = DOMAIN table \ {msg[c].id} /\ \A id \in DOMAIN table' : table'[id] = table[id]
    BY DEF Without
<1>2. NoEntryLeaks'
    BY <1>1 DEF TableInv, NoEntryLeaks, Calling
<1>3. ASSUME IdsAreOwn, HeldInv PROVE HeldInv'
  <2> SUFFICES ASSUME NEW d \in Callers, Calling(d)', ~late'[d]
               PROVE  msg'[d].id \in DOMAIN table' /\ table'[msg'[d].id] = d
      BY DEF HeldInv
  <2>1. d # c /\ Calling(d) /\ msg'[d] = msg[d]
      BY DEF Calling
  <2>2. msg[d].id \in DOMAIN table /\ table[msg[d].id] = d
      BY <1>3, <2>1 DEF HeldInv
  <2>3. msg[d].id # msg[c].id
      BY <1>3, <2>1, OwnId
  <2> QED
      BY <1>1, <2>1, <2>2, <2>3
<1>4. RoomInv'
    BY <1>1, FS_Subset, FS_CardinalityType, ExchangeAssumption DEF TableInv, RoomInv
<1> QED
    BY <1>1, <1>2, <1>3, <1>4 DEF TableInv

LEMMA EvictedSmaller ==
    ASSUME TableInv
    PROVE  /\ DOMAIN Evicted \subseteq DOMAIN table
           /\ \A id \in DOMAIN Evicted : Evicted[id] = table[id]
           /\ \A id \in DOMAIN table : ~late[table[id]] => id \in DOMAIN Evicted
           /\ IsFiniteSet(DOMAIN Evicted)
           /\ Cardinality(DOMAIN Evicted) \in Nat /\ Cardinality(DOMAIN Evicted) <= MaxInFlight
<1>1. /\ DOMAIN Evicted \subseteq DOMAIN table
      /\ \A id \in DOMAIN Evicted : Evicted[id] = table[id]
      /\ \A id \in DOMAIN table : ~late[table[id]] => id \in DOMAIN Evicted
    BY DEF Evicted
<1> QED
    BY <1>1, FS_Subset, FS_CardinalityType, ExchangeAssumption DEF TableInv, RoomInv

(* reserveInflight: late entries go, and a call comes if there is room.    *)
LEMMA ReserveTable ==
    ASSUME PlaceInv, TableInv, NEW c \in Callers, Reserve(c)
    PROVE  TableInv' /\ (HeldInv => HeldInv')
<1> DEFINE i == msg[c].id
<1>1. ~Calling(c) /\ msg[c] \in Requests /\ i \in Ids
    BY DEF Reserve, Calling, PlaceInv, Ids, Requests
<1>2. \A d \in Callers \ {c} : at'[d] = at[d] /\ msg'[d] = msg[d] /\ late'[d] = late[d]
    BY DEF Reserve, Goes, Ends, PlaceInv
<1>3. CASE i \notin DOMAIN Evicted /\ HasRoom(Evicted)
  <2>1. /\ DOMAIN table' = DOMAIN Evicted \cup {i} /\ table'[i] = c
        /\ \A id \in DOMAIN Evicted : table'[id] = table[id]
        /\ at'[c] = "send" /\ msg' = msg /\ late'[c] = FALSE
      BY <1>3 DEF Reserve, Goes, PlaceInv
  <2>2. NoEntryLeaks'
    <3> SUFFICES ASSUME NEW id \in DOMAIN table'
                 PROVE  at'[table'[id]] \in {"send", "wait", "release"} /\ msg'[table'[id]].id = id
        BY DEF NoEntryLeaks, Calling
    <3>1. CASE id = i
        BY <2>1, <3>1
    <3>2. CASE id # i
      <4>1. id \in DOMAIN table /\ table'[id] = table[id] /\ table[id] \in Callers
          BY <2>1, <3>2, EvictedSmaller DEF TableInv
      <4>2. Calling(table[id]) /\ msg[table[id]].id = id
          BY <4>1 DEF TableInv, NoEntryLeaks
      <4>3. table[id] # c
          BY <4>2, <1>1
      <4> QED
          BY <4>1, <4>2, <4>3, <1>2 DEF Calling
    <3> QED
        BY <3>1, <3>2
  <2>3. ASSUME HeldInv PROVE HeldInv'
    <3> SUFFICES ASSUME NEW d \in Callers, Calling(d)', ~late'[d]
                 PROVE  msg'[d].id \in DOMAIN table' /\ table'[msg'[d].id] = d
        BY DEF HeldInv
    <3>1. CASE d = c
        BY <2>1, <3>1
    <3>2. CASE d # c
      <4>1. Calling(d) /\ ~late[d]
          BY <1>2, <3>2 DEF Calling
      <4>2. msg[d].id \in DOMAIN table /\ table[msg[d].id] = d
          BY <2>3, <4>1 DEF HeldInv
      <4> QED
          BY <2>1, <4>1, <4>2, EvictedSmaller
    <3> QED
        BY <3>1, <3>2
  <2>4. RoomInv'
    <3>1. Cardinality(DOMAIN Evicted) < MaxInFlight
        BY <1>3 DEF HasRoom
    <3>2. /\ IsFiniteSet(DOMAIN Evicted \cup {i})
          /\ Cardinality(DOMAIN Evicted \cup {i}) = Cardinality(DOMAIN Evicted) + 1
        BY <1>3, EvictedSmaller, FS_AddElement
    <3>3. Cardinality(DOMAIN Evicted) + 1 <= MaxInFlight
        BY <3>1, EvictedSmaller, ExchangeAssumption
    <3> QED
        BY <2>1, <3>2, <3>3 DEF RoomInv
  <2>5. DOMAIN table' \subseteq Ids /\ \A id \in DOMAIN table' : table'[id] \in Callers
      BY <1>1, <2>1, EvictedSmaller DEF TableInv
  <2> QED
      BY <2>2, <2>3, <2>4, <2>5 DEF TableInv
<1>4. CASE ~(i \notin DOMAIN Evicted /\ HasRoom(Evicted))
  <2>1. table' = Evicted /\ at'[c] = "idle" /\ late' = late
      BY <1>4 DEF Reserve, Ends, PlaceInv
  <2>2. ~Calling(c)' /\ \A d \in Callers \ {c} : Calling(d)' <=> Calling(d)
      BY <1>2, <2>1 DEF Calling
  <2>3. NoEntryLeaks' /\ (HeldInv => HeldInv')
      BY <1>1, <1>2, <2>1, <2>2, EvictedSmaller DEF TableInv, NoEntryLeaks, HeldInv
  <2>4. RoomInv'
      BY <2>1, EvictedSmaller DEF RoomInv
  <2> QED
      BY <2>1, <2>3, <2>4, EvictedSmaller DEF TableInv
<1> QED
    BY <1>3, <1>4

-----------------------------------------------------------------------------
(* A caller's step changes only that caller's place and request.           *)
LEMMA CallerPlace ==
    ASSUME PlaceInv, MainInv, NEW c \in Callers,
           Begin(c) \/ InCall(c) \/ Answer(c) \/ DeadlinePasses(c)
    PROVE  PlaceInv' /\ MainInv'
<1>1. RequestsOf[c] \subseteq Requests
    BY DEF Requests
<1>2. at[c] # "off"
    BY DEF Begin, InCall, Reserve, TooLarge, Send, TakeAnswer, GiveUp, Release, Finish, Answer, DeadlinePasses
<1>3. PlaceInv'
  <2>1. CASE Begin(c)
      BY <1>1, <2>1 DEF Begin, Ends, Goes, PlaceInv, Pcs
  <2>2. CASE Reserve(c)
      BY <2>2 DEF Reserve, Ends, Goes, PlaceInv, Pcs
  <2>3. CASE TooLarge(c)
      BY <2>3 DEF TooLarge, Ends, PlaceInv, Pcs
  <2>4. CASE Send(c) \/ TakeAnswer(c) \/ GiveUp(c) \/ Release(c)
      BY <2>4 DEF Send, TakeAnswer, GiveUp, Release, Goes, PlaceInv, Pcs
  <2>5. CASE Finish(c)
    <3>1. \E r : Ends(c, r)
        BY <2>5 DEF Finish
    <3> QED
        BY <2>5, <3>1 DEF Finish, Ends, PlaceInv, Pcs
  <2>6. CASE Answer(c) \/ DeadlinePasses(c)
      BY <2>6 DEF Answer, DeadlinePasses, PlaceInv
  <2> QED
      BY <2>1, <2>2, <2>3, <2>4, <2>5, <2>6 DEF InCall
<1>4. main' = main /\ stopping' = stopping
    BY DEF Begin, InCall, Reserve, TooLarge, Send, TakeAnswer, GiveUp, Release, Finish, Answer, DeadlinePasses
<1>5. \A d \in Callers \ {c} : at'[d] = at[d]
    BY <1>3 DEF Begin, InCall, Reserve, TooLarge, Send, TakeAnswer, GiveUp, Release, Finish, Answer,
       DeadlinePasses, Ends, Goes, PlaceInv
<1>6. main \notin {"joined", "released"} /\ (main # "running" => c # Stepper)
    BY <1>2 DEF MainInv
<1>7. Stepper \in Callers
    BY DEF Callers
<1> QED
    BY <1>3, <1>4, <1>5, <1>6, <1>7 DEF MainInv

LEMMA CallerTable ==
    ASSUME PlaceInv, TableInv, NEW c \in Callers,
           Begin(c) \/ InCall(c) \/ Answer(c) \/ DeadlinePasses(c)
    PROVE  TableInv' /\ (IdsAreOwn /\ HeldInv => HeldInv')
<1>1. CASE Begin(c) \/ Finish(c)
  <2>1. PICK r : \/ Ends(c, r)
                 \/ Goes(c, "reserve") /\ \A d \in Callers \ {c} : msg'[d] = msg[d]
      BY <1>1 DEF Begin, Finish, PlaceInv
  <2>2. ~Calling(c) /\ ~Calling(c)' /\ UNCHANGED <<table, late>>
      BY <1>1, <2>1 DEF Begin, Finish, Calling, Ends, Goes, PlaceInv
  <2>3. \A d \in Callers \ {c} : at'[d] = at[d] /\ msg'[d] = msg[d]
      BY <2>1 DEF Ends, Goes, PlaceInv
  <2> QED
      BY <2>2, <2>3, QuietTable DEF Calling
<1>2. CASE Reserve(c)
    BY <1>2, ReserveTable
<1>3. CASE TooLarge(c) \/ Release(c)
    BY <1>3, LeavesTable DEF TooLarge, Release, Calling, Ends, Goes, PlaceInv
<1>4. CASE Send(c) \/ TakeAnswer(c) \/ GiveUp(c)
    BY <1>4, QuietTable DEF Send, TakeAnswer, GiveUp, Calling, Goes, PlaceInv
<1>5. CASE Answer(c) \/ DeadlinePasses(c)
    BY <1>5, QuietTable DEF Answer, DeadlinePasses, Calling, PlaceInv
<1> QED
    BY <1>1, <1>2, <1>3, <1>4, <1>5 DEF InCall

LEMMA StopCallInv ==
    ASSUME CallInv, Stop
    PROVE  CallInv' /\ (HeldInv => HeldInv')
<1> USE DEF CallInv
<1>0. Callers = {Stepper} \cup Workers
    BY DEF Callers
<1>1. CASE JoinTimer
  <2>1. PlaceInv' /\ MainInv'
      BY <1>0, <1>1 DEF JoinTimer, PlaceInv, MainInv, Pcs
  <2>2. TableInv' /\ (HeldInv => HeldInv')
      BY <1>1, QuietTable DEF JoinTimer, PlaceInv, Calling
  <2> QED
      BY <2>1, <2>2
<1>2. CASE RefuseNew
  <2>1. PlaceInv' /\ MainInv'
      BY <1>2 DEF RefuseNew, PlaceInv, MainInv
  <2>2. TableInv' /\ (HeldInv => HeldInv')
      BY <1>2, QuietTable DEF RefuseNew, Calling
  <2> QED
      BY <2>1, <2>2
<1>3. CASE JoinWorkers
  <2>1. \A c \in Callers : at[c] \in {"idle", "off"} /\ at'[c] = "off"
      BY <1>0, <1>3 DEF JoinWorkers, MainInv
  <2>2. PlaceInv' /\ MainInv'
      BY <1>0, <1>3, <2>1 DEF JoinWorkers, PlaceInv, MainInv, Pcs
  <2>3. TableInv' /\ (HeldInv => HeldInv')
      BY <1>3, <2>1, QuietTable DEF JoinWorkers, Calling
  <2> QED
      BY <2>2, <2>3
<1>4. CASE ReleaseService
  <2>1. PlaceInv' /\ MainInv'
      BY <1>4 DEF ReleaseService, PlaceInv, MainInv
  <2>2. \A c \in Callers : ~Calling(c)'
      BY <1>4 DEF ReleaseService, MainInv, Calling
  <2>3. TableInv' /\ HeldInv'
      BY <1>4, <2>2, EmptyTable DEF ReleaseService, TableInv, NoEntryLeaks, HeldInv, RoomInv, Calling
  <2> QED
      BY <2>1, <2>3
<1> QED
    BY <1>1, <1>2, <1>3, <1>4 DEF Stop

LEMMA CallStep == CallInv /\ [Next]_vars => CallInv' /\ (IdsAreOwn /\ HeldInv => HeldInv')
<1> SUFFICES ASSUME CallInv, [Next]_vars PROVE CallInv' /\ (IdsAreOwn /\ HeldInv => HeldInv')
    OBVIOUS
<1>1. CASE UNCHANGED vars
    BY <1>1 DEF vars, CallInv, PlaceInv, MainInv, TableInv, NoEntryLeaks, HeldInv, RoomInv, Calling
<1>2. CASE Stop
    BY <1>2, StopCallInv
<1>3. ASSUME NEW c \in Callers, Begin(c) \/ InCall(c) \/ Answer(c) \/ DeadlinePasses(c)
      PROVE  CallInv' /\ (IdsAreOwn /\ HeldInv => HeldInv')
    BY <1>3, CallerPlace, CallerTable DEF CallInv
<1> QED
    BY <1>1, <1>2, <1>3 DEF Next

LEMMA CallsAreTabled == Spec => []CallInv
BY CallInit, CallStep, PTL DEF Spec

(* The calls in time have an entry each, and no two the same.              *)
LEMMA CallsFitTable == CallInv /\ HeldInv => InFlightIsBounded
<1> SUFFICES ASSUME CallInv, HeldInv PROVE InFlightIsBounded
    OBVIOUS
<1> DEFINE S == {c \in Callers : Calling(c) /\ ~late[c]}
           f == [c \in S |-> msg[c].id]
<1>1. \A c \in S : msg[c].id \in DOMAIN table /\ table[msg[c].id] = c
    BY DEF HeldInv
<1>2. f \in Injection(S, DOMAIN table)
    BY <1>1 DEF Injection, IsInjective
<1>3. IsFiniteSet(S) /\ Cardinality(S) <= Cardinality(DOMAIN table)
    BY <1>2, FS_Injection DEF CallInv, TableInv, RoomInv
<1>4. Cardinality(S) <= MaxInFlight
    BY <1>3, FS_CardinalityType, ExchangeAssumption DEF CallInv, TableInv, RoomInv
<1> QED
    BY <1>1, <1>4 DEF InFlightIsBounded

(* At every moment a call whose deadline has not passed has its own entry  *)
(* in the table, and there are at most maxInFlight such calls, as long as  *)
(* no two threads make a call with the same id (reserveInflight,           *)
(* evictExpiredInflight, releaseInflight).  With one downlink worker, the  *)
(* default, none do; several may, on one control delivered twice, and the  *)
(* late removal by the first then takes the entry of the second.           *)
THEOREM CallsAreBounded == IdsAreOwn => (Spec => []InFlightIsBounded)
<1> SUFFICES ASSUME IdsAreOwn PROVE Spec => []InFlightIsBounded
    OBVIOUS
<1>1. Init => CallInv /\ HeldInv
    BY CallInit DEF Init, HeldInv, Calling
<1>2. CallInv /\ HeldInv /\ [Next]_vars => CallInv' /\ HeldInv'
    BY CallStep
<1> QED
    BY <1>1, <1>2, CallsFitTable, PTL DEF Spec

(* Every entry of the table is that of a call under way, whatever ids the  *)
(* threads use (SomeIpVehicleMessageTransport::exchange).                  *)
THEOREM EntriesAreOfCalls == Spec => []NoEntryLeaks
<1>1. CallInv => NoEntryLeaks
    BY DEF CallInv, TableInv
<1> QED
    BY <1>1, CallsAreTabled, PTL

(* When the service is released no caller is inside a call: they were all  *)
(* joined (FotaDaemon::stop, SomeIpVehicleMessageTransport::stop).         *)
THEOREM ReleaseFindsNoCall == Spec => []ReleasedIsQuiet
<1>1. CallInv => ReleasedIsQuiet
    BY DEF CallInv, MainInv, ReleasedIsQuiet, Calling
<1> QED
    BY <1>1, CallsAreTabled, PTL
-----------------------------------------------------------------------------
(* What came back.  An answer without a defect is to a request that had    *)
(* reached the cloud, though perhaps not to the one it is given to.        *)
Given == {Nothing} \cup Failures \cup Answers(Ids \cup {Nothing}, AllTypes, Defects \cup {"none"})

AnswerInv ==
    /\ received \subseteq {[id |-> m.id, type |-> m.type] : m \in Requests}
    /\ answer \in [Callers -> Given] /\ DOMAIN result = Callers
    /\ \A c \in Callers :
           answer[c] # Nothing /\ answer[c].defect = "none" =>
               answer[c].corr = Nothing \/ \E r \in received : r.id = answer[c].corr
    /\ \A c \in Callers : result[c] # Nothing => result[c].kind \in Kinds

LEMMA AnswerInit == Init => AnswerInv /\ AnswerIsOwn
BY DEF Init, AnswerInv, AnswerIsOwn, Given

LEMMA MessageIds == \A m \in Requests : m.id \in Ids /\ m.id # Nothing /\ ResponseType[m.type] \in AllTypes
BY ExchangeAssumption DEF Ids, AllTypes

(* Only Finish hands an answer on: the rest ends a call with an exception, *)
(* or leaves the results alone.                                            *)
LEMMA ThrownKinds == \A m, o : Thrown(m, o).kind \in Kinds \ {"returned"}
BY DEF Thrown, KindOf, Kinds

LEMMA NothingReturned ==
    ASSUME AnswerInv, AnswerIsOwn, NEW c \in Callers, received \subseteq received',
           \/ result' = result
           \/ result' = [result EXCEPT ![c] = Nothing]
           \/ \E m, o : result' = [result EXCEPT ![c] = Thrown(m, o)]
    PROVE  /\ AnswerIsOwn' /\ DOMAIN result' = Callers
           /\ \A d \in Callers : result'[d] # Nothing => result'[d].kind \in Kinds
<1>1. /\ DOMAIN result' = Callers
      /\ \A d \in Callers : \/ result'[d] = result[d]
                            \/ result'[d] = Nothing
                            \/ \E m, o : result'[d] = Thrown(m, o)
    BY DEF AnswerInv
<1>2. ASSUME NEW d \in Callers, result'[d] # Nothing
      PROVE  \/ result'[d] = result[d]
             \/ result'[d].kind \in Kinds \ {"returned"}
    BY <1>1, <1>2, ThrownKinds
<1> QED
    BY <1>1, <1>2 DEF AnswerInv, AnswerIsOwn

(* The checks of transport and codec: what passes them is the answer, and  *)
(* it is to a request that had reached the cloud.                          *)
LEMMA AcceptedIsOwn ==
    ASSUME AnswerInv, NEW c \in Callers, NEW m \in RequestsOf[c],
           answer[c] # Nothing, OutcomeOfAnswer(m, answer[c]) = "Accepted", CodecAccepts(m, answer[c])
    PROVE  /\ answer[c].corr = m.id /\ answer[c].type = ResponseType[m.type]
           /\ [id |-> m.id, type |-> m.type] \in received
<1> DEFINE a == answer[c]
<1>1. a.corr = m.id /\ a.type = ResponseType[m.type]
    BY DEF CodecAccepts
<1>2. a.defect \in Defects \cup {"none"}
    BY DEF AnswerInv, Given, Failures, Answers
<1>3. a.defect \notin {"service", "kind", "version", "expired", "empty", "unparsable"}
    BY DEF CodecAccepts
<1>4. a.defect # "undecodable"
    BY DEF OutcomeOfAnswer
<1>5. a.defect # "large"
    BY <1>1 DEF OutcomeOfAnswer
<1>6. a.defect = "none"
    BY <1>2, <1>3, <1>4, <1>5 DEF Defects
<1>7. m \in Requests
    BY DEF Requests
<1>8. PICK r \in received : r.id = m.id
    BY <1>1, <1>6, <1>7, MessageIds DEF AnswerInv
<1>9. PICK n \in Requests : r = [id |-> n.id, type |-> n.type]
    BY DEF AnswerInv
<1>10. n.type = m.type
    BY <1>7, <1>8, <1>9, ExchangeAssumption
<1> QED
    BY <1>1, <1>8, <1>9, <1>10

LEMMA AnswerStep == AnswerInv /\ AnswerIsOwn /\ CallInv /\ [Next]_vars => AnswerInv' /\ AnswerIsOwn'
<1> SUFFICES ASSUME AnswerInv, AnswerIsOwn, CallInv, [Next]_vars PROVE AnswerInv' /\ AnswerIsOwn'
    OBVIOUS
<1>1. CASE Stop \/ UNCHANGED vars
    BY <1>1 DEF Stop, JoinTimer, RefuseNew, JoinWorkers, ReleaseService, vars, AnswerInv, AnswerIsOwn
<1>2. ASSUME NEW c \in Callers, Begin(c) \/ Reserve(c) \/ TooLarge(c)
      PROVE  AnswerInv' /\ AnswerIsOwn'
  <2>1. /\ UNCHANGED <<answer, received>>
        /\ \/ result' = result
           \/ result' = [result EXCEPT ![c] = Nothing]
           \/ \E m, o : result' = [result EXCEPT ![c] = Thrown(m, o)]
      BY <1>2 DEF Begin, Reserve, TooLarge, Ends
  <2> QED
      BY <2>1, NothingReturned DEF AnswerInv
<1>3. ASSUME NEW c \in Callers, Send(c)
      PROVE  AnswerInv' /\ AnswerIsOwn'
  <2>1. msg[c] \in Requests
      BY <1>3 DEF Send, CallInv, PlaceInv, Requests
  <2> QED
      BY <1>3, <2>1, NothingReturned DEF Send, AnswerInv
<1>4. ASSUME NEW c \in Callers, TakeAnswer(c) \/ GiveUp(c) \/ Release(c) \/ DeadlinePasses(c)
      PROVE  AnswerInv' /\ AnswerIsOwn'
    BY <1>4 DEF TakeAnswer, GiveUp, Release, DeadlinePasses, AnswerInv, AnswerIsOwn
<1>5. ASSUME NEW c \in Callers, Answer(c)
      PROVE  AnswerInv' /\ AnswerIsOwn'
  <2>1. PICK a \in Answers({m.id : m \in received} \cup {Nothing}, AllTypes, {"none"})
                   \cup Answers({msg[c].id}, {ResponseType[msg[c].type]}, Defects) \cup Failures :
            answer' = [answer EXCEPT ![c] = a]
      BY <1>5 DEF Answer
  <2>2. msg[c] \in Requests
      BY <1>5 DEF Answer, CallInv, PlaceInv, Requests
  <2>3. {m.id : m \in received} \subseteq Ids
      BY DEF AnswerInv, Ids
  <2>4. a \in Given
      BY <2>2, <2>3, MessageIds DEF Given, Answers
  <2>5. a.defect = "none" => a.corr = Nothing \/ \E r \in received : r.id = a.corr
      BY DEF Answers, Failures, Defects
  <2>6. UNCHANGED <<result, received>>
      BY <1>5 DEF Answer
  <2> QED
      BY <2>1, <2>4, <2>5, <2>6 DEF AnswerInv, AnswerIsOwn
<1>6. ASSUME NEW c \in Callers, Finish(c)
      PROVE  AnswerInv' /\ AnswerIsOwn'
  <2>1. msg[c] \in RequestsOf[c] /\ UNCHANGED received /\ answer' = [answer EXCEPT ![c] = Nothing]
      BY <1>6 DEF Finish, CallInv, PlaceInv
  <2>2. \/ \E m, o : result' = [result EXCEPT ![c] = Thrown(m, o)]
        \/ /\ answer[c] # Nothing /\ OutcomeOfAnswer(msg[c], answer[c]) = "Accepted"
           /\ CodecAccepts(msg[c], answer[c])
           /\ result' = [result EXCEPT ![c] = Returned(msg[c], answer[c])]
      BY <1>6 DEF Finish, Ends
  <2>3. CASE \E m, o : result' = [result EXCEPT ![c] = Thrown(m, o)]
      BY <2>1, <2>3, NothingReturned DEF AnswerInv, Given
  <2>4. CASE /\ answer[c] # Nothing /\ OutcomeOfAnswer(msg[c], answer[c]) = "Accepted"
             /\ CodecAccepts(msg[c], answer[c])
             /\ result' = [result EXCEPT ![c] = Returned(msg[c], answer[c])]
    <3>1. /\ answer[c].corr = msg[c].id /\ answer[c].type = ResponseType[msg[c].type]
          /\ [id |-> msg[c].id, type |-> msg[c].type] \in received
        BY <2>1, <2>4, AcceptedIsOwn
    <3>2. AnswerIsOwn'
        BY <2>1, <2>4, <3>1 DEF AnswerIsOwn, AnswerInv, Returned
    <3>3. AnswerInv'
        BY <2>1, <2>4 DEF AnswerInv, Returned, Kinds, Given
    <3> QED
        BY <3>2, <3>3
  <2> QED
      BY <2>2, <2>3, <2>4
<1> QED
    BY <1>1, <1>2, <1>3, <1>4, <1>5, <1>6 DEF Next, InCall

(* Whatever comes back late, twice, for another request, of another type   *)
(* or malformed, the business code is given only the answer of the right   *)
(* type to the request it made last (exchange, FotaMessageCodec::decode).  *)
THEOREM AnswersAreOwn == Spec => []AnswerIsOwn
BY AnswerInit, AnswerStep, CallsAreTabled, PTL DEF Spec

(* Every variable keeps its type.                                          *)
THEOREM ExchangeTypeCorrect == Spec => []TypeOK
<1>1. CallInv /\ AnswerInv => TypeOK
  <2> SUFFICES ASSUME CallInv, AnswerInv PROVE TypeOK
      OBVIOUS
  <2>1. ASSUME NEW c \in Callers
        PROVE  at[c] \in Pcs /\ (at[c] \in {"idle", "off"} <=> msg[c] = Nothing)
      BY ExchangeAssumption DEF CallInv, PlaceInv, Requests
  <2> QED
      BY <2>1 DEF TypeOK, CallInv, PlaceInv, MainInv, TableInv, AnswerInv, Given, Pcs
<1> QED
    BY <1>1, AnswerInit, AnswerStep, CallsAreTabled, PTL DEF Spec
=============================================================================
