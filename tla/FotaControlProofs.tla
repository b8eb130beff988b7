------------------------- MODULE FotaControlProofs -------------------------
(***************************************************************************)
(* What FotaControl guarantees for any number of commands, any capacity of *)
(* the queue and any number of power losses.                               *)
(***************************************************************************)
EXTENDS FotaControl, SequenceTheorems, TLAPS

(* TypeOK, one part for each group of variables.                           *)
QueueType ==
    /\ queue \in Seq(Commands) /\ Len(queue) <= QueueCapacity
    /\ arriving \in Commands \cup {NoCommand}
ThreadType ==
    /\ at \in [Workers -> WorkerPcs]
    /\ cmd \in [Workers -> Commands \cup {NoCommand}]
    /\ \A w \in Workers : at[w] \notin {"off", "wait"} => cmd[w] \in Commands
    /\ ackNo \in [Workers -> Nat]
MemberType ==
    /\ lastReceived \in Commands \cup {0} /\ lastApplied \in Commands \cup {0}
    /\ {pending, asked, handed} \subseteq SUBSET Commands
    /\ ackSeq \in Nat
WorldType ==
    /\ storedControl \in [Commands -> Control \cup {NoRecord}]
    /\ applied \in [Commands -> Nat]
    /\ acks \subseteq [revision : Commands, no : Nat]
    /\ crashes \in Nat
LifeType == MainOK /\ {handler, stopping, queueStopping} \subseteq BOOLEAN

LEMMA TypeParts ==
    TypeOK <=> LifeType /\ QueueType /\ ThreadType /\ MemberType /\ WorldType
BY DEF TypeOK, LifeType, QueueType, ThreadType, MemberType, WorldType

LEMMA NoQueue == <<>> \in Seq(Commands) /\ Len(<<>>) <= QueueCapacity
BY ControlAssumption, EmptySeq

LEMMA TypeInit == Init => TypeOK
<1> SUFFICES ASSUME Init PROVE TypeOK
    OBVIOUS
<1>1. LifeType /\ MemberType
    BY DEF Init, LifeType, MainOK, MemberType
<1>2. QueueType
    BY NoQueue DEF Init, QueueType
<1>3. ThreadType
    BY DEF Init, ThreadType, WorkerPcs
<1>4. WorldType
    BY DEF Init, WorldType
<1> QED
    BY <1>1, <1>2, <1>3, <1>4, TypeParts

(* A worker moves on to another place with the command it has, or drops it *)
(* and waits.                                                              *)
LEMMA MoveType ==
    ASSUME ThreadType, NEW w \in Workers, cmd[w] \in Commands,
           NEW p \in WorkerPcs, at' = [at EXCEPT ![w] = p], UNCHANGED <<cmd, ackNo>>
    PROVE  ThreadType'
BY DEF ThreadType

LEMMA DoneType ==
    ASSUME ThreadType, NEW w \in Workers, Done(w), UNCHANGED ackNo
    PROVE  ThreadType'
BY DEF ThreadType, Done, WorkerPcs

LEMMA NewProcessType ==
    ASSUME TypeOK, NewProcess, crashes' \in Nat
    PROVE  TypeOK'
<1>1. LifeType' /\ MemberType'
    BY DEF TypeOK, NewProcess, LifeType, MainOK, MemberType
<1>2. QueueType'
    BY NoQueue DEF NewProcess, QueueType
<1>3. ThreadType'
    BY DEF NewProcess, ThreadType, WorkerPcs
<1>4. WorldType'
    BY DEF TypeOK, NewProcess, WorldType
<1> QED
    BY <1>1, <1>2, <1>3, <1>4 DEF TypeOK, LifeType, QueueType, ThreadType, MemberType, WorldType

(* Every step keeps the types.                                             *)
LEMMA TypeStep == TypeOK /\ [Next]_vars => TypeOK'
<1> SUFFICES ASSUME TypeOK, [Next]_vars PROVE TypeOK'
    OBVIOUS
<1> USE DEF lifecycle, members, world
<1>0. LifeType /\ QueueType /\ ThreadType /\ MemberType /\ WorldType
    BY TypeParts
<1>1. CASE MainStep
  <2>1. CASE StartTransport
    BY <2>1, ControlAssumption DEF StartTransport, TypeOK, MainOK, WorkerPcs
  <2>2. CASE SubscribeDownlink \/ CancelHandler \/ StopStep
    BY <2>2 DEF SubscribeDownlink, CancelHandler, StopStep, RefuseNew, StopQueue, JoinWorkers,
                ReleaseService, TypeOK, MainOK
  <2>3. CASE Exit
    BY <2>3, NewProcessType DEF Exit, TypeOK
  <2> QED
    BY <1>1, <2>1, <2>2, <2>3 DEF MainStep
<1>2. CASE Arrive
    BY <1>2 DEF Arrive, TypeOK, MainOK
<1>3. CASE Enqueue
  <2>1. Takes => /\ Append(queue, arriving) \in Seq(Commands)
                 /\ Len(Append(queue, arriving)) <= QueueCapacity
    BY <1>0, <1>3, ControlAssumption, AppendProperties DEF QueueType, Enqueue, Takes
  <2>2. QueueType'
    BY <1>0, <1>3, <2>1 DEF QueueType, Enqueue
  <2>3. LifeType' /\ ThreadType' /\ MemberType' /\ WorldType'
    BY <1>0, <1>3 DEF Enqueue, LifeType, MainOK, ThreadType, MemberType, WorldType
  <2> QED
    BY <2>2, <2>3, TypeParts DEF TypeOK, LifeType, QueueType, ThreadType, MemberType, WorldType
<1>4. ASSUME NEW w \in Workers, WorkerStep(w) PROVE TypeOK'
  <2>0. at[w] \notin {"off", "wait"} => cmd[w] \in Commands
    BY <1>0 DEF ThreadType
  <2>1. CASE Take(w)
    <3>1. /\ Head(queue) \in Commands
          /\ Tail(queue) \in Seq(Commands) /\ Len(Tail(queue)) <= QueueCapacity
      BY <1>0, <2>1, ControlAssumption, HeadTailProperties, LenProperties DEF QueueType, Take
    <3>2. QueueType' /\ ThreadType'
      BY <1>0, <2>1, <3>1 DEF QueueType, ThreadType, Take, WorkerPcs
    <3>3. LifeType' /\ MemberType' /\ WorldType'
      BY <1>0, <2>1 DEF Take, LifeType, MainOK, MemberType, WorldType
    <3> QED
      BY <3>2, <3>3 DEF TypeOK, LifeType, QueueType, ThreadType, MemberType, WorldType
  <2>2. CASE LeaveLoop(w)
    BY <2>2 DEF LeaveLoop, TypeOK, MainOK, WorkerPcs
  <2>3. CASE Dispatch(w)
    <3>1. ThreadType'
      BY <1>0, <2>3 DEF ThreadType, Dispatch, WorkerPcs
    <3> QED
      BY <1>0, <2>3, <3>1 DEF Dispatch, TypeOK, LifeType, MainOK, QueueType, ThreadType,
                              MemberType, WorldType
  <2>4. CASE FindDuplicate(w)
    <3>1. ThreadType'
      BY <1>0, <2>4, DoneType DEF FindDuplicate
    <3> QED
      BY <1>0, <2>4, <3>1 DEF FindDuplicate, TypeOK, LifeType, MainOK, QueueType, ThreadType,
                              MemberType, WorldType
  <2>5. CASE FindNew(w)
    <3>1. ThreadType'
      BY <1>0, <2>5 DEF ThreadType, FindNew, WorkerPcs
    <3> QED
      BY <1>0, <2>5, <3>1 DEF FindNew, TypeOK, LifeType, MainOK, QueueType, ThreadType,
                              MemberType, WorldType
  <2>6. CASE SaveReceived(w)
    <3>1. ThreadType'
      BY <1>0, <2>6 DEF ThreadType, SaveReceived, WorkerPcs
    <3>2. [applied |-> FALSE, no |-> 0] \in Control
      BY DEF Control
    <3>3. WorldType'
      BY <1>0, <2>0, <2>6, <3>2 DEF WorldType, SaveReceived
    <3> QED
      BY <1>0, <2>6, <3>1, <3>3 DEF SaveReceived, TypeOK, LifeType, MainOK, QueueType,
                                    ThreadType, MemberType, WorldType
  <2>7. CASE Execute(w)
    <3>0. cmd[w] \in Commands
      BY <2>0, <2>7 DEF Execute
    <3>1. ThreadType'
      <4>1. CASE Done(w)
        BY <1>0, <2>7, <4>1, DoneType DEF Execute
      <4>2. CASE at' = [at EXCEPT ![w] = "applied"] /\ UNCHANGED cmd
        BY <1>0, <2>7, <3>0, <4>2 DEF ThreadType, Execute, WorkerPcs
      <4> QED
        BY <2>7, <4>1, <4>2 DEF Execute
    <3>2. MemberType'
      BY <1>0, <2>7, <3>0 DEF MemberType, Execute
    <3>3. WorldType'
      BY <1>0, <2>7, <3>0 DEF WorldType, Execute
    <3> QED
      BY <1>0, <2>7, <3>1, <3>2, <3>3 DEF Execute, TypeOK, LifeType, MainOK, QueueType,
                                          ThreadType, MemberType, WorldType
  <2>8. CASE RecordApplied(w)
    <3>0. cmd[w] \in Commands
      BY <2>0, <2>8 DEF RecordApplied
    <3>1. ThreadType'
      BY <1>0, <2>8, <3>0 DEF ThreadType, RecordApplied, WorkerPcs, MemberType
    <3>2. MemberType'
      BY <1>0, <2>8, <3>0 DEF MemberType, RecordApplied, StillPending
    <3>3. [applied |-> TRUE, no |-> ackSeq] \in Control
      BY <1>0 DEF MemberType, Control
    <3>4. WorldType'
      BY <1>0, <2>8, <3>0, <3>3 DEF WorldType, RecordApplied
    <3> QED
      BY <1>0, <2>8, <3>1, <3>2, <3>4 DEF RecordApplied, TypeOK, LifeType, MainOK, QueueType,
                                          ThreadType, MemberType, WorldType
  <2>9. CASE Acknowledge(w)
    <3>1. ThreadType'
      BY <1>0, <2>9, DoneType DEF Acknowledge
    <3>2. Acknowledged(w) \in [revision : Commands, no : Nat]
      BY <1>0, <2>0, <2>9 DEF Acknowledge, Acknowledged, ThreadType
    <3>3. WorldType'
      BY <1>0, <2>9, <3>2 DEF WorldType, Acknowledge
    <3> QED
      BY <1>0, <2>9, <3>1, <3>3 DEF Acknowledge, TypeOK, LifeType, MainOK, QueueType,
                                    ThreadType, MemberType, WorldType
  <2> QED
    BY <1>4, <2>1, <2>2, <2>3, <2>4, <2>5, <2>6, <2>7, <2>8, <2>9 DEF WorkerStep
<1>5. CASE PowerLoss
  <2>1. crashes' \in Nat
    BY <1>5 DEF PowerLoss, TypeOK
  <2> QED
    BY <1>5, <2>1, NewProcessType DEF PowerLoss
<1>6. CASE UNCHANGED vars
    BY <1>6 DEF vars, TypeOK, MainOK
<1> QED
    BY <1>1, <1>2, <1>3, <1>4, <1>5, <1>6 DEF Next

(* Every variable of the control channel keeps its type and the downlink   *)
(* queue its capacity, with any number of workers.                         *)
THEOREM ControlTypeCorrect == Spec => []TypeOK
<1>1. Init => TypeOK
    BY TypeInit
<1>2. TypeOK /\ [Next]_vars => TypeOK'
    BY TypeStep
<1> QED
    BY <1>1, <1>2, PTL DEF Spec

-----------------------------------------------------------------------------
(* Stopping.  A worker leaves only an empty queue that takes nothing more. *)
StopInv ==
    /\ main \in {"joining", "joined", "released"} => queueStopping
    /\ main \in {"joined", "released"} => \A w \in Workers : at[w] = "off"
    /\ \A w \in Workers : (main # "down" /\ at[w] = "off") => queueStopping /\ queue = <<>>

LEMMA StopStepKeeps == TypeOK /\ StopInv /\ [Next]_vars => StopInv'
<1> SUFFICES ASSUME TypeOK, StopInv, [Next]_vars PROVE StopInv'
    OBVIOUS
<1> USE DEF lifecycle, members, world
<1>0. at \in [Workers -> WorkerPcs] /\ MainOK
    BY DEF TypeOK
<1>1. CASE MainStep
    BY <1>0, <1>1 DEF MainStep, StopStep, StartTransport, SubscribeDownlink, CancelHandler,
        RefuseNew, StopQueue, JoinWorkers, ReleaseService, Exit, NewProcess, StopInv, MainOK
<1>2. CASE Arrive \/ Enqueue
    BY <1>2 DEF Arrive, Enqueue, Takes, StopInv
<1>3. ASSUME NEW w \in Workers, WorkerStep(w) PROVE StopInv'
  <2>1. CASE Take(w)
    BY <1>0, <2>1 DEF Take, StopInv
  <2>2. CASE LeaveLoop(w)
    BY <1>0, <2>2 DEF LeaveLoop, Leaves, StopInv
  <2>3. CASE Dispatch(w) \/ FindDuplicate(w) \/ FindNew(w) \/ SaveReceived(w)
    BY <1>0, <2>3 DEF Dispatch, FindDuplicate, FindNew, SaveReceived, Done, StopInv
  <2>4. CASE Execute(w) \/ RecordApplied(w) \/ Acknowledge(w)
    BY <1>0, <2>4 DEF Execute, RecordApplied, Acknowledge, Done, StopInv
  <2> QED
    BY <1>3, <2>1, <2>2, <2>3, <2>4 DEF WorkerStep
<1>4. CASE PowerLoss
    BY <1>4 DEF PowerLoss, NewProcess, StopInv
<1>5. CASE UNCHANGED vars
    BY <1>5 DEF vars, StopInv
<1> QED
    BY <1>1, <1>2, <1>3, <1>4, <1>5 DEF Next

(* When stop() has joined the workers the downlink queue is empty, with    *)
(* any number of workers and wherever the callback stands.                 *)
THEOREM StopEmptiesQueue == Spec => []StopLeavesNothing
<1>1. Init => TypeOK /\ StopInv
    BY TypeInit DEF Init, StopInv
<1>2. TypeOK /\ StopInv /\ [Next]_vars => TypeOK' /\ StopInv'
    BY TypeStep, StopStepKeeps
<1>3. TypeOK /\ StopInv => StopLeavesNothing
    BY ControlAssumption DEF StopInv, StopLeavesNothing
<1> QED
    BY <1>1, <1>2, <1>3, PTL DEF Spec

-----------------------------------------------------------------------------
(* One worker, the default of downlink_workers: applyControl is sequential.*)
SingleWorker == \A v, w \in Workers : v = w

Fresh == [applied |-> FALSE, no |-> 0]

(* What the worker's place says of the record of the command it holds.     *)
PlaceInv ==
    \A w \in Workers :
        /\ at[w] = "new" => storedControl[cmd[w]] = NoRecord
        /\ at[w] = "saved" => applied[cmd[w]] = 0
        /\ at[w] \in {"saved", "applied"} => storedControl[cmd[w]] = Fresh
        /\ at[w] = "recorded" =>
               storedControl[cmd[w]] = [applied |-> TRUE, no |-> ackNo[w]]

(* What the store says of a command.                                       *)
StoreInv ==
    /\ \A c \in Commands : storedControl[c] = NoRecord => applied[c] = 0 /\ c \notin asked
    /\ pending = {c \in asked : ~storedControl[c].applied}

CommandInv == TypeOK /\ PlaceInv /\ StoreInv /\ AppliedOnce /\ AckedIsRecorded

LEMMA FreshRecord ==
    /\ Fresh # NoRecord /\ ~Fresh.applied
    /\ \A n \in Nat : /\ [applied |-> TRUE, no |-> n] # NoRecord
                      /\ [applied |-> TRUE, no |-> n] # Fresh
<1>1. Fresh \in Control /\ \A n \in Nat : [applied |-> TRUE, no |-> n] \in Control
    BY DEF Fresh, Control
<1>2. ~Fresh.applied /\ \A n \in Nat : [applied |-> TRUE, no |-> n].applied
    BY DEF Fresh
<1> QED
    BY <1>1, <1>2, RecordAssumption

LEMMA CommandInit == Init => CommandInv
BY TypeInit DEF Init, CommandInv, PlaceInv, StoreInv, AppliedOnce, AckedIsRecorded

LEMMA CommandQuiet ==
    ASSUME CommandInv, TypeOK', UNCHANGED world, UNCHANGED <<ackNo, pending>>,
           \A w \in Workers :
               at'[w] \in {"new", "saved", "applied", "recorded"} =>
                  /\ cmd'[w] = cmd[w]
                  /\ at'[w] = at[w] \/ (at'[w] = "new" /\ storedControl[cmd[w]] = NoRecord)
    PROVE  CommandInv'
BY DEF CommandInv, PlaceInv, StoreInv, AppliedOnce, AckedIsRecorded, world

LEMMA CommandNewProcess ==
    ASSUME CommandInv, TypeOK', NewProcess
    PROVE  CommandInv'
BY DEF CommandInv, PlaceInv, StoreInv, AppliedOnce, AckedIsRecorded, NewProcess

(* The record is new: nothing was asked, applied or acknowledged under it. *)
LEMMA CommandSaved ==
    ASSUME SingleWorker, CommandInv, TypeOK', NEW w \in Workers, SaveReceived(w)
    PROVE  CommandInv'
<1> DEFINE c == cmd[w]
<1> USE DEF SaveReceived, lifecycle, members
<1>1. c \in Commands /\ storedControl[c] = NoRecord
    BY DEF CommandInv, TypeOK, PlaceInv
<1>2. /\ storedControl'[c] = Fresh
      /\ \A d \in Commands \ {c} : storedControl'[d] = storedControl[d]
    BY <1>1 DEF CommandInv, TypeOK, Fresh
<1>3. applied[c] = 0 /\ c \notin asked /\ asked \subseteq Commands
    BY <1>1 DEF CommandInv, StoreInv, TypeOK
<1>4. PlaceInv'
    BY <1>1, <1>2, <1>3 DEF SingleWorker, PlaceInv, CommandInv, TypeOK
<1>5. StoreInv'
    BY <1>1, <1>2, <1>3, FreshRecord DEF StoreInv, CommandInv
<1>6. AckedIsRecorded'
  <2> SUFFICES ASSUME NEW a \in acks
               PROVE  storedControl'[a.revision] = [applied |-> TRUE, no |-> a.no]
    BY DEF AckedIsRecorded
  <2>1. a.revision \in Commands /\ a.no \in Nat
    BY DEF CommandInv, TypeOK
  <2>2. storedControl[a.revision] = [applied |-> TRUE, no |-> a.no]
    BY DEF CommandInv, AckedIsRecorded
  <2>3. a.revision # c
    BY <1>1, <2>1, <2>2, FreshRecord
  <2> QED
    BY <1>2, <2>1, <2>2, <2>3
<1> QED
    BY <1>4, <1>5, <1>6 DEF CommandInv, AppliedOnce

(* The executor is asked for a command it has never applied.               *)
LEMMA CommandExecuted ==
    ASSUME SingleWorker, CommandInv, TypeOK', NEW w \in Workers, Execute(w)
    PROVE  CommandInv'
<1> DEFINE c == cmd[w]
<1> USE DEF Execute, lifecycle
<1>1. c \in Commands /\ storedControl[c] = Fresh /\ applied[c] = 0
    BY DEF CommandInv, TypeOK, PlaceInv
<1>2. AppliedOnce'
  <2>1. applied \in [Commands -> Nat] /\ \A d \in Commands : applied[d] <= 1
    BY DEF CommandInv, TypeOK, AppliedOnce
  <2>2. CASE applied' = [applied EXCEPT ![c] = @ + 1]
    BY <1>1, <2>1, <2>2 DEF AppliedOnce
  <2>3. CASE UNCHANGED applied
    BY <2>1, <2>3 DEF AppliedOnce
  <2> QED
    BY <2>2, <2>3
<1>3. PlaceInv'
    BY <1>1 DEF SingleWorker, PlaceInv, CommandInv, TypeOK, Done
<1>4. StoreInv'
  <2>1. \A d \in Commands : storedControl'[d] = NoRecord => applied'[d] = 0 /\ d \notin asked'
    BY <1>1, FreshRecord DEF CommandInv, StoreInv, TypeOK
  <2>2. pending' = {d \in asked' : ~storedControl'[d].applied}
    BY <1>1, FreshRecord DEF CommandInv, StoreInv
  <2> QED
    BY <2>1, <2>2 DEF StoreInv
<1>5. AckedIsRecorded'
    BY DEF CommandInv, AckedIsRecorded
<1> QED
    BY <1>2, <1>3, <1>4, <1>5 DEF CommandInv

(* The record becomes one of an applied command; no acknowledgement names  *)
(* it yet.                                                                 *)
LEMMA CommandRecorded ==
    ASSUME SingleWorker, CommandInv, TypeOK', NEW w \in Workers, RecordApplied(w)
    PROVE  CommandInv'
<1> DEFINE c == cmd[w]
           r == [applied |-> TRUE, no |-> ackSeq]
<1> USE DEF RecordApplied, lifecycle
<1>1. c \in Commands /\ storedControl[c] = Fresh /\ ackSeq \in Nat
    BY DEF CommandInv, TypeOK, PlaceInv
<1>2. /\ storedControl'[c] = r
      /\ \A d \in Commands \ {c} : storedControl'[d] = storedControl[d]
    BY <1>1 DEF CommandInv, TypeOK
<1>3. PlaceInv'
    BY <1>1, <1>2 DEF SingleWorker, PlaceInv, CommandInv, TypeOK
<1>4. StoreInv'
  <2>1. \A d \in Commands : storedControl'[d] = NoRecord => applied'[d] = 0 /\ d \notin asked'
    BY <1>1, <1>2, FreshRecord DEF CommandInv, StoreInv
  <2>2. r.applied /\ asked \subseteq Commands
    BY DEF CommandInv, TypeOK
  <2>3. pending' = {d \in asked' : ~storedControl'[d].applied}
    BY <1>1, <1>2, <2>2 DEF CommandInv, StoreInv, StillPending
  <2> QED
    BY <2>1, <2>3 DEF StoreInv
<1>5. AckedIsRecorded'
  <2> SUFFICES ASSUME NEW a \in acks
               PROVE  storedControl'[a.revision] = [applied |-> TRUE, no |-> a.no]
    BY DEF AckedIsRecorded
  <2>1. a.revision \in Commands /\ a.no \in Nat
    BY DEF CommandInv, TypeOK
  <2>2. storedControl[a.revision] = [applied |-> TRUE, no |-> a.no]
    BY DEF CommandInv, AckedIsRecorded
  <2>3. a.revision # c
    BY <1>1, <2>1, <2>2, FreshRecord
  <2> QED
    BY <1>2, <2>1, <2>2, <2>3
<1> QED
    BY <1>3, <1>4, <1>5 DEF CommandInv, AppliedOnce

LEMMA CommandAcknowledged ==
    ASSUME SingleWorker, CommandInv, TypeOK', NEW w \in Workers, Acknowledge(w)
    PROVE  CommandInv'
<1> USE DEF Acknowledge, lifecycle, members
<1>1. storedControl[cmd[w]] = [applied |-> TRUE, no |-> ackNo[w]]
    BY DEF CommandInv, PlaceInv
<1>2. PlaceInv'
    BY DEF SingleWorker, PlaceInv, CommandInv, TypeOK, Done
<1>3. StoreInv' /\ AppliedOnce'
    BY DEF CommandInv, StoreInv, AppliedOnce
<1>4. AckedIsRecorded'
  <2>1. acks' \subseteq acks \cup {Acknowledged(w)} /\ UNCHANGED storedControl
    OBVIOUS
  <2>2. \A a \in acks : storedControl[a.revision] = [applied |-> TRUE, no |-> a.no]
    BY DEF CommandInv, AckedIsRecorded
  <2>3. Acknowledged(w).revision = cmd[w] /\ Acknowledged(w).no = ackNo[w]
    BY DEF Acknowledged
  <2> QED
    BY <1>1, <2>1, <2>2, <2>3 DEF AckedIsRecorded
<1> QED
    BY <1>2, <1>3, <1>4 DEF CommandInv

LEMMA CommandStep == SingleWorker /\ CommandInv /\ [Next]_vars => CommandInv'
<1> SUFFICES ASSUME SingleWorker, CommandInv, [Next]_vars PROVE CommandInv'
    OBVIOUS
<1> USE DEF lifecycle, members, world
<1>0. TypeOK' /\ at \in [Workers -> WorkerPcs] /\ cmd \in [Workers -> Commands \cup {NoCommand}]
    BY TypeStep DEF CommandInv, TypeOK
<1>1. CASE MainStep
  <2>1. CASE StartTransport
    BY <1>0, <2>1, CommandQuiet DEF StartTransport
  <2>2. CASE SubscribeDownlink \/ CancelHandler \/ StopStep
    BY <1>0, <2>2, CommandQuiet DEF SubscribeDownlink, CancelHandler, StopStep, RefuseNew,
        StopQueue, JoinWorkers, ReleaseService
  <2>3. CASE Exit
    BY <1>0, <2>3, CommandNewProcess DEF Exit
  <2> QED
    BY <1>1, <2>1, <2>2, <2>3 DEF MainStep
<1>2. CASE Arrive \/ Enqueue
    BY <1>0, <1>2, CommandQuiet DEF Arrive, Enqueue
<1>3. ASSUME NEW w \in Workers, WorkerStep(w) PROVE CommandInv'
  <2>1. CASE Take(w) \/ LeaveLoop(w) \/ Dispatch(w)
    BY <1>0, <2>1, CommandQuiet DEF SingleWorker, Take, LeaveLoop, Dispatch
  <2>2. CASE FindDuplicate(w) \/ FindNew(w)
    BY <1>0, <2>2, CommandQuiet DEF SingleWorker, FindDuplicate, FindNew, Done, Known
  <2>3. CASE SaveReceived(w)
    BY <1>0, <2>3, CommandSaved
  <2>4. CASE Execute(w)
    BY <1>0, <2>4, CommandExecuted
  <2>5. CASE RecordApplied(w)
    BY <1>0, <2>5, CommandRecorded
  <2>6. CASE Acknowledge(w)
    BY <1>0, <2>6, CommandAcknowledged
  <2> QED
    BY <1>3, <2>1, <2>2, <2>3, <2>4, <2>5, <2>6 DEF WorkerStep
<1>4. CASE PowerLoss
    BY <1>0, <1>4, CommandNewProcess DEF PowerLoss
<1>5. CASE UNCHANGED vars
    BY <1>0, <1>5, CommandQuiet DEF vars
<1> QED
    BY <1>1, <1>2, <1>3, <1>4, <1>5 DEF Next

LEMMA CommandAlways == SingleWorker => (Spec => []CommandInv)
<1> SUFFICES ASSUME SingleWorker PROVE Spec => []CommandInv
    OBVIOUS
<1>1. Init => CommandInv
    BY CommandInit
<1>2. CommandInv /\ [Next]_vars => CommandInv'
    BY CommandStep
<1> QED
    BY <1>1, <1>2, PTL DEF Spec

(* With one worker no command is applied twice: not by a redelivery, and   *)
(* not by one that follows any number of power losses in applyControl.     *)
THEOREM AppliedAtMostOnce == SingleWorker => (Spec => []AppliedOnce)
<1> SUFFICES ASSUME SingleWorker PROVE Spec => []AppliedOnce
    OBVIOUS
<1>1. CommandInv => AppliedOnce
    BY DEF CommandInv
<1>2. Spec => []CommandInv
    BY CommandAlways
<1> QED
    BY <1>1, <1>2, PTL

(* With one worker the cloud never holds an acknowledgement the store does *)
(* not back: applyControl saves the applied record first.                  *)
THEOREM AcksAreRecorded == SingleWorker => (Spec => []AckedIsRecorded)
<1> SUFFICES ASSUME SingleWorker PROVE Spec => []AckedIsRecorded
    OBVIOUS
<1>1. CommandInv => AckedIsRecorded
    BY DEF CommandInv
<1>2. Spec => []CommandInv
    BY CommandAlways
<1> QED
    BY <1>1, <1>2, PTL

(* With one worker the list of pending controls that the final result      *)
(* reports is the one a reader of the store would compute.                 *)
THEOREM PendingIsReported == SingleWorker => (Spec => []PendingIsUnapplied)
<1> SUFFICES ASSUME SingleWorker PROVE Spec => []PendingIsUnapplied
    OBVIOUS
<1>1. CommandInv => PendingIsUnapplied
    BY DEF CommandInv, StoreInv, PendingIsUnapplied
<1>2. Spec => []CommandInv
    BY CommandAlways
<1> QED
    BY <1>1, <1>2, PTL
=============================================================================
