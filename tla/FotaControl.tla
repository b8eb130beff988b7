---------------------------- MODULE FotaControl ----------------------------
(***************************************************************************)
(* The way of a control command: the SOME/IP callback puts it into the     *)
(* bounded downlink queue, a worker takes it out and hands it to the       *)
(* daemon's handler, which is FotaOrchestrator::applyControl.  Beside it   *)
(* run the main thread, which starts and stops the daemon and the          *)
(* transport, and the power supply.                                        *)
(*                                                                         *)
(* A step of a thread ends where another thread or a power loss can tell   *)
(* the difference: at an atomic flag, at a section under queueMutex_, at a *)
(* durable write, at the executor and at the cloud call.  The callback's   *)
(* checks of a malformed message, which only drop it, are left out.        *)
(***************************************************************************)
EXTENDS Naturals, Sequences

CONSTANTS
    Workers,        \* downlink worker threads (cfg.downlinkWorkers)
    Commands,       \* control commands, by their controlRevision
    QueueCapacity,  \* cfg.downlinkQueueCapacity
    NoCommand,      \* no command in hand
    NoRecord,       \* a store key that was never written
    MaxCrashes      \* bound: power losses

ASSUME ControlAssumption ==
    /\ Workers # {} /\ Commands \subseteq Nat \ {0}
    /\ NoCommand \notin Commands
    /\ QueueCapacity \in Nat /\ MaxCrashes \in Nat

VARIABLES
    main,           \* where start() and stop() stand
    handler,        \* the daemon's handler is registered
    stopping,       \* stopping_ of the transport
    queueStopping, queue,
    arriving,       \* command the callback holds, past its check of stopping_
    at, cmd,        \* where each worker stands, and the command it holds
    ackNo,          \* ce.ackSequenceNo of each worker
    (* Members of the orchestrator.                                        *)
    lastReceived, lastApplied, pending, ackSeq,
    (* Durable: fota.controls:<revision>.                                  *)
    storedControl,
    (* What the executor and the cloud have seen.                          *)
    asked,          \* commands handed to the executor since the last start
    handed,         \* commands ever handed to it
    applied,        \* how often the executor applied each command, ever
    acks,           \* acknowledgements the cloud received
    crashes

lifecycle == <<main, handler, stopping, queueStopping>>
members == <<lastReceived, lastApplied, pending, ackSeq>>
world == <<storedControl, asked, handed, applied, acks>>
vars == <<lifecycle, queue, arriving, at, cmd, ackNo, members, world, crashes>>

Control == [applied : BOOLEAN, no : Nat]

ASSUME RecordAssumption == NoRecord \notin Control

-----------------------------------------------------------------------------
(* FotaDaemon::start and the transport's: the workers and the SOME/IP      *)
(* subscription first, the handler second.                                 *)

StartTransport ==
    /\ main = "down" /\ main' = "started"
    /\ stopping' = FALSE /\ queueStopping' = FALSE
    /\ at' = [w \in Workers |-> "wait"]
    /\ UNCHANGED <<handler, queue, arriving, cmd, ackNo, members, world, crashes>>

SubscribeDownlink ==
    /\ main = "started" /\ main' = "running"
    /\ handler' = TRUE
    /\ UNCHANGED <<stopping, queueStopping, queue, arriving, at, cmd, ackNo, members,
                   world, crashes>>

(* FotaDaemon::stop cancels its handler, then stops the transport, which   *)
(* refuses new messages, lets the workers empty the queue and joins them.  *)
CancelHandler ==
    /\ main = "running" /\ main' = "cancelled"
    /\ handler' = FALSE
    /\ UNCHANGED <<stopping, queueStopping, queue, arriving, at, cmd, ackNo, members,
                   world, crashes>>

RefuseNew ==
    /\ main = "cancelled" /\ main' = "refusing"
    /\ stopping' = TRUE
    /\ UNCHANGED <<handler, queueStopping, queue, arriving, at, cmd, ackNo, members,
                   world, crashes>>

StopQueue ==
    /\ main = "refusing" /\ main' = "joining"
    /\ queueStopping' = TRUE
    /\ UNCHANGED <<handler, stopping, queue, arriving, at, cmd, ackNo, members, world,
                   crashes>>

JoinWorkers ==
    /\ main = "joining" /\ \A w \in Workers : at[w] = "off"
    /\ main' = "joined"
    /\ UNCHANGED <<handler, stopping, queueStopping, queue, arriving, at, cmd, ackNo,
                   members, world, crashes>>

(* The SOME/IP subscription is cancelled and the service released; then    *)
(* the process ends.                                                       *)
ReleaseService ==
    /\ main = "joined" /\ main' = "released"
    /\ UNCHANGED <<handler, stopping, queueStopping, queue, arriving, at, cmd, ackNo,
                   members, world, crashes>>

(* A new process: what is not in the store is as the class declares it.    *)
NewProcess ==
    /\ main' = "down" /\ handler' = FALSE
    /\ stopping' = FALSE /\ queueStopping' = FALSE
    /\ queue' = <<>> /\ arriving' = NoCommand
    /\ at' = [w \in Workers |-> "off"]
    /\ cmd' = [w \in Workers |-> NoCommand] /\ ackNo' = [w \in Workers |-> 0]
    /\ lastReceived' = 0 /\ lastApplied' = 0 /\ pending' = {} /\ ackSeq' = 1
    /\ asked' = {}
    /\ UNCHANGED <<storedControl, handed, applied, acks>>

Exit == main = "released" /\ NewProcess /\ UNCHANGED crashes

PowerLoss ==
    /\ main # "down" /\ crashes < MaxCrashes
    /\ crashes' = crashes + 1
    /\ NewProcess

-----------------------------------------------------------------------------
(* onDownlinkEvent, on the SOME/IP executor: the check of stopping_ and    *)
(* the section under queueMutex_, which drops the message when the queue   *)
(* is stopping or full.                                                    *)

Arrive ==
    /\ main # "down" /\ ~stopping /\ arriving = NoCommand
    /\ \E c \in Commands : arriving' = c
    /\ UNCHANGED <<lifecycle, queue, at, cmd, ackNo, members, world, crashes>>

Mut_Takes == Len(queue) < QueueCapacity
Takes == ~queueStopping /\ Len(queue) < QueueCapacity

Enqueue ==
    /\ arriving # NoCommand
    /\ queue' = IF Takes THEN Append(queue, arriving) ELSE queue
    /\ arriving' = NoCommand
    /\ UNCHANGED <<lifecycle, at, cmd, ackNo, members, world, crashes>>

-----------------------------------------------------------------------------
(* workerLoop and dispatchToHandlers.                                      *)

Take(w) ==
    /\ at[w] = "wait" /\ queue # <<>>
    /\ cmd' = [cmd EXCEPT ![w] = Head(queue)]
    /\ queue' = Tail(queue)
    /\ at' = [at EXCEPT ![w] = "taken"]
    /\ UNCHANGED <<lifecycle, arriving, ackNo, members, world, crashes>>

Mut_Leaves == FALSE
Leaves == queue = <<>> /\ queueStopping

LeaveLoop(w) ==
    /\ at[w] = "wait" /\ Leaves
    /\ at' = [at EXCEPT ![w] = "off"]
    /\ UNCHANGED <<lifecycle, queue, arriving, cmd, ackNo, members, world, crashes>>

(* The handlers are copied under handlersMutex_ and called without it; a   *)
(* message that finds none is gone.                                        *)
Dispatch(w) ==
    /\ at[w] = "taken"
    /\ at' = [at EXCEPT ![w] = IF handler THEN "called" ELSE "wait"]
    /\ cmd' = IF handler THEN cmd ELSE [cmd EXCEPT ![w] = NoCommand]
    /\ UNCHANGED <<lifecycle, queue, arriving, ackNo, members, world, crashes>>

-----------------------------------------------------------------------------
(* applyControl.                                                           *)

Done(w) ==
    /\ at' = [at EXCEPT ![w] = "wait"]
    /\ cmd' = [cmd EXCEPT ![w] = NoCommand]

(* loadControl finds a record of that revision, whatever became of it.     *)
Mut_Known(c) == storedControl[c] # NoRecord /\ storedControl[c].applied
Known(c) == storedControl[c] # NoRecord

FindDuplicate(w) ==
    /\ at[w] = "called" /\ Known(cmd[w])
    /\ Done(w)
    /\ UNCHANGED <<lifecycle, queue, arriving, ackNo, members, world, crashes>>

FindNew(w) ==
    /\ at[w] = "called" /\ ~Known(cmd[w])
    /\ at' = [at EXCEPT ![w] = "new"]
    /\ UNCHANGED <<lifecycle, queue, arriving, cmd, ackNo, members, world, crashes>>

SaveReceived(w) ==
    /\ at[w] = "new"
    /\ storedControl' = [storedControl EXCEPT ![cmd[w]] = [applied |-> FALSE, no |-> 0]]
    /\ at' = [at EXCEPT ![w] = "saved"]
    /\ UNCHANGED <<lifecycle, queue, arriving, cmd, ackNo, members, asked, handed,
                   applied, acks, crashes>>

(* Any status but APPLIED (rejected, deferred) ends the call and leaves    *)
(* the command pending.                                                    *)
Execute(w) ==
    /\ at[w] = "saved"
    /\ lastReceived' = cmd[w]
    /\ pending' = pending \cup {cmd[w]}
    /\ asked' = asked \cup {cmd[w]} /\ handed' = handed \cup {cmd[w]}
    /\ \/ /\ applied' = [applied EXCEPT ![cmd[w]] = @ + 1]
          /\ at' = [at EXCEPT ![w] = "applied"]
          /\ UNCHANGED cmd
       \/ Done(w) /\ UNCHANGED applied
    /\ UNCHANGED <<lifecycle, queue, arriving, ackNo, lastApplied, ackSeq, storedControl,
                   acks, crashes>>

Mut_StillPending(c) == pending
StillPending(c) == pending \ {c}

RecordApplied(w) ==
    /\ at[w] = "applied"
    /\ ackNo' = [ackNo EXCEPT ![w] = ackSeq] /\ ackSeq' = ackSeq + 1
    /\ storedControl' = [storedControl EXCEPT ![cmd[w]] = [applied |-> TRUE, no |-> ackSeq]]
    /\ lastApplied' = cmd[w]
    /\ pending' = StillPending(cmd[w])
    /\ at' = [at EXCEPT ![w] = "recorded"]
    /\ UNCHANGED <<lifecycle, queue, arriving, cmd, lastReceived, asked, handed,
                   applied, acks, crashes>>

(* The acknowledgement names the number of the record; a stopping          *)
(* transport refuses it, the cloud may not get it or its answer may be     *)
(* lost, and nothing is tried again.                                       *)
Mut_Acknowledged(w) == [revision |-> cmd[w], no |-> ackSeq]
Acknowledged(w) == [revision |-> cmd[w], no |-> ackNo[w]]

Acknowledge(w) ==
    /\ at[w] = "recorded"
    /\ \/ ~stopping /\ acks' = acks \cup {Acknowledged(w)}
       \/ UNCHANGED acks
    /\ Done(w)
    /\ UNCHANGED <<lifecycle, queue, arriving, ackNo, members, storedControl, asked, handed,
                   applied, crashes>>

-----------------------------------------------------------------------------
Init ==
    /\ main = "down" /\ handler = FALSE
    /\ stopping = FALSE /\ queueStopping = FALSE
    /\ queue = <<>> /\ arriving = NoCommand
    /\ at = [w \in Workers |-> "off"]
    /\ cmd = [w \in Workers |-> NoCommand] /\ ackNo = [w \in Workers |-> 0]
    /\ lastReceived = 0 /\ lastApplied = 0 /\ pending = {} /\ ackSeq = 1
    /\ storedControl = [c \in Commands |-> NoRecord]
    /\ asked = {} /\ handed = {} /\ applied = [c \in Commands |-> 0] /\ acks = {}
    /\ crashes = 0

StopStep == RefuseNew \/ StopQueue \/ JoinWorkers \/ ReleaseService
MainStep == StartTransport \/ SubscribeDownlink \/ CancelHandler \/ StopStep \/ Exit

WorkerStep(w) ==
    \/ Take(w) \/ LeaveLoop(w) \/ Dispatch(w)
    \/ FindDuplicate(w) \/ FindNew(w) \/ SaveReceived(w)
    \/ Execute(w) \/ RecordApplied(w) \/ Acknowledge(w)

Next ==
    \/ MainStep
    \/ Arrive \/ Enqueue
    \/ \E w \in Workers : WorkerStep(w)
    \/ PowerLoss

Spec == Init /\ [][Next]_vars

(* The daemon is started when the system comes up, threads are scheduled,  *)
(* and neither the executor nor a cloud call (it has a timeout) hangs.     *)
(* Nobody need ever stop the daemon.                                       *)
Fairness ==
    /\ WF_vars(StartTransport \/ SubscribeDownlink) /\ WF_vars(StopStep)
    /\ WF_vars(Enqueue)
    /\ \A w \in Workers : WF_vars(WorkerStep(w))

FairSpec == Spec /\ Fairness

-----------------------------------------------------------------------------
(***************************************************************************)
(* Properties.                                                             *)
(***************************************************************************)

MainOK == main \in {"down", "started", "running", "cancelled", "refusing", "joining",
                    "joined", "released"}
WorkerPcs == {"off", "wait", "taken", "called", "new", "saved", "applied", "recorded"}

(* Every variable holds a value of its kind; a worker past the queue holds *)
(* a command, and the queue keeps to its capacity                          *)
(* (someip_vehicle_message_transport.cpp:424-433).                         *)
TypeOK ==
    /\ MainOK /\ {handler, stopping, queueStopping} \subseteq BOOLEAN
    /\ queue \in Seq(Commands) /\ Len(queue) <= QueueCapacity
    /\ arriving \in Commands \cup {NoCommand}
    /\ at \in [Workers -> WorkerPcs]
    /\ cmd \in [Workers -> Commands \cup {NoCommand}]
    /\ \A w \in Workers : at[w] \notin {"off", "wait"} => cmd[w] \in Commands
    /\ ackNo \in [Workers -> Nat] /\ ackSeq \in Nat
    /\ lastReceived \in Commands \cup {0} /\ lastApplied \in Commands \cup {0}
    /\ {pending, asked, handed} \subseteq SUBSET Commands
    /\ storedControl \in [Commands -> Control \cup {NoRecord}]
    /\ applied \in [Commands -> Nat]
    /\ acks \subseteq [revision : Commands, no : Nat]
    /\ crashes \in Nat

(* No command is applied twice, however often the cloud delivers it and    *)
(* wherever the power fails (dedup by controlRevision, applyControl).      *)
(* With the default of one downlink worker.                                *)
AppliedOnce == \A c \in Commands : applied[c] <= 1

(* An acknowledgement the cloud holds is backed by the record: the command *)
(* is stored as applied under the acknowledged number.                     *)
AckedIsRecorded ==
    \A a \in acks : storedControl[a.revision] = [applied |-> TRUE, no |-> a.no]

(* Between two commands, pendingControlIds_, which the final result        *)
(* reports, are the commands the executor was asked for since the start    *)
(* and has not applied.                                                    *)
PendingIsUnapplied ==
    (\A w \in Workers : at[w] \in {"off", "wait", "taken", "called"})
        => pending = {c \in asked : ~storedControl[c].applied}

(* Once the workers are joined nothing is left in the queue and nothing    *)
(* gets in any more, although a callback may have passed the check of      *)
(* stopping_ long before ("drain the rest of the queue, then leave", :176).*)
StopLeavesNothing == main \in {"joined", "released"} => queue = <<>>

(* stop() returns: neither the queue nor a worker in the middle of a       *)
(* command holds it up for ever.                                           *)
StopReturns == main = "cancelled" ~> main \in {"released", "down"}

(* A delivered command is dropped as a duplicate only after the executor    *)
(* has been asked for it ("saved durably, then handed to the executor",     *)
(* fota_orchestrator.hpp:85), with one worker.                             *)
DropsOnlyExecuted ==
    \A w \in Workers : (at[w] = "called" /\ Known(cmd[w])) => cmd[w] \in handed
=============================================================================
