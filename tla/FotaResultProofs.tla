-------------------------- MODULE FotaResultProofs --------------------------
(***************************************************************************)
(* What a final result rests on in FotaOrchestrator: that the cloud has    *)
(* the events before it has the result; and, of a program that is not      *)
(* interrupted, that the result names the last event, that no execution    *)
(* begins twice and that each runs under its saved permit.                 *)
(***************************************************************************)
EXTENDS FotaTaskProofs

Acked(s) == storedEvents[s].status = "ACKED"

(* Every record holds an event of this schema, and the cloud has those     *)
(* that are marked so; every acknowledged event is in the outbox.          *)
RecordsInv ==
    \A s \in Seqs : storedEvents[s] # NoRecord =>
        /\ storedEvents[s].event # 0
        /\ Acked(s) => <<s, storedEvents[s].event>> \in delivered
AckInv == \A e \in acknowledged : \E s \in Committed : storedEvents[s].event = e

(* doExecute starts its pass over the outbox anew; while nothing failed    *)
(* what it has passed is accepted; without a failure it comes to the final *)
(* result, when all is.                                                    *)
Concluding ==
    pc = "finalize" \/ (pc \in {"saveExec", "saveMeta"} /\ ret = "finalize")
PassInv ==
    /\ pc # "send" => sendSeq = 1 /\ ~sendError
    /\ pc = "send" /\ ~sendError => \A s \in Committed : s < sendSeq => Acked(s)
    /\ Concluding => \A s \in Committed : Acked(s)

SettledInv == LogInv /\ RecordsInv /\ AckInv /\ PassInv

(* The steps that touch the outbox, what the cloud took, or a pass.        *)
OutboxStep ==
    \/ SaveExecution \/ SaveMeta \/ EmitEvent \/ CommitEvent \/ ResumeExecution
    \/ SkipEvent \/ MarkSent \/ EventAccepted \/ EventNotAccepted \/ EndSend
    \/ Crash \/ Reconcile

outboxVars == <<storedMeta, storedEvents, delivered, acknowledged, sendSeq, sendError,
                acceptedSeq>>

LEMMA OutboxQuiet ==
    ASSUME [Next]_vars, ~OutboxStep
    PROVE  /\ UNCHANGED outboxVars
           /\ pc' = "boot" <=> pc = "boot"
           /\ UNCHANGED <<pc, ret>> \/ (pc # "send" /\ pc' # "send" /\ ~Concluding')
<1> DEFINE Quiet == /\ UNCHANGED outboxVars
                    /\ pc' = "boot" <=> pc = "boot"
                    /\ UNCHANGED <<pc, ret>> \/ (pc # "send" /\ pc' # "send" /\ ~Concluding')
<1> USE DEF outboxVars, memory, locals, journal, cloudLog, downloadFrame, Concluding
<1>1. ASSUME NEW p \in Packages, SkipReady(p) \/ GrantFails(p) \/ Fetch(p) PROVE Quiet
    BY <1>1 DEF SkipReady, GrantFails, Fetch
<1>1a. CASE StageReported \/ StageReportLost \/ NoStageResult
    BY <1>1a DEF StageReported, StageReportLost, NoStageResult
<1>1b. CASE SaveDownload \/ AbandonDownload
    BY <1>1b DEF SaveDownload, AbandonDownload
<1>2. CASE CheckTask \/ RequireConsent \/ ReportConsent \/ RecordConsent \/ BeginDownload
    BY <1>2 DEF CheckTask, RequireConsent, ReportConsent, RecordConsent, BeginDownload, At
<1>3. CASE EndDownload \/ OpenWindow \/ RequestPermit \/ RetryNotGranted
    BY <1>3 DEF EndDownload, OpenWindow, RequestPermit, RetryNotGranted, AfterPermit, At
<1>4. CASE StartInstall \/ StartReturns \/ StartRefused
    BY <1>4 DEF StartInstall, StartReturns, StartRefused
<1>5. CASE FinalAccepted \/ FinalNotAccepted
    BY <1>5 DEF FinalAccepted, FinalNotAccepted
<1>6. CASE StepFails \/ PermitExpires \/ GuardsChange \/ UNCHANGED vars
    BY <1>6 DEF StepFails, PermitExpires, GuardsChange, vars
<1> QED
    BY <1>1, <1>1a, <1>1b, <1>2, <1>3, <1>4, <1>5, <1>6 DEF Next, Step, DownloadStep,
        ExecuteStep, OutboxStep

LEMMA SettledInit == Init /\ ~Migrated => RecordsInv /\ AckInv /\ PassInv
    BY DEF Init, FreshStore, RecordsInv, AckInv, PassInv, Concluding, Seqs

(* Acceptance marks one record and nothing else.                           *)
LEMMA AcceptedRecord ==
    ASSUME LogInv, EventAccepted
    PROVE  /\ sendSeq \in Seqs
           /\ storedEvents'[sendSeq] # NoRecord
           /\ storedEvents'[sendSeq].status = "ACKED"
           /\ storedEvents'[sendSeq].event = storedEvents[sendSeq].event
           /\ \A s \in Seqs \ {sendSeq} : storedEvents'[s] = storedEvents[s]
           /\ storedMeta' = storedMeta
           /\ <<sendSeq, storedEvents[sendSeq].event>> \in delivered'
           /\ delivered \subseteq delivered'
<1>1. sendSeq \in Seqs /\ storedEvents[sendSeq] \in Event
    BY SendingFresh DEF EventAccepted
<1>2. storedEvents' = [storedEvents EXCEPT ![sendSeq].status = "ACKED"]
    BY DEF EventAccepted
<1>3. storedEvents'[sendSeq] = [storedEvents[sendSeq] EXCEPT !.status = "ACKED"]
      /\ \A s \in Seqs \ {sendSeq} : storedEvents'[s] = storedEvents[s]
    BY <1>1, <1>2 DEF LogInv, TypeInv, TypeOK, StoreOK
<1>4. /\ storedEvents'[sendSeq].status = "ACKED"
      /\ storedEvents'[sendSeq].event = storedEvents[sendSeq].event
      /\ storedEvents'[sendSeq] \in Event
    BY <1>1, <1>3 DEF Event, SendStates
<1> QED
    BY <1>1, <1>3, <1>4, RecordAssumption DEF EventAccepted, sendFrame, Report

LEMMA SettledStep ==
    ASSUME SettledInv, LogInv', [Next]_vars
    PROVE  RecordsInv' /\ AckInv' /\ PassInv'
<1>0. /\ LogInv /\ RecordsInv /\ AckInv /\ PassInv
      /\ storedMeta.next \in 1..(OutboxMax + 1) /\ OutboxMax \in Nat /\ sendSeq \in Nat
      /\ storedEvents \in [Seqs -> Event \cup {NoRecord}]
    BY BoundAssumption DEF SettledInv, LogInv, TypeInv, TypeOK, StoreOK, CallOK
<1> USE DEF memory, downloads, journal, cloudLog, Committed, Concluding
<1>1. CASE SaveExecution
    BY <1>0, <1>1 DEF SaveExecution, locals, RecordsInv, AckInv, PassInv, Acked
<1>2. CASE SaveMeta
  <2>1. storedMeta'.next = storedMeta.next
    BY <1>0, <1>2 DEF SaveMeta, LogInv, FreshInv
  <2>2. pc' \in {"idle", "send", "finalize"} /\ pc' = ret
    BY <1>0, <1>2 DEF SaveMeta, LogInv, TypeInv, TypeOK, CallOK
  <2> QED
    BY <1>0, <1>2, <2>1, <2>2 DEF SaveMeta, locals, RecordsInv, AckInv, PassInv, Acked,
        Seqs
<1>3. CASE EmitEvent
  <2>1. emissions' # 0
    BY <1>0, <1>3 DEF EmitEvent, LogInv, TypeInv, TypeOK, WorldOK
  <2>2. /\ storedEvents'[storedMeta.next] = [status |-> "PENDING", event |-> emissions']
        /\ \A s \in Seqs \ {storedMeta.next} : storedEvents'[s] = storedEvents[s]
        /\ storedMeta' = storedMeta /\ storedMeta.next \in Seqs
    BY <1>0, <1>3 DEF EmitEvent, Seqs
  <2>3. RecordsInv'
    BY <1>0, <1>3, <2>1, <2>2 DEF EmitEvent, RecordsInv, Acked
  <2>4. \A s \in Committed : s \in Committed' /\ storedEvents'[s] = storedEvents[s]
    BY <1>0, <2>2 DEF Seqs
  <2> QED
    BY <1>0, <1>3, <2>3, <2>4 DEF EmitEvent, locals, AckInv, PassInv
<1>4. CASE CommitEvent
  <2>1. /\ storedMeta'.next = storedMeta.next + 1 /\ storedMeta.next \in Seqs
        /\ storedEvents[storedMeta.next].event = emissions
    BY <1>0, <1>4 DEF CommitEvent, LogInv, TypeInv, TypeOK, StoreOK, RoomToCommit,
        FreshInv
  <2>2. Committed' = Committed \cup {storedMeta.next}
    BY <1>0, <2>1 DEF Seqs
  <2>3. AckInv'
    BY <1>0, <1>4, <2>1, <2>2 DEF CommitEvent, AckInv
  <2> QED
    BY <1>0, <1>4, <2>3 DEF CommitEvent, locals, RecordsInv, PassInv, Acked
<1>5. CASE ResumeExecution
    BY <1>0, <1>5 DEF ResumeExecution, locals, RecordsInv, AckInv, PassInv, Acked, Seqs
<1>6. CASE SkipEvent
  <2>1. sendSeq \in Committed /\ storedEvents[sendSeq] # NoRecord
    BY <1>0, <1>6 DEF SkipEvent, PassInv, Seqs, LogInv, FreshInv, TypeInv, TypeOK, CallOK
  <2>2. Acked(sendSeq)
    BY <1>6, <2>1 DEF SkipEvent, NothingToSend, Acked
  <2> QED
    BY <1>0, <1>6, <2>2 DEF SkipEvent, sendFrame, RecordsInv, AckInv, PassInv, Acked, Seqs
<1>7. CASE MarkSent
  <2>1. storedEvents[sendSeq] # NoRecord /\ sendSeq \in Seqs
    BY <1>0, <1>7, SendingFresh DEF MarkSent
  <2> QED
    BY <1>0, <1>7, <2>1 DEF MarkSent, HasPayload, RecordsInv
<1>8. CASE EventAccepted
  <2>1. \A s \in Seqs : storedEvents[s] # NoRecord
          => storedEvents'[s].event = storedEvents[s].event
    BY <1>0, <1>8, AcceptedRecord
  <2>2. storedEvents[sendSeq] # NoRecord
    BY <1>0, <1>8, SendingFresh DEF EventAccepted
  <2>3. RecordsInv'
    BY <1>0, <1>8, <2>2, AcceptedRecord DEF RecordsInv, Acked
  <2>4. AckInv'
    BY <1>0, <1>8, <2>1, AcceptedRecord DEF EventAccepted, sendFrame, AckInv, LogInv,
        FreshInv
  <2>5. PassInv'
    BY <1>0, <1>8, AcceptedRecord DEF EventAccepted, Sendable, sendFrame, PassInv, Acked,
        Seqs
  <2> QED
    BY <2>3, <2>4, <2>5
<1>9. CASE EventNotAccepted
  <2>1. delivered \subseteq delivered'
    BY <1>9 DEF EventNotAccepted
  <2> QED
    BY <1>0, <1>9, <2>1 DEF EventNotAccepted, Sendable, sendFrame, RecordsInv, AckInv,
        PassInv, Acked
<1>10. CASE EndSend
  <2>1. storedMeta'.next = storedMeta.next
    BY <1>0, <1>10 DEF EndSend, LogInv, TypeInv, TypeOK, StoreOK
  <2>2. ret' = "finalize" => ~sendError
    BY <1>10 DEF EndSend, AfterSend
  <2> QED
    BY <1>0, <1>10, <2>1, <2>2 DEF EndSend, RecordsInv, AckInv, PassInv, Acked, Seqs
<1>11. CASE Crash \/ Reconcile
    BY <1>0, <1>11 DEF Crash, ClearLocals, Reconcile, locals, RecordsInv, AckInv, PassInv,
        Acked
<1>12. CASE ~OutboxStep
    BY <1>0, <1>12, OutboxQuiet DEF outboxVars, RecordsInv, AckInv, PassInv, Acked
<1> QED
    BY <1>1, <1>2, <1>3, <1>4, <1>5, <1>6, <1>7, <1>8, <1>9, <1>10, <1>11, <1>12 DEF
        OutboxStep

LEMMA SettledAlways == ~Migrated => (Spec => []SettledInv)
<1>1. LogInv /\ [Next]_vars => LogInv'
    BY LogStep
<1>2. SettledInv /\ [Next]_vars => SettledInv'
    BY <1>1, SettledStep DEF SettledInv
<1>3. Init /\ ~Migrated => SettledInv
    BY LogInit, SettledInit DEF SettledInv
<1> QED
    BY <1>2, <1>3, PTL DEF Spec

(* Where a final result comes from.                                        *)
LEMMA ResultReported ==
    ASSUME [Next]_vars, finals' # finals
    PROVE  /\ pc = "finalize" /\ finals' \subseteq finals \cup {FinalReport}
           /\ storedMeta' = storedMeta
<1>1. FinalAccepted \/ FinalNotAccepted
    BY WhoWrites
<1> QED
    BY <1>1 DEF FinalAccepted, FinalNotAccepted, journal

(* On a factory-new store the cloud takes a final result only when it has  *)
(* taken every event emit() acknowledged, through refusals, lost answers,  *)
(* resumed passes and power losses (execution.proto:15-17).                *)
THEOREM EventsPrecedeResult == ~Migrated => (Spec => FinalResultAfterEvents)
<1> SUFFICES ASSUME ~Migrated PROVE Spec => FinalResultAfterEvents
    OBVIOUS
<1>1. SettledInv /\ [Next]_vars
        => [finals' # finals => \A e \in acknowledged : \E d \in delivered : d[2] = e]_vars
  <2> SUFFICES ASSUME SettledInv, [Next]_vars, finals' # finals, NEW e \in acknowledged
               PROVE  \E d \in delivered : d[2] = e
    OBVIOUS
  <2>1. \A s \in Committed : Acked(s)
    BY ResultReported DEF SettledInv, PassInv, Concluding
  <2>2. PICK s \in Committed : storedEvents[s].event = e
    BY DEF SettledInv, AckInv
  <2>3. <<s, e>> \in delivered
    BY <2>1, <2>2 DEF SettledInv, LogInv, FreshInv, RecordsInv, Committed
  <2> QED
    BY <2>3
<1> QED
    BY SettledAlways, <1>1, PTL DEF Spec, FinalResultAfterEvents

-----------------------------------------------------------------------------
(* Without power loss.                                                     *)
NoPowerLoss == MaxCrashes = 0

LEMMA NeverCrashes == NoPowerLoss /\ TypeInv => ~Crash
    BY DEF NoPowerLoss, TypeInv, TypeOK, WorldOK, Crash

(* The watermark in memory follows the outbox from its first number.       *)
WatermarkInv ==
    /\ pc = "boot" => storedMeta = FreshMeta
    /\ acceptedSeq < storedMeta.next
    /\ \A s \in Committed : Acked(s) => s <= acceptedSeq

LEMMA WatermarkInit == Init /\ ~Migrated => WatermarkInv
    BY DEF Init, FreshStore, FreshMeta, WatermarkInv, Committed, Seqs

LEMMA WatermarkStep ==
    ASSUME NoPowerLoss, SettledInv, LogInv', WatermarkInv, [Next]_vars
    PROVE  WatermarkInv'
<1>0. /\ LogInv
      /\ storedMeta.next \in 1..(OutboxMax + 1) /\ OutboxMax \in Nat
      /\ sendSeq \in Nat /\ acceptedSeq \in Nat
    BY BoundAssumption DEF SettledInv, LogInv, TypeInv, TypeOK, StoreOK, CallOK, MemoryOK
<1> USE DEF memory, downloads, journal, cloudLog, Committed, WatermarkInv, Acked
<1>1. CASE SaveExecution
    BY <1>1 DEF SaveExecution
<1>2. CASE SaveMeta
  <2>1. storedMeta'.next = storedMeta.next
    BY <1>0, <1>2 DEF SaveMeta, LogInv, FreshInv
  <2> QED
    BY <1>0, <1>2, <2>1 DEF SaveMeta, LogInv, TypeInv, TypeOK, CallOK
<1>3. CASE EmitEvent
  <2>1. /\ \A s \in Seqs \ {storedMeta.next} : storedEvents'[s] = storedEvents[s]
        /\ storedMeta' = storedMeta
    BY <1>0, <1>3 DEF EmitEvent, LogInv, TypeInv, TypeOK, StoreOK
  <2> QED
    BY <1>0, <1>3, <2>1 DEF EmitEvent
<1>4. CASE CommitEvent
  <2>1. /\ storedMeta'.next = storedMeta.next + 1
        /\ storedEvents[storedMeta.next].status = "PENDING"
    BY <1>0, <1>4 DEF CommitEvent, LogInv, TypeInv, TypeOK, StoreOK, FreshInv
  <2>2. \A s \in Committed' : s \in Committed \/ s = storedMeta.next
    BY <1>0, <2>1 DEF Seqs
  <2> QED
    BY <1>0, <1>4, <2>1, <2>2 DEF CommitEvent
<1>5. CASE ResumeExecution
    BY <1>5 DEF ResumeExecution
<1>6. CASE SkipEvent
    BY <1>6 DEF SkipEvent, sendFrame
<1>7. CASE MarkSent
  <2>1. storedEvents[sendSeq] # NoRecord /\ sendSeq \in Seqs
    BY <1>0, <1>7, SendingFresh DEF MarkSent
  <2> QED
    BY <1>7, <2>1 DEF MarkSent, HasPayload, SettledInv, RecordsInv
<1>8. CASE EventAccepted
  <2>1. sendSeq < storedMeta.next /\ acceptedSeq' = MaxSeq(acceptedSeq, sendSeq)
    BY <1>8 DEF EventAccepted, Sendable
  <2>2. acceptedSeq <= acceptedSeq' /\ sendSeq <= acceptedSeq' /\ acceptedSeq' < storedMeta.next
    BY <1>0, <2>1 DEF MaxSeq
  <2>3. acceptedSeq' \in Nat
    BY <1>0, <2>1 DEF MaxSeq
  <2> QED
    BY <1>0, <1>8, <2>2, <2>3, AcceptedRecord DEF EventAccepted, sendFrame, Seqs
<1>9. CASE EventNotAccepted
    BY <1>9 DEF EventNotAccepted, sendFrame
<1>10. CASE EndSend
  <2>1. storedMeta'.next = storedMeta.next
    BY <1>0, <1>10 DEF EndSend, LogInv, TypeInv, TypeOK, StoreOK
  <2> QED
    BY <1>0, <1>10, <2>1 DEF EndSend
<1>11. CASE Reconcile
  <2>1. storedMeta = FreshMeta /\ ~Snapshotless
    BY <1>0, <1>11 DEF Reconcile, LogInv, FreshInv
  <2> QED
    BY <1>11, <2>1 DEF Reconcile, LoadedMeta, FreshMeta, Seqs
<1>12. CASE ~OutboxStep
    BY <1>12, OutboxQuiet DEF outboxVars
<1> QED
    BY <1>0, <1>1, <1>2, <1>3, <1>4, <1>5, <1>6, <1>7, <1>8, <1>9, <1>10, <1>11, <1>12,
        NeverCrashes DEF OutboxStep, LogInv

(* The number a final result names is that of the last event, so that the  *)
(* cloud can tell whether it has them all (execution.proto:16).  A power   *)
(* loss inside a pass loses the watermark while the records stay accepted. *)
THEOREM ResultNamesLastEvent ==
    NoPowerLoss /\ ~Migrated => (Spec => FinalNamesLastEvent)
<1> SUFFICES ASSUME NoPowerLoss, ~Migrated PROVE Spec => FinalNamesLastEvent
    OBVIOUS
<1>1. SettledInv /\ SettledInv' /\ WatermarkInv /\ [Next]_vars => WatermarkInv'
    BY WatermarkStep DEF SettledInv
<1>2. Init => WatermarkInv
    BY WatermarkInit
<1>3. SettledInv /\ WatermarkInv /\ [Next]_vars
        => [\A f \in finals' \ finals : f.last = storedMeta.next - 1]_vars
  <2> SUFFICES ASSUME SettledInv, WatermarkInv, [Next]_vars, NEW f \in finals' \ finals
               PROVE  f.last = storedMeta.next - 1
    OBVIOUS
  <2>1. pc = "finalize" /\ f.last = acceptedSeq
    BY ResultReported DEF FinalReport
  <2>2. \A s \in Committed : s <= acceptedSeq
    BY <2>1 DEF SettledInv, PassInv, Concluding, WatermarkInv
  <2>3. /\ storedMeta.next \in 1..(OutboxMax + 1) /\ acceptedSeq \in Nat
        /\ acceptedSeq < storedMeta.next /\ OutboxMax \in Nat
    BY BoundAssumption DEF SettledInv, LogInv, TypeInv, TypeOK, StoreOK, MemoryOK,
        WatermarkInv
  <2>4. storedMeta.next > 1 => storedMeta.next - 1 \in Committed
    BY <2>3 DEF Committed, Seqs
  <2> QED
    BY <2>1, <2>2, <2>3, <2>4
<1> QED
    BY SettledAlways, <1>1, <1>2, <1>3, PTL DEF Spec, FinalNamesLastEvent

-----------------------------------------------------------------------------
(* One start per execution, under its saved permit.                        *)

(* The only start of the program finds no task to resume; an execution     *)
(* that is due holds its permit, and those of this release are never saved *)
(* as Ready.                                                               *)
Starting == pc \in {"starting", "emitting"}
StartInv ==
    /\ pc = "boot" => LoadedVt = "None" /\ LoadedExec.permit = 0
    /\ permit <= issued /\ (Stage(vtState) = "execute" => permit # 0)
    /\ permit # 0 => exState # "Ready"

SteadyInv == StartInv /\ InstallUnderSavedPermit

(* Permits not yet granted have not begun, nor has an execution that is    *)
(* due; the one being started has begun once.                              *)
CountInv ==
    /\ \A k \in 0..MaxPermits : k > issued => installs[k] = 0
    /\ permit # 0 /\ NeedsStart(exState) /\ ~Starting => installs[permit] = 0
    /\ Starting => installs[permit] = 1

LEMMA SteadyInit == Init => SteadyInv /\ CountInv /\ OneInstallPerExecution
<1> SUFFICES ASSUME Init PROVE SteadyInv /\ CountInv /\ OneInstallPerExecution
    OBVIOUS
<1>1. LoadedVt = "None" /\ LoadedExec.permit = 0
  <2>1. CASE FreshStore
    BY <2>1 DEF FreshStore, LoadedVt, LoadedExec
  <2>2. CASE MigratedStore
    <3>1. storedTask # NoRecord => Snapshotless
        BY <2>2 DEF MigratedStore, Saved, Snapshotless
    <3>2. storedExec # NoRecord => storedExec.permit = 0
        BY <2>2 DEF MigratedStore
    <3> QED
        BY <3>1, <3>2 DEF LoadedVt, LoadedExec
  <2> QED
    BY <2>1, <2>2 DEF Init
<1> QED
    BY <1>1, BoundAssumption DEF Init, SteadyInv, StartInv, CountInv, Starting, Stage,
        OneInstallPerExecution, InstallUnderSavedPermit

(* The steps that start, permit, save or end an execution.                 *)
ExecutionMove ==
    \/ RequestPermit \/ SaveExecution \/ StartInstall \/ EmitEvent \/ CommitEvent
    \/ StartReturns \/ StartRefused \/ ResumeExecution \/ FinalAccepted
    \/ Crash \/ Reconcile

LEMMA ExecutionQuiet ==
    ASSUME TypeInv, [Next]_vars, ~ExecutionMove
    PROVE  /\ UNCHANGED <<permit, exState, storedExec, issued, installs>>
           /\ pc' = "boot" => pc = "boot" /\ storedTask' = storedTask
           /\ Starting' <=> Starting
           /\ Stage(vtState)' = "execute" => Stage(vtState) = "execute"
<1> DEFINE Quiet == /\ UNCHANGED <<permit, exState, storedExec, issued, installs>>
                    /\ pc' = "boot" => pc = "boot" /\ storedTask' = storedTask
                    /\ Starting' <=> Starting
                    /\ Stage(vtState)' = "execute" => Stage(vtState) = "execute"
<1> USE DEF memory, downloadFrame, sendFrame, Starting
<1>1. ASSUME NEW p \in Packages, SkipReady(p) \/ GrantFails(p) \/ Fetch(p) PROVE Quiet
    BY <1>1 DEF SkipReady, GrantFails, Fetch
<1>1a. CASE StageReported \/ StageReportLost \/ NoStageResult
    BY <1>1a DEF StageReported, StageReportLost, NoStageResult
<1>1b. CASE SaveDownload \/ AbandonDownload
    BY <1>1b DEF SaveDownload, AbandonDownload, Stage
<1>2. CASE CheckTask \/ RequireConsent \/ ReportConsent \/ RecordConsent \/ BeginDownload
    BY <1>2 DEF CheckTask, RequireConsent, StateAfterCheck, ReportConsent, RecordConsent,
        BeginDownload, At, Stage
<1>3. CASE EndDownload \/ OpenWindow \/ RetryNotGranted
    BY <1>3 DEF EndDownload, OpenWindow, RetryNotGranted, At, Stage
<1>4. CASE SaveMeta
    BY <1>4 DEF SaveMeta, TypeInv, TypeOK, CallOK, Stage
<1>5. CASE SkipEvent \/ MarkSent \/ EventAccepted \/ EventNotAccepted \/ EndSend
    BY <1>5 DEF SkipEvent, MarkSent, EventAccepted, EventNotAccepted, EndSend, Stage
<1>6. CASE FinalNotAccepted
    BY <1>6 DEF FinalNotAccepted, Stage
<1>7. CASE StepFails \/ PermitExpires \/ GuardsChange \/ UNCHANGED vars
    BY <1>7 DEF StepFails, PermitExpires, GuardsChange, vars, Stage
<1> QED
    BY <1>1, <1>1a, <1>1b, <1>2, <1>3, <1>4, <1>5, <1>6, <1>7 DEF Next, Step,
        DownloadStep, ExecuteStep, ExecutionMove

LEMMA SteadyStep ==
    ASSUME NoPowerLoss, TaskInv, SteadyInv, [Next]_vars
    PROVE  SteadyInv'
<1>0. /\ TypeInv /\ CallPlace /\ ExecAgrees
      /\ permit \in 0..MaxPermits /\ issued \in 0..MaxPermits /\ MaxPermits \in Nat
    BY BoundAssumption DEF TaskInv, TypeInv, TypeOK, MemoryOK, WorldOK
<1> USE DEF memory, SteadyInv, InstallUnderSavedPermit, StartInv, Starting
<1>1. CASE RequestPermit
    BY <1>0, <1>1 DEF RequestPermit, AfterPermit, At
<1>2. CASE SaveExecution
    BY <1>0, <1>2 DEF SaveExecution, Stage
<1>3. CASE StartInstall
  <2>1. permit # 0 /\ exState = "PermitPersisted"
    BY <1>0, <1>3 DEF StartInstall, Stage, NeedsStart
  <2>2. LoadedExec = MemoryExec
    BY <1>0, <1>3 DEF StartInstall, ExecAgrees, Stage
  <2>3. storedExec = MemoryExec
    BY <2>1, <2>2 DEF LoadedExec, MemoryExec
  <2> QED
    BY <1>0, <1>3, <2>1, <2>3 DEF StartInstall, MemoryExec, Stage
<1>4. CASE EmitEvent \/ CommitEvent \/ StartRefused
    BY <1>0, <1>4 DEF EmitEvent, CommitEvent, StartRefused, Stage
<1>5. CASE StartReturns
    BY <1>0, <1>5 DEF StartReturns, Stage
<1>6. CASE ResumeExecution
    BY <1>0, <1>6 DEF ResumeExecution, At, Stage
<1>7. CASE FinalAccepted
  <2>1. permit # 0
    BY <1>0, <1>7 DEF FinalAccepted, CallPlace, Reporting, Stage
  <2>2. exState' \in {"Failed", "RolledBack", "Succeeded"}
    BY <1>7 DEF FinalAccepted, Closed
  <2> QED
    BY <1>0, <1>7, <2>1, <2>2 DEF FinalAccepted
<1>8. CASE Reconcile
    BY <1>0, <1>8 DEF Reconcile, Stage
<1>9. CASE ~ExecutionMove
  <2>1. pc' = "boot" => LoadedVt' = LoadedVt /\ LoadedExec' = LoadedExec
    BY <1>0, <1>9, ExecutionQuiet, LoadedStays
  <2> QED
    BY <1>0, <1>9, <2>1, ExecutionQuiet
<1> QED
    BY <1>0, <1>1, <1>2, <1>3, <1>4, <1>5, <1>6, <1>7, <1>8, <1>9, NeverCrashes DEF
        ExecutionMove

LEMMA CountStep ==
    ASSUME NoPowerLoss, MaxLateRefusals = 0, TaskInv, SteadyInv, CountInv,
           OneInstallPerExecution, [Next]_vars
    PROVE  CountInv' /\ OneInstallPerExecution'
<1>0. /\ TypeInv /\ CallPlace
      /\ permit \in 0..MaxPermits /\ issued \in 0..MaxPermits /\ MaxPermits \in Nat
      /\ installs \in [0..MaxPermits -> Nat]
      /\ permit <= issued /\ (Stage(vtState) = "execute" => permit # 0)
    BY BoundAssumption DEF TaskInv, TypeInv, TypeOK, MemoryOK, WorldOK, SteadyInv,
        StartInv
<1> USE DEF memory, CountInv, OneInstallPerExecution, Starting
<1>1. CASE RequestPermit
    BY <1>0, <1>1 DEF RequestPermit, AfterPermit, At
<1>2. CASE SaveExecution
    BY <1>0, <1>2 DEF SaveExecution
<1>3. CASE StartInstall
  <2>1. permit # 0 /\ installs[permit] = 0
    BY <1>0, <1>3 DEF StartInstall, Stage
  <2>2. /\ installs'[permit] = 1
        /\ \A k \in (0..MaxPermits) \ {permit} : installs'[k] = installs[k]
    BY <1>0, <1>3, <2>1 DEF StartInstall
  <2> QED
    BY <1>0, <1>3, <2>2 DEF StartInstall
<1>4. CASE EmitEvent \/ CommitEvent
    BY <1>0, <1>4 DEF EmitEvent, CommitEvent
<1>4a. ~StartRefused
    BY <1>0 DEF StartRefused
<1>5. CASE StartReturns
    BY <1>0, <1>5 DEF StartReturns, NeedsStart
<1>6. CASE ResumeExecution
    BY <1>0, <1>6 DEF ResumeExecution, At, NeedsStart, Stage
<1>7. CASE FinalAccepted
  <2>1. exState' \in {"Failed", "RolledBack", "Succeeded"}
    BY <1>7 DEF FinalAccepted, Closed
  <2> QED
    BY <1>0, <1>7, <2>1 DEF FinalAccepted, NeedsStart
<1>8. CASE Reconcile
  <2>1. permit' = 0 /\ pc' = "idle" /\ installs' = installs /\ issued' = issued
    BY <1>8 DEF Reconcile, SteadyInv, StartInv
  <2> QED
    BY <1>0, <2>1
<1>9. CASE ~ExecutionMove
    BY <1>0, <1>9, ExecutionQuiet
<1> QED
    BY <1>0, <1>1, <1>2, <1>3, <1>4, <1>4a, <1>5, <1>6, <1>7, <1>8, <1>9, NeverCrashes DEF
        ExecutionMove

LEMMA SteadyAlways == NoPowerLoss => (Spec => []SteadyInv)
<1> SUFFICES ASSUME NoPowerLoss PROVE Spec => []SteadyInv
    OBVIOUS
<1>1. TaskInv /\ SteadyInv /\ [Next]_vars => SteadyInv'
    BY SteadyStep
<1> QED
    BY TaskAlways, SteadyInit, <1>1, PTL DEF Spec

(* The executor begins no execution twice (install_executor.hpp:10), on a  *)
(* fresh and on a migrated store, whatever states the cloud answers with,  *)
(* as long as an executor that refuses to start has not begun.             *)
THEOREM InstallsOnce ==
    NoPowerLoss /\ MaxLateRefusals = 0 => (Spec => []OneInstallPerExecution)
<1> SUFFICES ASSUME NoPowerLoss, MaxLateRefusals = 0
             PROVE  Spec => []OneInstallPerExecution
    OBVIOUS
<1> DEFINE I == CountInv /\ OneInstallPerExecution
<1>1. TaskInv /\ SteadyInv /\ I /\ [Next]_vars => I'
    BY CountStep
<1>2. Init => I
    BY SteadyInit
<1>3. I => OneInstallPerExecution
    OBVIOUS
<1> HIDE DEF I
<1> QED
    BY TaskAlways, SteadyAlways, <1>1, <1>2, <1>3, PTL DEF Spec

(* While the executor starts, the store holds the very permit it was       *)
(* started for (comment fota_orchestrator.cpp:497).                        *)
THEOREM InstallsUnderPermit == NoPowerLoss => (Spec => []InstallUnderSavedPermit)
<1>1. SteadyInv => InstallUnderSavedPermit
    BY DEF SteadyInv
<1> QED
    BY SteadyAlways, <1>1, PTL
=============================================================================
