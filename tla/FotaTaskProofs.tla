---------------------------- MODULE FotaTaskProofs ----------------------------
(***************************************************************************)
(* The life of a vehicle task in FotaOrchestrator, through any number of   *)
(* tasks, packages and power losses: what the memory and the store say of  *)
(* each other, consent before use, terminal states, the documented         *)
(* diagram, the bytes of a partial download, verification before           *)
(* installation and the result after it, and the transparent restart.      *)
(***************************************************************************)
EXTENDS FotaOrchestratorProofs

(* doExecute past the executor: outbox, final result and the saves between.*)
Reporting ==
    \/ pc \in {"send", "finalize"}
    \/ pc \in {"saveExec", "saveMeta"} /\ ret # "idle"

(* doDownload, in its loop.                                                *)
InLoop == {"download"} \cup HasEntry

(* Where a call stands says what the memory holds.                         *)
CallPlace ==
    /\ pc = "boot" => vtState = "None"
    /\ pc = "checked" => vtState = "Discovered"
    /\ pc = "consented" =>
         /\ Stage(vtState) = "consent"
         /\ storedConsent # NoRecord /\ storedConsent.task = frozenTask
    /\ pc \in InLoop => Stage(vtState) = "download"
    /\ pc \in {"starting", "emitting"} \/ Reporting => vtState = "Executing"
    /\ pc \in {"starting", "emitting"} => NeedsStart(exState)

(* A restart would find the task the memory holds, at its stage, and would *)
(* still know that it rolls back.                                          *)
StoreAgrees ==
    pc # "boot" =>
        /\ LoadedTask = frozenTask
        /\ Stage(LoadedVt) = Stage(vtState)
        /\ vtState = "RollbackPending" => LoadedVt = "RollbackPending"
        /\ LoadedVt = "RollbackPending"
             => vtState = "RollbackPending" \/ exState = "Rollback"

(* Between two steps of an execution, while the executor is being started  *)
(* and while the final result is asked for, the store holds its record.    *)
MemoryExec == [permit |-> permit, state |-> exState]
ExecAgrees ==
    /\ (pc = "idle" /\ Stage(vtState) = "execute") \/ pc \in {"starting", "emitting"}
         => LoadedExec = MemoryExec
    /\ pc \in {"saveMeta", "finalize"} => storedExec = MemoryExec

(* The consent the store holds is that of the task it would resume.        *)
Used == {"download", "window", "permit", "execute"}
ConsentSaved ==
    LoadedTask \in ConsentTasks /\ Stage(LoadedVt) \in Used
        => storedConsent = [task |-> LoadedTask, accepted |-> TRUE]

TaskInv == TypeInv /\ CallPlace /\ StoreAgrees /\ ExecAgrees /\ ConsentSaved

(* What a restart reads back of a saved task, and of a store left alone.   *)
LEMMA TaskSaved ==
    ASSUME TypeInv', frozenTask' \in Tasks, storedTask' = Saved(vtState', frozenTask')
    PROVE  /\ LoadedVt' = vtState' /\ LoadedTask' = frozenTask' /\ ~Snapshotless'
           /\ StoreAgrees'
<1>1. vtState' \in VehicleTaskStates
    BY DEF TypeInv, TypeOK, MemoryOK
<1>2. storedTask' # NoRecord /\ storedTask'.task = frozenTask' /\ storedTask'.state = vtState'
    BY <1>1, SavedTask DEF Saved
<1>3. LoadedVt' = vtState' /\ LoadedTask' = frozenTask' /\ ~Snapshotless'
    BY <1>2, DataAssumption DEF LoadedVt, LoadedTask, Snapshotless
<1> QED
    BY <1>3 DEF StoreAgrees

LEMMA LoadedStays ==
    ASSUME storedTask' = storedTask
    PROVE  /\ LoadedVt' = LoadedVt /\ LoadedTask' = LoadedTask
           /\ Snapshotless' = Snapshotless
           /\ storedExec' = storedExec => LoadedExec' = LoadedExec
    BY DEF LoadedVt, LoadedTask, LoadedExec, Snapshotless

(* An execution record made from memory, and one read back.                *)
LEMMA ExecRecords ==
    ASSUME TypeInv
    PROVE  /\ MemoryExec # NoRecord
           /\ LoadedExec = [permit |-> LoadedExec.permit, state |-> LoadedExec.state]
<1>1. MemoryOK /\ StoreOK
    BY DEF TypeInv, TypeOK
<1>2. MemoryExec \in ExecRecord
    BY <1>1 DEF MemoryOK, MemoryExec, ExecRecord
<1>3. LoadedExec \in ExecRecord
    BY <1>1, BoundAssumption DEF StoreOK, LoadedExec, ExecRecord, ExecutionStates
<1> QED
    BY <1>2, <1>3, RecordAssumption DEF ExecRecord

(* The call knows its task.                                                *)
LEMMA CallHasTask ==
    ASSUME TypeInv, pc # "boot", pc # "idle" \/ vtState # "None"
    PROVE  frozenTask \in Tasks /\ ~Snapshotless
    BY NotSnapshotless DEF TypeInv, TaskKnown

(* The steps that touch neither the task nor the execution, and those that *)
(* move within doDownload's loop.                                          *)
taskVars == <<vtState, exState, frozenTask, permit, pc, ret, storedTask, storedExec,
              storedConsent>>

LoopStep ==
    \/ \E p \in Packages : GrantFails(p) \/ Fetch(p)
    \/ StageReported \/ StageReportLost \/ NoStageResult \/ SaveDownload

TaskMove ==
    \/ CheckTask \/ RequireConsent \/ ReportConsent \/ RecordConsent
    \/ BeginDownload \/ EndDownload
    \/ LoopStep \/ AbandonDownload
    \/ OpenWindow \/ RequestPermit \/ RetryNotGranted
    \/ SaveExecution \/ SaveMeta
    \/ StartInstall \/ EmitEvent \/ CommitEvent \/ StartReturns \/ StartRefused
    \/ ResumeExecution \/ EndSend \/ FinalAccepted \/ FinalNotAccepted
    \/ Crash \/ Reconcile

LEMMA TaskQuiet == [Next]_vars /\ ~TaskMove => UNCHANGED taskVars
<1> USE DEF taskVars, memory, downloadFrame, sendFrame, downloads
<1>1. ASSUME NEW p \in Packages, SkipReady(p) PROVE UNCHANGED taskVars
    BY <1>1 DEF SkipReady
<1>2. CASE SkipEvent \/ MarkSent \/ EventAccepted \/ EventNotAccepted
    BY <1>2 DEF SkipEvent, MarkSent, EventAccepted, EventNotAccepted
<1>3. CASE StepFails \/ PermitExpires \/ GuardsChange \/ UNCHANGED vars
    BY <1>3 DEF StepFails, PermitExpires, GuardsChange, vars
<1> QED
    BY <1>1, <1>2, <1>3 DEF Next, Step, DownloadStep, ExecuteStep, TaskMove, LoopStep

LEMMA LoopStays ==
    ASSUME LoopStep
    PROVE  /\ pc \in InLoop /\ pc' \in InLoop
           /\ UNCHANGED <<memory, ret, storedTask, storedExec, storedConsent, journal,
                          issued, installs, cloudLog, conditions, crashes>>
<1> USE DEF downloadFrame, memory, InLoop, HasEntry
<1>1. ASSUME NEW p \in Packages, GrantFails(p) \/ Fetch(p)
      PROVE  /\ pc \in InLoop /\ pc' \in InLoop
             /\ UNCHANGED <<memory, ret, storedTask, storedExec, storedConsent, journal,
                            issued, installs, cloudLog, conditions, crashes>>
    BY <1>1 DEF GrantFails, Fetch
<1>2. CASE StageReported \/ StageReportLost
    BY <1>2 DEF StageReported, StageReportLost
<1>3. CASE NoStageResult \/ SaveDownload
    BY <1>3 DEF NoStageResult, SaveDownload
<1> QED
    BY <1>1, <1>2, <1>3 DEF LoopStep

(* The steps that save the vehicle task.                                   *)
SavesTask ==
    \/ CheckTask \/ RequireConsent \/ RecordConsent \/ EndDownload
    \/ OpenWindow \/ RequestPermit \/ FinalAccepted

(* Which steps write what.                                                 *)
LEMMA WhoWrites ==
    ASSUME [Next]_vars
    PROVE  /\ SavesTask \/ storedTask' = storedTask
           /\ SaveDownload \/ AbandonDownload \/ storedDl' = storedDl
           /\ StageReported \/ StageReportLost \/ stageOk' = stageOk
           /\ (\E p \in Packages : Fetch(p)) \/ bytesOf' = bytesOf
           /\ StartInstall \/ installs' = installs
           /\ RequestPermit \/ issued' = issued
           /\ FinalAccepted \/ FinalNotAccepted \/ finals' = finals
<1> DEFINE Goal == /\ SavesTask \/ storedTask' = storedTask
                   /\ SaveDownload \/ AbandonDownload \/ storedDl' = storedDl
                   /\ StageReported \/ StageReportLost \/ stageOk' = stageOk
                   /\ (\E p \in Packages : Fetch(p)) \/ bytesOf' = bytesOf
                   /\ StartInstall \/ installs' = installs
                   /\ RequestPermit \/ issued' = issued
                   /\ FinalAccepted \/ FinalNotAccepted \/ finals' = finals
<1> USE DEF downloads, cloudLog, downloadFrame, sendFrame, SavesTask
<1>1. ASSUME NEW p \in Packages, SkipReady(p) \/ GrantFails(p) \/ Fetch(p) PROVE Goal
    BY <1>1 DEF SkipReady, GrantFails, Fetch
<1>1a. CASE StageReported \/ StageReportLost \/ NoStageResult
    BY <1>1a DEF StageReported, StageReportLost, NoStageResult
<1>1b. CASE SaveDownload \/ AbandonDownload
    BY <1>1b DEF SaveDownload, AbandonDownload
<1>2. CASE CheckTask \/ RequireConsent \/ ReportConsent \/ RecordConsent \/ BeginDownload
    BY <1>2 DEF CheckTask, RequireConsent, ReportConsent, RecordConsent, BeginDownload
<1>3. CASE EndDownload \/ OpenWindow \/ RequestPermit \/ RetryNotGranted
    BY <1>3 DEF EndDownload, OpenWindow, RequestPermit, RetryNotGranted
<1>4. CASE SaveExecution \/ SaveMeta \/ FinalAccepted \/ FinalNotAccepted
    BY <1>4 DEF SaveExecution, SaveMeta, FinalAccepted, FinalNotAccepted
<1>5. CASE StartInstall \/ EmitEvent \/ CommitEvent \/ StartReturns \/ StartRefused
    BY <1>5 DEF StartInstall, EmitEvent, CommitEvent, StartReturns, StartRefused
<1>5a. CASE ResumeExecution
    BY <1>5a DEF ResumeExecution
<1>6. CASE SkipEvent \/ MarkSent \/ EventAccepted \/ EventNotAccepted \/ EndSend
    BY <1>6 DEF SkipEvent, MarkSent, EventAccepted, EventNotAccepted, EndSend
<1>7. CASE Crash \/ Reconcile
    BY <1>7 DEF Crash, Reconcile
<1>8. CASE StepFails \/ PermitExpires \/ GuardsChange \/ UNCHANGED vars
    BY <1>8 DEF StepFails, PermitExpires, GuardsChange, vars
<1> QED
    BY <1>1, <1>1a, <1>1b, <1>2, <1>3, <1>4, <1>5, <1>5a, <1>6, <1>7, <1>8 DEF Next, Step,
        DownloadStep, ExecuteStep

(* A stage that saves the task saves what the memory now holds.            *)
LEMMA SaveLoads ==
    ASSUME TypeInv, TypeInv', SavesTask
    PROVE  /\ LoadedVt' = vtState' /\ LoadedTask' = frozenTask' /\ ~Snapshotless'
           /\ StoreAgrees'
           /\ storedExec' = storedExec
           /\ ~Snapshotless => LoadedExec' = LoadedExec
<1>1. /\ frozenTask' \in Tasks /\ storedTask' = Saved(vtState', frozenTask')
      /\ storedExec' = storedExec
    BY CallHasTask DEF SavesTask, CheckTask, RequireConsent, RecordConsent, EndDownload,
        OpenWindow, RequestPermit, FinalAccepted, At, Stage
<1> QED
    BY <1>1, TaskSaved DEF LoadedExec

LEMMA TaskInit == Init => TaskInv
<1> SUFFICES ASSUME Init PROVE TaskInv
    OBVIOUS
<1>1. TypeInv
    BY TypeInit
<1>2. ConsentSaved
  <2>1. CASE FreshStore
    BY <2>1, DataAssumption DEF FreshStore, ConsentSaved, LoadedTask
  <2>2. CASE MigratedStore
    <3>1. storedTask # NoRecord => storedTask.task = NoTask
        BY <2>2 DEF MigratedStore, Saved
    <3>2. LoadedTask \notin Tasks
        BY <3>1, DataAssumption DEF LoadedTask
    <3> QED
        BY <3>2, DataAssumption DEF ConsentSaved
  <2> QED
    BY <2>1, <2>2 DEF Init
<1> QED
    BY <1>1, <1>2 DEF Init, TaskInv, CallPlace, InLoop, HasEntry, Reporting, StoreAgrees,
        ExecAgrees

LEMMA TaskStep == TaskInv /\ [Next]_vars => TaskInv'
<1> SUFFICES ASSUME TaskInv, [Next]_vars PROVE TaskInv'
    OBVIOUS
<1>0. /\ TypeInv /\ CallPlace /\ StoreAgrees /\ ExecAgrees /\ ConsentSaved
      /\ TypeInv'
    BY TypeStep DEF TaskInv
<1> USE DEF memory, downloads, InLoop, HasEntry
<1>1. CASE CheckTask
  <2>1. /\ LoadedVt' = vtState' /\ LoadedTask' = frozenTask' /\ ~Snapshotless'
        /\ StoreAgrees'
    BY <1>0, <1>1, SaveLoads DEF SavesTask
  <2>2. CallPlace' /\ ExecAgrees'
    BY <1>0, <1>1, <2>1 DEF CheckTask, At, Stage, CallPlace, Reporting, ExecAgrees,
        MemoryExec
  <2>3. ConsentSaved'
    BY <1>0, <1>1, <2>1 DEF CheckTask, At, Stage, Used, CallPlace, StoreAgrees,
        ConsentSaved
  <2> QED
    BY <1>0, <2>1, <2>2, <2>3 DEF TaskInv
<1>2. CASE RequireConsent
  <2>1. /\ LoadedVt' = vtState' /\ LoadedTask' = frozenTask' /\ ~Snapshotless'
        /\ StoreAgrees'
    BY <1>0, <1>2, SaveLoads DEF SavesTask
  <2>2. CallPlace' /\ ExecAgrees'
    BY <1>0, <1>2, <2>1 DEF RequireConsent, StateAfterCheck, Stage, CallPlace, Reporting,
        ExecAgrees, MemoryExec
  <2>3. ConsentSaved'
    BY <1>0, <1>2, <2>1 DEF RequireConsent, StateAfterCheck, Stage, Used, CallPlace,
        StoreAgrees, ConsentSaved
  <2> QED
    BY <1>0, <2>1, <2>2, <2>3 DEF TaskInv
<1>3. CASE ReportConsent
  <2>1. /\ storedConsent' # NoRecord /\ storedConsent'.task = frozenTask
        /\ UNCHANGED <<memory, storedTask>> /\ pc' = "consented" /\ Stage(vtState) = "consent"
    <3>1. \A b \in BOOLEAN : [task |-> frozenTask, accepted |-> b] \in Consent
        BY <1>0 DEF Consent, TypeInv, TypeOK, MemoryOK
    <3> QED
        BY <1>3, <3>1, RecordAssumption DEF ReportConsent, At
  <2>2. CallPlace' /\ StoreAgrees' /\ ExecAgrees'
    BY <1>0, <1>3, <2>1, LoadedStays DEF ReportConsent, At, CallPlace, Reporting,
        StoreAgrees, ExecAgrees, MemoryExec, Stage
  <2>3. ConsentSaved'
    BY <1>0, <1>3, <2>1, LoadedStays DEF ReportConsent, At, StoreAgrees, ConsentSaved,
        Used
  <2> QED
    BY <1>0, <2>2, <2>3 DEF TaskInv
<1>4. CASE RecordConsent
  <2>1. /\ LoadedVt' = vtState' /\ LoadedTask' = frozenTask' /\ ~Snapshotless'
        /\ StoreAgrees'
    BY <1>0, <1>4, SaveLoads DEF SavesTask
  <2>2. CallPlace' /\ ExecAgrees'
    BY <1>0, <1>4, <2>1 DEF RecordConsent, Stage, CallPlace, Reporting, ExecAgrees,
        MemoryExec
  <2>3. ConsentSaved'
    <3>1. storedConsent \in Consent /\ storedConsent.task = frozenTask
        BY <1>0, <1>4 DEF RecordConsent, CallPlace, TypeInv, TypeOK, StoreOK
    <3>2. CASE storedConsent.accepted
      <4>1. storedConsent = [task |-> frozenTask, accepted |-> TRUE]
        BY <3>1, <3>2 DEF Consent
      <4> QED
        BY <1>4, <2>1, <4>1 DEF RecordConsent, ConsentSaved
    <3>3. CASE ~storedConsent.accepted
        BY <1>4, <2>1, <3>3 DEF RecordConsent, ConsentSaved, Stage, Used
    <3> QED
        BY <3>2, <3>3
  <2> QED
    BY <1>0, <2>1, <2>2, <2>3 DEF TaskInv
<1>5. CASE BeginDownload
    BY <1>0, <1>5, CallHasTask, LoadedStays DEF BeginDownload, At, Stage, Used, TaskInv,
        CallPlace, Reporting, StoreAgrees, ExecAgrees, MemoryExec, ConsentSaved
<1>6. CASE EndDownload
  <2>1. /\ LoadedVt' = vtState' /\ LoadedTask' = frozenTask' /\ ~Snapshotless'
        /\ StoreAgrees'
    BY <1>0, <1>6, SaveLoads DEF SavesTask
  <2>2. CallPlace' /\ ExecAgrees'
    BY <1>0, <1>6, <2>1 DEF EndDownload, Stage, CallPlace, Reporting, ExecAgrees,
        MemoryExec
  <2>3. ConsentSaved'
    BY <1>0, <1>6, <2>1 DEF EndDownload, Stage, Used, CallPlace, StoreAgrees, ConsentSaved
  <2> QED
    BY <1>0, <2>1, <2>2, <2>3 DEF TaskInv
<1>7. CASE LoopStep
    BY <1>0, <1>7, LoopStays, LoadedStays DEF TaskInv, CallPlace, Reporting, StoreAgrees,
        ExecAgrees, MemoryExec, ConsentSaved
<1>8. CASE AbandonDownload
    BY <1>0, <1>8, CallHasTask, LoadedStays DEF AbandonDownload, downloadFrame, Stage,
        Used, TaskInv, CallPlace, Reporting, StoreAgrees, ExecAgrees, MemoryExec,
        ConsentSaved
<1>9. CASE OpenWindow
  <2>1. /\ LoadedVt' = vtState' /\ LoadedTask' = frozenTask' /\ ~Snapshotless'
        /\ StoreAgrees'
    BY <1>0, <1>9, SaveLoads DEF SavesTask
  <2>2. CallPlace' /\ ExecAgrees'
    BY <1>0, <1>9, <2>1 DEF OpenWindow, At, Stage, CallPlace, Reporting, ExecAgrees,
        MemoryExec
  <2>3. ConsentSaved'
    BY <1>0, <1>9, <2>1 DEF OpenWindow, At, Stage, Used, CallPlace, StoreAgrees,
        ConsentSaved
  <2> QED
    BY <1>0, <2>1, <2>2, <2>3 DEF TaskInv
<1>10. CASE RequestPermit
  <2>1. /\ LoadedVt' = vtState' /\ LoadedTask' = frozenTask' /\ ~Snapshotless'
        /\ StoreAgrees'
    BY <1>0, <1>10, SaveLoads DEF SavesTask
  <2>2. CallPlace' /\ ExecAgrees'
    BY <1>0, <1>10, <2>1 DEF RequestPermit, At, AfterPermit, Stage, CallPlace, Reporting,
        ExecAgrees, MemoryExec
  <2>3. ConsentSaved'
    BY <1>0, <1>10, <2>1 DEF RequestPermit, At, AfterPermit, Stage, Used, CallPlace,
        StoreAgrees, ConsentSaved
  <2> QED
    BY <1>0, <2>1, <2>2, <2>3 DEF TaskInv
<1>11. CASE RetryNotGranted
    BY <1>0, <1>11, CallHasTask, LoadedStays DEF RetryNotGranted, Stage, Used, TaskInv,
        CallPlace, Reporting, StoreAgrees, ExecAgrees, MemoryExec, ConsentSaved
<1>12. CASE SaveExecution
    BY <1>0, <1>12, CallHasTask, LoadedStays DEF SaveExecution, SavedExec, Stage, Used,
        TaskInv, CallPlace, Reporting, StoreAgrees, ExecAgrees, MemoryExec, ConsentSaved
<1>13. CASE SaveMeta
  <2>1. storedExec = MemoryExec /\ storedExec # NoRecord /\ ~Snapshotless
    BY <1>0, <1>13, ExecRecords, CallHasTask DEF SaveMeta, ExecAgrees
  <2>2. LoadedExec' = MemoryExec'
    BY <1>13, <2>1, LoadedStays DEF SaveMeta, LoadedExec, MemoryExec
  <2>3. pc' \in {"idle", "send", "finalize"}
    BY <1>0, <1>13 DEF SaveMeta, TypeInv, TypeOK, CallOK
  <2> QED
    BY <1>0, <1>13, <2>1, <2>2, <2>3, LoadedStays DEF SaveMeta, TaskInv, CallPlace,
        Reporting, StoreAgrees, ExecAgrees, MemoryExec, ConsentSaved
<1>14. CASE StartInstall
    BY <1>0, <1>14, CallHasTask, LoadedStays DEF StartInstall, Stage, Used, TaskInv,
        CallPlace, Reporting, StoreAgrees, ExecAgrees, MemoryExec, ConsentSaved
<1>15. CASE EmitEvent
    BY <1>0, <1>15, CallHasTask, LoadedStays DEF EmitEvent, Stage, Used, TaskInv,
        CallPlace, Reporting, StoreAgrees, ExecAgrees, MemoryExec, ConsentSaved
<1>16. CASE CommitEvent
    BY <1>0, <1>16, CallHasTask, LoadedStays DEF CommitEvent, Stage, Used, TaskInv,
        CallPlace, Reporting, StoreAgrees, ExecAgrees, MemoryExec, ConsentSaved
<1>17. CASE StartReturns
    BY <1>0, <1>17, CallHasTask, LoadedStays DEF StartReturns, NeedsStart, Stage, Used,
        TaskInv, CallPlace, Reporting, StoreAgrees, ExecAgrees, MemoryExec, ConsentSaved
<1>17a. CASE StartRefused
  <2>1. LoadedExec = MemoryExec
    BY <1>0, <1>17a DEF StartRefused, ExecAgrees
  <2> QED
    BY <1>0, <1>17a, <2>1, CallHasTask, LoadedStays DEF StartRefused, Stage, Used,
        TaskInv, CallPlace, Reporting, StoreAgrees, ExecAgrees, MemoryExec, ConsentSaved
<1>18. CASE ResumeExecution
    BY <1>0, <1>18, CallHasTask, LoadedStays DEF ResumeExecution, At, Stage, Used,
        TaskInv, CallPlace, Reporting, StoreAgrees, ExecAgrees, MemoryExec, ConsentSaved
<1>19. CASE EndSend
  <2>1. /\ UNCHANGED <<memory, storedTask, storedExec, storedConsent>>
        /\ pc = "send" /\ pc' = "saveExec"
    BY <1>19 DEF EndSend
  <2> QED
    BY <1>0, <2>1, LoadedStays DEF TaskInv, CallPlace, Reporting, StoreAgrees, ExecAgrees,
        ConsentSaved, Stage, Used
<1>20. CASE FinalAccepted
  <2>1. /\ LoadedVt' = vtState' /\ LoadedTask' = frozenTask' /\ ~Snapshotless'
        /\ StoreAgrees'
    BY <1>0, <1>20, SaveLoads DEF SavesTask
  <2>2. CallPlace' /\ ExecAgrees'
    BY <1>0, <1>20, <2>1 DEF FinalAccepted, Stage, CallPlace, Reporting, ExecAgrees,
        MemoryExec
  <2>3. ConsentSaved'
    <3>0. pc = "finalize" /\ vtState = "Executing"
        BY <1>0, <1>20 DEF FinalAccepted, CallPlace, Reporting
    <3>1. LoadedTask = frozenTask /\ Stage(LoadedVt) \in Used
        BY <1>0, <3>0 DEF StoreAgrees, Stage, Used
    <3> QED
        BY <1>0, <1>20, <2>1, <3>1 DEF FinalAccepted, ConsentSaved
  <2> QED
    BY <1>0, <2>1, <2>2, <2>3 DEF TaskInv
<1>21. CASE FinalNotAccepted
  <2>1. storedExec = MemoryExec /\ storedExec # NoRecord /\ ~Snapshotless
    BY <1>0, <1>21, ExecRecords, CallHasTask DEF FinalNotAccepted, ExecAgrees
  <2>2. LoadedExec' = MemoryExec'
    BY <1>21, <2>1, LoadedStays DEF FinalNotAccepted, LoadedExec, MemoryExec
  <2> QED
    BY <1>0, <1>21, <2>2, LoadedStays DEF FinalNotAccepted, TaskInv, CallPlace, Reporting,
        StoreAgrees, ExecAgrees, ConsentSaved
<1>22. CASE Crash
    BY <1>0, <1>22, CallHasTask, LoadedStays DEF Crash, ClearLocals, Stage, Used, TaskInv,
        CallPlace, Reporting, StoreAgrees, ExecAgrees, MemoryExec, ConsentSaved
<1>23. CASE Reconcile
  <2>1. /\ LoadedVt' = vtState' /\ LoadedTask' = frozenTask' /\ LoadedExec' = MemoryExec'
        /\ LoadedVt' = LoadedVt /\ LoadedTask' = LoadedTask /\ Snapshotless' = Snapshotless
    BY <1>0, <1>23, LoadedStays, ExecRecords DEF Reconcile, MemoryExec
  <2> QED
    BY <1>0, <1>23, <2>1 DEF Reconcile, TaskInv, CallPlace, Reporting, StoreAgrees,
        ExecAgrees, ConsentSaved
<1>24. CASE ~TaskMove
    BY <1>0, <1>24, TaskQuiet, LoadedStays DEF taskVars, TaskInv, CallPlace, Reporting,
        StoreAgrees, ExecAgrees, MemoryExec, ConsentSaved
<1> QED
    BY <1>1, <1>2, <1>3, <1>4, <1>5, <1>6, <1>7, <1>8, <1>9, <1>10, <1>11, <1>12, <1>13,
        <1>14, <1>15, <1>16, <1>17, <1>17a, <1>18, <1>19, <1>20, <1>21, <1>22, <1>23, <1>24 DEF
        TaskMove

LEMMA TaskAlways == Spec => []TaskInv
    BY TaskInit, TaskStep, PTL DEF Spec

-----------------------------------------------------------------------------
(* Consent, terminal states and the documented diagram.                    *)

(* What the program would resume is what it works on, so the consent saved *)
(* for the one is the consent for the other.                               *)
LEMMA ConsentHolds == TaskInv => ConsentBeforeUse
<1> SUFFICES ASSUME TaskInv, frozenTask \in ConsentTasks, Stage(vtState) \in Used
             PROVE  storedConsent = [task |-> frozenTask, accepted |-> TRUE]
    BY DEF ConsentBeforeUse, Used
<1>1. pc # "boot"
    BY DEF TaskInv, CallPlace, Stage, Used
<1> QED
    BY <1>1 DEF TaskInv, StoreAgrees, ConsentSaved

(* No task that requires consent is used without its own accepted consent, *)
(* on a fresh and on a migrated store, whatever the cloud answers and      *)
(* however often power is lost (doCheckTask, doConsent).                   *)
THEOREM ConsentIsGiven == Spec => []ConsentBeforeUse
    BY TaskAlways, ConsentHolds, PTL

(* Where the task is saved, and what the store holds before.               *)
LEMMA SavesFrom ==
    ASSUME TaskInv, SavesTask
    PROVE  /\ pc # "boot" /\ Stage(LoadedVt) = Stage(vtState)
           /\ CheckTask => Stage(vtState) = "check"
           /\ RequireConsent => vtState = "Discovered"
           /\ RecordConsent => Stage(vtState) = "consent"
           /\ EndDownload => Stage(vtState) = "download"
           /\ OpenWindow => Stage(vtState) = "window"
           /\ RequestPermit => Stage(vtState) = "permit"
           /\ FinalAccepted => vtState = "Executing"
<1>1. CallPlace /\ StoreAgrees
    BY DEF TaskInv
<1>2. pc # "boot"
    BY DEF SavesTask, CheckTask, RequireConsent, RecordConsent, EndDownload, OpenWindow,
        RequestPermit, FinalAccepted, At
<1> QED
    BY <1>1, <1>2 DEF CallPlace, InLoop, Reporting, StoreAgrees, CheckTask,
        RequireConsent, RecordConsent, EndDownload, OpenWindow, RequestPermit,
        FinalAccepted, At

(* A terminal state leads to no stage, and only stages save a task.        *)
LEMMA TerminalStep ==
    ASSUME TaskInv, [Next]_vars, storedTask # NoRecord, storedTask.task # NoTask,
           IsTerminalVehicleTask(storedTask.state)
    PROVE  storedTask' = storedTask
<1>1. LoadedVt = storedTask.state
    BY DEF LoadedVt, Snapshotless
<1>2. Stage(LoadedVt) = "none"
    BY <1>1 DEF Stage, IsTerminalVehicleTask
<1>3. ~SavesTask
  <2> SUFFICES ASSUME SavesTask PROVE FALSE
    OBVIOUS
  <2>1. Stage(vtState) = "none"
    BY <1>2, SavesFrom
  <2>2. vtState \notin {"Discovered", "Executing"}
    BY <2>1 DEF Stage
  <2> QED
    BY <2>1, <2>2, SavesFrom DEF SavesTask
<1> QED
    BY <1>3, WhoWrites

(* A durable terminal state is final for a task with its snapshot          *)
(* (vehicle_task_state.hpp:11), power losses included.  A migrated task    *)
(* has none: loadFromStore forgets it and the vehicle is checked anew.     *)
THEOREM TerminalStays == Spec => TerminalIsForever
<1>1. TaskInv /\ [Next]_vars
        => [(/\ storedTask # NoRecord /\ storedTask.task # NoTask
             /\ IsTerminalVehicleTask(storedTask.state))
               => storedTask' = storedTask]_vars
    BY TerminalStep
<1> QED
    BY TaskAlways, <1>1, PTL DEF Spec, TerminalIsForever

(* A cloud that answers a final result with a state the diagram lets       *)
(* follow Executing.                                                       *)
CloudFollowsDiagram ==
    \A status \in FinalStatuses :
        IsValidVehicleTaskTransition("Executing", StateFromCloud(status))

TwoArrows(from, to) ==
    \E mid \in VehicleTaskStates : /\ IsValidVehicleTaskTransition(from, mid)
                                   /\ IsValidVehicleTaskTransition(mid, to)

LEMMA ArrowsFollowed ==
    ASSUME CloudFollowsDiagram, TaskInv, TaskInv', ~Snapshotless, SavesTask,
           storedTask # NoRecord
    PROVE  TwoArrows(storedTask.state, storedTask'.state)
<1> DEFINE from == storedTask.state
<1>1. LoadedVt = from
    BY DEF LoadedVt
<1>2. from \in VehicleTaskStates
    BY DEF TaskInv, TypeInv, TypeOK, StoreOK, TaskRecord
<1>3. Stage(from) = Stage(vtState)
    BY <1>1, SavesFrom
<1> USE <1>2, <1>3, SavesFrom
    DEF TwoArrows, IsValidVehicleTaskTransition, DocumentedVehicleTask,
        IsTerminalVehicleTask, VehicleTaskStates, Saved
<1>4. CASE CheckTask
  <2>1. from \in {"None", "Discovered"} /\ storedTask'.state = "Discovered"
    BY <1>4 DEF CheckTask, Stage
  <2> QED
    BY <2>1
<1>5. CASE RequireConsent
  <2>1. /\ from \in {"None", "Discovered"}
        /\ storedTask'.state \in {"ConsentPending", "DownloadPending"}
    BY <1>5 DEF RequireConsent, StateAfterCheck, Stage
  <2> WITNESS "Discovered" \in VehicleTaskStates
  <2> QED
    BY <2>1
<1>6. CASE RecordConsent
  <2>1. from = "ConsentPending" /\ storedTask'.state \in {"DownloadPending", "Ended"}
    BY <1>6 DEF RecordConsent, Stage
  <2> WITNESS "ConsentPending" \in VehicleTaskStates
  <2> QED
    BY <2>1
<1>7. CASE EndDownload
  <2>1. /\ from \in {"DownloadPending", "Downloading"}
        /\ storedTask'.state \in {"Ready", "Downloading"}
    BY <1>7 DEF EndDownload, Stage
  <2> WITNESS "Downloading" \in VehicleTaskStates
  <2> QED
    BY <2>1
<1>8. CASE OpenWindow
  <2>1. from = "Ready" /\ storedTask'.state = "WaitingWindow"
    BY <1>8 DEF OpenWindow, Stage
  <2> WITNESS "Ready" \in VehicleTaskStates
  <2> QED
    BY <2>1
<1>9. CASE RequestPermit
  <2>1. /\ from \in {"WaitingWindow", "PermitPending", "RetryPending"}
        /\ storedTask'.state = "Executing"
    BY <1>9 DEF RequestPermit, Stage
  <2> WITNESS "PermitPending" \in VehicleTaskStates
  <2> QED
    BY <2>1
<1>10. CASE FinalAccepted
  <2>1. from \in {"Executing", "RollbackPending"}
    BY <1>10 DEF Stage
  <2>2. PICK status \in FinalStatuses : storedTask'.state = StateFromCloud(status)
    BY <1>10 DEF FinalAccepted
  <2>3. IsValidVehicleTaskTransition("Executing", storedTask'.state)
    BY <2>2 DEF CloudFollowsDiagram
  <2> WITNESS "Executing" \in VehicleTaskStates
  <2> QED
    BY <2>1, <2>3
<1> QED
    BY <1>4, <1>5, <1>6, <1>7, <1>8, <1>9, <1>10 DEF SavesTask

(* On a factory-new store, under a cloud that follows the diagram, no      *)
(* durable change skips more than one documented state                     *)
(* (vehicle_task_state.hpp:11), power losses included.                     *)
THEOREM DiagramIsFollowed ==
    CloudFollowsDiagram /\ ~Migrated => (Spec => SkipsAtMostOneState)
<1> SUFFICES ASSUME CloudFollowsDiagram, ~Migrated PROVE Spec => SkipsAtMostOneState
    OBVIOUS
<1>1. TaskInv /\ TaskInv' /\ LogInv /\ [Next]_vars
        => [storedTask # NoRecord => TwoArrows(storedTask.state, storedTask'.state)]_storedTask
    BY ArrowsFollowed, WhoWrites DEF LogInv, FreshInv
<1>2. Spec => []LogInv
    BY LogInit, LogStep, PTL DEF Spec
<1>3. Spec => [][storedTask # NoRecord
                   => TwoArrows(storedTask.state, storedTask'.state)]_storedTask
    BY TaskAlways, <1>1, <1>2, PTL DEF Spec
<1> QED
    BY <1>3 DEF SkipsAtMostOneState, TwoArrows

-----------------------------------------------------------------------------
(* The download records.                                                   *)

(* Bytes a record that is not in hand speaks of are of its etag.           *)
StoredMatch ==
    \A p \in Packages :
        (storedDl[p] # NoRecord /\ storedDl[p].off > 0 /\ ~(pc \in HasEntry /\ p = pkg))
            => bytesOf[p] = storedDl[p].etag

BytesInv == TypeInv /\ PartialBytesMatchEtag /\ StoredMatch

(* No other step than these has a part in it.                              *)
BytesMove ==
    \/ \E p \in Packages : GrantFails(p) \/ Fetch(p)
    \/ StageReported \/ StageReportLost \/ NoStageResult
    \/ SaveDownload \/ AbandonDownload \/ Crash

LEMMA BytesQuiet ==
    ASSUME TypeInv, [Next]_vars, ~BytesMove
    PROVE  /\ pc' \in HasEntry <=> pc \in HasEntry
           /\ UNCHANGED <<inHand, storedDl, bytesOf>>
<1> DEFINE Quiet == /\ pc' \in HasEntry <=> pc \in HasEntry
                    /\ UNCHANGED <<inHand, storedDl, bytesOf>>
<1> USE DEF HasEntry, inHand, locals, downloads, downloadFrame, sendFrame
<1>1. ASSUME NEW p \in Packages, SkipReady(p) PROVE Quiet
    BY <1>1 DEF SkipReady
<1>2. CASE CheckTask \/ RequireConsent \/ ReportConsent \/ RecordConsent \/ BeginDownload
    BY <1>2 DEF CheckTask, RequireConsent, ReportConsent, RecordConsent, BeginDownload, At
<1>3. CASE EndDownload \/ OpenWindow \/ RequestPermit \/ RetryNotGranted
    BY <1>3 DEF EndDownload, OpenWindow, RequestPermit, RetryNotGranted, At, AfterPermit
<1>4. CASE SaveExecution \/ FinalAccepted \/ FinalNotAccepted
    BY <1>4 DEF SaveExecution, FinalAccepted, FinalNotAccepted
<1>5. CASE SaveMeta
    BY <1>5 DEF SaveMeta, TypeInv, TypeOK, CallOK
<1>6. CASE StartInstall \/ EmitEvent \/ CommitEvent \/ StartReturns \/ StartRefused
    BY <1>6 DEF StartInstall, EmitEvent, CommitEvent, StartReturns, StartRefused
<1>7. CASE ResumeExecution \/ SkipEvent \/ MarkSent \/ EventAccepted
    BY <1>7 DEF ResumeExecution, SkipEvent, MarkSent, EventAccepted, At
<1>8. CASE EventNotAccepted \/ EndSend \/ Reconcile
    BY <1>8 DEF EventNotAccepted, EndSend, Reconcile
<1>9. CASE StepFails \/ PermitExpires \/ GuardsChange \/ UNCHANGED vars
    BY <1>9 DEF StepFails, PermitExpires, GuardsChange, vars
<1> QED
    BY <1>1, <1>2, <1>3, <1>4, <1>5, <1>6, <1>7, <1>8, <1>9 DEF Next, Step, DownloadStep,
        ExecuteStep, BytesMove

LEMMA BytesInit == Init => PartialBytesMatchEtag /\ StoredMatch
    BY DEF Init, PartialBytesMatchEtag, StoredMatch, HasEntry

(* What doDownload knows of the entry it begins with.                      *)
LEMMA EntryMatches ==
    ASSUME BytesInv, pc = "download", NEW p \in Packages
    PROVE  /\ frozenTask \in Tasks /\ Entry(p) \in Download
           /\ Entry(p).off > 0 => bytesOf[p] = Entry(p).etag
<1>1. frozenTask \in Tasks /\ Entry(p) \in Download
    BY EntryType, CallHasTask DEF BytesInv, TypeInv, TypeOK
<1> QED
    BY <1>1 DEF Entry, NewDownload, BytesInv, StoredMatch, HasEntry

(* A grant with a new etag discards what there was; any other one resumes  *)
(* under the etag there is.                                                *)
LEMMA FetchMatches ==
    ASSUME EmptyEtag \notin GrantEtags, BytesInv, NEW p \in Packages, Fetch(p)
    PROVE  entry'.off > 0 => bytesOf'[p] = entry'.etag
<1>1. PICK g \in Grant(Entry(p)), off \in 0..1 :
          LET kept == Granted(Entry(p), g)
          IN  /\ entry' = [kept EXCEPT !.off = off]
              /\ bytesOf' = IF kept.off = 0 THEN [bytesOf EXCEPT ![p] = kept.etag]
                            ELSE bytesOf
    BY DEF Fetch
<1> DEFINE e == Entry(p)
           kept == Granted(e, g)
<1>2. e \in Download /\ (e.off > 0 => bytesOf[p] = e.etag)
    BY EntryMatches DEF Fetch
<1>3. g.etag # EmptyEtag
    BY <1>2, GrantType
<1>4. kept \in Download
    BY <1>2, FetchedType
<1>5. kept.off = 0 \/ (kept.off = e.off /\ kept.etag = e.etag)
    BY <1>2, <1>3 DEF Granted, Download
<1>6. entry'.etag = kept.etag
    BY <1>1, <1>4 DEF Download
<1>7. bytesOf \in [Packages -> Etags]
    BY DEF BytesInv, TypeInv, TypeOK, WorldOK
<1>8. CASE kept.off = 0
    BY <1>1, <1>6, <1>7, <1>8
<1>9. CASE kept.off # 0
  <2>1. kept.off = e.off /\ kept.etag = e.etag /\ e.off > 0
    BY <1>2, <1>5, <1>9 DEF Download
  <2> QED
    BY <1>1, <1>2, <1>6, <1>9, <2>1
<1> QED
    BY <1>8, <1>9

LEMMA BytesStep ==
    ASSUME MaxCrashes = 0, EmptyEtag \notin GrantEtags, BytesInv, [Next]_vars
    PROVE  PartialBytesMatchEtag' /\ StoredMatch'
<1>0. /\ TypeInv /\ PartialBytesMatchEtag /\ StoredMatch
      /\ storedDl \in [Packages -> Download \cup {NoRecord}]
      /\ bytesOf \in [Packages -> Etags]
    BY DEF BytesInv, TypeInv, TypeOK, StoreOK, WorldOK
<1> USE DEF HasEntry, inHand, downloadFrame, PartialBytesMatchEtag, StoredMatch
<1>1. ASSUME NEW p \in Packages, GrantFails(p)
      PROVE  PartialBytesMatchEtag' /\ StoredMatch'
    BY <1>0, <1>1, EntryMatches DEF GrantFails
<1>2. ASSUME NEW p \in Packages, Fetch(p)
      PROVE  PartialBytesMatchEtag' /\ StoredMatch'
  <2>1. /\ pc = "download" /\ pc' = "fetched" /\ pkg' = p /\ storedDl' = storedDl
        /\ \A q \in Packages \ {p} : bytesOf'[q] = bytesOf[q]
    BY <1>0, <1>2 DEF Fetch
  <2>2. entry'.off > 0 => bytesOf'[p] = entry'.etag
    BY <1>2, FetchMatches
  <2> QED
    BY <1>0, <2>1, <2>2
<1>3. CASE StageReported
  <2>1. entry'.off = entry.off /\ entry'.etag = entry.etag
    BY <1>0, <1>3 DEF StageReported, StageReady, Download, TypeInv, TypeOK, CallOK
  <2> QED
    BY <1>0, <1>3, <2>1 DEF StageReported
<1>4. CASE StageReportLost \/ NoStageResult
    BY <1>0, <1>4 DEF StageReportLost, NoStageResult
<1>5. CASE SaveDownload \/ AbandonDownload
  <2>1. /\ pkg \in Packages /\ pc \in HasEntry /\ pc' \notin HasEntry
        /\ storedDl' = [storedDl EXCEPT ![pkg] = entry] /\ bytesOf' = bytesOf
    BY <1>0, <1>5 DEF SaveDownload, AbandonDownload, TypeInv, TypeOK, CallOK
  <2> QED
    BY <1>0, <2>1
<1>6. ~Crash
    BY <1>0 DEF Crash, TypeInv, TypeOK, WorldOK
<1>7. CASE ~BytesMove
    BY <1>0, <1>7, BytesQuiet
<1> QED
    BY <1>1, <1>2, <1>3, <1>4, <1>5, <1>6, <1>7 DEF BytesMove

(* Bytes are resumed only under the etag they were fetched under, however  *)
(* often grants and reports fail, provided that no power is lost between   *)
(* the fetch and the save of its record (find_mixed_download shows what    *)
(* happens then) and that a grant never carries an empty etag, which is    *)
(* copied without resetting the offset (doDownload).                       *)
THEOREM BytesMatchEtag ==
    MaxCrashes = 0 /\ EmptyEtag \notin GrantEtags => (Spec => []PartialBytesMatchEtag)
<1> SUFFICES ASSUME MaxCrashes = 0, EmptyEtag \notin GrantEtags
             PROVE  Spec => []PartialBytesMatchEtag
    OBVIOUS
<1>1. BytesInv /\ [Next]_vars => BytesInv'
    BY TypeStep, BytesStep DEF BytesInv
<1>2. Init => BytesInv
    BY TypeInit, BytesInit DEF BytesInv
<1>3. BytesInv => PartialBytesMatchEtag
    BY DEF BytesInv
<1> QED
    BY <1>1, <1>2, <1>3, PTL DEF Spec

-----------------------------------------------------------------------------
(* Verification before installation.                                       *)

(* Every task asks for the same revision: what a task that asks for        *)
(* another one does is the subject of find_stale_ready.                    *)
OneRevisionForAll == \A t1, t2 \in Tasks : RevisionOf[t1] = RevisionOf[t2]

Verified(t) == \A p \in Packages : <<p, RevisionOf[t]>> \in stageOk

(* A ready record is of the revision asked for, whose stage result counts; *)
(* so is the entry in hand once it is; the packages doDownload has visited *)
(* count while nothing failed; and a task past its download has all of     *)
(* them, a restart included.                                               *)
RecordsVerified ==
    \A p \in Packages : storedDl[p] # NoRecord =>
        /\ \A t \in Tasks : storedDl[p].rev = RevisionOf[t]
        /\ storedDl[p].ready => <<p, storedDl[p].rev>> \in stageOk
EntryVerified ==
    pc \in HasEntry =>
        /\ entry.rev = RevisionOf[frozenTask]
        /\ entry.ready => pc = "saveDl" /\ <<pkg, entry.rev>> \in stageOk
        /\ pc = "saveDl" /\ allReady => <<pkg, entry.rev>> \in stageOk
LoopVerified ==
    pc \in InLoop /\ allReady
        => \A p \in Packages \ todo :
               <<p, RevisionOf[frozenTask]>> \in stageOk
ResumeVerified ==
    Stage(LoadedVt) \in {"window", "permit", "execute"} => Verified(LoadedTask)

VerifiedInv == RecordsVerified /\ EntryVerified /\ LoopVerified /\ ResumeVerified

(* A grant of the revision asked for keeps that of the record.             *)
LEMMA FetchedKeeps ==
    ASSUME GrantsAsAsked, NEW e \in Download, NEW g \in Grant(e), NEW off \in 0..1
    PROVE  /\ [Granted(e, g) EXCEPT !.off = off].rev = e.rev
           /\ [Granted(e, g) EXCEPT !.off = off].ready = e.ready
<1>1. Granted(e, g) \in Download
    BY FetchedType
<1>2. Granted(e, g).rev = e.rev /\ Granted(e, g).ready = e.ready
  <2>1. g.rev = e.rev
    BY DEF Grant
  <2> QED
    BY <2>1, GrantType, GrantedType DEF Granted, Download
<1> QED
    BY <1>1, <1>2 DEF Download

(* The loop of doDownload moves only with its own steps.                   *)
LEMMA StaysInLoop ==
    ASSUME TypeInv, [Next]_vars, ~LoopStep, ~BeginDownload,
           \A p \in Packages : ~SkipReady(p)
    PROVE  pc' \in InLoop => UNCHANGED <<pc, todo, inHand, allReady, frozenTask>>
<1> DEFINE Stays == pc' \in InLoop => UNCHANGED <<pc, todo, inHand, allReady, frozenTask>>
<1> USE DEF HasEntry, InLoop, memory, locals, sendFrame
<1>1. CASE AbandonDownload \/ EndDownload
    BY <1>1 DEF AbandonDownload, EndDownload
<1>2. CASE CheckTask \/ RequireConsent \/ ReportConsent \/ RecordConsent
    BY <1>2 DEF CheckTask, RequireConsent, ReportConsent, RecordConsent, At
<1>3. CASE OpenWindow \/ RequestPermit \/ RetryNotGranted
    BY <1>3 DEF OpenWindow, RequestPermit, RetryNotGranted, At, AfterPermit
<1>4. CASE SaveExecution \/ FinalAccepted \/ FinalNotAccepted
    BY <1>4 DEF SaveExecution, FinalAccepted, FinalNotAccepted
<1>5. CASE SaveMeta
    BY <1>5 DEF SaveMeta, TypeInv, TypeOK, CallOK
<1>6. CASE StartInstall \/ EmitEvent \/ CommitEvent \/ StartReturns \/ StartRefused
    BY <1>6 DEF StartInstall, EmitEvent, CommitEvent, StartReturns, StartRefused
<1>7. CASE ResumeExecution \/ SkipEvent \/ MarkSent \/ EventAccepted
    BY <1>7 DEF ResumeExecution, SkipEvent, MarkSent, EventAccepted, Sendable, At
<1>8. CASE EventNotAccepted \/ EndSend \/ Reconcile \/ Crash
    BY <1>8 DEF EventNotAccepted, EndSend, Reconcile, Crash, Sendable
<1>9. CASE StepFails \/ PermitExpires \/ GuardsChange \/ UNCHANGED vars
    BY <1>9 DEF StepFails, PermitExpires, GuardsChange, vars
<1> QED
    BY <1>1, <1>2, <1>3, <1>4, <1>5, <1>6, <1>7, <1>8, <1>9 DEF Next, Step, DownloadStep,
        ExecuteStep, LoopStep

(* What the loop works on.                                                 *)
LEMMA EntryOfTask ==
    ASSUME TypeInv, RecordsVerified, pc = "download", NEW p \in Packages
    PROVE  /\ frozenTask \in Tasks /\ Entry(p) \in Download
           /\ Entry(p).rev = RevisionOf[frozenTask]
           /\ Entry(p).ready => <<p, RevisionOf[frozenTask]>> \in stageOk
<1>1. frozenTask \in Tasks
    BY CallHasTask
<1> QED
    BY <1>1, EntryType DEF Entry, NewDownload, RecordsVerified, TypeInv, TypeOK

LEMMA VerifiedInit == Init /\ ~Migrated => VerifiedInv
    BY DEF Init, FreshStore, VerifiedInv, RecordsVerified, EntryVerified, LoopVerified,
        ResumeVerified, LoadedVt, Stage, HasEntry, InLoop

(* Saving the entry in hand keeps what the records say.                    *)
LEMMA RecordsStay ==
    ASSUME OneRevisionForAll, TaskInv, VerifiedInv, SaveDownload \/ AbandonDownload
    PROVE  RecordsVerified'
<1>1. /\ pc \in HasEntry /\ pkg \in Packages /\ stageOk' = stageOk
      /\ storedDl' = [storedDl EXCEPT ![pkg] = entry]
      /\ storedDl \in [Packages -> Download \cup {NoRecord}]
    BY DEF HasEntry, SaveDownload, AbandonDownload, TaskInv, TypeInv, TypeOK, CallOK,
        StoreOK
<1>2. frozenTask \in Tasks
    BY <1>1, CallHasTask DEF HasEntry, TaskInv
<1>3. \A t \in Tasks : entry.rev = RevisionOf[t]
    BY <1>1, <1>2 DEF VerifiedInv, EntryVerified, OneRevisionForAll
<1>4. storedDl'[pkg] = entry /\ \A q \in Packages \ {pkg} : storedDl'[q] = storedDl[q]
    BY <1>1
<1>5. entry.ready => <<pkg, entry.rev>> \in stageOk
    BY <1>1 DEF VerifiedInv, EntryVerified
<1> QED
    BY <1>1, <1>3, <1>4, <1>5 DEF VerifiedInv, RecordsVerified

LEMMA RecordsStep ==
    ASSUME OneRevisionForAll, GrantsAsAsked, ~StageOptional, TaskInv, VerifiedInv,
           [Next]_vars
    PROVE  /\ RecordsVerified' /\ stageOk \subseteq stageOk'
           /\ EntryVerified' /\ LoopVerified'
<1>0. TypeInv /\ RecordsVerified /\ EntryVerified /\ LoopVerified
    BY DEF TaskInv, VerifiedInv
<1> DEFINE Goal == /\ RecordsVerified' /\ stageOk \subseteq stageOk'
                   /\ EntryVerified' /\ LoopVerified'
<1> USE DEF HasEntry, InLoop, downloadFrame
<1>1. ASSUME NEW p \in Packages, GrantFails(p) PROVE Goal
  <2>1. /\ pc = "download" /\ ~Entry(p).ready /\ entry' = Entry(p) /\ pc' = "abandon"
        /\ UNCHANGED <<frozenTask, todo, allReady, storedDl, stageOk>>
    BY <1>1 DEF GrantFails
  <2>2. Entry(p).rev = RevisionOf[frozenTask]
    BY <1>0, <2>1, EntryOfTask
  <2> QED
    BY <1>0, <2>1, <2>2 DEF RecordsVerified, EntryVerified, LoopVerified
<1>2. ASSUME NEW p \in Packages, Fetch(p) PROVE Goal
  <2>1. /\ pc = "download" /\ ~Entry(p).ready /\ pc' = "fetched"
        /\ UNCHANGED <<frozenTask, todo, allReady, storedDl, stageOk>>
    BY <1>2 DEF Fetch
  <2>2. PICK g \in Grant(Entry(p)), off \in 0..1 :
            entry' = [Granted(Entry(p), g) EXCEPT !.off = off]
    BY <1>2 DEF Fetch
  <2>3. Entry(p) \in Download /\ Entry(p).rev = RevisionOf[frozenTask]
    BY <1>0, <2>1, EntryOfTask
  <2>4. entry'.rev = RevisionOf[frozenTask] /\ ~entry'.ready
    BY <2>1, <2>2, <2>3, FetchedKeeps
  <2> QED
    BY <1>0, <2>1, <2>4 DEF RecordsVerified, EntryVerified, LoopVerified
<1>3. CASE StageReported
  <2>1. PICK succeeded \in BOOLEAN, accepted \in BOOLEAN :
            LET ready == StageReady(succeeded, accepted)
            IN  /\ entry' = [entry EXCEPT !.ready = ready]
                /\ allReady' = (allReady /\ ready)
                /\ stageOk' = IF succeeded /\ accepted
                              THEN stageOk \cup {<<pkg, entry.rev>>} ELSE stageOk
    BY <1>3 DEF StageReported
  <2> DEFINE ready == succeeded /\ accepted
  <2>2. /\ pc = "fetched" /\ pc' = "saveDl"
        /\ UNCHANGED <<frozenTask, todo, pkg, storedDl>>
    BY <1>3 DEF StageReported
  <2>3. entry'.rev = entry.rev /\ entry'.ready = ready
    BY <1>0, <2>1, <2>2 DEF StageReady, Download, TypeInv, TypeOK, CallOK
  <2>4. stageOk \subseteq stageOk' /\ (ready => <<pkg, entry.rev>> \in stageOk')
    BY <2>1
  <2>5. allReady' => allReady /\ ready
    BY <1>0, <2>1 DEF StageReady, TypeInv, TypeOK, FlagsOK
  <2>6. EntryVerified'
    BY <1>0, <2>2, <2>3, <2>4, <2>5 DEF EntryVerified
  <2> QED
    BY <1>0, <2>2, <2>4, <2>5, <2>6 DEF RecordsVerified, LoopVerified
<1>4. CASE StageReportLost
    BY <1>0, <1>4 DEF StageReportLost, inHand, RecordsVerified, EntryVerified,
        LoopVerified
<1>5. ~NoStageResult
    BY DEF NoStageResult
<1>6. CASE SaveDownload
  <2>1. RecordsVerified'
    BY <1>6, RecordsStay
  <2>2. /\ pc = "saveDl" /\ pc' = "download" /\ todo' = todo \ {pkg}
        /\ UNCHANGED <<frozenTask, allReady, stageOk>>
    BY <1>6 DEF SaveDownload
  <2> QED
    BY <1>0, <2>1, <2>2 DEF EntryVerified, LoopVerified
<1>7. CASE AbandonDownload
  <2>1. RecordsVerified'
    BY <1>7, RecordsStay
  <2>2. pc' = "idle" /\ stageOk' = stageOk
    BY <1>7 DEF AbandonDownload
  <2> QED
    BY <2>1, <2>2 DEF EntryVerified, LoopVerified
<1>8. ASSUME NEW p \in Packages, SkipReady(p) PROVE Goal
  <2>1. /\ pc = "download" /\ pc' = pc /\ todo' = todo \ {p} /\ Entry(p).ready
        /\ UNCHANGED <<frozenTask, allReady, storedDl, stageOk>>
    BY <1>8 DEF SkipReady
  <2>2. <<p, RevisionOf[frozenTask]>> \in stageOk
    BY <1>0, <2>1, EntryOfTask
  <2> QED
    BY <1>0, <2>1, <2>2 DEF RecordsVerified, EntryVerified, LoopVerified
<1>9. CASE BeginDownload
    BY <1>0, <1>9 DEF BeginDownload, downloads, RecordsVerified, EntryVerified,
        LoopVerified
<1>10. CASE /\ ~LoopStep /\ ~AbandonDownload /\ ~BeginDownload
            /\ \A p \in Packages : ~SkipReady(p)
  <2>1. storedDl' = storedDl /\ stageOk' = stageOk
    BY <1>10, WhoWrites DEF LoopStep
  <2>2. pc' \in InLoop => UNCHANGED <<pc, todo, pkg, entry, allReady, frozenTask>>
    BY <1>0, <1>10, StaysInLoop DEF inHand
  <2> QED
    BY <1>0, <2>1, <2>2 DEF RecordsVerified, EntryVerified, LoopVerified
<1> QED
    BY <1>1, <1>2, <1>3, <1>4, <1>5, <1>6, <1>7, <1>8, <1>9, <1>10 DEF LoopStep

LEMMA ResumeStep ==
    ASSUME TaskInv, TaskInv', VerifiedInv, [Next]_vars, stageOk \subseteq stageOk'
    PROVE  ResumeVerified'
<1>1. CASE ~SavesTask
    BY <1>1, WhoWrites, LoadedStays DEF VerifiedInv, ResumeVerified, Verified, Stage
<1>2. CASE SavesTask
  <2>1. pc # "boot" /\ Stage(LoadedVt) = Stage(vtState) /\ LoadedTask = frozenTask
    BY <1>2, SavesFrom DEF TaskInv, StoreAgrees
  <2>2. pc' # "boot" /\ Stage(LoadedVt)' = Stage(vtState)' /\ LoadedTask' = frozenTask'
    <3>1. pc' # "boot"
        BY <1>2 DEF SavesTask, CheckTask, RequireConsent, RecordConsent, EndDownload,
            OpenWindow, RequestPermit, FinalAccepted, AfterPermit, At
    <3> QED
        BY <3>1 DEF TaskInv, StoreAgrees
  <2>3. CASE CheckTask \/ RequireConsent \/ RecordConsent
    <3>1. vtState' \in {"Discovered", "ConsentPending", "DownloadPending", "Ended"}
        BY <2>3 DEF CheckTask, RequireConsent, RecordConsent, StateAfterCheck
    <3>2. Stage(vtState)' \notin {"window", "permit", "execute"}
        BY <3>1 DEF Stage
    <3> QED
        BY <2>2, <3>2 DEF ResumeVerified
  <2>4. CASE EndDownload
    <3>1. CASE allReady
      <4>1. Verified(frozenTask)
        BY <2>4, <3>1 DEF EndDownload, VerifiedInv, LoopVerified, Verified, InLoop
      <4> QED
        BY <2>2, <2>4, <4>1 DEF EndDownload, downloads, ResumeVerified, Verified
    <3>2. CASE ~allReady
      <4>1. Stage(vtState)' = "download"
        BY <2>4, <3>2 DEF EndDownload, Stage
      <4> QED
        BY <2>2, <4>1 DEF ResumeVerified
    <3> QED
        BY <3>1, <3>2
  <2>5. CASE OpenWindow \/ RequestPermit \/ FinalAccepted
    <3>1. Stage(LoadedVt) \in {"window", "permit", "execute"}
        BY <1>2, <2>1, <2>5, SavesFrom DEF Stage
    <3>2. Verified(frozenTask)
        BY <2>1, <3>1 DEF VerifiedInv, ResumeVerified
    <3>3. frozenTask' = frozenTask /\ stageOk' = stageOk
        BY <2>5 DEF OpenWindow, RequestPermit, FinalAccepted, downloads
    <3> QED
        BY <2>2, <3>2, <3>3 DEF ResumeVerified, Verified
  <2> QED
    BY <1>2, <2>3, <2>4, <2>5 DEF SavesTask
<1> QED
    BY <1>1, <1>2

(* The executor is started only for packages whose successful stage result *)
(* the cloud has counted (vehicle_task_state.hpp:26): on a factory-new     *)
(* store, when the downloader always reports, all tasks ask for one        *)
(* revision and grants name the one asked for.                             *)
THEOREM InstallsAreVerified ==
    OneRevisionForAll /\ GrantsAsAsked /\ ~StageOptional /\ ~Migrated
        => (Spec => []InstallOnlyVerified)
<1> SUFFICES ASSUME OneRevisionForAll, GrantsAsAsked, ~StageOptional, ~Migrated
             PROVE  Spec => []InstallOnlyVerified
    OBVIOUS
<1>1. TaskInv /\ TaskInv' /\ VerifiedInv /\ [Next]_vars => VerifiedInv'
    BY RecordsStep, ResumeStep DEF VerifiedInv
<1>2. Init => VerifiedInv
    BY VerifiedInit
<1>3. TaskInv /\ VerifiedInv => InstallOnlyVerified
  <2> SUFFICES ASSUME TaskInv, VerifiedInv, pc \in {"starting", "emitting"}
               PROVE  Verified(frozenTask)
    BY DEF InstallOnlyVerified, Verified
  <2>1. Stage(LoadedVt) = "execute" /\ LoadedTask = frozenTask
    BY DEF TaskInv, CallPlace, StoreAgrees, Stage
  <2> QED
    BY <2>1 DEF VerifiedInv, ResumeVerified
<1> QED
    BY TaskAlways, <1>1, <1>2, <1>3, PTL DEF Spec

-----------------------------------------------------------------------------
(* The final result and the transparent restart.                           *)

(* An execution past its start, in memory or as a restart would find it,   *)
(* has begun; and a rollback is one of an execution past its start.        *)
Began(k) == installs[k] > 0
MemoryBegan ==
    /\ pc # "boot" /\ ~NeedsStart(exState) => Began(permit)
    /\ pc \in {"starting", "emitting"} => Began(permit)
    /\ Reporting \/ vtState = "RollbackPending" => ~NeedsStart(exState)
StoreBegan ==
    /\ ~NeedsStart(LoadedExec.state) => Began(LoadedExec.permit)
    /\ LoadedVt = "RollbackPending" => ~NeedsStart(LoadedExec.state)

RanInv == ~Snapshotless /\ MemoryBegan /\ StoreBegan /\ ResultOnlyAfterInstall

LEMMA RanInit == Init /\ ~Migrated => RanInv
    BY DEF Init, FreshStore, RanInv, MemoryBegan, StoreBegan, Reporting, Snapshotless,
        LoadedVt, LoadedExec, NeedsStart, ResultOnlyAfterInstall

(* Executions only begin.                                                  *)
LEMMA BeginsOnly ==
    ASSUME TypeInv, [Next]_vars
    PROVE  \A k \in 0..MaxPermits : Began(k) => Began(k)'
<1>1. CASE StartInstall
    BY <1>1 DEF StartInstall, Began, TypeInv, TypeOK, WorldOK, MemoryOK
<1>2. CASE ~StartInstall
    BY <1>2, WhoWrites DEF Began
<1> QED
    BY <1>1, <1>2

(* What a final result reports is what was asked for in finalize.          *)
LEMMA ResultStep ==
    ASSUME TaskInv, RanInv, [Next]_vars
    PROVE  ResultOnlyAfterInstall'
<1>1. permit \in 0..MaxPermits /\ \A f \in finals : f.execution \in 0..MaxPermits
    BY DEF TaskInv, TypeInv, TypeOK, MemoryOK, WorldOK
<1>2. \A f \in finals : Began(f.execution)'
    BY <1>1, BeginsOnly DEF TaskInv, RanInv, ResultOnlyAfterInstall, Began
<1>3. CASE FinalAccepted \/ FinalNotAccepted
  <2>1. pc = "finalize" /\ finals' \subseteq finals \cup {FinalReport}
    BY <1>3 DEF FinalAccepted, FinalNotAccepted
  <2>2. installs'[permit] > 0
    BY <1>1, <2>1, BeginsOnly DEF TaskInv, RanInv, MemoryBegan, Reporting, Began
  <2> QED
    BY <1>2, <2>1, <2>2 DEF ResultOnlyAfterInstall, FinalReport, Began
<1>4. CASE ~FinalAccepted /\ ~FinalNotAccepted
    BY <1>2, <1>4, WhoWrites DEF ResultOnlyAfterInstall, Began
<1> QED
    BY <1>3, <1>4

LEMMA RanStep ==
    ASSUME TaskInv, TaskInv', RanInv, [Next]_vars
    PROVE  ~Snapshotless' /\ MemoryBegan' /\ StoreBegan'
<1>0. /\ TypeInv /\ TypeInv' /\ CallPlace /\ StoreAgrees /\ ExecAgrees
      /\ ~Snapshotless /\ MemoryBegan /\ StoreBegan
      /\ permit \in 0..MaxPermits /\ LoadedExec.permit \in 0..MaxPermits
  <2>1. LoadedExec \in ExecRecord
    BY BoundAssumption DEF TaskInv, TypeInv, TypeOK, StoreOK, LoadedExec, ExecRecord,
        ExecutionStates
  <2> QED
    BY <2>1 DEF TaskInv, RanInv, TypeInv, TypeOK, MemoryOK, ExecRecord
<1>00. \A k \in 0..MaxPermits : Began(k) => Began(k)'
    BY <1>0, BeginsOnly
<1> USE DEF memory, downloads, InLoop, HasEntry
<1>1. CASE CheckTask
  <2>1. /\ LoadedVt' = vtState' /\ ~Snapshotless' /\ storedExec' = storedExec
        /\ LoadedExec' = LoadedExec
    BY <1>0, <1>1, SaveLoads DEF SavesTask
  <2> QED
    BY <1>0, <1>00, <1>1, <2>1 DEF CheckTask, At, Stage, CallPlace, Reporting,
        MemoryBegan, StoreBegan, NeedsStart
<1>2. CASE RequireConsent
  <2>1. /\ LoadedVt' = vtState' /\ ~Snapshotless' /\ storedExec' = storedExec
        /\ LoadedExec' = LoadedExec
    BY <1>0, <1>2, SaveLoads DEF SavesTask
  <2> QED
    BY <1>0, <1>00, <1>2, <2>1 DEF RequireConsent, StateAfterCheck, Stage, CallPlace,
        Reporting, MemoryBegan, StoreBegan, NeedsStart
<1>3. CASE ReportConsent
    BY <1>0, <1>00, <1>3, LoadedStays DEF ReportConsent, At, Stage, CallPlace, Reporting,
        MemoryBegan, StoreBegan, NeedsStart
<1>4. CASE RecordConsent
  <2>1. /\ LoadedVt' = vtState' /\ ~Snapshotless' /\ storedExec' = storedExec
        /\ LoadedExec' = LoadedExec
    BY <1>0, <1>4, SaveLoads DEF SavesTask
  <2> QED
    BY <1>0, <1>00, <1>4, <2>1 DEF RecordConsent, Stage, CallPlace, Reporting,
        MemoryBegan, StoreBegan, NeedsStart
<1>5. CASE BeginDownload
    BY <1>0, <1>00, <1>5, LoadedStays DEF BeginDownload, At, Stage, CallPlace, Reporting,
        MemoryBegan, StoreBegan, NeedsStart
<1>6. CASE EndDownload
  <2>1. /\ LoadedVt' = vtState' /\ ~Snapshotless' /\ storedExec' = storedExec
        /\ LoadedExec' = LoadedExec
    BY <1>0, <1>6, SaveLoads DEF SavesTask
  <2> QED
    BY <1>0, <1>00, <1>6, <2>1 DEF EndDownload, Stage, CallPlace, Reporting, MemoryBegan,
        StoreBegan, NeedsStart
<1>7. CASE LoopStep
    BY <1>0, <1>00, <1>7, LoopStays, LoadedStays DEF Stage, CallPlace, Reporting,
        MemoryBegan, StoreBegan, NeedsStart
<1>8. CASE AbandonDownload
    BY <1>0, <1>00, <1>8, LoadedStays DEF AbandonDownload, downloadFrame, Stage,
        CallPlace, Reporting, MemoryBegan, StoreBegan, NeedsStart
<1>9. CASE OpenWindow
  <2>1. /\ LoadedVt' = vtState' /\ ~Snapshotless' /\ storedExec' = storedExec
        /\ LoadedExec' = LoadedExec
    BY <1>0, <1>9, SaveLoads DEF SavesTask
  <2> QED
    BY <1>0, <1>00, <1>9, <2>1 DEF OpenWindow, At, Stage, CallPlace, Reporting,
        MemoryBegan, StoreBegan, NeedsStart
<1>10. CASE RequestPermit
  <2>1. /\ LoadedVt' = vtState' /\ ~Snapshotless' /\ storedExec' = storedExec
        /\ LoadedExec' = LoadedExec
    BY <1>0, <1>10, SaveLoads DEF SavesTask
  <2> QED
    BY <1>0, <1>00, <1>10, <2>1 DEF RequestPermit, At, AfterPermit, Stage, CallPlace,
        Reporting, MemoryBegan, StoreBegan, NeedsStart
<1>11. CASE RetryNotGranted
    BY <1>0, <1>00, <1>11, LoadedStays DEF RetryNotGranted, Stage, CallPlace, Reporting,
        MemoryBegan, StoreBegan, NeedsStart
<1>12. CASE SaveExecution
  <2>1. /\ pc = "saveExec" /\ pc' = "saveMeta" /\ storedExec' = MemoryExec
        /\ UNCHANGED <<memory, ret, storedTask>>
    BY <1>12 DEF SaveExecution, SavedExec, MemoryExec
  <2>2. /\ ~Snapshotless' /\ LoadedVt' = LoadedVt
        /\ LoadedExec'.permit = permit /\ LoadedExec'.state = exState
    BY <1>0, <2>1, ExecRecords, LoadedStays DEF LoadedExec, MemoryExec
  <2>3. LoadedVt = "RollbackPending" => ~NeedsStart(exState)
    BY <1>0, <2>1 DEF StoreAgrees, MemoryBegan, NeedsStart
  <2> QED
    BY <1>0, <1>00, <2>1, <2>2, <2>3 DEF Reporting, MemoryBegan, StoreBegan, NeedsStart
<1>13. CASE SaveMeta
    BY <1>0, <1>00, <1>13, LoadedStays DEF SaveMeta, Stage, CallPlace, Reporting,
        MemoryBegan, StoreBegan, NeedsStart
<1>14. CASE StartInstall
  <2>1. installs'[permit] > 0
    BY <1>0, <1>14 DEF StartInstall, TypeInv, TypeOK, WorldOK
  <2> QED
    BY <1>0, <1>00, <1>14, <2>1, LoadedStays DEF StartInstall, CallPlace, Reporting,
        MemoryBegan, StoreBegan, NeedsStart, Began
<1>15. CASE EmitEvent
    BY <1>0, <1>00, <1>15, LoadedStays DEF EmitEvent, Stage, CallPlace, Reporting,
        MemoryBegan, StoreBegan, NeedsStart
<1>16. CASE CommitEvent
    BY <1>0, <1>00, <1>16, LoadedStays DEF CommitEvent, Stage, CallPlace, Reporting,
        MemoryBegan, StoreBegan, NeedsStart
<1>17. CASE StartReturns
    BY <1>0, <1>00, <1>17, LoadedStays DEF StartReturns, Stage, CallPlace, Reporting,
        MemoryBegan, StoreBegan, NeedsStart
<1>17a. CASE StartRefused
    BY <1>0, <1>00, <1>17a, LoadedStays DEF StartRefused, Stage, CallPlace, Reporting,
        MemoryBegan, StoreBegan, NeedsStart
<1>18. CASE ResumeExecution
    BY <1>0, <1>00, <1>18, LoadedStays DEF ResumeExecution, At, Stage, CallPlace,
        Reporting, MemoryBegan, StoreBegan, NeedsStart
<1>19. CASE EndSend
    BY <1>0, <1>00, <1>19, LoadedStays DEF EndSend, AfterSend, Stage, CallPlace,
        Reporting, MemoryBegan, StoreBegan, NeedsStart
<1>20. CASE FinalAccepted
  <2>1. /\ LoadedVt' = vtState' /\ ~Snapshotless' /\ storedExec' = storedExec
        /\ LoadedExec' = LoadedExec
    BY <1>0, <1>20, SaveLoads DEF SavesTask
  <2>2. pc = "finalize" /\ pc' = "saveExec" /\ ret' = "idle" /\ permit' = permit
    BY <1>20 DEF FinalAccepted
  <2>3. ~NeedsStart(exState) /\ Began(permit)
    BY <1>0, <2>2 DEF MemoryBegan, Reporting
  <2>4. exState' \in {"Failed", "RolledBack", "Succeeded"}
    BY <1>20 DEF FinalAccepted, Closed
  <2>5. LoadedExec.permit = permit /\ LoadedExec.state = exState
    BY <1>0, <2>2, ExecRecords DEF ExecAgrees, LoadedExec, MemoryExec
  <2> QED
    BY <1>0, <1>00, <2>1, <2>2, <2>3, <2>4, <2>5 DEF Reporting, MemoryBegan, StoreBegan,
        NeedsStart
<1>21. CASE FinalNotAccepted
    BY <1>0, <1>00, <1>21, LoadedStays DEF FinalNotAccepted, Stage, CallPlace, Reporting,
        MemoryBegan, StoreBegan, NeedsStart
<1>22. CASE Crash
    BY <1>0, <1>00, <1>22, LoadedStays DEF Crash, ClearLocals, Stage, CallPlace,
        Reporting, MemoryBegan, StoreBegan, NeedsStart
<1>23. CASE Reconcile
    BY <1>0, <1>00, <1>23, LoadedStays DEF Reconcile, Stage, CallPlace, Reporting,
        MemoryBegan, StoreBegan, NeedsStart
<1>24. CASE ~TaskMove
    BY <1>0, <1>00, <1>24, TaskQuiet, LoadedStays DEF taskVars, Reporting, MemoryBegan,
        StoreBegan
<1> QED
    BY <1>1, <1>2, <1>3, <1>4, <1>5, <1>6, <1>7, <1>8, <1>9, <1>10, <1>11, <1>12, <1>13,
        <1>14, <1>15, <1>16, <1>17, <1>17a, <1>18, <1>19, <1>20, <1>21, <1>22, <1>23, <1>24 DEF
        TaskMove

LEMMA RanAlways == ~Migrated => (Spec => []RanInv)
<1>1. TaskInv /\ TaskInv' /\ RanInv /\ [Next]_vars => RanInv'
    BY RanStep, ResultStep DEF RanInv
<1> QED
    BY TaskAlways, RanInit, <1>1, PTL DEF Spec

(* The cloud is told a result only of an execution that began (comment     *)
(* fota_orchestrator.cpp:588), through power losses between the saves of   *)
(* task and execution; a migrated store brings executions of before.       *)
THEOREM ResultsAreOfInstalls == ~Migrated => (Spec => []ResultOnlyAfterInstall)
<1>1. RanInv => ResultOnlyAfterInstall
    BY DEF RanInv
<1> QED
    BY RanAlways, <1>1, PTL

(* An idle program may be restarted at any time (hpp:8-10): the store      *)
(* names its stage, task, permit, decision and next number.                *)
THEOREM RestartsAreTransparent == ~Migrated => (Spec => []RestartIsTransparent)
<1> SUFFICES ASSUME ~Migrated PROVE Spec => []RestartIsTransparent
    OBVIOUS
<1>1. TaskInv /\ LogInv => RestartIsTransparent
  <2> SUFFICES ASSUME TaskInv, LogInv, pc = "idle" PROVE RestartIsTransparent
    BY DEF RestartIsTransparent
  <2>1. /\ LoadedTask = frozenTask /\ Stage(LoadedVt) = Stage(vtState)
        /\ vtState = "RollbackPending" => LoadedVt = "RollbackPending"
        /\ LoadedVt = "RollbackPending"
             => vtState = "RollbackPending" \/ exState = "Rollback"
    BY DEF TaskInv, StoreAgrees
  <2>2. Stage(vtState) = "execute"
          => LoadedExec.permit = permit /\ LoadedExec.state = exState
    BY DEF TaskInv, ExecAgrees, MemoryExec
  <2>3. LoadedMeta.next = nextSeq
    BY DEF LogInv, FreshInv, LoadedMeta
  <2> QED
    BY <2>1, <2>2, <2>3 DEF RestartIsTransparent
<1>2. Spec => []LogInv
    BY LogInit, LogStep, PTL DEF Spec
<1> QED
    BY TaskAlways, <1>1, <1>2, PTL
=============================================================================
