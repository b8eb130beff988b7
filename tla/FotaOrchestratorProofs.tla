----------------------- MODULE FotaOrchestratorProofs -----------------------
(***************************************************************************)
(* What TLAPS proves of FotaOrchestrator for every number of tasks,        *)
(* packages, events, permits and power losses.                             *)
(***************************************************************************)
EXTENDS FotaOrchestrator, TLAPS

(* While a stage runs, and from the first task check on, the program knows *)
(* its task and the store holds a task with its snapshot.                  *)
TaskKnown ==
    (pc # "boot" /\ (pc # "idle" \/ vtState # "None"))
        => frozenTask \in Tasks /\ storedTask # NoRecord /\ storedTask.task \in Tasks

(* emit() has checked the limit before it saves the event.                 *)
RoomToCommit == pc = "emitting" => storedMeta.next \in Seqs

TypeInv == TypeOK /\ TaskKnown /\ RoomToCommit

(* A saved task is a record that names its state and its task.             *)
LEMMA SavedTask ==
    \A s \in VehicleTaskStates, t \in Tasks :
        Saved(s, t) \in TaskRecord /\ Saved(s, t) # NoRecord /\ Saved(s, t).task = t
<1> TAKE s \in VehicleTaskStates, t \in Tasks
<1>1. Saved(s, t) \in TaskRecord
    BY DEF Saved, TaskRecord
<1>2. NoRecord \notin TaskRecord
    BY RecordAssumption
<1> QED
    BY <1>1, <1>2 DEF Saved

(* The download record of a package, before and after a grant.             *)
LEMMA NewDownloadType == \A rev \in Revisions : NewDownload(rev) \in Download
    BY DEF NewDownload, Download, Etags

LEMMA EntryType ==
    ASSUME StoreOK, frozenTask \in Tasks, NEW p \in Packages
    PROVE  Entry(p) \in Download
    BY NewDownloadType, DataAssumption DEF StoreOK, Entry

LEMMA GrantType ==
    ASSUME NEW e \in Download, NEW g \in Grant(e)
    PROVE  g.etag \in GrantEtags /\ g.rev \in Revisions
    BY DEF Grant, Download

LEMMA GrantedType ==
    ASSUME NEW e \in Download, NEW g, g.etag \in GrantEtags, g.rev \in Revisions
    PROVE  Granted(e, g) \in Download
<1>0. /\ \A t \in Etags, o \in 0..1, rev \in Revisions :
              [e EXCEPT !.off = o, !.etag = t, !.rev = rev] \in Download
      /\ \A t \in Etags : [e EXCEPT !.etag = t] \in Download
  <2>1. \A t \in Etags, o \in 0..1, rev \in Revisions :
            [e EXCEPT !.off = o, !.etag = t, !.rev = rev] \in Download
    BY DEF Download
  <2>2. \A t \in Etags : [e EXCEPT !.etag = t] \in Download
    BY DEF Download
  <2> QED
    BY <2>1, <2>2
<1>1. CASE g.etag \notin {NoEtag, EmptyEtag, e.etag}
  <2>1. g.etag \in Etags
    BY <1>1 DEF Etags
  <2>2. 0 \in 0..1
    OBVIOUS
  <2>3. [e EXCEPT !.off = 0, !.etag = g.etag, !.rev = g.rev] \in Download
    BY <1>0, <2>1, <2>2, Zenon
  <2> QED
    BY <1>1, <2>3, Zenon DEF Granted
<1>2. CASE g.etag \in {NoEtag, EmptyEtag, e.etag}
  <2>1. g.etag # NoEtag => g.etag \in Etags
    BY DEF Etags
  <2> QED
    BY <1>0, <1>2, <2>1 DEF Granted
<1> QED
    BY <1>1, <1>2

LEMMA FetchedType ==
    ASSUME NEW e \in Download, NEW g \in Grant(e), NEW off \in 0..1
    PROVE  /\ Granted(e, g) \in Download /\ Granted(e, g).etag \in Etags
           /\ [Granted(e, g) EXCEPT !.off = off] \in Download
<1>1. Granted(e, g) \in Download
    BY GrantType, GrantedType
<1> QED
    BY <1>1 DEF Download

LEMMA ReadyType ==
    ASSUME NEW e \in Download, NEW ready \in BOOLEAN
    PROVE  [e EXCEPT !.ready = ready] \in Download
    BY DEF Download

LEMMA DownloadRev == \A e \in Download : e.rev \in Revisions
    BY DEF Download

(* The states and records of a factory-new or freshly migrated store.      *)
LEMMA TypeInit == Init => TypeInv
<1> SUFFICES ASSUME Init PROVE TypeInv
    OBVIOUS
<1>1. MemoryOK /\ CallOK
    BY BoundAssumption DEF Init, MemoryOK, CallOK, PcValues, HasEntry, VehicleTaskStates,
        ExecutionStates
<1>2. FlagsOK
    BY DEF Init, FlagsOK
<1>3. StoreOK
  <2>1. CASE FreshStore
    BY <2>1, BoundAssumption DEF FreshStore, StoreOK, FreshMeta
  <2>2. CASE MigratedStore
    <3>1. storedTask \in TaskRecord \cup {NoRecord}
      <4>1. \A x \in VehicleTaskStates : Saved(x, NoTask) \in TaskRecord
        BY DEF Saved, TaskRecord
      <4> QED
        BY <2>2, <4>1, SwitchAssumption DEF MigratedStore
    <3>2. storedExec \in ExecRecord \cup {NoRecord}
        BY <2>2, BoundAssumption, SwitchAssumption DEF MigratedStore, ExecRecord
    <3>3. storedEvents \in [Seqs -> Event \cup {NoRecord}]
      <4>1. OldEvent \subseteq Event
        BY DEF OldEvent, Event, SendStates
      <4> QED
        BY <2>2, <4>1 DEF MigratedStore
    <3> QED
        BY <2>2, <3>1, <3>2, <3>3 DEF MigratedStore, StoreOK
  <2> QED
    BY <2>1, <2>2 DEF Init
<1>4. WorldOK
  <2>1. delivered \subseteq Seqs \X Nat
    BY DEF Init, AcceptedBefore
  <2>2. bytesOf \in [Packages -> Etags]
    BY <1>3 DEF Init, StoreOK, Etags, Download
  <2> QED
    BY <2>1, <2>2, BoundAssumption DEF Init, WorldOK
<1> QED
    BY <1>1, <1>2, <1>3, <1>4 DEF TypeInv, TypeOK, TaskKnown, RoomToCommit, Init

(* One step of the orchestrator or of its environment.                     *)
LEMMA TypeStep == TypeInv /\ [Next]_vars => TypeInv'
<1> SUFFICES ASSUME TypeInv, [Next]_vars PROVE TypeInv'
    OBVIOUS
<1>0. MemoryOK /\ CallOK /\ FlagsOK /\ StoreOK /\ WorldOK /\ TaskKnown /\ RoomToCommit
    BY DEF TypeInv, TypeOK
<1> USE DataAssumption, BoundAssumption, SwitchAssumption
    DEF memory, inHand, locals, downloads, journal, cloudLog, conditions, HasEntry
<1>1. CASE CheckTask
  <2>1. MemoryOK' /\ CallOK'
    BY <1>0, <1>1 DEF CheckTask, At, Stage, MemoryOK, CallOK, PcValues, VehicleTaskStates,
        ExecutionStates
  <2>2. FlagsOK'
    BY <1>0, <1>1 DEF CheckTask, At, Stage, FlagsOK
  <2>3. StoreOK'
    BY <1>0, <1>1, SavedTask, <2>1 DEF CheckTask, At, Stage, StoreOK, TaskRecord,
        ExecRecord, Consent, VehicleTaskStates, ExecutionStates
  <2>4. WorldOK'
    BY <1>0, <1>1 DEF CheckTask, At, Stage, WorldOK
  <2>5. TaskKnown' /\ RoomToCommit'
    BY <1>0, <1>1, SavedTask, <2>1 DEF CheckTask, At, Stage, TaskKnown, RoomToCommit,
        MemoryOK, StoreOK, StateAfterCheck, VehicleTaskStates
  <2> QED
    BY <2>1, <2>2, <2>3, <2>4, <2>5 DEF TypeInv, TypeOK
<1>2. CASE RequireConsent
  <2>1. MemoryOK' /\ CallOK'
    BY <1>0, <1>2 DEF RequireConsent, StateAfterCheck, MemoryOK, CallOK, PcValues,
        VehicleTaskStates, ExecutionStates
  <2>2. FlagsOK'
    BY <1>0, <1>2 DEF RequireConsent, StateAfterCheck, FlagsOK
  <2>3. StoreOK'
    BY <1>0, <1>2, SavedTask, <2>1 DEF RequireConsent, StateAfterCheck, MemoryOK,
        TaskKnown, RoomToCommit, WorldOK, StoreOK, TaskRecord, ExecRecord, Event,
        SendStates, Seqs, Consent, VehicleTaskStates, ExecutionStates
  <2>4. WorldOK'
    BY <1>0, <1>2 DEF RequireConsent, StateAfterCheck, WorldOK
  <2>5. TaskKnown' /\ RoomToCommit'
    BY <1>0, <1>2, SavedTask, <2>1 DEF RequireConsent, StateAfterCheck, TaskKnown,
        RoomToCommit, MemoryOK, StoreOK, StateAfterCheck, VehicleTaskStates
  <2> QED
    BY <2>1, <2>2, <2>3, <2>4, <2>5 DEF TypeInv, TypeOK
<1>3. CASE ReportConsent
  <2>1. MemoryOK' /\ CallOK'
    BY <1>0, <1>3 DEF ReportConsent, At, Stage, MemoryOK, CallOK, PcValues
  <2>2. FlagsOK'
    BY <1>0, <1>3 DEF ReportConsent, At, Stage, FlagsOK
  <2>3. StoreOK'
    BY <1>0, <1>3 DEF ReportConsent, At, Stage, MemoryOK, RoomToCommit, StoreOK,
        TaskRecord, ExecRecord, Seqs, Consent, VehicleTaskStates, ExecutionStates
  <2>4. WorldOK'
    BY <1>0, <1>3 DEF ReportConsent, At, Stage, WorldOK
  <2>5. TaskKnown' /\ RoomToCommit'
    BY <1>0, <1>3 DEF ReportConsent, At, Stage, TaskKnown, RoomToCommit
  <2> QED
    BY <2>1, <2>2, <2>3, <2>4, <2>5 DEF TypeInv, TypeOK
<1>4. CASE RecordConsent
  <2>1. MemoryOK' /\ CallOK'
    BY <1>0, <1>4 DEF RecordConsent, MemoryOK, CallOK, PcValues, VehicleTaskStates,
        ExecutionStates
  <2>2. FlagsOK'
    BY <1>0, <1>4 DEF RecordConsent, FlagsOK
  <2>3. StoreOK'
    BY <1>0, <1>4, SavedTask, <2>1 DEF RecordConsent, MemoryOK, TaskKnown, RoomToCommit,
        WorldOK, StoreOK, TaskRecord, ExecRecord, Event, SendStates, Seqs, Consent,
        VehicleTaskStates, ExecutionStates
  <2>4. WorldOK'
    BY <1>0, <1>4 DEF RecordConsent, WorldOK
  <2>5. TaskKnown' /\ RoomToCommit'
    BY <1>0, <1>4, SavedTask, <2>1 DEF RecordConsent, TaskKnown, RoomToCommit, MemoryOK,
        StoreOK, StateAfterCheck, VehicleTaskStates
  <2> QED
    BY <2>1, <2>2, <2>3, <2>4, <2>5 DEF TypeInv, TypeOK
<1>5. CASE BeginDownload
  <2>1. MemoryOK' /\ CallOK'
    BY <1>0, <1>5 DEF BeginDownload, At, Stage, MemoryOK, CallOK, PcValues
  <2>2. FlagsOK'
    BY <1>0, <1>5 DEF BeginDownload, At, Stage, FlagsOK
  <2>3. StoreOK'
    BY <1>0, <1>5 DEF BeginDownload, At, Stage, StoreOK
  <2>4. WorldOK'
    BY <1>0, <1>5 DEF BeginDownload, At, Stage, WorldOK
  <2>5. TaskKnown' /\ RoomToCommit'
    BY <1>0, <1>5 DEF BeginDownload, At, Stage, TaskKnown, RoomToCommit
  <2> QED
    BY <2>1, <2>2, <2>3, <2>4, <2>5 DEF TypeInv, TypeOK
<1>6. ASSUME NEW p \in Packages, SkipReady(p) PROVE TypeInv'
  <2>1. MemoryOK' /\ CallOK'
    BY <1>0, <1>6 DEF SkipReady, downloadFrame, MemoryOK, CallOK
  <2>2. FlagsOK'
    BY <1>0, <1>6 DEF SkipReady, downloadFrame, FlagsOK
  <2>3. StoreOK'
    BY <1>0, <1>6 DEF SkipReady, downloadFrame, StoreOK
  <2>4. WorldOK'
    BY <1>0, <1>6 DEF SkipReady, downloadFrame, WorldOK
  <2>5. TaskKnown' /\ RoomToCommit'
    BY <1>0, <1>6 DEF SkipReady, downloadFrame, TaskKnown, RoomToCommit
  <2> QED
    BY <2>1, <2>2, <2>3, <2>4, <2>5 DEF TypeInv, TypeOK
<1>7. ASSUME NEW p \in Packages, GrantFails(p) PROVE TypeInv'
  <2>0. frozenTask \in Tasks /\ Entry(p) \in Download
    BY <1>0, <1>7, EntryType DEF GrantFails, TaskKnown
  <2>1. MemoryOK' /\ CallOK'
    BY <1>0, <1>7, <2>0 DEF GrantFails, downloadFrame, MemoryOK, CallOK, PcValues,
        VehicleTaskStates
  <2>2. FlagsOK'
    BY <1>0, <1>7 DEF GrantFails, downloadFrame, FlagsOK, StageReady
  <2>3. StoreOK'
    BY <1>0, <1>7, <2>0 DEF GrantFails, downloadFrame, StoreOK
  <2>4. WorldOK'
    BY <1>0, <1>7, <2>0 DEF GrantFails, downloadFrame, WorldOK
  <2>5. TaskKnown' /\ RoomToCommit'
    BY <1>0, <1>7 DEF GrantFails, downloadFrame, TaskKnown, RoomToCommit
  <2> QED
    BY <2>1, <2>2, <2>3, <2>4, <2>5 DEF TypeInv, TypeOK
<1>8. ASSUME NEW p \in Packages, Fetch(p) PROVE TypeInv'
  <2>0. frozenTask \in Tasks /\ Entry(p) \in Download
    BY <1>0, <1>8, EntryType DEF Fetch, TaskKnown
  <2>1. MemoryOK' /\ CallOK'
    <3>1. entry' \in Download
      <4>1. PICK g \in Grant(Entry(p)), off \in 0..1 :
                entry' = [Granted(Entry(p), g) EXCEPT !.off = off]
        BY <1>8 DEF Fetch
      <4> QED
        BY <2>0, <4>1, FetchedType
    <3>2. pkg' \in Packages /\ pc' = "fetched"
        BY <1>8 DEF Fetch
    <3> QED
        BY <1>0, <1>8, <3>1, <3>2 DEF Fetch, downloadFrame, MemoryOK, CallOK, PcValues
  <2>2. FlagsOK'
    BY <1>0, <1>8 DEF Fetch, downloadFrame, FlagsOK, StageReady
  <2>3. StoreOK'
    BY <1>0, <1>8, <2>0 DEF Fetch, downloadFrame, StoreOK
  <2>4. WorldOK'
    BY <1>0, <1>8, <2>0, FetchedType DEF Fetch, downloadFrame, WorldOK
  <2>5. TaskKnown' /\ RoomToCommit'
    BY <1>0, <1>8 DEF Fetch, downloadFrame, TaskKnown, RoomToCommit
  <2> QED
    BY <2>1, <2>2, <2>3, <2>4, <2>5 DEF TypeInv, TypeOK
<1>9. CASE StageReportLost
  <2>0. pkg \in Packages /\ entry \in Download
    BY <1>0, <1>9 DEF StageReportLost, CallOK
  <2>1. MemoryOK' /\ CallOK'
    BY <1>0, <1>9, <2>0 DEF StageReportLost, downloadFrame, MemoryOK, CallOK, PcValues,
        VehicleTaskStates
  <2>2. FlagsOK'
    BY <1>0, <1>9 DEF StageReportLost, downloadFrame, FlagsOK, StageReady
  <2>3. StoreOK'
    BY <1>0, <1>9, <2>0 DEF StageReportLost, downloadFrame, StoreOK
  <2>4. WorldOK'
    BY <1>0, <1>9, <2>0, DownloadRev DEF StageReportLost, downloadFrame, WorldOK
  <2>5. TaskKnown' /\ RoomToCommit'
    BY <1>0, <1>9 DEF StageReportLost, downloadFrame, TaskKnown, RoomToCommit
  <2> QED
    BY <2>1, <2>2, <2>3, <2>4, <2>5 DEF TypeInv, TypeOK
<1>10. CASE StageReported
  <2>0. pkg \in Packages /\ entry \in Download
    BY <1>0, <1>10 DEF StageReported, CallOK
  <2>1. MemoryOK' /\ CallOK'
    BY <1>0, <1>10, <2>0, ReadyType DEF StageReported, StageReady, downloadFrame,
        MemoryOK, CallOK, PcValues
  <2>2. FlagsOK'
    BY <1>0, <1>10 DEF StageReported, downloadFrame, FlagsOK, StageReady
  <2>3. StoreOK'
    BY <1>0, <1>10, <2>0 DEF StageReported, downloadFrame, StoreOK
  <2>4. WorldOK'
    BY <1>0, <1>10, <2>0, DownloadRev DEF StageReported, downloadFrame, WorldOK
  <2>5. TaskKnown' /\ RoomToCommit'
    BY <1>0, <1>10 DEF StageReported, downloadFrame, TaskKnown, RoomToCommit
  <2> QED
    BY <2>1, <2>2, <2>3, <2>4, <2>5 DEF TypeInv, TypeOK
<1>10a. CASE NoStageResult
  <2>1. MemoryOK' /\ CallOK'
    BY <1>0, <1>10a DEF NoStageResult, downloadFrame, MemoryOK, CallOK, PcValues,
        VehicleTaskStates
  <2>2. FlagsOK'
    BY <1>0, <1>10a DEF NoStageResult, downloadFrame, FlagsOK, StageReady
  <2>3. StoreOK'
    BY <1>0, <1>10a DEF NoStageResult, downloadFrame, StoreOK
  <2>4. WorldOK'
    BY <1>0, <1>10a DEF NoStageResult, downloadFrame, WorldOK
  <2>5. TaskKnown' /\ RoomToCommit'
    BY <1>0, <1>10a DEF NoStageResult, downloadFrame, TaskKnown, RoomToCommit
  <2> QED
    BY <2>1, <2>2, <2>3, <2>4, <2>5 DEF TypeInv, TypeOK
<1>10b. CASE SaveDownload
  <2>0. pkg \in Packages /\ entry \in Download
    BY <1>0, <1>10b DEF SaveDownload, CallOK
  <2>1. MemoryOK' /\ CallOK'
    BY <1>0, <1>10b, <2>0 DEF SaveDownload, downloadFrame, MemoryOK, CallOK, PcValues,
        VehicleTaskStates
  <2>2. FlagsOK'
    BY <1>0, <1>10b DEF SaveDownload, downloadFrame, FlagsOK, StageReady
  <2>3. StoreOK'
    BY <1>0, <1>10b, <2>0 DEF SaveDownload, downloadFrame, StoreOK
  <2>4. WorldOK'
    BY <1>0, <1>10b, <2>0 DEF SaveDownload, downloadFrame, WorldOK
  <2>5. TaskKnown' /\ RoomToCommit'
    BY <1>0, <1>10b DEF SaveDownload, downloadFrame, TaskKnown, RoomToCommit
  <2> QED
    BY <2>1, <2>2, <2>3, <2>4, <2>5 DEF TypeInv, TypeOK
<1>10c. CASE AbandonDownload
  <2>0. pkg \in Packages /\ entry \in Download
    BY <1>0, <1>10c DEF AbandonDownload, CallOK
  <2>1. MemoryOK' /\ CallOK'
    BY <1>0, <1>10c, <2>0 DEF AbandonDownload, downloadFrame, MemoryOK, CallOK, PcValues,
        VehicleTaskStates
  <2>2. FlagsOK'
    BY <1>0, <1>10c DEF AbandonDownload, downloadFrame, FlagsOK, StageReady
  <2>3. StoreOK'
    BY <1>0, <1>10c, <2>0 DEF AbandonDownload, downloadFrame, StoreOK
  <2>4. WorldOK'
    BY <1>0, <1>10c, <2>0 DEF AbandonDownload, downloadFrame, WorldOK
  <2>5. TaskKnown' /\ RoomToCommit'
    BY <1>0, <1>10c DEF AbandonDownload, downloadFrame, TaskKnown, RoomToCommit
  <2> QED
    BY <2>1, <2>2, <2>3, <2>4, <2>5 DEF TypeInv, TypeOK
<1>11. CASE EndDownload
  <2>1. MemoryOK' /\ CallOK'
    BY <1>0, <1>11 DEF EndDownload, MemoryOK, CallOK, PcValues, VehicleTaskStates,
        ExecutionStates
  <2>2. FlagsOK'
    BY <1>0, <1>11 DEF EndDownload, FlagsOK
  <2>3. StoreOK'
    BY <1>0, <1>11, SavedTask, <2>1 DEF EndDownload, MemoryOK, TaskKnown, RoomToCommit,
        WorldOK, StoreOK, TaskRecord, ExecRecord, Event, SendStates, Seqs, Consent,
        VehicleTaskStates, ExecutionStates
  <2>4. WorldOK'
    BY <1>0, <1>11 DEF EndDownload, WorldOK
  <2>5. TaskKnown' /\ RoomToCommit'
    BY <1>0, <1>11, SavedTask, <2>1 DEF EndDownload, TaskKnown, RoomToCommit, MemoryOK,
        StoreOK, StateAfterCheck, VehicleTaskStates
  <2> QED
    BY <2>1, <2>2, <2>3, <2>4, <2>5 DEF TypeInv, TypeOK
<1>12. CASE OpenWindow
  <2>1. MemoryOK' /\ CallOK'
    BY <1>0, <1>12 DEF OpenWindow, At, Stage, MemoryOK, CallOK, PcValues,
        VehicleTaskStates, ExecutionStates
  <2>2. FlagsOK'
    BY <1>0, <1>12 DEF OpenWindow, At, Stage, FlagsOK
  <2>3. StoreOK'
    BY <1>0, <1>12, SavedTask, <2>1 DEF OpenWindow, At, Stage, MemoryOK, TaskKnown,
        RoomToCommit, WorldOK, StoreOK, TaskRecord, ExecRecord, Event, SendStates, Seqs,
        Consent, VehicleTaskStates, ExecutionStates
  <2>4. WorldOK'
    BY <1>0, <1>12 DEF OpenWindow, At, Stage, WorldOK
  <2>5. TaskKnown' /\ RoomToCommit'
    BY <1>0, <1>12, SavedTask, <2>1 DEF OpenWindow, At, Stage, TaskKnown, RoomToCommit,
        MemoryOK, StoreOK, StateAfterCheck, VehicleTaskStates
  <2> QED
    BY <2>1, <2>2, <2>3, <2>4, <2>5 DEF TypeInv, TypeOK
<1>13. CASE RequestPermit
  <2>1. MemoryOK' /\ CallOK'
    BY <1>0, <1>13 DEF RequestPermit, At, Stage, AfterPermit, MemoryOK, CallOK, StoreOK,
        WorldOK, RoomToCommit, PcValues, VehicleTaskStates, ExecutionStates, TaskRecord,
        ExecRecord, Seqs
  <2>2. FlagsOK'
    BY <1>0, <1>13 DEF RequestPermit, At, Stage, AfterPermit, FlagsOK
  <2>3. StoreOK'
    BY <1>0, <1>13, SavedTask, <2>1 DEF RequestPermit, At, Stage, AfterPermit, MemoryOK,
        TaskKnown, RoomToCommit, WorldOK, StoreOK, TaskRecord, ExecRecord, Event,
        SendStates, Seqs, Consent, VehicleTaskStates, ExecutionStates
  <2>4. WorldOK'
    BY <1>0, <1>13 DEF RequestPermit, At, Stage, AfterPermit, WorldOK
  <2>5. TaskKnown' /\ RoomToCommit'
    BY <1>0, <1>13, SavedTask, <2>1 DEF RequestPermit, At, Stage, AfterPermit, TaskKnown,
        RoomToCommit, MemoryOK, StoreOK, StateAfterCheck, VehicleTaskStates
  <2> QED
    BY <2>1, <2>2, <2>3, <2>4, <2>5 DEF TypeInv, TypeOK
<1>14. CASE RetryNotGranted
  <2>1. MemoryOK' /\ CallOK'
    BY <1>0, <1>14 DEF RetryNotGranted, MemoryOK, CallOK, PcValues, VehicleTaskStates,
        ExecutionStates
  <2>2. FlagsOK'
    BY <1>0, <1>14 DEF RetryNotGranted, FlagsOK
  <2>3. StoreOK'
    BY <1>0, <1>14 DEF RetryNotGranted, StoreOK
  <2>4. WorldOK'
    BY <1>0, <1>14 DEF RetryNotGranted, WorldOK
  <2>5. TaskKnown' /\ RoomToCommit'
    BY <1>0, <1>14 DEF RetryNotGranted, TaskKnown, RoomToCommit
  <2> QED
    BY <2>1, <2>2, <2>3, <2>4, <2>5 DEF TypeInv, TypeOK
<1>15. CASE SaveExecution
  <2>1. MemoryOK' /\ CallOK'
    BY <1>0, <1>15 DEF SaveExecution, SavedExec, MemoryOK, CallOK, PcValues
  <2>2. FlagsOK'
    BY <1>0, <1>15 DEF SaveExecution, SavedExec, FlagsOK
  <2>3. StoreOK'
    BY <1>0, <1>15 DEF SaveExecution, SavedExec, MemoryOK, RoomToCommit, StoreOK,
        TaskRecord, ExecRecord, Seqs, Consent, VehicleTaskStates, ExecutionStates
  <2>4. WorldOK'
    BY <1>0, <1>15 DEF SaveExecution, SavedExec, WorldOK
  <2>5. TaskKnown' /\ RoomToCommit'
    BY <1>0, <1>15 DEF SaveExecution, SavedExec, TaskKnown, RoomToCommit
  <2> QED
    BY <2>1, <2>2, <2>3, <2>4, <2>5 DEF TypeInv, TypeOK
<1>16. CASE SaveMeta
  <2>1. MemoryOK' /\ CallOK'
    BY <1>0, <1>16 DEF SaveMeta, MemoryOK, CallOK, PcValues
  <2>2. FlagsOK'
    BY <1>0, <1>16 DEF SaveMeta, FlagsOK
  <2>3. StoreOK'
    BY <1>0, <1>16 DEF SaveMeta, MemoryOK, RoomToCommit, StoreOK, TaskRecord, ExecRecord,
        Seqs, Consent, VehicleTaskStates, ExecutionStates
  <2>4. WorldOK'
    BY <1>0, <1>16 DEF SaveMeta, WorldOK
  <2>5. TaskKnown' /\ RoomToCommit'
    BY <1>0, <1>16 DEF SaveMeta, TaskKnown, RoomToCommit, CallOK
  <2> QED
    BY <2>1, <2>2, <2>3, <2>4, <2>5 DEF TypeInv, TypeOK
<1>17. CASE StartInstall
  <2>1. MemoryOK' /\ CallOK'
    BY <1>0, <1>17 DEF StartInstall, MemoryOK, CallOK, PcValues
  <2>2. FlagsOK'
    BY <1>0, <1>17 DEF StartInstall, FlagsOK
  <2>3. StoreOK'
    BY <1>0, <1>17 DEF StartInstall, StoreOK
  <2>4. WorldOK'
    <3>0. /\ installs \in [0..MaxPermits -> Nat] /\ permit \in 0..MaxPermits
          /\ installs' = [installs EXCEPT ![permit] = @ + 1]
        BY <1>0, <1>17 DEF StartInstall, WorldOK, MemoryOK
    <3>1. installs' \in [0..MaxPermits -> Nat]
        BY <3>0
    <3> QED
        BY <1>0, <1>17, <3>1 DEF StartInstall, WorldOK
  <2>5. TaskKnown' /\ RoomToCommit'
    BY <1>0, <1>17 DEF StartInstall, TaskKnown, RoomToCommit
  <2> QED
    BY <2>1, <2>2, <2>3, <2>4, <2>5 DEF TypeInv, TypeOK
<1>18. CASE EmitEvent
  <2>1. MemoryOK' /\ CallOK'
    BY <1>0, <1>18 DEF EmitEvent, MemoryOK, CallOK, PcValues
  <2>2. FlagsOK'
    BY <1>0, <1>18 DEF EmitEvent, FlagsOK
  <2>3. StoreOK'
    BY <1>0, <1>18 DEF EmitEvent, MemoryOK, TaskKnown, RoomToCommit, WorldOK, StoreOK,
        TaskRecord, ExecRecord, Event, SendStates, Seqs, Consent, VehicleTaskStates,
        ExecutionStates
  <2>4. WorldOK'
    BY <1>0, <1>18 DEF EmitEvent, WorldOK
  <2>5. TaskKnown' /\ RoomToCommit'
    BY <1>0, <1>18 DEF EmitEvent, TaskKnown, RoomToCommit, MemoryOK, StoreOK, Seqs,
        TaskRecord
  <2> QED
    BY <2>1, <2>2, <2>3, <2>4, <2>5 DEF TypeInv, TypeOK
<1>19. CASE CommitEvent
  <2>1. MemoryOK' /\ CallOK'
    BY <1>0, <1>19 DEF CommitEvent, MemoryOK, CallOK, StoreOK, WorldOK, RoomToCommit,
        PcValues, VehicleTaskStates, ExecutionStates, TaskRecord, ExecRecord, Seqs
  <2>2. FlagsOK'
    BY <1>0, <1>19 DEF CommitEvent, FlagsOK
  <2>3. StoreOK'
    <3>1. storedMeta' \in [next : 1..(OutboxMax + 1), accepted : 0..OutboxMax]
        BY <1>0, <1>19 DEF CommitEvent, StoreOK, RoomToCommit, Seqs
    <3> QED
        BY <1>0, <1>19, <3>1 DEF CommitEvent, StoreOK
  <2>4. WorldOK'
    BY <1>0, <1>19 DEF CommitEvent, WorldOK
  <2>5. TaskKnown' /\ RoomToCommit'
    BY <1>0, <1>19 DEF CommitEvent, TaskKnown, RoomToCommit
  <2> QED
    BY <2>1, <2>2, <2>3, <2>4, <2>5 DEF TypeInv, TypeOK
<1>20. CASE StartReturns
  <2>1. MemoryOK' /\ CallOK'
    BY <1>0, <1>20 DEF StartReturns, MemoryOK, CallOK, PcValues, VehicleTaskStates,
        ExecutionStates
  <2>2. FlagsOK'
    BY <1>0, <1>20 DEF StartReturns, FlagsOK
  <2>3. StoreOK'
    BY <1>0, <1>20 DEF StartReturns, StoreOK
  <2>4. WorldOK'
    BY <1>0, <1>20 DEF StartReturns, WorldOK
  <2>5. TaskKnown' /\ RoomToCommit'
    BY <1>0, <1>20 DEF StartReturns, TaskKnown, RoomToCommit
  <2> QED
    BY <2>1, <2>2, <2>3, <2>4, <2>5 DEF TypeInv, TypeOK
<1>21. CASE ResumeExecution
  <2>1. MemoryOK' /\ CallOK'
    BY <1>0, <1>21 DEF ResumeExecution, At, Stage, MemoryOK, CallOK, PcValues,
        VehicleTaskStates, ExecutionStates
  <2>2. FlagsOK'
    BY <1>0, <1>21 DEF ResumeExecution, At, Stage, FlagsOK
  <2>3. StoreOK'
    BY <1>0, <1>21 DEF ResumeExecution, At, Stage, StoreOK
  <2>4. WorldOK'
    BY <1>0, <1>21 DEF ResumeExecution, At, Stage, WorldOK
  <2>5. TaskKnown' /\ RoomToCommit'
    BY <1>0, <1>21 DEF ResumeExecution, At, Stage, TaskKnown, RoomToCommit
  <2> QED
    BY <2>1, <2>2, <2>3, <2>4, <2>5 DEF TypeInv, TypeOK
<1>22. CASE SkipEvent
  <2>1. MemoryOK' /\ CallOK'
    BY <1>0, <1>22 DEF SkipEvent, sendFrame, MemoryOK, CallOK, StoreOK, PcValues,
        VehicleTaskStates, ExecutionStates, TaskRecord, ExecRecord
  <2>2. FlagsOK'
    BY <1>0, <1>22 DEF SkipEvent, sendFrame, FlagsOK
  <2>3. StoreOK'
    BY <1>0, <1>22 DEF SkipEvent, sendFrame, StoreOK
  <2>4. WorldOK'
    BY <1>0, <1>22 DEF SkipEvent, sendFrame, WorldOK
  <2>5. TaskKnown' /\ RoomToCommit'
    BY <1>0, <1>22 DEF SkipEvent, sendFrame, TaskKnown, RoomToCommit
  <2> QED
    BY <2>1, <2>2, <2>3, <2>4, <2>5 DEF TypeInv, TypeOK
<1>23. CASE MarkSent
  <2>1. MemoryOK' /\ CallOK'
    BY <1>0, <1>23 DEF MarkSent, Sendable, NothingToSend, HasPayload, sendFrame, MemoryOK,
        CallOK, StoreOK, PcValues, VehicleTaskStates, ExecutionStates, TaskRecord,
        ExecRecord
  <2>2. FlagsOK'
    BY <1>0, <1>23 DEF MarkSent, Sendable, NothingToSend, HasPayload, sendFrame, FlagsOK
  <2>3. StoreOK'
    <3>1. storedEvents' \in [Seqs -> Event \cup {NoRecord}]
      <4>1. sendSeq \in Seqs
        BY <1>0, <1>23 DEF MarkSent, Sendable, StoreOK, CallOK, Seqs
      <4>2. storedEvents[sendSeq] \in Event
        BY <1>0, <1>23, <4>1 DEF MarkSent, Sendable, NothingToSend, StoreOK
      <4>3. [storedEvents[sendSeq] EXCEPT !.status = "SENT"] \in Event
        BY <4>2 DEF Event, SendStates
      <4> QED
        BY <1>0, <1>23, <4>1, <4>3 DEF MarkSent, StoreOK
    <3> QED
        BY <1>0, <1>23, <3>1 DEF MarkSent, sendFrame, StoreOK
  <2>4. WorldOK'
    BY <1>0, <1>23 DEF MarkSent, Sendable, NothingToSend, HasPayload, sendFrame, WorldOK
  <2>5. TaskKnown' /\ RoomToCommit'
    BY <1>0, <1>23 DEF MarkSent, Sendable, NothingToSend, HasPayload, sendFrame,
        TaskKnown, RoomToCommit
  <2> QED
    BY <2>1, <2>2, <2>3, <2>4, <2>5 DEF TypeInv, TypeOK
<1>24. CASE EventAccepted
  <2>0. sendSeq \in Seqs /\ storedEvents[sendSeq] \in Event /\ Report(sendSeq) \in Seqs \X Nat
    <3>1. sendSeq \in Seqs
        BY <1>0, <1>24 DEF EventAccepted, Sendable, StoreOK, CallOK, Seqs
    <3>2. storedEvents[sendSeq] \in Event
        BY <1>0, <1>24, <3>1 DEF EventAccepted, Sendable, NothingToSend, StoreOK
    <3> QED
        BY <3>1, <3>2 DEF Report, Event, SendStates
  <2>1. MemoryOK' /\ CallOK'
    BY <1>0, <1>24, <2>0 DEF EventAccepted, MaxSeq, sendFrame, MemoryOK, CallOK, Seqs
  <2>2. FlagsOK'
    BY <1>0, <1>24 DEF EventAccepted, Sendable, NothingToSend, HasPayload, Report, MaxSeq,
        sendFrame, FlagsOK
  <2>3. StoreOK'
    <3>1. storedEvents' \in [Seqs -> Event \cup {NoRecord}]
      <4>1. [storedEvents[sendSeq] EXCEPT !.status = "ACKED"] \in Event
        BY <2>0 DEF Event, SendStates
      <4> QED
        BY <1>0, <1>24, <2>0, <4>1 DEF EventAccepted, StoreOK
    <3> QED
        BY <1>0, <1>24, <3>1 DEF EventAccepted, sendFrame, StoreOK
  <2>4. WorldOK'
    BY <1>0, <1>24, <2>0 DEF EventAccepted, sendFrame, WorldOK
  <2>5. TaskKnown' /\ RoomToCommit'
    BY <1>0, <1>24 DEF EventAccepted, Sendable, NothingToSend, HasPayload, Report, MaxSeq,
        sendFrame, TaskKnown, RoomToCommit
  <2> QED
    BY <2>1, <2>2, <2>3, <2>4, <2>5 DEF TypeInv, TypeOK
<1>25. CASE EventNotAccepted
  <2>0. sendSeq \in Seqs /\ Report(sendSeq) \in Seqs \X Nat
    <3>1. sendSeq \in Seqs
        BY <1>0, <1>25 DEF EventNotAccepted, Sendable, StoreOK, CallOK, Seqs
    <3>2. storedEvents[sendSeq] \in Event
        BY <1>0, <1>25, <3>1 DEF EventNotAccepted, Sendable, NothingToSend, StoreOK
    <3> QED
        BY <3>1, <3>2 DEF Report, Event, SendStates
  <2>1. MemoryOK' /\ CallOK'
    BY <1>0, <1>25, <2>0 DEF EventNotAccepted, sendFrame, MemoryOK, CallOK, Seqs
  <2>2. FlagsOK'
    BY <1>0, <1>25 DEF EventNotAccepted, Sendable, NothingToSend, HasPayload, Report,
        sendFrame, FlagsOK
  <2>3. StoreOK'
    BY <1>0, <1>25 DEF EventNotAccepted, Sendable, NothingToSend, HasPayload, Report,
        sendFrame, StoreOK
  <2>4. WorldOK'
    <3>1. delivered' \subseteq Seqs \X Nat
        BY <1>0, <1>25, <2>0 DEF EventNotAccepted, WorldOK
    <3> QED
        BY <1>0, <1>25, <3>1 DEF EventNotAccepted, sendFrame, WorldOK
  <2>5. TaskKnown' /\ RoomToCommit'
    BY <1>0, <1>25 DEF EventNotAccepted, Sendable, NothingToSend, HasPayload, Report,
        sendFrame, TaskKnown, RoomToCommit
  <2> QED
    BY <2>1, <2>2, <2>3, <2>4, <2>5 DEF TypeInv, TypeOK
<1>26. CASE EndSend
  <2>0. AfterSend(sendError) \in {"idle", "send", "finalize"}
    BY DEF AfterSend
  <2>1. MemoryOK' /\ CallOK'
    BY <1>0, <1>26, <2>0 DEF EndSend, MaxSeq, MemoryOK, CallOK, PcValues
  <2>2. FlagsOK'
    BY <1>0, <1>26 DEF EndSend, MaxSeq, FlagsOK
  <2>3. StoreOK'
    BY <1>0, <1>26, <2>0 DEF EndSend, MaxSeq, MemoryOK, RoomToCommit, StoreOK, TaskRecord,
        ExecRecord, Seqs, Consent, VehicleTaskStates, ExecutionStates
  <2>4. WorldOK'
    BY <1>0, <1>26, <2>0 DEF EndSend, MaxSeq, WorldOK
  <2>5. TaskKnown' /\ RoomToCommit'
    BY <1>0, <1>26 DEF EndSend, MaxSeq, TaskKnown, RoomToCommit
  <2> QED
    BY <2>1, <2>2, <2>3, <2>4, <2>5 DEF TypeInv, TypeOK
<1>27. CASE FinalAccepted
  <2>1. MemoryOK' /\ CallOK'
    BY <1>0, <1>27 DEF FinalAccepted, FinalReport, Result, Closed, StateFromCloud,
        MemoryOK, CallOK, PcValues, VehicleTaskStates, ExecutionStates
  <2>2. FlagsOK'
    BY <1>0, <1>27 DEF FinalAccepted, FinalReport, Result, Closed, StateFromCloud, FlagsOK
  <2>3. StoreOK'
    BY <1>0, <1>27, SavedTask, <2>1 DEF FinalAccepted, FinalReport, Result, Closed,
        StateFromCloud, MemoryOK, TaskKnown, RoomToCommit, WorldOK, StoreOK, TaskRecord,
        ExecRecord, Event, SendStates, Seqs, Consent, VehicleTaskStates, ExecutionStates
  <2>4. WorldOK'
    <3>1. FinalReport \in [execution : 0..MaxPermits, result : {"SUCCEEDED", "ROLLED_BACK"},
                            last : 0..OutboxMax]
        BY <1>0 DEF FinalReport, Result, MemoryOK
    <3>2. finals' \subseteq [execution : 0..MaxPermits, result : {"SUCCEEDED", "ROLLED_BACK"},
                              last : 0..OutboxMax]
        BY <1>0, <1>27, <3>1 DEF FinalAccepted, WorldOK
    <3> QED
        BY <1>0, <1>27, <3>2 DEF FinalAccepted, WorldOK
  <2>5. TaskKnown' /\ RoomToCommit'
    BY <1>0, <1>27, SavedTask, <2>1 DEF FinalAccepted, FinalReport, Result, Closed,
        StateFromCloud, TaskKnown, RoomToCommit, MemoryOK, StoreOK, StateAfterCheck,
        VehicleTaskStates
  <2> QED
    BY <2>1, <2>2, <2>3, <2>4, <2>5 DEF TypeInv, TypeOK
<1>28. CASE FinalNotAccepted
  <2>1. MemoryOK' /\ CallOK'
    BY <1>0, <1>28 DEF FinalNotAccepted, FinalReport, Result, MemoryOK, CallOK, PcValues
  <2>2. FlagsOK'
    BY <1>0, <1>28 DEF FinalNotAccepted, FinalReport, Result, FlagsOK
  <2>3. StoreOK'
    BY <1>0, <1>28 DEF FinalNotAccepted, FinalReport, Result, StoreOK
  <2>4. WorldOK'
    BY <1>0, <1>28 DEF FinalNotAccepted, FinalReport, Result, WorldOK, MemoryOK
  <2>5. TaskKnown' /\ RoomToCommit'
    BY <1>0, <1>28 DEF FinalNotAccepted, FinalReport, Result, TaskKnown, RoomToCommit
  <2> QED
    BY <2>1, <2>2, <2>3, <2>4, <2>5 DEF TypeInv, TypeOK
<1>29. CASE StepFails
  <2>1. MemoryOK' /\ CallOK'
    BY <1>0, <1>29 DEF StepFails, vars, MemoryOK, CallOK
  <2>2. FlagsOK'
    BY <1>0, <1>29 DEF StepFails, vars, FlagsOK
  <2>3. StoreOK'
    BY <1>0, <1>29 DEF StepFails, vars, StoreOK
  <2>4. WorldOK'
    BY <1>0, <1>29 DEF StepFails, vars, WorldOK
  <2>5. TaskKnown' /\ RoomToCommit'
    BY <1>0, <1>29 DEF StepFails, vars, TaskKnown, RoomToCommit
  <2> QED
    BY <2>1, <2>2, <2>3, <2>4, <2>5 DEF TypeInv, TypeOK
<1>30. CASE Crash
  <2>1. MemoryOK' /\ CallOK'
    BY <1>0, <1>30 DEF Crash, ClearLocals, MemoryOK, CallOK, PcValues, VehicleTaskStates,
        ExecutionStates
  <2>2. FlagsOK'
    BY <1>0, <1>30 DEF Crash, ClearLocals, FlagsOK
  <2>3. StoreOK'
    BY <1>0, <1>30 DEF Crash, ClearLocals, StoreOK
  <2>4. WorldOK'
    BY <1>0, <1>30 DEF Crash, ClearLocals, WorldOK
  <2>5. TaskKnown' /\ RoomToCommit'
    BY <1>0, <1>30 DEF Crash, ClearLocals, TaskKnown, RoomToCommit
  <2> QED
    BY <2>1, <2>2, <2>3, <2>4, <2>5 DEF TypeInv, TypeOK
<1>31. CASE Reconcile
  <2>1. MemoryOK' /\ CallOK'
    BY <1>0, <1>31 DEF Reconcile, LoadedVt, LoadedTask, LoadedExec, LoadedMeta,
        Snapshotless, FreshMeta, MemoryOK, CallOK, StoreOK, PcValues, VehicleTaskStates,
        ExecutionStates, TaskRecord, ExecRecord
  <2>2. FlagsOK'
    BY <1>0, <1>31 DEF Reconcile, LoadedVt, LoadedTask, LoadedExec, LoadedMeta,
        Snapshotless, FreshMeta, FlagsOK
  <2>3. StoreOK'
    BY <1>0, <1>31 DEF Reconcile, LoadedVt, LoadedTask, LoadedExec, LoadedMeta,
        Snapshotless, FreshMeta, StoreOK
  <2>4. WorldOK'
    BY <1>0, <1>31 DEF Reconcile, LoadedVt, LoadedTask, LoadedExec, LoadedMeta,
        Snapshotless, FreshMeta, WorldOK
  <2>5. TaskKnown' /\ RoomToCommit'
    BY <1>0, <1>31 DEF Reconcile, LoadedVt, LoadedTask, LoadedExec, LoadedMeta,
        Snapshotless, FreshMeta, TaskKnown, RoomToCommit, MemoryOK, StoreOK, Seqs,
        TaskRecord
  <2> QED
    BY <2>1, <2>2, <2>3, <2>4, <2>5 DEF TypeInv, TypeOK
<1>32. CASE PermitExpires
  <2>1. MemoryOK' /\ CallOK'
    BY <1>0, <1>32 DEF PermitExpires, MemoryOK, CallOK
  <2>2. FlagsOK'
    BY <1>0, <1>32 DEF PermitExpires, FlagsOK
  <2>3. StoreOK'
    BY <1>0, <1>32 DEF PermitExpires, StoreOK
  <2>4. WorldOK'
    BY <1>0, <1>32 DEF PermitExpires, WorldOK
  <2>5. TaskKnown' /\ RoomToCommit'
    BY <1>0, <1>32 DEF PermitExpires, TaskKnown, RoomToCommit
  <2> QED
    BY <2>1, <2>2, <2>3, <2>4, <2>5 DEF TypeInv, TypeOK
<1>33. CASE GuardsChange
  <2>1. MemoryOK' /\ CallOK'
    BY <1>0, <1>33 DEF GuardsChange, MemoryOK, CallOK
  <2>2. FlagsOK'
    BY <1>0, <1>33 DEF GuardsChange, FlagsOK
  <2>3. StoreOK'
    BY <1>0, <1>33 DEF GuardsChange, StoreOK
  <2>4. WorldOK'
    BY <1>0, <1>33 DEF GuardsChange, WorldOK
  <2>5. TaskKnown' /\ RoomToCommit'
    BY <1>0, <1>33 DEF GuardsChange, TaskKnown, RoomToCommit
  <2> QED
    BY <2>1, <2>2, <2>3, <2>4, <2>5 DEF TypeInv, TypeOK
<1>34. CASE StartRefused
  <2>1. MemoryOK' /\ CallOK'
    BY <1>0, <1>34 DEF StartRefused, MemoryOK, CallOK, PcValues, VehicleTaskStates
  <2>2. FlagsOK'
    BY <1>0, <1>34 DEF StartRefused, FlagsOK, StageReady
  <2>3. StoreOK'
    BY <1>0, <1>34 DEF StartRefused, StoreOK
  <2>4. WorldOK'
    BY <1>0, <1>34 DEF StartRefused, WorldOK
  <2>5. TaskKnown' /\ RoomToCommit'
    BY <1>0, <1>34 DEF StartRefused, TaskKnown, RoomToCommit
  <2> QED
    BY <2>1, <2>2, <2>3, <2>4, <2>5 DEF TypeInv, TypeOK
<1>35. CASE UNCHANGED vars
    BY <1>0, <1>35 DEF vars, TypeInv, TypeOK, MemoryOK, CallOK, FlagsOK, StoreOK, WorldOK,
        TaskKnown, RoomToCommit
<1> QED
    BY <1>1, <1>2, <1>3, <1>4, <1>5, <1>6, <1>7, <1>8, <1>9, <1>10, <1>10a, <1>10b,
        <1>10c, <1>11, <1>12, <1>13, <1>14, <1>15, <1>16, <1>17, <1>18, <1>19, <1>20,
        <1>21, <1>22, <1>23, <1>24, <1>25, <1>26, <1>27, <1>28, <1>29, <1>30, <1>31,
        <1>32, <1>33, <1>34, <1>35 DEF Next, Step, DownloadStep, ExecuteStep

(* Every reachable state is well typed; in particular no sequence number   *)
(* passes the limit of the outbox and every stage that needs a task has    *)
(* one.                                                                    *)
THEOREM TypeCorrect == Spec => []TypeOK
<1>1. TypeInv => TypeOK
    BY DEF TypeInv
<1> QED
    BY <1>1, TypeInit, TypeStep, PTL DEF Spec
-----------------------------------------------------------------------------
(***************************************************************************)
(* The event outbox: no sequence number ever names two events of this      *)
(* release at the cloud, on a factory-new and on a migrated store; and on  *)
(* a factory-new store the outbox implements EventJournal.                 *)
(***************************************************************************)

(* Where a program that booted on a migrated store may stand while its     *)
(* memory numbers events from 1 and the saved meta does not: it has yet to *)
(* save its first permit.                                                  *)
BeforePermit ==
    \/ pc = "idle" /\ Stage(vtState) # "execute"
    \/ pc \in {"checked", "consented", "download"} \cup HasEntry
    \/ pc \in {"saveExec", "saveMeta"} /\ ret = "idle"

(* The next sequence number in memory is the saved one, except there.      *)
MemoryAgrees ==
    /\ pc # "boot" => nextSeq = storedMeta.next \/ (OfThisRelease = {} /\ BeforePermit)
    /\ Snapshotless => OfThisRelease = {}

(* What the cloud accepted under a number is what the journal still holds. *)
DeliveredIsLogged ==
    \A d \in OfThisRelease :
        /\ d[1] < storedMeta.next
        /\ storedEvents[d[1]] # NoRecord
        /\ storedEvents[d[1]].event = d[2]

NumberInv == TypeInv /\ MemoryAgrees /\ DeliveredIsLogged

(* The steps that touch the outbox, what the cloud took, or the memory of  *)
(* the next sequence number.                                               *)
JournalStep ==
    \/ SaveMeta \/ EmitEvent \/ CommitEvent \/ MarkSent
    \/ EventAccepted \/ EventNotAccepted \/ EndSend \/ Crash \/ Reconcile

(* A running stage has a task with its snapshot in the store.              *)
LEMMA NotSnapshotless ==
    ASSUME TypeInv, pc # "boot", pc # "idle" \/ vtState # "None"
    PROVE  ~Snapshotless
    BY DataAssumption DEF TypeInv, TaskKnown, Snapshotless

(* Every other step leaves them alone, does not leave the region before    *)
(* the first permit by a side door, and never saves a task without its     *)
(* snapshot.                                                               *)
LEMMA QuietStep ==
    ASSUME TypeInv, [Next]_vars, ~JournalStep
    PROVE  /\ UNCHANGED <<storedMeta, storedEvents, delivered, nextSeq>>
           /\ pc' = "boot" <=> pc = "boot"
           /\ pc # "boot" /\ BeforePermit => BeforePermit'
           /\ Snapshotless' => Snapshotless
           /\ pc' = "emitting" <=> pc = "emitting"
           /\ emissions' = emissions
<1> DEFINE Quiet == /\ UNCHANGED <<storedMeta, storedEvents, delivered, nextSeq>>
                    /\ pc' = "boot" <=> pc = "boot"
                    /\ pc # "boot" /\ BeforePermit => BeforePermit'
                    /\ Snapshotless' => Snapshotless
                    /\ pc' = "emitting" <=> pc = "emitting"
                    /\ emissions' = emissions
<1> USE DEF memory, inHand, locals, downloads, journal, cloudLog, conditions, BeforePermit, HasEntry
<1>0. \A s : Saved(s, frozenTask).task = frozenTask
    BY DEF Saved
<1>1. CASE CheckTask
    BY <1>1, <1>0, DataAssumption DEF CheckTask, At, Stage, TypeInv, TaskKnown, Saved,
        Snapshotless
<1>2. CASE RequireConsent
    BY <1>2, <1>0, DataAssumption DEF RequireConsent, StateAfterCheck, Stage, TypeInv,
        TaskKnown, Saved, Snapshotless
<1>3. CASE ReportConsent
    BY <1>3 DEF ReportConsent, At, Stage, Snapshotless
<1>4. CASE RecordConsent
    BY <1>4, <1>0, DataAssumption DEF RecordConsent, Stage, TypeInv, TaskKnown, Saved,
        Snapshotless
<1>5. CASE BeginDownload
    BY <1>5 DEF BeginDownload, At, Stage, Snapshotless
<1>6. ASSUME NEW p \in Packages, SkipReady(p) PROVE Quiet
    BY <1>6 DEF SkipReady, downloadFrame, Snapshotless
<1>7. ASSUME NEW p \in Packages, GrantFails(p) \/ Fetch(p) PROVE Quiet
    BY <1>7 DEF GrantFails, Fetch, downloadFrame, Stage, Snapshotless
<1>8. CASE StageReported
    BY <1>8 DEF StageReported, downloadFrame, Snapshotless
<1>9. CASE StageReportLost
    BY <1>9 DEF StageReportLost, downloadFrame, Snapshotless
<1>10. CASE NoStageResult
    BY <1>10 DEF NoStageResult, downloadFrame, Snapshotless
<1>10a. CASE SaveDownload
    BY <1>10a DEF SaveDownload, downloadFrame, Snapshotless
<1>10b. CASE AbandonDownload
    BY <1>10b DEF AbandonDownload, downloadFrame, Stage, Snapshotless
<1>11. CASE EndDownload
    BY <1>11, <1>0, DataAssumption DEF EndDownload, Stage, TypeInv, TaskKnown, Saved,
        Snapshotless
<1>12. CASE OpenWindow
    BY <1>12, <1>0, DataAssumption DEF OpenWindow, At, Stage, TypeInv, TaskKnown, Saved,
        Snapshotless
<1>13. CASE RequestPermit
    BY <1>13, <1>0, DataAssumption DEF RequestPermit, At, Stage, AfterPermit, TypeInv,
        TaskKnown, Saved, Snapshotless
<1>14. CASE RetryNotGranted
    BY <1>14 DEF RetryNotGranted, Stage, Snapshotless
<1>15. CASE SaveExecution
    BY <1>15 DEF SaveExecution, Snapshotless
<1>16. CASE StartInstall
    BY <1>16 DEF StartInstall, Stage, Snapshotless
<1>17. CASE StartReturns
    BY <1>17 DEF StartReturns, Snapshotless
<1>17a. CASE StartRefused
    BY <1>17a DEF StartRefused, Stage, Snapshotless
<1>18. CASE ResumeExecution
    BY <1>18 DEF ResumeExecution, At, Stage, Snapshotless
<1>19. CASE SkipEvent
    BY <1>19 DEF SkipEvent, sendFrame, Snapshotless
<1>20. CASE FinalAccepted
    BY <1>20, <1>0, DataAssumption DEF FinalAccepted, TypeInv, TaskKnown, Saved,
        Snapshotless
<1>21. CASE FinalNotAccepted
    BY <1>21 DEF FinalNotAccepted, Snapshotless
<1>22. CASE StepFails
    BY <1>22 DEF StepFails, vars, Snapshotless
<1>23. CASE PermitExpires
    BY <1>23 DEF PermitExpires, Snapshotless
<1>24. CASE GuardsChange
    BY <1>24 DEF GuardsChange, Snapshotless
<1>25. CASE UNCHANGED vars
    BY <1>25 DEF vars, Snapshotless
<1> QED
    BY <1>1, <1>2, <1>3, <1>4, <1>5, <1>6, <1>7, <1>8, <1>9, <1>10, <1>10a,
       <1>10b, <1>11, <1>12, <1>13, <1>14, <1>15, <1>16, <1>17, <1>17a, <1>18, <1>19, <1>20, <1>21,
       <1>22, <1>23, <1>24, <1>25 DEF Next, Step, DownloadStep, ExecuteStep,
       JournalStep

-----------------------------------------------------------------------------
LEMMA NumberInit == Init => NumberInv
    BY TypeInit DEF Init, NumberInv, MemoryAgrees, DeliveredIsLogged, OfThisRelease,
        FreshStore, MigratedStore, AcceptedBefore

(* An event being sent has a committed number and a record.                *)
LEMMA Sending ==
    ASSUME NumberInv, Sendable
    PROVE  /\ sendSeq \in Seqs /\ sendSeq < storedMeta.next
           /\ storedEvents[sendSeq] \in Event /\ storedEvents[sendSeq] # NoRecord
           /\ ~Snapshotless /\ nextSeq = storedMeta.next
<1>1. sendSeq \in Seqs /\ sendSeq < storedMeta.next
    BY BoundAssumption DEF Sendable, NumberInv, TypeInv, TypeOK, StoreOK, CallOK, Seqs
<1>2. storedEvents[sendSeq] \in Event /\ storedEvents[sendSeq] # NoRecord
    BY <1>1 DEF Sendable, NothingToSend, NumberInv, TypeInv, TypeOK, StoreOK
<1>3. ~Snapshotless
    BY NotSnapshotless DEF Sendable, NumberInv
<1>4. nextSeq = storedMeta.next
    BY DEF Sendable, NumberInv, MemoryAgrees, BeforePermit, HasEntry
<1> QED
    BY <1>1, <1>2, <1>3, <1>4

LEMMA NumberStep == NumberInv /\ [Next]_vars => NumberInv'
<1> SUFFICES ASSUME NumberInv, [Next]_vars PROVE NumberInv'
    OBVIOUS
<1>0. TypeInv /\ MemoryAgrees /\ DeliveredIsLogged /\ TypeInv'
    BY TypeStep DEF NumberInv
<1> USE DEF memory, inHand, locals, downloads, journal, cloudLog, conditions, OfThisRelease
<1>1. CASE SaveMeta
  <2>1. nextSeq = storedMeta.next \/ OfThisRelease = {}
    BY <1>0, <1>1 DEF SaveMeta, MemoryAgrees
  <2>2. ~Snapshotless
    BY <1>0, <1>1, NotSnapshotless DEF SaveMeta
  <2> QED
    BY <1>0, <1>1, <2>1, <2>2 DEF SaveMeta, NumberInv, MemoryAgrees, DeliveredIsLogged,
        Snapshotless
<1>2. CASE EmitEvent
  <2>1. nextSeq = storedMeta.next /\ ~Snapshotless
    BY <1>0, <1>2, NotSnapshotless DEF EmitEvent, MemoryAgrees, BeforePermit, HasEntry
  <2>2. \A d \in OfThisRelease : storedEvents'[d[1]] = storedEvents[d[1]]
    BY <1>0, <1>2 DEF EmitEvent, DeliveredIsLogged, TypeInv, TypeOK, StoreOK, WorldOK,
        Seqs
  <2> QED
    BY <1>0, <1>2, <2>1, <2>2 DEF EmitEvent, NumberInv, MemoryAgrees, DeliveredIsLogged,
        Snapshotless
<1>3. CASE CommitEvent
  <2>1. nextSeq' = storedMeta'.next /\ ~Snapshotless
    BY <1>0, <1>3, NotSnapshotless DEF CommitEvent
  <2>2. storedMeta.next < storedMeta'.next
    BY <1>0, <1>3 DEF CommitEvent, TypeInv, TypeOK, StoreOK
  <2>3. \A d \in OfThisRelease : d[1] < storedMeta'.next
    BY <1>0, <2>2 DEF DeliveredIsLogged, TypeInv, TypeOK, StoreOK, WorldOK, Seqs
  <2> QED
    BY <1>0, <1>3, <2>1, <2>3 DEF CommitEvent, NumberInv, MemoryAgrees, DeliveredIsLogged,
        Snapshotless
<1>4. CASE MarkSent
  <2>1. Sendable
    BY <1>4 DEF MarkSent
  <2>2. \A s \in Seqs : storedEvents[s] # NoRecord =>
            /\ storedEvents'[s] # NoRecord
            /\ storedEvents'[s].event = storedEvents[s].event
    BY <1>0, <1>4, Sending, <2>1, RecordAssumption DEF MarkSent, TypeInv, TypeOK, StoreOK,
        Event, SendStates
  <2>3. storedMeta' = storedMeta /\ delivered' = delivered
    BY <1>4 DEF MarkSent, sendFrame
  <2>4. DeliveredIsLogged'
    BY <1>0, <2>2, <2>3 DEF DeliveredIsLogged, TypeInv, TypeOK, WorldOK
  <2> QED
    BY <1>0, <1>4, Sending, <2>1, <2>4 DEF MarkSent, sendFrame, NumberInv, MemoryAgrees,
        Snapshotless
<1>5. CASE EventAccepted
  <2>1. Sendable
    BY <1>5 DEF EventAccepted
  <2>2. \A s \in Seqs : storedEvents[s] # NoRecord =>
            /\ storedEvents'[s] # NoRecord
            /\ storedEvents'[s].event = storedEvents[s].event
    BY <1>0, <1>5, Sending, <2>1, RecordAssumption DEF EventAccepted, TypeInv, TypeOK,
        StoreOK, Event, SendStates
  <2>3. storedMeta' = storedMeta /\ delivered' = delivered \cup {Report(sendSeq)}
    BY <1>5 DEF EventAccepted, sendFrame
  <2>4. DeliveredIsLogged'
    BY <1>0, Sending, <2>1, <2>2, <2>3 DEF DeliveredIsLogged, TypeInv, TypeOK, WorldOK,
        Report
  <2> QED
    BY <1>0, <1>5, Sending, <2>1, <2>4 DEF EventAccepted, sendFrame, NumberInv,
        MemoryAgrees, Snapshotless
<1>6. CASE EventNotAccepted
  <2>1. Sendable
    BY <1>6 DEF EventNotAccepted
  <2>2. delivered' \subseteq delivered \cup {Report(sendSeq)}
    BY <1>6 DEF EventNotAccepted
  <2>3. storedMeta' = storedMeta /\ storedEvents' = storedEvents
    BY <1>6 DEF EventNotAccepted, sendFrame
  <2>4. DeliveredIsLogged'
    BY <1>0, Sending, <2>1, <2>2, <2>3 DEF DeliveredIsLogged, Report
  <2> QED
    BY <1>0, <1>6, Sending, <2>1, <2>4 DEF EventNotAccepted, sendFrame, NumberInv,
        MemoryAgrees, Snapshotless
<1>7. CASE EndSend
  <2>1. nextSeq = storedMeta.next /\ ~Snapshotless
    BY <1>0, <1>7, NotSnapshotless DEF EndSend, MemoryAgrees, BeforePermit, HasEntry
  <2>2. storedMeta'.next = storedMeta.next
    BY <1>0, <1>7 DEF EndSend, TypeInv, TypeOK, StoreOK
  <2> QED
    BY <1>0, <1>7, <2>1, <2>2 DEF EndSend, NumberInv, MemoryAgrees, DeliveredIsLogged,
        Snapshotless
<1>8. CASE Crash
    BY <1>0, <1>8 DEF Crash, ClearLocals, NumberInv, MemoryAgrees, DeliveredIsLogged,
        Snapshotless
<1>9. CASE Reconcile
  <2>1. nextSeq' = storedMeta'.next \/ (OfThisRelease' = {} /\ BeforePermit')
    BY <1>0, <1>9 DEF Reconcile, LoadedMeta, LoadedVt, MemoryAgrees, BeforePermit,
        HasEntry, Stage
  <2> QED
    BY <1>0, <1>9, <2>1 DEF Reconcile, NumberInv, MemoryAgrees, DeliveredIsLogged,
        Snapshotless
<1>10. CASE ~JournalStep
    BY <1>0, <1>10, QuietStep DEF NumberInv, MemoryAgrees, DeliveredIsLogged
<1> QED
    BY <1>0, <1>1, <1>2, <1>3, <1>4, <1>5, <1>6, <1>7, <1>8, <1>9, <1>10 DEF JournalStep,
        NumberInv

(* What the cloud accepted under a number is the one event the journal     *)
(* holds there, so two acceptances under a number are of one event.        *)
LEMMA NumberUnique == NumberInv => OneEventPerSequenceNo
<1> SUFFICES ASSUME NumberInv, NEW d1 \in OfThisRelease, NEW d2 \in OfThisRelease, d1[1] = d2[1]
             PROVE  d1 = d2
    BY DEF OneEventPerSequenceNo
<1>1. d1 \in Seqs \X Nat /\ d2 \in Seqs \X Nat
    BY DEF OfThisRelease, NumberInv, TypeInv, TypeOK, WorldOK
<1>2. d1[2] = d2[2]
    BY DEF NumberInv, DeliveredIsLogged
<1> QED
    BY <1>1, <1>2

(* No sequence number reaches the cloud with two different events of this  *)
(* release, on a factory-new and on a migrated store, through any number   *)
(* of power losses.  Of the events from before the migration, whose        *)
(* numbers return, it says nothing.                                        *)
THEOREM NumbersNameOneEvent == Spec => []OneEventPerSequenceNo
    BY NumberInit, NumberStep, NumberUnique, PTL DEF Spec

-----------------------------------------------------------------------------

(* On a factory-new store the two always agree, and every committed number *)
(* has its event, older than the one being emitted.                        *)
Committed == {s \in Seqs : s < storedMeta.next}

FreshInv ==
    /\ ~Snapshotless
    /\ pc # "boot" => nextSeq = storedMeta.next
    /\ \A s \in Committed :
         /\ storedEvents[s] # NoRecord
         /\ storedEvents[s].event <= emissions
         /\ pc = "emitting" => storedEvents[s].event # emissions
    /\ pc = "emitting" =>
         storedEvents[storedMeta.next] = [status |-> "PENDING", event |-> emissions]

LogInv == TypeInv /\ FreshInv

LEMMA LogInit == Init /\ ~Migrated => LogInv
    BY TypeInit, RecordAssumption DEF Init, FreshStore, FreshMeta, LogInv, FreshInv,
        Snapshotless, Committed, Seqs

LEMMA SendingFresh ==
    ASSUME LogInv, Sendable
    PROVE  /\ sendSeq \in Seqs /\ sendSeq < storedMeta.next
           /\ storedEvents[sendSeq] \in Event /\ storedEvents[sendSeq] # NoRecord
           /\ storedEvents[sendSeq].status # "ACKED"
<1>1. sendSeq \in Seqs /\ sendSeq < storedMeta.next
    BY BoundAssumption DEF Sendable, LogInv, TypeInv, TypeOK, StoreOK, CallOK, Seqs
<1>2. storedEvents[sendSeq] \in Event /\ storedEvents[sendSeq] # NoRecord
    BY <1>1 DEF Sendable, NothingToSend, LogInv, TypeInv, TypeOK, StoreOK
<1> QED
    BY <1>1, <1>2 DEF Sendable, NothingToSend

LEMMA LogStep == LogInv /\ [Next]_vars => LogInv'
<1> SUFFICES ASSUME LogInv, [Next]_vars PROVE LogInv'
    OBVIOUS
<1>0. TypeInv /\ FreshInv /\ TypeInv'
    BY TypeStep DEF LogInv
<1> USE DEF memory, inHand, locals, downloads, journal, cloudLog, conditions
<1>1. CASE SaveMeta
  <2>1. pc' \in {"idle", "send", "finalize"}
    BY <1>0, <1>1 DEF SaveMeta, TypeInv, TypeOK, CallOK
  <2>2. storedMeta'.next = storedMeta.next
    BY <1>0, <1>1 DEF SaveMeta, FreshInv
  <2> QED
    BY <1>0, <1>1, <2>1, <2>2 DEF SaveMeta, LogInv, FreshInv, Snapshotless, Committed
<1>2. CASE EmitEvent
  <2>1. storedEvents' = [storedEvents EXCEPT ![storedMeta.next] =
                            [status |-> "PENDING", event |-> emissions + 1]]
        /\ emissions' = emissions + 1 /\ storedMeta' = storedMeta
    BY <1>2 DEF EmitEvent
  <2>2. storedMeta.next \in Seqs
    BY <1>0, <1>2, <2>1 DEF EmitEvent, TypeInv, RoomToCommit
  <2>3. storedEvents'[storedMeta.next] = [status |-> "PENDING", event |-> emissions']
    BY <1>0, <2>1, <2>2 DEF TypeInv, TypeOK, StoreOK
  <2>4. \A s \in Committed' : /\ storedEvents'[s] # NoRecord
                             /\ storedEvents'[s].event <= emissions'
                             /\ storedEvents'[s].event # emissions'
    <3> TAKE s \in Committed'
    <3>1. s \in Committed /\ s # storedMeta.next
        BY <2>1, <2>2 DEF Committed, Seqs
    <3>2. storedEvents'[s] = storedEvents[s]
        BY <1>0, <2>1, <3>1 DEF TypeInv, TypeOK, StoreOK
    <3>3. storedEvents[s] # NoRecord /\ storedEvents[s].event <= emissions
        BY <1>0, <3>1 DEF FreshInv
    <3>4. storedEvents[s].event \in Nat /\ emissions \in Nat
        BY <1>0, <3>1, <3>3 DEF TypeInv, TypeOK, StoreOK, WorldOK, Committed, Event,
            SendStates
    <3> QED
        BY <2>1, <3>2, <3>3, <3>4
  <2> QED
    BY <1>0, <1>2, <2>1, <2>3, <2>4 DEF EmitEvent, LogInv, FreshInv, Snapshotless
<1>3. CASE CommitEvent
  <2>1. storedMeta.next \in Seqs
    BY <1>0, <1>3 DEF CommitEvent, TypeInv, RoomToCommit
  <2>2. storedMeta'.next = storedMeta.next + 1
    BY <1>0, <1>3 DEF CommitEvent, TypeInv, TypeOK, StoreOK
  <2>3. Committed' = Committed \cup {storedMeta.next}
    BY <2>1, <2>2 DEF Committed, Seqs
  <2>4. /\ storedEvents[storedMeta.next] = [status |-> "PENDING", event |-> emissions]
        /\ storedEvents[storedMeta.next] # NoRecord
    <3>1. storedEvents[storedMeta.next] = [status |-> "PENDING", event |-> emissions]
        BY <1>0, <1>3 DEF CommitEvent, FreshInv
    <3>2. [status |-> "PENDING", event |-> emissions] \in Event
        BY <1>0 DEF Event, SendStates, TypeInv, TypeOK, WorldOK
    <3> QED
        BY <3>1, <3>2, RecordAssumption
  <2>5. emissions <= emissions
    BY <1>0 DEF TypeInv, TypeOK, WorldOK
  <2>6. \A s \in Committed' : storedEvents[s] # NoRecord /\ storedEvents[s].event <= emissions
    BY <1>0, <2>3, <2>4, <2>5 DEF FreshInv
  <2> QED
    BY <1>0, <1>3, <2>6 DEF CommitEvent, LogInv, FreshInv, Snapshotless
<1>4. CASE MarkSent \/ EventAccepted
  <2>1. Sendable
    BY <1>4 DEF MarkSent, EventAccepted
  <2>2. \A s \in Seqs : storedEvents[s] # NoRecord =>
            /\ storedEvents'[s] # NoRecord
            /\ storedEvents'[s].event = storedEvents[s].event
    BY <1>0, <1>4, <2>1, SendingFresh, RecordAssumption DEF MarkSent, EventAccepted,
        TypeInv, TypeOK, StoreOK, Event, SendStates
  <2>3. UNCHANGED <<storedMeta, storedTask, emissions, nextSeq, pc>> /\ pc = "send"
    BY <1>4, <2>1 DEF MarkSent, EventAccepted, sendFrame, Sendable
  <2> QED
    BY <1>0, <2>2, <2>3 DEF LogInv, FreshInv, Snapshotless, Committed
<1>5. CASE EventNotAccepted
    BY <1>0, <1>5 DEF EventNotAccepted, sendFrame, LogInv, FreshInv, Snapshotless,
        Committed
<1>6. CASE EndSend
  <2>1. storedMeta'.next = storedMeta.next
    BY <1>0, <1>6 DEF EndSend, TypeInv, TypeOK, StoreOK
  <2> QED
    BY <1>0, <1>6, <2>1 DEF EndSend, LogInv, FreshInv, Snapshotless, Committed
<1>7. CASE Crash
    BY <1>0, <1>7 DEF Crash, ClearLocals, LogInv, FreshInv, Snapshotless, Committed
<1>8. CASE Reconcile
    BY <1>0, <1>8 DEF Reconcile, LoadedMeta, LogInv, FreshInv, Snapshotless, Committed
<1>9. CASE ~JournalStep
    BY <1>0, <1>9, QuietStep DEF LogInv, FreshInv, Committed
<1> QED
    BY <1>0, <1>1, <1>2, <1>3, <1>4, <1>5, <1>6, <1>7, <1>8, <1>9 DEF JournalStep, LogInv

-----------------------------------------------------------------------------
LEMMA JournalInitMaps == Init /\ ~Migrated => Journal!JournalInit
<1> SUFFICES ASSUME Init, ~Migrated PROVE Journal!JournalInit
    OBVIOUS
<1>1. storedMeta.next = 1
    BY DEF Init, FreshStore, FreshMeta
<1>2. 1..(storedMeta.next - 1) = {}
    BY <1>1
<1> QED
    BY <1>2 DEF Journal!JournalInit, Logged, Taken

(* Committing an event appends it under the next number; the cloud's       *)
(* acceptance takes it; every other step is invisible to the journal.      *)
LEMMA JournalStepMaps ==
    LogInv /\ [Next]_vars => [Journal!JournalNext]_(Journal!JournalVars)
<1> SUFFICES ASSUME LogInv, [Next]_vars
             PROVE  \/ \E n \in 1..OutboxMax : Journal!Commit(n)
                    \/ \E s \in DOMAIN Logged : Journal!Take(s)
                    \/ UNCHANGED <<Logged, Taken>>
    BY DEF Journal!JournalNext, Journal!JournalVars
<1>0. TypeInv /\ FreshInv /\ TypeInv'
    BY TypeStep DEF LogInv
<1>a. 1..(storedMeta.next - 1) = Committed
    BY <1>0, BoundAssumption DEF TypeInv, TypeOK, StoreOK, Committed, Seqs
<1> USE DEF memory, inHand, locals, downloads, journal, cloudLog, conditions
(* Steps that change no committed record.                                  *)
<1>b. ASSUME storedMeta'.next = storedMeta.next,
             \A s \in Committed : storedEvents'[s] = storedEvents[s]
      PROVE  UNCHANGED <<Logged, Taken>>
    BY <1>a, <1>b DEF Logged, Taken
<1>1. CASE SaveMeta
    BY <1>0, <1>1, <1>b DEF SaveMeta, FreshInv
<1>2. CASE EmitEvent
  <2>1. \A s \in Committed : storedEvents'[s] = storedEvents[s]
    BY <1>0, <1>2 DEF EmitEvent, TypeInv, TypeOK, StoreOK, Committed, Seqs
  <2> QED
    BY <1>2, <2>1, <1>b DEF EmitEvent
<1>3. CASE CommitEvent
  <2> DEFINE n == storedMeta.next
  <2>1. n \in 1..OutboxMax
    BY <1>0, <1>3 DEF CommitEvent, TypeInv, RoomToCommit, Seqs
  <2>2. storedMeta'.next - 1 = n /\ storedEvents' = storedEvents
    BY <1>0, <1>3 DEF CommitEvent, TypeInv, TypeOK, StoreOK
  <2>3. storedEvents[n] = [status |-> "PENDING", event |-> emissions] /\ emissions \in Nat
    BY <1>0, <1>3 DEF CommitEvent, FreshInv, TypeInv, TypeOK, WorldOK
  <2>4. storedEvents[n] # NoRecord
    BY <2>3, RecordAssumption DEF Event, SendStates
  <2>5. 1..n = Committed \cup {n}
    BY <1>a, <2>1
  <2>6. \A s \in Committed : /\ storedEvents[s] # NoRecord /\ storedEvents[s].event \in Nat
                            /\ storedEvents[s].event # emissions
    BY <1>0, <1>3 DEF CommitEvent, FreshInv, TypeInv, TypeOK, StoreOK, Committed, Event,
        SendStates
  <2>7. Logged' \in [1..n -> Nat]
    BY <2>2, <2>3, <2>4, <2>5, <2>6 DEF Logged
  <2>8. \A s \in DOMAIN Logged : Logged'[s] = Logged[s] /\ Logged'[n] # Logged[s]
    BY <1>a, <2>2, <2>3, <2>4, <2>5, <2>6 DEF Logged
  <2>9. Taken' = Taken
    <3>1. Taken' = {s \in 1..n : storedEvents[s] # NoRecord
                                  /\ storedEvents[s].status = "ACKED"}
        BY <2>2 DEF Taken
    <3>2. storedEvents[n].status # "ACKED"
        BY <2>3
    <3> HIDE DEF n
    <3> QED
        BY <1>a, <2>5, <3>1, <3>2 DEF Taken
  <2>10. DOMAIN Logged = 1..(n - 1)
    BY DEF Logged
  <2>11. n <= OutboxMax
    BY <2>1, BoundAssumption
  <2> HIDE DEF n
  <2>12. Journal!Commit(n)
    BY <2>7, <2>8, <2>9, <2>10, <2>11, Zenon DEF Journal!Commit
  <2> QED
    BY <2>1, <2>12
<1>4. CASE MarkSent
  <2>1. Sendable
    BY <1>4 DEF MarkSent
  <2>2. storedMeta' = storedMeta
    BY <1>4 DEF MarkSent, sendFrame
  <2>3. \A s \in Seqs : storedEvents[s] # NoRecord =>
            /\ storedEvents'[s] # NoRecord
            /\ storedEvents'[s].event = storedEvents[s].event
            /\ storedEvents'[s].status = "ACKED" <=> storedEvents[s].status = "ACKED"
    BY <1>0, <1>4, <2>1, SendingFresh, RecordAssumption DEF MarkSent, TypeInv, TypeOK,
        StoreOK, Event, SendStates
  <2>4. \A s \in Committed : storedEvents[s] # NoRecord
    BY <1>0 DEF FreshInv
  <2> QED
    BY <1>a, <2>2, <2>3, <2>4 DEF Logged, Taken, Committed
<1>5. CASE EventAccepted
  <2>1. Sendable
    BY <1>5 DEF EventAccepted
  <2>2. storedMeta' = storedMeta
    BY <1>5 DEF EventAccepted, sendFrame
  <2>3. \A s \in Seqs : storedEvents[s] # NoRecord =>
            /\ storedEvents'[s] # NoRecord
            /\ storedEvents'[s].event = storedEvents[s].event
            /\ storedEvents'[s].status = "ACKED"
                  <=> s = sendSeq \/ storedEvents[s].status = "ACKED"
    BY <1>0, <1>5, <2>1, SendingFresh, RecordAssumption DEF EventAccepted, TypeInv,
        TypeOK, StoreOK, Event, SendStates
  <2>4. \A s \in Committed : storedEvents[s] # NoRecord
    BY <1>0 DEF FreshInv
  <2>5. sendSeq \in Committed
    BY <2>1, SendingFresh DEF Committed
  <2>6. Logged' = Logged /\ Taken' = Taken \cup {sendSeq}
    BY <1>a, <2>2, <2>3, <2>4, <2>5 DEF Logged, Taken, Committed
  <2>7. sendSeq \in DOMAIN Logged
    BY <1>a, <2>5 DEF Logged
  <2> QED
    BY <2>6, <2>7 DEF Journal!Take
<1>6. CASE EventNotAccepted
    BY <1>6, <1>b DEF EventNotAccepted, sendFrame
<1>7. CASE EndSend
  <2>1. storedMeta'.next = storedMeta.next /\ storedEvents' = storedEvents
    BY <1>0, <1>7 DEF EndSend, TypeInv, TypeOK, StoreOK
  <2> QED
    BY <2>1, <1>b
<1>8. CASE Crash
    BY <1>8, <1>b DEF Crash
<1>9. CASE Reconcile
    BY <1>9, <1>b DEF Reconcile
<1>10. CASE ~JournalStep
    BY <1>0, <1>10, <1>b, QuietStep
<1> QED
    BY <1>1, <1>2, <1>3, <1>4, <1>5, <1>6, <1>7, <1>8, <1>9, <1>10 DEF JournalStep

(* On a store that was never migrated, the outbox with its power losses    *)
(* implements the journal: a number is handed out once, in order, for an   *)
(* event that is already durable, and an acceptance is never taken back.   *)
THEOREM OutboxImplementsJournal == ~Migrated => (Spec => ImplementsJournal)
<1>1. ASSUME ~Migrated PROVE Spec => ImplementsJournal
  <2>1. Init => LogInv /\ Journal!JournalInit
    BY <1>1, LogInit, JournalInitMaps
  <2> QED
    BY <2>1, LogStep, JournalStepMaps, PTL DEF Spec, ImplementsJournal,
        Journal!JournalSpec
<1> QED
    BY <1>1
=============================================================================
