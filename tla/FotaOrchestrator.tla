-------------------------- MODULE FotaOrchestrator --------------------------
(***************************************************************************)
(* FotaOrchestrator::step() and the recovery that follows a power loss     *)
(* (src/src/ota/fota_orchestrator.cpp).  The timer of the daemon calls     *)
(* step(); each call looks at the state of the vehicle task and carries it *)
(* one stage further: task check, consent, download, install permit,       *)
(* execution with its event outbox, final result.                          *)
(*                                                                         *)
(* A step is cut where a power loss can be told apart: at every durable    *)
(* write of the store (each save* call is atomic and durable), at the      *)
(* beginning of the executor's side effects, and at every cloud call that  *)
(* may take effect at the cloud.  What happens between two such points is  *)
(* one action.  The control channel (applyControl) runs on another thread  *)
(* and touches none of the variables below.                                *)
(*                                                                         *)
(* Left out because nothing in the program reads them back: the inventory  *)
(* record, the log jobs, timestamps and digests.                           *)
(***************************************************************************)
EXTENDS Integers, FiniteSets, FotaStates

CONSTANTS
    Tasks,          \* task snapshots the cloud may hand out
    ConsentTasks,   \* those with consent_required
    Packages,       \* package ids; every task names all of them
    Revisions,      \* package revisions
    RevisionOf,     \* the package revision a task snapshot asks for
    GrantEtags,     \* etags a download grant may carry
    NoEtag,         \* a grant without the optional etag field
    EmptyEtag,      \* the empty string, the etag of a fresh download record
    NoTask,         \* the default VehicleTaskSnapshot
    NoRecord,       \* a store key that was never written
    OutboxMax,      \* cfg.eventOutboxMax
    FinalStatuses,  \* VehicleTask states a final-result response may name
    MaxPermits,     \* bound: install permits the cloud grants
    MaxCrashes,     \* bound: power losses
    MaxLateRefusals,\* bound: how often an execution may have begun when the
                    \* executor refuses to start it; 0 if it refuses only before
    GrantsAsAsked,  \* whether a grant names the package revision asked for
    Migrated,       \* whether the store may hold records of the ota.* schema
    OldTaskStates, OldExecStates,   \* the states such records may be in
    StageOptional,  \* whether the downloader may omit its stage result
    ConditionsVary, \* whether permits expire and vehicle guards change
    CloudDedupes    \* whether the cloud answers DUPLICATE to a known event

ASSUME DataAssumption ==
    /\ ConsentTasks \subseteq Tasks
    /\ RevisionOf \in [Tasks -> Revisions]
    /\ NoTask \notin Tasks

ASSUME BoundAssumption ==
    /\ OutboxMax \in Nat
    /\ MaxPermits \in Nat
    /\ MaxCrashes \in Nat
    /\ MaxLateRefusals \in Nat

ASSUME SwitchAssumption ==
    /\ FinalStatuses \subseteq VehicleTaskStates
    /\ OldTaskStates \subseteq VehicleTaskStates /\ OldExecStates \subseteq ExecutionStates
    /\ {GrantsAsAsked, Migrated, StageOptional, ConditionsVary, CloudDedupes}
           \subseteq BOOLEAN

VARIABLES
    (* Members of the object, lost with the process.                       *)
    vtState, exState, frozenTask,
    permit,         \* execution id of permit_, 0 for the default message
    nextSeq, acceptedSeq,
    (* Where the running call stands, and its locals.                      *)
    pc,
    ret,            \* where persistExecution returns to
    todo,           \* packages doDownload has not visited yet
    pkg, entry,     \* the one it is busy with, and the record it will save
    allReady, sendSeq, sendError,
    (* The durable store.                                                  *)
    storedTask, storedExec, storedMeta, storedEvents, storedConsent, storedDl,
    (* The cloud, the downloader, the executor, the vehicle and what they   *)
    (* have seen.                                                           *)
    bytesOf,        \* the etag under which a package's kept bytes were fetched
    issued,         \* permits granted so far; execution ids are 1..issued
    expired,        \* execution ids whose valid_until_ms has passed
    guardsOk,       \* what allGuardsPassed() would answer
    installs,       \* how often the executor began each execution
    emissions,      \* events handed to emit(); the identity of the next one
    acknowledged,   \* events for which emit() returned true
    delivered,      \* <<sequenceNo, event>> pairs the cloud accepted
    stageOk,        \* <<package, revision>> whose stage result it accepted
    finals,         \* final results it accepted
    crashes

memory == <<vtState, exState, frozenTask, permit, nextSeq, acceptedSeq>>
inHand == <<pkg, entry>>
locals == <<todo, inHand, allReady, sendSeq, sendError>>
downloads == <<storedConsent, storedDl, bytesOf, stageOk>>
journal == <<storedMeta, storedEvents, emissions, acknowledged>>
cloudLog == <<delivered, finals>>
conditions == <<expired, guardsOk>>

vars == <<memory, pc, ret, locals, storedTask, storedExec, downloads, journal,
          issued, installs, cloudLog, conditions, crashes>>

-----------------------------------------------------------------------------
(* The stages step() dispatches to.                                        *)

Mut_Stage(s) ==
    CASE s \in {"None", "Discovered", "Ended"}                 -> "check"
      [] s = "ConsentPending"                                  -> "consent"
      [] s \in {"DownloadPending", "Downloading"}              -> "download"
      [] s = "Ready"                                           -> "window"
      [] s \in {"WaitingWindow", "PermitPending", "RetryPending"} -> "permit"
      [] s \in {"Executing", "RollbackPending"}                -> "execute"
      [] OTHER                                                 -> "none"

Stage(s) ==
    CASE s \in {"None", "Discovered"}                          -> "check"
      [] s = "ConsentPending"                                  -> "consent"
      [] s \in {"DownloadPending", "Downloading"}              -> "download"
      [] s = "Ready"                                           -> "window"
      [] s \in {"WaitingWindow", "PermitPending", "RetryPending"} -> "permit"
      [] s \in {"Executing", "RollbackPending"}                -> "execute"
      [] OTHER                                                 -> "none"

At(stage) == pc = "idle" /\ Stage(vtState) = stage

(* doExecute prepares and starts the executor only in these states.        *)
Mut_NeedsStart(ex) == ex \in {"PermitPersisted", "Ready", "InstallStarted"}
MutReady_NeedsStart(ex) == ex = "Ready"
NeedsStart(ex) == ex \in {"PermitPersisted", "Ready"}

-----------------------------------------------------------------------------
(* Store records.                                                          *)

TaskRecord == [state : VehicleTaskStates, task : Tasks \cup {NoTask}]
ExecRecord == [permit : 0..MaxPermits, state : ExecutionStates]
Meta == [next : Nat, accepted : Nat]
Etags == (GrantEtags \ {NoEtag}) \cup {EmptyEtag}

(* etag and off are etag and currentOffsetBytes of the record, off being 0 *)
(* or 1 for "some bytes".                                                  *)
Download == [rev : Revisions, etag : Etags, off : 0..1, ready : BOOLEAN]
NewDownload(rev) == [rev |-> rev, etag |-> EmptyEtag, off |-> 0, ready |-> FALSE]

(* Event 0 is a migrated event, whose payload was not carried over.        *)
SendStates == {"PENDING", "SENT", "ACKED"}
Event == [status : SendStates, event : Nat]
OldEvent == [status : SendStates, event : {0}]

Seqs == 1..OutboxMax

Consent == [task : Tasks \cup {NoTask}, accepted : BOOLEAN]

ASSUME RecordAssumption ==
    /\ NoRecord \notin TaskRecord \cup ExecRecord \cup Event \cup Consent
    /\ NoRecord \notin Download

FreshMeta == [next |-> 1, accepted |-> 0]
Saved(s, t) == [state |-> s, task |-> t]

-----------------------------------------------------------------------------
(* Power loss and loadFromStore.                                           *)

(* A vehicle task without its snapshot, as migration leaves it, sends      *)
(* loadFromStore back to None before it looks at anything else.            *)
Mut_Snapshotless == FALSE
Snapshotless == storedTask # NoRecord /\ storedTask.task = NoTask

LoadedVt == IF storedTask = NoRecord \/ Snapshotless THEN "None" ELSE storedTask.state
LoadedTask == IF storedTask = NoRecord THEN NoTask ELSE storedTask.task
LoadedExec == IF storedExec = NoRecord \/ Snapshotless
              THEN [permit |-> 0, state |-> "PermitPersisted"] ELSE storedExec
Mut_LoadedMeta == FreshMeta
LoadedMeta == IF Snapshotless THEN FreshMeta ELSE storedMeta

ClearLocals ==
    /\ ret' = "idle"
    /\ todo' = {} /\ pkg' = NoRecord /\ entry' = NoRecord /\ allReady' = TRUE
    /\ sendSeq' = 1 /\ sendError' = FALSE

Crash ==
    /\ pc # "boot" /\ crashes < MaxCrashes
    /\ crashes' = crashes + 1
    /\ pc' = "boot"
    /\ vtState' = "None" /\ exState' = "PermitPersisted"
    /\ frozenTask' = NoTask /\ permit' = 0
    /\ nextSeq' = 1 /\ acceptedSeq' = 0
    /\ ClearLocals
    /\ UNCHANGED <<storedTask, storedExec, downloads, journal, issued, installs,
                   cloudLog, conditions>>

Reconcile ==
    /\ pc = "boot" /\ pc' = "idle"
    /\ vtState' = LoadedVt /\ frozenTask' = LoadedTask
    /\ exState' = LoadedExec.state /\ permit' = LoadedExec.permit
    /\ nextSeq' = LoadedMeta.next /\ acceptedSeq' = LoadedMeta.accepted
    /\ UNCHANGED <<ret, locals, storedTask, storedExec, downloads, journal, issued,
                   installs, cloudLog, conditions, crashes>>

-----------------------------------------------------------------------------
(* doCheckTask.  Any failure (cloud exception, inventory not accepted, no  *)
(* task in the response) leaves the state as it is: see StepFails.         *)

CheckTask ==
    /\ At("check")
    /\ \E t \in Tasks : frozenTask' = t /\ storedTask' = Saved("Discovered", t)
    /\ vtState' = "Discovered"
    /\ pc' = "checked"
    /\ UNCHANGED <<exState, permit, nextSeq, acceptedSeq, ret, locals, storedExec,
                   downloads, journal, issued, installs, cloudLog, conditions, crashes>>

Mut_StateAfterCheck(t) == "DownloadPending"
StateAfterCheck(t) == IF t \in ConsentTasks THEN "ConsentPending" ELSE "DownloadPending"

RequireConsent ==
    /\ pc = "checked" /\ pc' = "idle"
    /\ vtState' = StateAfterCheck(frozenTask)
    /\ storedTask' = Saved(vtState', frozenTask)
    /\ UNCHANGED <<exState, frozenTask, permit, nextSeq, acceptedSeq, ret, locals,
                   storedExec, downloads, journal, issued, installs, cloudLog,
                   conditions, crashes>>

(* doConsent: only effectiveConsentStatus of the response counts.          *)
ReportConsent ==
    /\ At("consent")
    /\ \E effective \in BOOLEAN :
           storedConsent' = [task |-> frozenTask, accepted |-> effective]
    /\ pc' = "consented"
    /\ UNCHANGED <<memory, ret, locals, storedTask, storedExec, storedDl, bytesOf, stageOk,
                   journal, issued, installs, cloudLog, conditions, crashes>>

RecordConsent ==
    /\ pc = "consented" /\ pc' = "idle"
    /\ vtState' = IF storedConsent.accepted THEN "DownloadPending" ELSE "Ended"
    /\ storedTask' = Saved(vtState', frozenTask)
    /\ UNCHANGED <<exState, frozenTask, permit, nextSeq, acceptedSeq, ret, locals,
                   storedExec, downloads, journal, issued, installs, cloudLog,
                   conditions, crashes>>

-----------------------------------------------------------------------------
(* doDownload: the packages one after the other (the cloud's list may have *)
(* any order), each with a durable record of its own.                      *)

BeginDownload ==
    /\ At("download")
    /\ todo' = Packages /\ allReady' = TRUE
    /\ pc' = "download"
    /\ UNCHANGED <<memory, ret, inHand, sendSeq, sendError, storedTask, storedExec,
                   downloads, journal, issued, installs, cloudLog, conditions, crashes>>

downloadFrame == <<exState, frozenTask, permit, nextSeq, acceptedSeq, ret, sendSeq,
                   sendError, storedTask, storedExec, storedConsent, journal, issued,
                   installs, cloudLog, conditions, crashes>>

Entry(p) ==
    IF storedDl[p] # NoRecord THEN storedDl[p]
    ELSE NewDownload(RevisionOf[frozenTask])

SkipReady(p) ==
    /\ pc = "download" /\ p \in todo /\ Entry(p).ready
    /\ todo' = todo \ {p}
    /\ UNCHANGED <<downloadFrame, vtState, pc, inHand, allReady, storedDl, bytesOf, stageOk>>

(* The grant is asked for with the revision of the record; one without a   *)
(* revision leaves it at that.                                             *)
Grant(e) == [etag : GrantEtags, rev : IF GrantsAsAsked THEN {e.rev} ELSE Revisions]

(* The record after the grant: a new etag discards the offset and brings   *)
(* the grant's revision; an equal or empty one is only copied.             *)
Mut_Granted(e, g) ==
    IF g.etag \notin {NoEtag, EmptyEtag, e.etag}
    THEN [e EXCEPT !.etag = g.etag, !.rev = g.rev]
    ELSE IF g.etag # NoEtag THEN [e EXCEPT !.etag = g.etag] ELSE e
Granted(e, g) ==
    IF g.etag \notin {NoEtag, EmptyEtag, e.etag}
    THEN [e EXCEPT !.off = 0, !.etag = g.etag, !.rev = g.rev]
    ELSE IF g.etag # NoEtag THEN [e EXCEPT !.etag = g.etag] ELSE e

(* downloadAndVerify: the bytes are kept, under the granted etag when it   *)
(* began at offset 0 and after those there are when it resumed.  The       *)
(* record is not saved before the stage result has been reported.          *)
Fetch(p) ==
    /\ pc = "download" /\ p \in todo /\ ~Entry(p).ready
    /\ \E g \in Grant(Entry(p)), off \in 0..1 :
         LET kept == Granted(Entry(p), g)
         IN  /\ entry' = [kept EXCEPT !.off = off]
             /\ bytesOf' = IF kept.off = 0 THEN [bytesOf EXCEPT ![p] = kept.etag]
                           ELSE bytesOf
    /\ pkg' = p /\ pc' = "fetched"
    /\ UNCHANGED <<downloadFrame, vtState, todo, allReady, storedDl, stageOk>>

(* An exception of the grant or of the report: see AbandonDownload.        *)
GrantFails(p) ==
    /\ pc = "download" /\ p \in todo /\ ~Entry(p).ready
    /\ pkg' = p /\ entry' = Entry(p)
    /\ pc' = "abandon"
    /\ UNCHANGED <<downloadFrame, vtState, todo, allReady, storedDl, bytesOf, stageOk>>

(* The report may have reached the cloud before its answer was lost.       *)
StageReportLost ==
    /\ pc = "fetched"
    /\ \E counted \in BOOLEAN :
         stageOk' = IF counted THEN stageOk \cup {<<pkg, entry.rev>>} ELSE stageOk
    /\ pc' = "abandon"
    /\ UNCHANGED <<downloadFrame, vtState, todo, inHand, allReady, storedDl, bytesOf>>

(* A package is ready once its stages succeeded and the cloud accepted the *)
(* report of that.                                                         *)
Mut_StageReady(succeeded, accepted) == succeeded
StageReady(succeeded, accepted) == succeeded /\ accepted

StageReported ==
    /\ pc = "fetched"
    /\ \E succeeded, accepted \in BOOLEAN :
         LET ready == StageReady(succeeded, accepted)
         IN  /\ entry' = [entry EXCEPT !.ready = ready]
             /\ allReady' = (allReady /\ ready)
             /\ stageOk' = IF succeeded /\ accepted THEN stageOk \cup {<<pkg, entry.rev>>}
                           ELSE stageOk
    /\ pc' = "saveDl"
    /\ UNCHANGED <<downloadFrame, vtState, todo, pkg, storedDl, bytesOf>>

(* hasStageResult = false: nothing is reported; success does not make the  *)
(* entry ready, yet only a failure clears allReady.                        *)
NoStageResult ==
    /\ StageOptional
    /\ pc = "fetched" /\ pc' = "saveDl"
    /\ \E succeeded \in BOOLEAN : allReady' = (allReady /\ succeeded)
    /\ UNCHANGED <<downloadFrame, vtState, todo, inHand, storedDl, bytesOf, stageOk>>

SaveDownload ==
    /\ pc = "saveDl" /\ pc' = "download"
    /\ storedDl' = [storedDl EXCEPT ![pkg] = entry]
    /\ todo' = todo \ {pkg} /\ pkg' = NoRecord /\ entry' = NoRecord
    /\ UNCHANGED <<downloadFrame, vtState, allReady, bytesOf, stageOk>>

(* The two catch blocks: Downloading in memory, the entry saved, return.   *)
AbandonDownload ==
    /\ pc = "abandon" /\ pc' = "idle"
    /\ vtState' = "Downloading"
    /\ storedDl' = [storedDl EXCEPT ![pkg] = entry]
    /\ todo' = {} /\ pkg' = NoRecord /\ entry' = NoRecord /\ allReady' = TRUE
    /\ UNCHANGED <<downloadFrame, bytesOf, stageOk>>

EndDownload ==
    /\ pc = "download" /\ todo = {}
    /\ vtState' = IF allReady THEN "Ready" ELSE "Downloading"
    /\ storedTask' = Saved(vtState', frozenTask)
    /\ pc' = "idle" /\ allReady' = TRUE
    /\ UNCHANGED <<exState, frozenTask, permit, nextSeq, acceptedSeq, ret, todo, inHand,
                   sendSeq, sendError, storedExec, downloads, journal, issued, installs,
                   cloudLog, conditions, crashes>>

-----------------------------------------------------------------------------
(* doPermit.                                                               *)

OpenWindow ==
    /\ At("window")
    /\ vtState' = "WaitingWindow"
    /\ storedTask' = Saved("WaitingWindow", frozenTask)
    /\ UNCHANGED <<exState, frozenTask, permit, nextSeq, acceptedSeq, pc, ret, locals,
                   storedExec, downloads, journal, issued, installs, cloudLog,
                   conditions, crashes>>

(* Where a granted permit continues: persistExecution.                     *)
Mut_AfterPermit == "idle"
AfterPermit == "saveExec"

(* The re-check of validUntil and guards that follows persistExecution     *)
(* only chooses the text of the outcome, so nothing of it appears here.    *)
RequestPermit ==
    /\ At("permit") /\ guardsOk /\ issued < MaxPermits
    /\ issued' = issued + 1
    /\ permit' = issued'
    /\ exState' = "PermitPersisted" /\ vtState' = "Executing"
    /\ storedTask' = Saved("Executing", frozenTask)
    /\ pc' = AfterPermit /\ ret' = "idle"
    /\ UNCHANGED <<frozenTask, nextSeq, acceptedSeq, locals, storedExec, downloads,
                   journal, installs, cloudLog, conditions, crashes>>

(* Window closed, guards failed, cloud exception or denial: step() has     *)
(* already turned RetryPending into PermitPending, in memory only.         *)
RetryNotGranted ==
    /\ pc = "idle" /\ vtState = "RetryPending"
    /\ vtState' = "PermitPending"
    /\ UNCHANGED <<exState, frozenTask, permit, nextSeq, acceptedSeq, pc, ret, locals,
                   storedTask, storedExec, downloads, journal, issued, installs,
                   cloudLog, conditions, crashes>>

(* persistExecution: the execution record, then the outbox meta, both from *)
(* memory.                                                                 *)
Mut_SavedExec == [permit |-> 0, state |-> exState]
SavedExec == [permit |-> permit, state |-> exState]

SaveExecution ==
    /\ pc = "saveExec" /\ pc' = "saveMeta"
    /\ storedExec' = SavedExec
    /\ UNCHANGED <<memory, ret, locals, storedTask, downloads, journal, issued, installs,
                   cloudLog, conditions, crashes>>

SaveMeta ==
    /\ pc = "saveMeta" /\ pc' = ret /\ ret' = "idle"
    /\ storedMeta' = [next |-> nextSeq, accepted |-> acceptedSeq]
    /\ UNCHANGED <<memory, locals, storedTask, storedExec, downloads, storedEvents,
                   emissions, acknowledged, issued, installs, cloudLog, conditions,
                   crashes>>

-----------------------------------------------------------------------------
(* doExecute: prepare, start, and the events the executor emits meanwhile. *)

StartInstall ==
    /\ pc = "idle" /\ vtState = "Executing" /\ NeedsStart(exState)
    /\ installs' = [installs EXCEPT ![permit] = @ + 1]
    /\ pc' = "starting"
    /\ UNCHANGED <<memory, ret, locals, storedTask, storedExec, downloads, journal,
                   issued, cloudLog, conditions, crashes>>

(* emit(): refused once next-1 reaches the limit, which counts every event *)
(* ever emitted; otherwise the event is saved, then the meta.              *)
EmitEvent ==
    /\ pc = "starting" /\ storedMeta.next - 1 < OutboxMax
    /\ emissions' = emissions + 1
    /\ storedEvents' = [storedEvents EXCEPT ![storedMeta.next] =
                            [status |-> "PENDING", event |-> emissions']]
    /\ pc' = "emitting"
    /\ UNCHANGED <<memory, ret, locals, storedTask, storedExec, downloads, storedMeta,
                   acknowledged, issued, installs, cloudLog, conditions, crashes>>

CommitEvent ==
    /\ pc = "emitting" /\ pc' = "starting"
    /\ storedMeta' = [storedMeta EXCEPT !.next = @ + 1]
    /\ nextSeq' = storedMeta'.next
    /\ acknowledged' = acknowledged \cup {emissions}
    /\ UNCHANGED <<vtState, exState, frozenTask, permit, acceptedSeq, ret, locals,
                   storedTask, storedExec, downloads, storedEvents, emissions, issued,
                   installs, cloudLog, conditions, crashes>>

StartReturns ==
    /\ pc = "starting"
    /\ exState' = "InstallStarted"
    /\ pc' = "saveExec" /\ ret' = "send"
    /\ UNCHANGED <<vtState, frozenTask, permit, nextSeq, acceptedSeq, locals, storedTask,
                   storedExec, downloads, journal, issued, installs, cloudLog,
                   conditions, crashes>>

(* start() may answer that it did not start after it had begun or emitted; *)
(* the next step() then starts the execution again.                        *)
StartRefused ==
    /\ pc = "starting" /\ installs[permit] <= MaxLateRefusals
    /\ pc' = "idle"
    /\ UNCHANGED <<memory, ret, locals, storedTask, storedExec, downloads, journal, issued,
                   installs, cloudLog, conditions, crashes>>

(* An execution already started goes straight to the outbox; a rollback    *)
(* does so too, after step() changed both states in memory.                *)
ResumeExecution ==
    /\ At("execute")
    /\ vtState = "RollbackPending" \/ ~NeedsStart(exState)
    /\ exState' = IF vtState = "RollbackPending" THEN "Rollback" ELSE exState
    /\ vtState' = "Executing"
    /\ pc' = "send"
    /\ UNCHANGED <<frozenTask, permit, nextSeq, acceptedSeq, ret, locals, storedTask,
                   storedExec, downloads, journal, issued, installs, cloudLog,
                   conditions, crashes>>

-----------------------------------------------------------------------------
(* doExecute: the outbox, sequence numbers 1 .. next-1 in order.           *)

(* No record, or acknowledged already.                                     *)
Mut_NothingToSend(e) == e # NoRecord => e.status # "SENT"
NothingToSend(e) == e # NoRecord => e.status = "ACKED"

HasPayload(e) == e.event # 0

sendFrame == <<vtState, exState, frozenTask, permit, nextSeq, pc, ret, todo, inHand,
               allReady, storedTask, storedExec, downloads, storedMeta, emissions,
               acknowledged, issued, installs, finals, conditions, crashes>>

SkipEvent ==
    /\ pc = "send" /\ sendSeq < storedMeta.next
    /\ NothingToSend(storedEvents[sendSeq])
    /\ sendSeq' = sendSeq + 1
    /\ UNCHANGED <<sendFrame, acceptedSeq, sendError, storedEvents, delivered>>

Sendable == /\ pc = "send" /\ sendSeq < storedMeta.next
            /\ ~NothingToSend(storedEvents[sendSeq])

MarkSent ==
    /\ Sendable /\ ~HasPayload(storedEvents[sendSeq])
    /\ storedEvents' = [storedEvents EXCEPT ![sendSeq].status = "SENT"]
    /\ sendSeq' = sendSeq + 1
    /\ UNCHANGED <<sendFrame, acceptedSeq, sendError, delivered>>

Report(s) == <<s, storedEvents[s].event>>

Mut_MaxSeq(a, b) == a + b
MaxSeq(a, b) == IF a < b THEN b ELSE a

(* The cloud answers ACCEPTED and the record is saved as ACKED.  A power   *)
(* loss between the two is EventNotAccepted with took = TRUE, then Crash.  *)
EventAccepted ==
    /\ Sendable /\ HasPayload(storedEvents[sendSeq])
    /\ CloudDedupes => Report(sendSeq) \notin delivered
    /\ delivered' = delivered \cup {Report(sendSeq)}
    /\ storedEvents' = [storedEvents EXCEPT ![sendSeq].status = "ACKED"]
    /\ acceptedSeq' = MaxSeq(acceptedSeq, sendSeq)
    /\ sendSeq' = sendSeq + 1
    /\ UNCHANGED <<sendFrame, sendError>>

(* Any other disposition, or an exception, in which case the cloud may     *)
(* have taken the event all the same.  The record keeps its status.        *)
EventNotAccepted ==
    /\ Sendable /\ HasPayload(storedEvents[sendSeq])
    /\ \E took \in BOOLEAN :
         delivered' = IF took THEN delivered \cup {Report(sendSeq)} ELSE delivered
    /\ sendError' = TRUE
    /\ sendSeq' = sendSeq + 1
    /\ UNCHANGED <<sendFrame, acceptedSeq, storedEvents>>

(* Any error postpones the final result to a later step.                   *)
Mut_AfterSend(error) == "finalize"
MutStuck_AfterSend(error) == "idle"
AfterSend(error) == IF error THEN "idle" ELSE "finalize"

(* The watermark is saved when it moved (nothing else has written the meta *)
(* since doExecute loaded it), then persistExecution.                      *)
EndSend ==
    /\ pc = "send" /\ sendSeq = storedMeta.next
    /\ storedMeta' = [storedMeta EXCEPT !.accepted = MaxSeq(@, acceptedSeq)]
    /\ pc' = "saveExec" /\ ret' = AfterSend(sendError)
    /\ sendSeq' = 1 /\ sendError' = FALSE
    /\ UNCHANGED <<memory, todo, inHand, allReady, storedTask, storedExec, downloads,
                   storedEvents, emissions, acknowledged, issued, installs, cloudLog,
                   conditions, crashes>>

-----------------------------------------------------------------------------
(* doFinalize.                                                             *)

Result == IF exState = "Rollback" THEN "ROLLED_BACK" ELSE "SUCCEEDED"
FinalReport == [execution |-> permit, result |-> Result, last |-> acceptedSeq]

Closed(status) == IF status = "RetryPending" THEN "Failed"
                  ELSE IF Result = "ROLLED_BACK" THEN "RolledBack" ELSE "Succeeded"

FinalAccepted ==
    /\ pc = "finalize"
    /\ finals' = finals \cup {FinalReport}
    /\ \E status \in FinalStatuses :
         /\ vtState' = StateFromCloud(status)
         /\ exState' = Closed(status)
    /\ storedTask' = Saved(vtState', frozenTask)
    /\ pc' = "saveExec" /\ ret' = "idle"
    /\ UNCHANGED <<frozenTask, permit, nextSeq, acceptedSeq, locals, storedExec,
                   downloads, journal, issued, installs, delivered, conditions, crashes>>

(* Not accepted, or an exception after which the cloud may have taken it.  *)
FinalNotAccepted ==
    /\ pc = "finalize" /\ pc' = "idle"
    /\ \E took \in BOOLEAN :
         finals' = IF took THEN finals \cup {FinalReport} ELSE finals
    /\ UNCHANGED <<memory, ret, locals, storedTask, storedExec, downloads, journal,
                   issued, installs, delivered, conditions, crashes>>

-----------------------------------------------------------------------------
(* A step that ends where it began: a cloud exception or refusal before    *)
(* anything changed, a closed window, an executor that will not prepare or *)
(* start, and the terminal and paused states, where step() does nothing.   *)
StepFails ==
    /\ pc = "idle"
    /\ \/ Stage(vtState) \in {"check", "consent", "permit", "none"}
       \/ vtState = "Executing" /\ NeedsStart(exState)
    /\ UNCHANGED vars

(* The world outside the orchestrator.                                     *)
PermitExpires ==
    /\ ConditionsVary
    /\ \E k \in (1..issued) \ expired : expired' = expired \cup {k}
    /\ UNCHANGED <<memory, pc, ret, locals, storedTask, storedExec, downloads, journal,
                   issued, installs, cloudLog, guardsOk, crashes>>

GuardsChange ==
    /\ ConditionsVary
    /\ guardsOk' = ~guardsOk
    /\ UNCHANGED <<memory, pc, ret, locals, storedTask, storedExec, downloads, journal,
                   issued, installs, cloudLog, expired, crashes>>
-----------------------------------------------------------------------------
(* A factory-new store.                                                    *)
FreshStore ==
    /\ storedTask = NoRecord /\ storedExec = NoRecord
    /\ storedMeta = FreshMeta
    /\ storedEvents = [s \in Seqs |-> NoRecord]
    /\ storedConsent = NoRecord
    /\ storedDl = [p \in Packages |-> NoRecord]

(* A store that migrateOtaToFota has just filled, of any of its keys: the  *)
(* task in whatever state, without its snapshot; the old execution (its id *)
(* is of no use here: 0) and watermarks; events without payload, at any of *)
(* the numbers; the consent of some task; the download records.            *)
MigratedStore ==
    /\ storedTask \in {NoRecord} \cup {Saved(s, NoTask) : s \in OldTaskStates}
    /\ storedExec \in {NoRecord} \cup {[permit |-> 0, state |-> x] : x \in OldExecStates}
    /\ storedMeta \in [next : 1..(OutboxMax + 1), accepted : 0..OutboxMax]
    /\ storedEvents \in [Seqs -> {NoRecord} \cup OldEvent]
    /\ storedConsent \in {NoRecord} \cup Consent
    /\ storedDl \in [Packages -> {NoRecord} \cup Download]

(* What the cloud has of the events before: those that are marked so.      *)
AcceptedBefore ==
    {<<s, 0>> : s \in {n \in Seqs : storedEvents[n] # NoRecord
                                     /\ storedEvents[n].status = "ACKED"}}

Init ==
    /\ vtState = "None" /\ exState = "PermitPersisted"
    /\ frozenTask = NoTask /\ permit = 0
    /\ nextSeq = 1 /\ acceptedSeq = 0
    /\ pc = "boot" /\ ret = "idle"
    /\ todo = {} /\ pkg = NoRecord /\ entry = NoRecord /\ allReady = TRUE
    /\ sendSeq = 1 /\ sendError = FALSE
    /\ FreshStore \/ (Migrated /\ MigratedStore)
    /\ issued = 0 /\ expired = {} /\ guardsOk = TRUE
    /\ installs = [k \in 0..MaxPermits |-> 0]
    /\ emissions = 0 /\ acknowledged = {}
    /\ bytesOf = [p \in Packages |-> IF storedDl[p] = NoRecord THEN EmptyEtag
                                      ELSE storedDl[p].etag]
    /\ delivered = AcceptedBefore /\ stageOk = {} /\ finals = {}
    /\ crashes = 0

DownloadStep ==
    \/ BeginDownload
    \/ \E p \in Packages : SkipReady(p) \/ GrantFails(p) \/ Fetch(p)
    \/ StageReported \/ StageReportLost \/ NoStageResult
    \/ SaveDownload \/ AbandonDownload \/ EndDownload

ExecuteStep ==
    \/ StartInstall \/ EmitEvent \/ CommitEvent \/ StartReturns \/ StartRefused
    \/ ResumeExecution \/ SkipEvent \/ MarkSent \/ EventAccepted \/ EventNotAccepted \/ EndSend
    \/ FinalAccepted \/ FinalNotAccepted

Step ==
    \/ CheckTask \/ RequireConsent
    \/ ReportConsent \/ RecordConsent
    \/ DownloadStep
    \/ OpenWindow \/ RequestPermit \/ RetryNotGranted
    \/ SaveExecution \/ SaveMeta
    \/ ExecuteStep
    \/ StepFails

Next == Step \/ Crash \/ Reconcile \/ PermitExpires \/ GuardsChange

Spec == Init /\ [][Next]_vars

(* The timer thread keeps calling step() and a started program reconciles  *)
(* (weak fairness of the program's own moves).  That the executor's start  *)
(* returns, that the cloud does not refuse an event or a final result for  *)
(* ever is asked of the environment (strong fairness: each step only asks  *)
(* once).                                                                  *)
OwnStep ==
    \/ Reconcile \/ RequireConsent \/ RecordConsent
    \/ SaveDownload \/ AbandonDownload \/ EndDownload
    \/ SaveExecution \/ SaveMeta \/ CommitEvent
    \/ ResumeExecution \/ SkipEvent \/ MarkSent \/ EndSend

Fairness ==
    /\ WF_vars(OwnStep)
    /\ WF_vars(EventAccepted \/ EventNotAccepted)
    /\ WF_vars(FinalAccepted \/ FinalNotAccepted)
    /\ WF_vars(StartInstall) /\ WF_vars(StartReturns)
    /\ SF_vars(EventAccepted) /\ SF_vars(FinalAccepted)

FairSpec == Spec /\ Fairness

-----------------------------------------------------------------------------
(***************************************************************************)
(* Properties.                                                             *)
(***************************************************************************)

HasEntry == {"fetched", "saveDl", "abandon"}
PcValues == HasEntry \cup
            {"boot", "idle", "checked", "consented", "download", "saveExec",
             "saveMeta", "starting", "emitting", "send", "finalize"}

MemoryOK ==
    /\ vtState \in VehicleTaskStates /\ exState \in ExecutionStates
    /\ frozenTask \in Tasks \cup {NoTask}
    /\ permit \in 0..MaxPermits
    /\ nextSeq \in 1..(OutboxMax + 1) /\ acceptedSeq \in 0..OutboxMax
CallOK ==
    /\ pc \in PcValues /\ ret \in {"idle", "send", "finalize"}
    /\ todo \subseteq Packages
    /\ pc \in HasEntry => pkg \in Packages /\ entry \in Download
    /\ sendSeq \in 1..(OutboxMax + 1)
FlagsOK ==
    /\ allReady \in BOOLEAN /\ sendError \in BOOLEAN
    /\ guardsOk \in BOOLEAN
StoreOK ==
    /\ storedTask \in TaskRecord \cup {NoRecord}
    /\ storedExec \in ExecRecord \cup {NoRecord}
    /\ storedMeta \in [next : 1..(OutboxMax + 1), accepted : 0..OutboxMax]
    /\ storedEvents \in [Seqs -> Event \cup {NoRecord}]
    /\ storedConsent \in Consent \cup {NoRecord}
    /\ storedDl \in [Packages -> Download \cup {NoRecord}]
WorldOK ==
    /\ issued \in 0..MaxPermits /\ expired \subseteq 1..MaxPermits
    /\ installs \in [0..MaxPermits -> Nat]
    /\ emissions \in Nat /\ acknowledged \subseteq Nat
    /\ bytesOf \in [Packages -> Etags]
    /\ delivered \subseteq Seqs \X Nat
    /\ stageOk \subseteq Packages \X Revisions
    /\ finals \subseteq [execution : 0..MaxPermits, result : {"SUCCEEDED", "ROLLED_BACK"},
                          last : 0..OutboxMax]
    /\ crashes \in 0..MaxCrashes

(* Every variable holds a value of its kind (members of FotaOrchestrator,  *)
(* hpp:112-125, and the records of fota_cloud_state.hpp); no sequence      *)
(* number exceeds the limit of the outbox.                                 *)
TypeOK == MemoryOK /\ CallOK /\ FlagsOK /\ StoreOK /\ WorldOK

(* A task that requires consent is downloaded, permitted or executed only  *)
(* while the store holds the accepted consent given for that very task,    *)
(* however often the program restarts or the cloud sends the vehicle back  *)
(* to detection with another task (doCheckTask, doConsent).                *)
ConsentBeforeUse ==
    (/\ frozenTask \in ConsentTasks
     /\ Stage(vtState) \in {"download", "window", "permit", "execute"})
        => storedConsent = [task |-> frozenTask, accepted |-> TRUE]

(* The executor is started only when, for every package, the cloud has     *)
(* accepted a successful stage result of the revision the frozen task asks *)
(* for ("Ready: all stage results accepted", vehicle_task_state.hpp:26).   *)
InstallOnlyVerified ==
    pc \in {"starting", "emitting"}
        => \A p \in Packages : <<p, RevisionOf[frozenTask]>> \in stageOk

(* What the downloader keeps of a package once a call returns was all      *)
(* fetched under the etag of the record that will be saved for it, through *)
(* changes of the etag, refused grants and failed reports, as long as no   *)
(* power is lost ("ETag/packageRevision 变化必须 RESET_OFFSET",            *)
(* package.proto:14; doDownload's reset of the offset).                    *)
PartialBytesMatchEtag ==
    pc \in HasEntry => (entry.off > 0 => bytesOf[pkg] = entry.etag)

OfThisRelease == {d \in delivered : d[2] # 0}

(* The cloud never accepts two different events of this release under one  *)
(* sequence number: neither a power loss inside emit(), nor the meta that  *)
(* persistExecution rewrites from memory, nor the numbers a migrated store *)
(* brings along may make the program hand a number out twice.  The events  *)
(* from before the migration (0) are not compared: loadFromStore begins    *)
(* again at 1 without the snapshot, so their numbers do return.            *)
OneEventPerSequenceNo ==
    \A d1, d2 \in OfThisRelease : d1[1] = d2[1] => d1 = d2

(* The final result is accepted only after every event that emit()         *)
(* acknowledged has been (doExecute returns on any send error before       *)
(* doFinalize; execution.proto:15-17).                                     *)
FinalResultAfterEvents ==
    [][finals' # finals => \A e \in acknowledged : \E d \in delivered : d[2] = e]_vars

(* Restarting an idle program changes nothing: what loadFromStore would    *)
(* restore leads to the same stage, for the same task and permit, with the *)
(* same decision to start or roll back, and to the same next sequence      *)
(* number ("step advances along durable boundaries", hpp:8-10).            *)
RestartIsTransparent ==
    pc = "idle" =>
        /\ Stage(LoadedVt) = Stage(vtState)
        /\ LoadedTask = frozenTask
        /\ Stage(vtState) = "execute" =>
             /\ LoadedExec.permit = permit
             /\ NeedsStart(LoadedExec.state) = NeedsStart(exState)
             /\ (LoadedVt = "RollbackPending" \/ LoadedExec.state = "Rollback")
                  = (vtState = "RollbackPending" \/ exState = "Rollback")
        /\ LoadedMeta.next = nextSeq

(* A terminal state, once durable with the snapshot of its task, survives  *)
(* every step and every restart (vehicle_task_state.hpp:11).  A migrated   *)
(* task has no snapshot and is checked anew whatever its state.            *)
TerminalIsForever ==
    [][(/\ storedTask # NoRecord /\ storedTask.task # NoTask
        /\ IsTerminalVehicleTask(storedTask.state))
          => storedTask' = storedTask]_vars

(* The durable outbox implements the journal that EventSink promises: a    *)
(* committed event is never lost, renumbered or sent back from accepted.   *)
Logged == [s \in 1..(storedMeta.next - 1) |->
             IF storedEvents[s] = NoRecord THEN 0 ELSE storedEvents[s].event]
Taken == {s \in 1..(storedMeta.next - 1) :
             storedEvents[s] # NoRecord /\ storedEvents[s].status = "ACKED"}
Journal == INSTANCE EventJournal WITH Limit <- OutboxMax, log <- Logged, taken <- Taken
ImplementsJournal == Journal!JournalSpec

-----------------------------------------------------------------------------
(* What holds while the program is not interrupted, and what a power loss  *)
(* breaks.                                                                 *)

(* The executor begins each execution at most once (a retry is a new       *)
(* execution: install_executor.hpp:10, vehicle_task_state.hpp:12).         *)
OneInstallPerExecution == \A k \in 0..MaxPermits : installs[k] <= 1

(* Whenever the executor is being started, the store already holds the     *)
(* granted permit it runs under (comment fota_orchestrator.cpp:497).       *)
InstallUnderSavedPermit ==
    pc \in {"starting", "emitting"}
        => permit # 0 /\ storedExec = [permit |-> permit, state |-> "PermitPersisted"]

(* An execution reported to the cloud as succeeded or rolled back is one   *)
(* the executor has begun (comment fota_orchestrator.cpp:588).             *)
ResultOnlyAfterInstall == \A f \in finals : installs[f.execution] > 0

(* The executor begins only under a permit that is still valid and with    *)
(* the guards passed (comment fota_orchestrator.cpp:506).                  *)
InstallUnderValidPermit ==
    [][installs' # installs => permit \notin expired /\ guardsOk]_vars

(* The final_sequence_no of an accepted final result is the number of the  *)
(* last event, so that the cloud can tell whether it has them all          *)
(* (execution.proto:16): the watermark advanced in memory while the        *)
(* outbox is sent must survive with the records it counts.                 *)
FinalNamesLastEvent ==
    [][\A f \in finals' \ finals : f.last = storedMeta.next - 1]_vars

(* A change of the durable vehicle-task state follows the documented       *)
(* diagram, passing over at most one of its states: step() goes through    *)
(* Downloading and PermitPending in memory only (vehicle_task_state.hpp    *)
(* :11, documentedTransition).                                             *)
SkipsAtMostOneState ==
    [][storedTask # NoRecord =>
         \E mid \in VehicleTaskStates :
             /\ IsValidVehicleTaskTransition(storedTask.state, mid)
             /\ IsValidVehicleTaskTransition(mid, storedTask'.state)]_storedTask

(* A task that is Ready has, for every package, a download record of the   *)
(* revision it asks for ("all stage results accepted",                     *)
(* vehicle_task_state.hpp:26), whatever earlier task left in the store.    *)
ReadyMatchesTask ==
    vtState = "Ready" => \A p \in Packages :
        storedDl[p] # NoRecord /\ storedDl[p].rev = RevisionOf[frozenTask]

(* Every execution or rollback that step() comes upon is eventually        *)
(* concluded: its final result is accepted and the vehicle task leaves     *)
(* Executing, through refusals, lost answers and restarts ("kept for the   *)
(* next step to retry", hpp:13-14).                                        *)
ExecutionConcludes ==
    At("execute") ~> (pc = "saveExec" /\ vtState # "Executing")

(* Every event emit() acknowledged eventually reaches the cloud.           *)
EventsReachCloud ==
    \A e \in 1..(OutboxMax + MaxCrashes) :
        e \in acknowledged ~> \E d \in delivered : d[2] = e
=============================================================================
