--------------------------- MODULE FotaMigration ---------------------------
(***************************************************************************)
(* migrateOtaToFota: the one-time move of the ota.* records of earlier     *)
(* releases to fota.*, with an interruption between any two durable writes *)
(* and its repetition at the next start.                                   *)
(*                                                                         *)
(* A key of fota.* is <<kind>> or <<kind, id>>.  A decimal revision that   *)
(* fits 64 bits is <<"decimal", n>>, any other text <<"text", t>>.         *)
(***************************************************************************)
EXTENDS CloudRecords, Integers, FiniteSets

CONSTANTS
    Stores,        \* what may be in the store at first: [legacy, cloud, marker]
    Missing,       \* a key that is not there
    HashOf         \* FNV-1a, on the texts that are no decimal revision

VARIABLES
    legacy,        \* ota.*: the bytes under each key, or Missing
    cloud,         \* fota.*: the bytes under the keys that are there
    marker,        \* fota.migration_marker: Missing, completed or unreadable
    stage,         \* where migrateOtaToFota stands, "idle" when not called
    at,            \* the old key it is at, by its place in LegacyKeys
    queue,         \* records converted and not yet saved
    meta,          \* the sequence numbers found so far
    first          \* history: the store at first

store == <<legacy, cloud, marker>>
locals == <<stage, at, queue, meta>>
migration == <<store, locals, first>>

LegacyKeys == <<"vehicle_task", "inventory", "consent", "downloads", "execution",
                "event_outbox", "controls", "policy", "log_jobs">>
LegacyKinds == {LegacyKeys[i] : i \in 1..Len(LegacyKeys)}

-----------------------------------------------------------------------------
(* Reading the old records: the fields the decoders insist on.             *)

VehicleTaskNeeds == {"vehicleTaskId", "taskRevision", "targetBaselineId", "vehicleTaskState", "frozenAtMs"}
InventoryNeeds == {"mode", "inventoryRevision", "algorithm", "ecuListDigest", "collectedAtMs"}
ConsentNeeds == {"vehicleTaskId", "effectiveStatus", "receiptId", "receiptExpiresAtMs"}
DownloadNeeds == {"packageId", "packageRevision", "etag", "offset", "verifyStatus", "stageResultId", "stageResultDigest"}
ExecutionNeeds == {"vehicleTaskId", "executionId", "attemptNo", "permitId", "permitToken", "controlRevision",
                   "validUntilMs", "executionState", "acceptedSequenceNo", "nextSequenceNo"}
EventNeeds == {"sequenceNo", "eventId", "eventDigest", "stage", "result", "timestampMs", "payloadSummary",
               "sendStatus", "eventPbHex"}
ControlNeeds == {"controlRevision", "commandType", "applyMode", "expiresAtMs", "reason", "ackStatus",
                 "ackSequenceNo", "appliedAtMs"}
PolicyNeeds == {"basePreferenceVersion", "preferenceVersion"}
LogJobNeeds == {"logRequestId", "objectKey", "digestHex", "sizeBytes", "status", "completedAtMs"}

Needs ==
    [vehicle_task |-> VehicleTaskNeeds, inventory |-> InventoryNeeds, consent |-> ConsentNeeds,
     downloads |-> {"entries"}, execution |-> ExecutionNeeds,
     event_outbox |-> {"nextSequenceNo", "acceptedSequenceNo", "entries"},
     controls |-> {"entries"}, policy |-> PolicyNeeds, log_jobs |-> {"entries"}]

EntryNeeds ==
    [downloads |-> DownloadNeeds, event_outbox |-> EventNeeds, controls |-> ControlNeeds, log_jobs |-> LogJobNeeds]

LegacyDecodes(k, b) ==
    /\ JsonOfVersion(b, 1)
    /\ Needs[k] \subseteq DOMAIN b.payload
    /\ k \in DOMAIN EntryNeeds =>
           \A i \in 1..Len(b.payload.entries) : EntryNeeds[k] \subseteq DOMAIN b.payload.entries[i]

-----------------------------------------------------------------------------
(* The new records: fields under their old name, under a new one, changed, *)
(* or left at their default, as all payloads in the old protocol are.      *)

Mut_RevisionToUint64(r) == IF r[1] = "decimal" THEN r[2] ELSE 0

RevisionToUint64(r) == IF r[1] = "decimal" THEN r[2] ELSE HashOf[r[2]]

AtLeast0(n) == IF n > 0 THEN n ELSE 0

Same(names) == [f \in names |-> f]
Carry(o, sources) ==
    [f \in DOMAIN sources |-> IF sources[f] \in DOMAIN o THEN o[sources[f]] ELSE Default]

ToVehicleTask(o) ==
    Put(Carry(o, Put(Same({"vehicleTaskId", "vehicleTaskState", "frozenAtMs", "localDispositionResult", "superseded"}),
                     [targetBaselineCode |-> "targetBaselineId"])),
        [taskRevision |-> RevisionToUint64(o.taskRevision)])

ToInventory(o) ==
    Put(Carry(o, Put(Same({"mode", "algorithm", "collectedAtMs", "fullRequired"}),
                     [ecuListDigestHex |-> "ecuListDigest"])),
        [inventoryRevision |-> RevisionToUint64(o.inventoryRevision)])

ToConsent(o) ==
    Carry(o, Same({"vehicleTaskId", "effectiveStatus", "receiptId", "receiptExpiresAtMs", "termsId", "termsVersion"}))

ToDownload(o) ==
    Put(Carry(o, Put(Same({"packageId", "packageRevision", "etag", "credentialExpiresAtMs", "verifyStatus",
                           "stageResultId", "ready"}),
                     [stageResultDigestHex |-> "stageResultDigest"])),
        [currentOffsetBytes |-> AtLeast0(o.offset), offsetScope |-> "STORED_OBJECT"])

ToExecution(o) ==
    Put(Carry(o, Same({"vehicleTaskId", "executionId", "attemptNo", "permitId", "permitToken", "validUntilMs",
                       "executionState", "installPlanVersion"})),
        [controlRevision |-> RevisionToUint64(o.controlRevision)])

ToEvent(o) ==
    Carry(o, Put(Same({"sequenceNo", "eventId", "stage", "payloadSummary", "sendStatus"}),
                 [eventDigestHex |-> "eventDigest", eventStatus |-> "result", progress |-> "progressPercent",
                  occurredAtMs |-> "timestampMs"]))

MapControlAction(a) == IF a = "RESUME" THEN "CONTINUE" ELSE a
MapApplyMode(m) == IF m = "IMMEDIATE" THEN "IMMEDIATE_IF_SAFE" ELSE m

ToControl(o) ==
    Put(Carry(o, Same({"expiresAtMs", "reason", "ackStatus", "ackSequenceNo", "appliedAtMs"})),
        [controlRevision |-> RevisionToUint64(o.controlRevision), action |-> MapControlAction(o.commandType),
         scope |-> "EXECUTION", applyMode |-> MapApplyMode(o.applyMode)])

ToPolicy(o) == Carry(o, Same({"basePreferenceVersion", "preferenceVersion", "conflict"}))

ToLogJob(o) ==
    Put(Carry(o, Same({"logRequestId", "objectKey", "digestHex", "status", "completedAtMs"})),
        [sizeBytes |-> AtLeast0(o.sizeBytes)])

(* The saves one old key leads to, in their order.                         *)
Save(kind, key, r) == <<key, CloudEncode(kind, r)>>

MetaKey == <<"event_outbox_meta">>
FreshMeta == [nextSequenceNo |-> 1, acceptedSequenceNo |-> 0]
MetaOf(p) == [nextSequenceNo |-> p.nextSequenceNo, acceptedSequenceNo |-> p.acceptedSequenceNo]

SavesOf(k, p) ==
    LET each(save(_)) == [i \in 1..Len(p.entries) |-> save(p.entries[i])]
    IN  CASE k = "vehicle_task" -> <<Save(k, <<k>>, ToVehicleTask(p))>>
          [] k = "inventory"    -> <<Save(k, <<k>>, ToInventory(p))>>
          [] k = "consent"      -> <<Save(k, <<k>>, ToConsent(p))>>
          [] k = "execution"    -> <<Save(k, <<k>>, ToExecution(p))>>
          [] k = "policy"       -> <<Save(k, <<k>>, ToPolicy(p))>>
          [] k = "downloads"    -> each(LAMBDA e : Save(k, <<k, e.packageId>>, ToDownload(e)))
          [] k = "event_outbox" -> each(LAMBDA e : Save(k, <<k, e.sequenceNo>>, ToEvent(e)))
          [] k = "controls"     -> each(LAMBDA e : Save(k, <<k, RevisionToUint64(e.controlRevision)>>, ToControl(e)))
          [] k = "log_jobs"     -> each(LAMBDA e : Save(k, <<k, e.logRequestId>>, ToLogJob(e)))

-----------------------------------------------------------------------------
(* migrateOtaToFota.  An exception ends it, and the process, at once.      *)

NoLegacy == \A k \in LegacyKinds : legacy[k] = Missing

Throws == stage' = "idle" /\ UNCHANGED <<store, at, queue, meta, first>>

Begin ==
    /\ stage = "idle"
    /\ stage' = "detect"
    /\ UNCHANGED <<store, at, queue, meta, first>>

Mut_Detect ==
    /\ stage = "detect"
    /\ stage' = IF NoLegacy THEN "done" ELSE "convert"
    /\ at' = 1 /\ queue' = <<>> /\ meta' = FreshMeta
    /\ UNCHANGED <<store, first>>

(* No old key: nothing to do, whatever the marker.  A completed marker:    *)
(* only the clean-up of an earlier call is left.                           *)
Detect ==
    /\ stage = "detect"
    /\ \/ /\ NoLegacy
          /\ stage' = "done"
       \/ /\ ~NoLegacy /\ marker # "unreadable"
          /\ stage' = IF marker = "completed" THEN "clean" ELSE "convert"
       \/ /\ ~NoLegacy /\ marker = "unreadable"
          /\ stage' = "idle"
    /\ at' = 1 /\ queue' = <<>> /\ meta' = FreshMeta
    /\ UNCHANGED <<store, first>>

(* The sequence numbers of the outbox take precedence over those of the    *)
(* execution; they are saved after the events, found or not.               *)
Convert ==
    LET k == LegacyKeys[at]
        p == legacy[k].payload
        saves == IF legacy[k] = Missing THEN <<>> ELSE SavesOf(k, p)
    IN  /\ stage = "convert" /\ queue = <<>> /\ at <= Len(LegacyKeys)
        /\ IF legacy[k] # Missing /\ ~LegacyDecodes(k, legacy[k])
           THEN Throws
           ELSE /\ meta' = IF legacy[k] # Missing /\ k \in {"execution", "event_outbox"}
                           THEN MetaOf(p) ELSE meta
                /\ queue' = IF k = "event_outbox"
                            THEN Append(saves, Save("event_outbox_meta", MetaKey, meta')) ELSE saves
                /\ at' = at + 1
                /\ UNCHANGED <<store, stage, first>>

SaveRecord ==
    /\ stage = "convert" /\ queue # <<>>
    /\ LET save == Head(queue)
       IN  cloud' = [key \in DOMAIN cloud \cup {save[1]} |-> IF key = save[1] THEN save[2] ELSE cloud[key]]
    /\ queue' = Tail(queue)
    /\ UNCHANGED <<legacy, marker, stage, at, meta, first>>

(* The records with a key of their own are read back.                      *)
Check ==
    /\ stage = "convert" /\ queue = <<>> /\ at > Len(LegacyKeys)
    /\ IF \A kind \in {"vehicle_task", "inventory", "consent", "execution", "event_outbox_meta", "policy"} :
             <<kind>> \in DOMAIN cloud => CloudDecodes(kind, cloud[<<kind>>])
       THEN stage' = "mark" /\ UNCHANGED <<store, at, queue, meta, first>>
       ELSE Throws

Mut_Mark ==
    /\ stage = "mark"
    /\ stage' = "clean" /\ at' = 1
    /\ UNCHANGED <<store, queue, meta, first>>

Mark ==
    /\ stage = "mark"
    /\ marker' = "completed"
    /\ stage' = "clean" /\ at' = 1
    /\ UNCHANGED <<legacy, cloud, queue, meta, first>>

RemoveLegacy ==
    /\ stage = "clean" /\ at <= Len(LegacyKeys)
    /\ legacy' = [legacy EXCEPT ![LegacyKeys[at]] = Missing]
    /\ at' = at + 1
    /\ UNCHANGED <<cloud, marker, stage, queue, meta, first>>

Mut_Finish ==
    /\ stage = "clean" /\ at >= Len(LegacyKeys)
    /\ stage' = "done"
    /\ UNCHANGED <<store, at, queue, meta, first>>

Finish ==
    /\ stage = "clean" /\ at > Len(LegacyKeys)
    /\ stage' = "done"
    /\ UNCHANGED <<store, at, queue, meta, first>>

(* A power loss, or an operation of the store that throws, before or after *)
(* it took effect.                                                         *)
Interrupted ==
    /\ stage # "idle"
    /\ Throws

MigrationInit ==
    \E s \in Stores :
        /\ first = s
        /\ legacy = s.legacy /\ cloud = s.cloud /\ marker = s.marker
        /\ stage = "idle" /\ at = 1 /\ queue = <<>> /\ meta = FreshMeta

MigrationStep ==
    Detect \/ Convert \/ SaveRecord \/ Check \/ Mark \/ RemoveLegacy \/ Finish

MigrationNext == Begin \/ MigrationStep \/ Interrupted

MigrationSpec == MigrationInit /\ [][MigrationNext]_migration

-----------------------------------------------------------------------------
(* No old record is removed before the completed marker is durable: an     *)
(* interrupted migration always finds everything it started from           *)
(* (fota_state_migration.hpp, "old keys are not deleted before the marker",*)
(* steps 3 and 6).                                                         *)
LegacyKeptUntilMarked == marker # "completed" => legacy = first.legacy

(* The result of an uninterrupted call on the first store.                 *)
FirstHas(k) == first.legacy[k] # Missing

AllSaves ==
    LET of(k) == IF FirstHas(k) THEN SavesOf(k, first.legacy[k].payload) ELSE <<>>
        found == IF FirstHas("event_outbox") THEN MetaOf(first.legacy["event_outbox"].payload)
                 ELSE IF FirstHas("execution") THEN MetaOf(first.legacy["execution"].payload)
                 ELSE FreshMeta
    IN  of("vehicle_task") \o of("inventory") \o of("consent") \o of("downloads") \o of("execution")
        \o of("event_outbox") \o <<Save("event_outbox_meta", MetaKey, found)>>
        \o of("controls") \o of("policy") \o of("log_jobs")

ToMigrate == (\E k \in LegacyKinds : FirstHas(k)) /\ first.marker # "completed"

(* Later saves replace earlier ones under the same key.                    *)
Expected ==
    IF ~ToMigrate THEN first.cloud
    ELSE LET saves == AllSaves
             keys == {saves[i][1] : i \in 1..Len(saves)}
             last(key) == CHOOSE i \in 1..Len(saves) :
                             /\ saves[i][1] = key
                             /\ \A j \in (i + 1)..Len(saves) : saves[j][1] # key
         IN  [key \in keys \cup DOMAIN first.cloud |->
                 IF key \in keys THEN saves[last(key)][2] ELSE first.cloud[key]]
=============================================================================
