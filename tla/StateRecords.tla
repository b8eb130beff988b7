---------------------------- MODULE StateRecords ----------------------------
(***************************************************************************)
(* The records of the inventory.* keys and their versioned envelope, as    *)
(* the serialiser writes, migrates and reads them.                         *)
(*                                                                         *)
(* Times, request ids, retry data and the snapshot body are left out.  The *)
(* five strings of a fingerprint record are one value: not established     *)
(* (all empty), established under the known algorithm and domain, or       *)
(* malformed.                                                              *)
(***************************************************************************)
EXTENDS Envelope

Keys == {"sequence", "last_success", "dedupe", "active_job"}

SchemaVersion == [k \in Keys |-> IF k = "sequence" THEN 1 ELSE 2]

Fingerprints == {"unknown", "sha256", "malformed"}

Phases == {"Accepted", "Collecting", "Assembled", "SubmitPrepared",
           "SubmitUnknown", "RetryWaiting", "CompletedPendingCleanup"}

-----------------------------------------------------------------------------
(* What a missing or older fingerprint record becomes.                     *)
UnknownFingerprints == [fingerprints |-> "unknown"]

MigrateSequence(p) == Fill(p, [schemaVersion |-> 1])

MigrateLastSuccess(p, from) ==
    IF from = 0
    THEN Fill(p, [schemaVersion |-> 1, fingerprint |-> "none"])
    ELSE Put(Fill(Erase(p, "fingerprint"), UnknownFingerprints), [schemaVersion |-> 2])

MigrateEntry(e) == Fill(Erase(e, "fingerprint"), UnknownFingerprints)

MigrateDedupe(p, from) ==
    IF from = 0
    THEN Fill(p, [schemaVersion |-> 1])
    ELSE LET entries == IF "entries" \in DOMAIN p
                        THEN [entries |-> [i \in 1..Len(p.entries) |-> MigrateEntry(p.entries[i])]]
                        ELSE <<>>
         IN  Put(Put(p, entries), [schemaVersion |-> 2])

MigrateActiveJob(p, from) ==
    IF from = 0
    THEN Fill(p, [schemaVersion |-> 1, idempotencyKey |-> "none"])
    ELSE Put(Fill(p, UnknownFingerprints), [schemaVersion |-> 2])

MigrateStep(k, p, from) ==
    CASE k = "sequence"     -> MigrateSequence(p)
      [] k = "last_success" -> MigrateLastSuccess(p, from)
      [] k = "dedupe"       -> MigrateDedupe(p, from)
      [] k = "active_job"   -> MigrateActiveJob(p, from)

Mut_Migrated(k, p, from) ==
    IF from < SchemaVersion[k] THEN MigrateStep(k, p, from) ELSE p

(* The chain vN -> vN+1 up to the version of this binary.                  *)
Migrated(k, p, from) ==
    LET v1 == IF from = 0 THEN MigrateStep(k, p, 0) ELSE p
    IN  IF SchemaVersion[k] = 2 /\ from <= 1 THEN MigrateStep(k, v1, 1) ELSE v1

-----------------------------------------------------------------------------
(* The checks of the decoders, on the migrated payload.                    *)

Required ==
    [k \in Keys |->
        CASE k = "sequence"     -> {"highestAllocated"}
          [] k = "last_success" -> {"reportId", "snapshotSeq", "bodySeq"}
          [] k = "dedupe"       -> {"entries"}
          [] k = "active_job"   -> {"reportId", "snapshotSeq", "phase"}]

FingerprintsOf(p) == IF "fingerprints" \in DOMAIN p THEN p.fingerprints ELSE "unknown"

EntryIsValid(e) ==
    /\ {"reportId", "snapshotSeq"} \subseteq DOMAIN e
    /\ FingerprintsOf(e) # "malformed"

PayloadIsValid(k, p) ==
    /\ "schemaVersion" \in DOMAIN p => p.schemaVersion = SchemaVersion[k]
    /\ Required[k] \subseteq DOMAIN p
    /\ FingerprintsOf(p) # "malformed"
    /\ k = "last_success" => p.bodySeq = p.snapshotSeq
    /\ k = "dedupe" => \A i \in 1..Len(p.entries) : EntryIsValid(p.entries[i])
    /\ k = "active_job" => p.phase \in Phases

IsNewer(k, b) == b.version > SchemaVersion[k]
IsOlder(k, b) == b.version < SchemaVersion[k]

(* decodeXxx(bytes) returns; otherwise it throws StateDecodeError.         *)
Decodes(k, b) ==
    /\ HeaderIsReadable(b)
    /\ ~IsNewer(k, b)
    /\ b.json
    /\ PayloadIsValid(k, Migrated(k, b.payload, b.version))

EntryValue(e) ==
    [reportId |-> e.reportId, snapshotSeq |-> e.snapshotSeq, fingerprints |-> FingerprintsOf(e)]

(* The record decodeXxx(bytes) returns.                                    *)
Decode(k, b) ==
    LET p == Migrated(k, b.payload, b.version)
    IN  CASE k = "sequence"     -> [highestAllocated |-> p.highestAllocated]
          [] k = "last_success" -> EntryValue(p)
          [] k = "dedupe"       -> [entries |-> [i \in 1..Len(p.entries) |-> EntryValue(p.entries[i])]]
          [] k = "active_job"   -> Put(EntryValue(p), [phase |-> p.phase])

(* The payload encodeXxx writes of a record.                               *)
EncodedPayload(k, r) ==
    Put(IF k = "last_success" THEN Put(r, [bodySeq |-> r.snapshotSeq]) ELSE r,
        [schemaVersion |-> SchemaVersion[k]])

Encode(k, r) == Envelope(SchemaVersion[k], EncodedPayload(k, r))
=============================================================================
