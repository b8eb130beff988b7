--------------------------- MODULE RecordUpgrades ---------------------------
(***************************************************************************)
(* What an upgrade makes of the inventory.* records that earlier releases  *)
(* of the format wrote.                                                    *)
(***************************************************************************)
EXTENDS SnapshotStore

CONSTANT Records   \* for each key, records to write and read

(* The values the decoders return.                                         *)
IsEntry(e) == e = EntryValue(e) /\ e.fingerprints # "malformed"

IsRecord(k, r) ==
    \/ k = "sequence" /\ r = [highestAllocated |-> r.highestAllocated]
    \/ k = "last_success" /\ IsEntry(r)
    \/ /\ k = "dedupe" /\ r = [entries |-> r.entries] /\ IsList(r.entries)
       /\ r.entries = [i \in 1..Len(r.entries) |-> EntryValue(r.entries[i])]
       /\ \A i \in 1..Len(r.entries) : IsEntry(r.entries[i])
    \/ /\ k = "active_job" /\ r = Put(EntryValue(r), [phase |-> r.phase])
       /\ r.fingerprints # "malformed" /\ r.phase \in Phases

ASSUME RecordsAssumption ==
    \A k \in Keys : \A r \in Records[k] :
        IsRecord(k, r) /\ (k = "last_success" => r.snapshotSeq \in Nat)

(* What release v of the format wrote of a record (the fixtures of         *)
(* tests/test_fota_state_serializer.cpp and                                *)
(* tests/test_fingerprint_store_migration.cpp).                            *)
LegacyEntry(v, e) ==
    LET bare == Erase(e, "fingerprints")
    IN  IF v = 2 THEN e ELSE IF v = 1 THEN Put(bare, [fingerprint |-> "legacy"]) ELSE bare

LegacyPayload(k, v, r) ==
    LET versioned == IF v = 0 THEN <<>> ELSE [schemaVersion |-> v]
        body == CASE k = "sequence" -> r
                  [] k = "dedupe" -> [entries |-> [i \in 1..Len(r.entries) |-> LegacyEntry(v, r.entries[i])]]
                  [] k = "last_success" -> Put(LegacyEntry(v, r), [bodySeq |-> r.snapshotSeq])
                  [] k = "active_job" -> IF v = 2 THEN r ELSE Erase(r, "fingerprints")
    IN  Put(body, versioned)

Legacy(k, v, r) == Envelope(v, LegacyPayload(k, v, r))

Damaged(b) == [b EXCEPT !.wellFormed = FALSE]
Newer(b) == [b EXCEPT !.version = 3]
NotJson(b) == [b EXCEPT !.json = FALSE]

Forget(k, r) ==
    CASE k = "sequence" -> r
      [] k = "dedupe" -> [entries |-> [i \in 1..Len(r.entries) |-> Put(r.entries[i], UnknownFingerprints)]]
      [] OTHER -> Put(r, UnknownFingerprints)

(* "Chained pure migrations" (fota_state_serializer.hpp): a record any     *)
(* earlier release wrote is read with its content, its fingerprints        *)
(* unknown before version 2; what this release writes reads back; what is  *)
(* damaged, newer, for a newer reader or inconsistent is refused.          *)
SurvivesUpgrade(k, r) ==
    /\ Decodes(k, Encode(k, r)) /\ Decode(k, Encode(k, r)) = r
    /\ \A v \in 0..SchemaVersion[k] :
         LET b == Legacy(k, v, r)
             bad == {Damaged(b), Newer(b), NotJson(b), [b EXCEPT !.minReader = 3]}
         IN  /\ Decodes(k, b)
             /\ Decode(k, b) = IF v = SchemaVersion[k] THEN r ELSE Forget(k, r)
             /\ \A c \in bad : ~Decodes(k, c)
             /\ k = "last_success" => ~Decodes(k, [b EXCEPT !.payload.bodySeq = r.snapshotSeq + 1])
             /\ k = "active_job" => ~Decodes(k, [b EXCEPT !.payload.phase = "Unknown"])

(* Every record survives the upgrade of the format.  No step changes that: *)
(* it is evaluated before the first boot.                                  *)
RecordsSurviveUpgrade ==
    boots = 0 => \A k \in Keys : \A r \in Records[k] : SurvivesUpgrade(k, r)
=============================================================================
