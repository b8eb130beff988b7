------------------------ MODULE SnapshotStoreProofs ------------------------
(***************************************************************************)
(* What the records of the inventory guarantee on any first store, with    *)
(* any number of boots, power losses and failing store operations.         *)
(***************************************************************************)
EXTENDS RecordUpgrades, SequenceTheorems, FiniteSetTheorems, TLAPS

(* A key that is not there holds no envelope.                              *)
MissingIsNoEnvelope == \A v, p : Envelope(v, p) # Missing

(* The number in the sequence record covers the first store's and all that *)
(* were handed out, and is above them while one is on its way out.         *)
SequenceInv ==
    /\ disk = [k \in Keys |-> disk[k]]
    /\ HighestAllocated \in Nat /\ FirstHighest \in Nat
    /\ issued \in Seq(Nat)
    /\ NumbersAreFresh
    /\ IssuedIsDurable
    /\ FirstHighest <= HighestAllocated
    /\ asm = "allocated" =>
           /\ Readable("sequence") /\ FirstHighest < HighestAllocated
           /\ \A i \in 1..Len(issued) : issued[i] < HighestAllocated

-----------------------------------------------------------------------------
LEMMA KeysAre ==
    /\ Keys = {"sequence", "last_success", "dedupe", "active_job"}
    /\ Len(KeyOrder) = 4
    /\ \A i \in 1..4 : KeyOrder[i] \in Keys
    /\ KeyOrder[1] = "sequence" /\ KeyOrder[2] = "last_success"
    /\ KeyOrder[3] = "dedupe" /\ KeyOrder[4] = "active_job"
BY DEF Keys, KeyOrder

LEMMA Versions == \A k \in Keys : SchemaVersion[k] = IF k = "sequence" THEN 1 ELSE 2
BY DEF SchemaVersion

-----------------------------------------------------------------------------
(***************************************************************************)
(* What the decoders return, and what the encoders make of it.             *)
(***************************************************************************)
LEMMA EntryFields ==
    ASSUME NEW e
    PROVE  LET v == EntryValue(e)
           IN  /\ DOMAIN v = {"reportId", "snapshotSeq", "fingerprints"}
               /\ v.reportId = e.reportId /\ v.snapshotSeq = e.snapshotSeq
               /\ v.fingerprints = FingerprintsOf(e) /\ FingerprintsOf(v) = FingerprintsOf(e)
               /\ EntryValue(v) = v
BY DEF EntryValue, FingerprintsOf

LEMMA EntryIsRead ==
    ASSUME NEW e, FingerprintsOf(e) # "malformed"
    PROVE  IsEntry(EntryValue(e))
BY EntryFields DEF IsEntry

(* What a decoder returns is a record of its kind.                         *)
LEMMA RecordIsRead ==
    ASSUME NEW k \in Keys, NEW b, Decodes(k, b), k = "dedupe" => IsList(Decode(k, b).entries)
    PROVE  IsRecord(k, Decode(k, b))
<1> SUFFICES ASSUME NEW r, r = Decode(k, b) PROVE IsRecord(k, r)
    OBVIOUS
<1> DEFINE p == Migrated(k, b.payload, b.version)
<1>1. PayloadIsValid(k, p) /\ FingerprintsOf(p) # "malformed"
    BY DEF Decodes, PayloadIsValid
<1> HIDE DEF p
<1>2. CASE k = "sequence"
  <2>1. r = [highestAllocated |-> p.highestAllocated]
      BY <1>2 DEF Decode, p
  <2> QED
      BY <1>2, <2>1 DEF IsRecord
<1>3. CASE k = "last_success"
  <2>1. r = EntryValue(p)
      BY <1>3 DEF Decode, p
  <2> QED
      BY <1>1, <1>3, <2>1, EntryIsRead DEF IsRecord
<1>4. CASE k = "dedupe"
  <2>1. r = [entries |-> [i \in 1..Len(p.entries) |-> EntryValue(p.entries[i])]] /\ IsList(r.entries)
      BY <1>4 DEF Decode, p
  <2>2. \A i \in 1..Len(p.entries) : FingerprintsOf(p.entries[i]) # "malformed"
      BY <1>1, <1>4 DEF PayloadIsValid, EntryIsValid
  <2>3. r.entries = [i \in 1..Len(p.entries) |-> EntryValue(p.entries[i])] /\ r = [entries |-> r.entries]
      BY <2>1
  <2>4. 1..Len(r.entries) = 1..Len(p.entries)
      BY <2>1, <2>3 DEF IsList
  <2>5. \A i \in 1..Len(r.entries) : IsEntry(r.entries[i]) /\ EntryValue(r.entries[i]) = r.entries[i]
      BY <2>2, <2>3, <2>4, EntryIsRead, EntryFields
  <2>6. r.entries = [i \in 1..Len(r.entries) |-> EntryValue(r.entries[i])]
      BY <2>3, <2>4, <2>5
  <2> QED
      BY <1>4, <2>1, <2>3, <2>5, <2>6 DEF IsRecord
<1>5. CASE k = "active_job"
  <2>1. r = Put(EntryValue(p), [phase |-> p.phase]) /\ p.phase \in Phases
      BY <1>1, <1>5 DEF Decode, p, PayloadIsValid
  <2>2. /\ DOMAIN r = {"reportId", "snapshotSeq", "fingerprints", "phase"}
        /\ r.reportId = p.reportId /\ r.snapshotSeq = p.snapshotSeq
        /\ r.fingerprints = FingerprintsOf(p) /\ r.phase = p.phase
      BY <2>1, EntryFields DEF Put, Fill
  <2>3. EntryValue(r) = EntryValue(p)
      BY <2>2 DEF EntryValue, FingerprintsOf
  <2> QED
      BY <1>1, <1>5, <2>1, <2>2, <2>3 DEF IsRecord
<1> QED
    BY <1>2, <1>3, <1>4, <1>5 DEF Keys

(* What an encoder writes of a record is of the current version, and the   *)
(* decoder returns the record.                                             *)
LEMMA EncodedPayloadIs ==
    ASSUME NEW k \in Keys, NEW r, IsRecord(k, r)
    PROVE  LET p == EncodedPayload(k, r)
           IN  /\ p.schemaVersion = SchemaVersion[k]
               /\ k = "sequence" =>
                      DOMAIN p = {"schemaVersion", "highestAllocated"} /\ p.highestAllocated = r.highestAllocated
               /\ k = "dedupe" => DOMAIN p = {"schemaVersion", "entries"} /\ p.entries = r.entries
               /\ k \in {"last_success", "active_job"} =>
                      /\ {"reportId", "snapshotSeq", "fingerprints"} \subseteq DOMAIN p
                      /\ p.reportId = r.reportId /\ p.snapshotSeq = r.snapshotSeq
                      /\ p.fingerprints = r.fingerprints
               /\ k = "last_success" => "bodySeq" \in DOMAIN p /\ p.bodySeq = r.snapshotSeq
               /\ k = "active_job" => "phase" \in DOMAIN p /\ p.phase = r.phase
<1> DEFINE p == EncodedPayload(k, r)
<1>1. CASE k = "sequence"
  <2>1. r = [highestAllocated |-> r.highestAllocated]
      BY <1>1 DEF IsRecord
  <2> QED
      BY <1>1, <2>1 DEF EncodedPayload, Put, Fill
<1>2. CASE k = "dedupe"
  <2>1. r = [entries |-> r.entries]
      BY <1>2 DEF IsRecord
  <2> QED
      BY <1>2, <2>1 DEF EncodedPayload, Put, Fill
<1>3. CASE k = "last_success"
  <2>1. DOMAIN r = {"reportId", "snapshotSeq", "fingerprints"}
      BY <1>3, EntryFields DEF IsRecord, IsEntry
  <2> DEFINE q == Put(r, [bodySeq |-> r.snapshotSeq])
  <2>2. /\ DOMAIN q = {"reportId", "snapshotSeq", "fingerprints", "bodySeq"} /\ q.bodySeq = r.snapshotSeq
        /\ q.reportId = r.reportId /\ q.snapshotSeq = r.snapshotSeq /\ q.fingerprints = r.fingerprints
      BY <2>1 DEF Put, Fill
  <2>3. p = Put(q, [schemaVersion |-> SchemaVersion[k]])
      BY <1>3 DEF EncodedPayload
  <2> HIDE DEF q
  <2> QED
      BY <1>3, <2>2, <2>3 DEF Put, Fill
<1>4. CASE k = "active_job"
  <2>1. DOMAIN r = {"reportId", "snapshotSeq", "fingerprints", "phase"}
      BY <1>4, EntryFields DEF IsRecord, Put, Fill
  <2>2. p = Put(r, [schemaVersion |-> SchemaVersion[k]])
      BY <1>4 DEF EncodedPayload
  <2> QED
      BY <1>4, <2>1, <2>2 DEF Put, Fill
<1> QED
    BY <1>1, <1>2, <1>3, <1>4 DEF Keys

LEMMA ReadsBack ==
    ASSUME NEW k \in Keys, NEW r, IsRecord(k, r)
    PROVE  /\ Decodes(k, Encode(k, r)) /\ Decode(k, Encode(k, r)) = r
           /\ Encode(k, r).version = SchemaVersion[k] /\ ~IsOlder(k, Encode(k, r))
<1> DEFINE p == EncodedPayload(k, r)
           b == Encode(k, r)
<1>1. /\ b.wellFormed = TRUE /\ b.minReader = 0 /\ b.version = SchemaVersion[k] /\ b.json = TRUE
      /\ b.payload = p
    BY DEF Encode, Envelope, MinReaderVersion
<1>2. SchemaVersion[k] \in {1, 2} /\ (k = "sequence" <=> SchemaVersion[k] = 1)
    BY Versions
<1>3. Migrated(k, b.payload, b.version) = p
    BY <1>1, <1>2, Versions DEF Migrated
<1>4. PayloadIsValid(k, p) /\ Decode(k, b) = r
  <2>1. CASE k = "sequence"
    <3>1. r = [highestAllocated |-> r.highestAllocated]
        BY <2>1 DEF IsRecord
    <3>2. FingerprintsOf(p) = "unknown"
        BY <2>1, EncodedPayloadIs DEF FingerprintsOf
    <3>3. PayloadIsValid(k, p)
        BY <2>1, <3>2, EncodedPayloadIs DEF PayloadIsValid, Required
    <3>4. Decode(k, b) = [highestAllocated |-> p.highestAllocated]
        BY <1>3, <2>1 DEF Decode
    <3> QED
        BY <2>1, <3>1, <3>3, <3>4, EncodedPayloadIs
  <2>2. CASE k = "last_success"
    <3>1. r = EntryValue(r) /\ r.fingerprints # "malformed" /\ FingerprintsOf(p) = r.fingerprints
        BY <2>2, EncodedPayloadIs DEF IsRecord, IsEntry, FingerprintsOf
    <3>2. PayloadIsValid(k, p)
        BY <2>2, <3>1, EncodedPayloadIs DEF PayloadIsValid, Required
    <3>3. Decode(k, b) = EntryValue(p)
        BY <1>3, <2>2 DEF Decode
    <3>4. EntryValue(p) = EntryValue(r)
        BY <2>2, <3>1, EncodedPayloadIs, EntryFields DEF EntryValue
    <3> QED
        BY <3>1, <3>2, <3>3, <3>4
  <2>3. CASE k = "dedupe"
    <3>1. /\ r = [entries |-> r.entries] /\ p.entries = r.entries
          /\ r.entries = [i \in 1..Len(r.entries) |-> EntryValue(r.entries[i])]
          /\ \A i \in 1..Len(r.entries) : IsEntry(r.entries[i])
        BY <2>3, EncodedPayloadIs DEF IsRecord
    <3>2. FingerprintsOf(p) = "unknown"
        BY <2>3, EncodedPayloadIs DEF FingerprintsOf
    <3>3. ASSUME NEW i \in 1..Len(r.entries) PROVE EntryIsValid(r.entries[i])
      <4>1. IsEntry(r.entries[i])
          BY <3>1
      <4> QED
          BY <4>1, EntryFields DEF IsEntry, EntryIsValid, FingerprintsOf
    <3>4. PayloadIsValid(k, p)
        BY <2>3, <3>1, <3>2, <3>3, EncodedPayloadIs DEF PayloadIsValid, Required
    <3>5. Decode(k, b) = [entries |-> [i \in 1..Len(p.entries) |-> EntryValue(p.entries[i])]]
        BY <1>3, <2>3 DEF Decode
    <3> QED
        BY <3>1, <3>4, <3>5
  <2>4. CASE k = "active_job"
    <3>1. /\ r = Put(EntryValue(r), [phase |-> r.phase]) /\ r.phase \in Phases
          /\ r.fingerprints # "malformed"
        BY <2>4 DEF IsRecord
    <3>2. FingerprintsOf(p) = r.fingerprints
        BY <2>4, EncodedPayloadIs DEF FingerprintsOf
    <3>3. PayloadIsValid(k, p)
        BY <2>4, <3>1, <3>2, EncodedPayloadIs DEF PayloadIsValid, Required
    <3>4. Decode(k, b) = Put(EntryValue(p), [phase |-> p.phase])
        BY <1>3, <2>4 DEF Decode
    <3>5. DOMAIN r = {"reportId", "snapshotSeq", "fingerprints", "phase"}
        BY <3>1, EntryFields DEF Put, Fill
    <3>6. EntryValue(p) = EntryValue(r)
        BY <2>4, <3>2, <3>5, EncodedPayloadIs DEF EntryValue, FingerprintsOf
    <3> QED
        BY <2>4, <3>1, <3>3, <3>4, <3>6, EncodedPayloadIs
  <2> QED
      BY <2>1, <2>2, <2>3, <2>4 DEF Keys
<1>5. Decodes(k, b)
    BY <1>1, <1>2, <1>3, <1>4 DEF Decodes, HeaderIsReadable, IsNewer, WriterVersion
<1> QED
    BY <1>1, <1>2, <1>4, <1>5 DEF IsOlder

LEMMA SequenceReadsBack ==
    ASSUME NEW n
    PROVE  LET b == Encode("sequence", [highestAllocated |-> n])
           IN  Decodes("sequence", b) /\ Decode("sequence", b).highestAllocated = n
BY ReadsBack, KeysAre DEF IsRecord

(***************************************************************************)
(* Who writes what: a step leaves the store alone, rewrites a record with  *)
(* its own content, takes the next number, replaces the dedupe window or   *)
(* removes the job.                                                        *)
(***************************************************************************)
Rewritten(k) == Readable(k) /\ disk' = [disk EXCEPT ![k] = Encode(k, Record(k))]
Numbered == MayAllocate /\ disk' = [disk EXCEPT !["sequence"] = NextSequence]
NewWindow(lost) == [entries |-> Evicted(Append(DedupeWindow(lost), Record("last_success")))]
Windowed == \E lost \in BOOLEAN : disk' = [disk EXCEPT !["dedupe"] = Encode("dedupe", NewWindow(lost))]
Cleaned == disk' = [disk EXCEPT !["active_job"] = Missing]

LEMMA Writers ==
    ASSUME [Next]_vars
    PROVE  \/ disk' = disk
           \/ pc = "rewrite" /\ Rewritten(KeyOrder[at])
           \/ asm = "allocate" /\ Numbered
           \/ pc = "dedupe" /\ Windowed
           \/ pc = "cleanup" /\ Cleaned
<1>1. CASE UNCHANGED vars \/ Boot \/ StopsNow \/ OpenFails \/ CheckKey \/ VerifyKey \/ Recover
    BY <1>1 DEF vars, stored, Boot, StopsNow, OpenFails, CheckKey, VerifyKey, Recover
<1>2. CASE BeginAssemble \/ DiagFails \/ DiagAnswers \/ HandOut \/ IntervalPasses
    BY <1>2 DEF stored, BeginAssemble, DiagFails, DiagAnswers, HandOut, IntervalPasses
<1>3. CASE RewriteKey
    BY <1>3 DEF RewriteKey, Saved, SaveFails, Rewritten
<1>4. CASE ReconcileDedupe
    BY <1>4 DEF ReconcileDedupe, Saved, SaveFails, Windowed, NewWindow
<1>5. CASE ReconcileCleanup
    BY <1>5 DEF ReconcileCleanup, Saved, SaveFails, Cleaned
<1>6. CASE AllocateBlocked \/ AllocateSaves
    BY <1>6 DEF AllocateBlocked, AllocateSaves, Saved, SaveFails, Numbered
<1> QED
    BY <1>1, <1>2, <1>3, <1>4, <1>5, <1>6 DEF Next

LEMMA PlaceStays ==
    ASSUME at \in 1..4, [Next]_vars
    PROVE  at' \in 1..4
<1>1. Len(KeyOrder) = 4
    BY KeysAre
<1>2. NextKey => at' \in 1..4
    BY <1>1 DEF NextKey
<1>3. at' = at \/ at' = 1 \/ NextKey
  <2>1. CASE UNCHANGED vars \/ Boot \/ StopsNow \/ OpenFails \/ VerifyKey \/ Recover \/ ReconcileDedupe \/ ReconcileCleanup
      BY <2>1 DEF vars, process, Boot, StopsNow, OpenFails, VerifyKey, Recover, ReconcileDedupe, ReconcileCleanup
  <2>2. CASE BeginAssemble \/ DiagFails \/ DiagAnswers \/ HandOut \/ IntervalPasses \/ AllocateBlocked \/ AllocateSaves
      BY <2>2 DEF process, BeginAssemble, DiagFails, DiagAnswers, HandOut, IntervalPasses, AllocateBlocked, AllocateSaves
  <2>3. CASE CheckKey
      BY <2>3 DEF CheckKey, BackUp
  <2>4. CASE RewriteKey
      BY <2>4 DEF RewriteKey
  <2> QED
      BY <2>1, <2>2, <2>3, <2>4 DEF Next
<1> QED
    BY <1>2, <1>3

-----------------------------------------------------------------------------
LEMMA SequenceWritten ==
    ASSUME MissingIsNoEnvelope, NEW n \in Nat, disk = [k \in Keys |-> disk[k]],
           disk' = [disk EXCEPT !["sequence"] = Encode("sequence", [highestAllocated |-> n])]
    PROVE  /\ disk' = [k \in Keys |-> disk'[k]]
           /\ Readable("sequence")' /\ HighestAllocated' = n
<1> DEFINE b == Encode("sequence", [highestAllocated |-> n])
<1>1. disk' = [k \in Keys |-> disk'[k]] /\ disk'["sequence"] = b
    BY KeysAre
<1>2. Decodes("sequence", b) /\ Decode("sequence", b).highestAllocated = n /\ b # Missing
    BY SequenceReadsBack DEF MissingIsNoEnvelope, Encode
<1> HIDE DEF b
<1>3. Readable("sequence")'
    BY <1>1, <1>2 DEF Readable, Exists
<1>4. HighestAllocated' = n
    BY <1>1, <1>2, <1>3 DEF HighestAllocated, Record
<1> QED
    BY <1>1, <1>3, <1>4

(* No step takes the sequence record back.                                 *)
LEMMA SequenceGrows ==
    ASSUME MissingIsNoEnvelope, disk = [k \in Keys |-> disk[k]], HighestAllocated \in Nat, at \in 1..4, [Next]_vars
    PROVE  /\ disk' = [k \in Keys |-> disk'[k]]
           /\ Readable("sequence") => Readable("sequence")'
           /\ HighestAllocated' \in Nat /\ HighestAllocated <= HighestAllocated'
<1> DEFINE Same == disk' = [k \in Keys |-> disk'[k]] /\ disk'["sequence"] = disk["sequence"]
<1>1. ASSUME Same
      PROVE  /\ disk' = [k \in Keys |-> disk'[k]]
             /\ Readable("sequence")' = Readable("sequence") /\ HighestAllocated' = HighestAllocated
    BY <1>1 DEF Readable, Exists, HighestAllocated, Record
<1>2. CASE disk' = disk
    BY <1>1, <1>2
<1>3. CASE Rewritten(KeyOrder[at])
  <2> DEFINE k == KeyOrder[at]
  <2>1. k \in Keys
      BY KeysAre
  <2>2. CASE k # "sequence"
    <3>1. Same
        BY <1>3, <2>1, <2>2 DEF Rewritten
    <3> QED
        BY <3>1, <1>1
  <2>3. CASE k = "sequence"
    <3>1. Record("sequence") = [highestAllocated |-> HighestAllocated]
        BY <1>3, <2>3 DEF Rewritten, HighestAllocated, Record, Decode
    <3>2. disk' = [disk EXCEPT !["sequence"] = Encode("sequence", [highestAllocated |-> HighestAllocated])]
        BY <1>3, <2>3, <3>1 DEF Rewritten
    <3> QED
        BY <3>2, SequenceWritten
  <2> QED
      BY <2>2, <2>3
<1>4. CASE Numbered
  <2>1. disk' = [disk EXCEPT !["sequence"] = Encode("sequence", [highestAllocated |-> HighestAllocated + 1])]
      BY <1>4 DEF Numbered, NextSequence
  <2>2. HighestAllocated + 1 \in Nat
      OBVIOUS
  <2>3. Readable("sequence")' /\ HighestAllocated' = HighestAllocated + 1 /\ disk' = [k \in Keys |-> disk'[k]]
      BY <2>1, <2>2, SequenceWritten
  <2> QED
      BY <2>3
<1>5. CASE Windowed \/ Cleaned
  <2>1. Same
      BY <1>5, KeysAre DEF Windowed, Cleaned
  <2> QED
      BY <2>1, <1>1
<1> QED
    BY <1>2, <1>3, <1>4, <1>5, Writers

LEMMA SequenceInit == Init => SequenceInv /\ at \in 1..4
<1> SUFFICES ASSUME Init PROVE SequenceInv /\ at \in 1..4
    OBVIOUS
<1>1. disk \in Stores /\ first = disk /\ issued = <<>> /\ asm = "idle" /\ at = 1
    BY DEF Init
<1>2. disk = [k \in Keys |-> disk[k]]
    BY <1>1, StoreAssumption
<1>3. HighestAllocated \in Nat /\ FirstHighest = HighestAllocated
    BY <1>1, StoreAssumption DEF HighestAllocated, FirstHighest, FirstReads, Readable, Exists, Record
<1> QED
    BY <1>1, <1>2, <1>3 DEF SequenceInv, NumbersAreFresh, IssuedIsDurable

LEMMA SequenceStep ==
    ASSUME MissingIsNoEnvelope, SequenceInv, at \in 1..4, [Next]_vars
    PROVE  SequenceInv'
<1>1. /\ disk' = [k \in Keys |-> disk'[k]]
      /\ Readable("sequence") => Readable("sequence")'
      /\ HighestAllocated' \in Nat /\ HighestAllocated <= HighestAllocated'
    BY SequenceGrows DEF SequenceInv
<1>2. FirstHighest' = FirstHighest
    BY DEF Next, vars, Boot, StopsNow, OpenFails, CheckKey, RewriteKey, VerifyKey, Recover, ReconcileDedupe,
       ReconcileCleanup, BeginAssemble, DiagFails, DiagAnswers, AllocateBlocked, AllocateSaves, HandOut,
       IntervalPasses, FirstHighest, FirstReads
<1>3. /\ HighestAllocated \in Nat /\ FirstHighest \in Nat /\ issued \in Seq(Nat)
      /\ FirstHighest <= HighestAllocated
      /\ \A i \in 1..Len(issued) : FirstHighest < issued[i] /\ issued[i] <= HighestAllocated /\ issued[i] \in Nat
      /\ issued # <<>> => Readable("sequence")
    BY DEF SequenceInv, NumbersAreFresh, IssuedIsDurable, HighestAllocated
<1>4. CASE HandOut
  <2>1. /\ issued' = Append(issued, HighestAllocated) /\ asm' = "idle" /\ disk' = disk
        /\ Readable("sequence") /\ FirstHighest < HighestAllocated
        /\ \A i \in 1..Len(issued) : issued[i] < HighestAllocated
      BY <1>4 DEF HandOut, SequenceInv, stored
  <2>2. Readable("sequence")' /\ HighestAllocated' = HighestAllocated
        /\ Record("sequence")'.highestAllocated = HighestAllocated
      BY <2>1 DEF Readable, Exists, HighestAllocated, Record
  <2>3. /\ issued' \in Seq(Nat) /\ Len(issued') = Len(issued) + 1
        /\ \A i \in 1..Len(issued) : issued'[i] = issued[i]
        /\ issued'[Len(issued) + 1] = HighestAllocated
      BY <2>1, <1>3
  <2>4. NumbersAreFresh'
      BY <2>1, <2>3, <1>2, <1>3 DEF NumbersAreFresh, SequenceInv
  <2>5. IssuedIsDurable'
      BY <2>1, <2>2, <2>3, <1>3 DEF IssuedIsDurable
  <2> QED
      BY <1>1, <1>2, <1>3, <2>1, <2>3, <2>4, <2>5 DEF SequenceInv
<1>5. CASE AllocateSaves
  <2>1. issued' = issued /\ disk' = [disk EXCEPT !["sequence"] = Encode("sequence", [highestAllocated |-> HighestAllocated + 1])]
      BY <1>5 DEF AllocateSaves, Saved, NextSequence
  <2>2. Readable("sequence")' /\ HighestAllocated' = HighestAllocated + 1
      BY <2>1, <1>3, SequenceWritten DEF SequenceInv
  <2>3. Record("sequence")'.highestAllocated = HighestAllocated + 1
      BY <2>2 DEF HighestAllocated
  <2> QED
      BY <1>1, <1>2, <1>3, <2>1, <2>2, <2>3 DEF SequenceInv, NumbersAreFresh, IssuedIsDurable
<1>6. CASE ~(HandOut \/ AllocateSaves)
  <2>1. issued' = issued /\ (asm' = "allocated" => asm = "allocated")
    <3>1. CASE UNCHANGED vars \/ Boot \/ StopsNow \/ OpenFails \/ CheckKey \/ RewriteKey \/ VerifyKey
        BY <3>1 DEF vars, assembler, Boot, StopsNow, OpenFails, CheckKey, RewriteKey, VerifyKey
    <3>2. CASE Recover \/ ReconcileDedupe \/ ReconcileCleanup
        BY <3>2 DEF assembler, Recover, ReconcileDedupe, ReconcileCleanup
    <3>3. CASE BeginAssemble \/ DiagFails \/ DiagAnswers \/ AllocateBlocked \/ IntervalPasses
        BY <3>3 DEF BeginAssemble, DiagFails, DiagAnswers, AllocateBlocked, IntervalPasses
    <3> QED
        BY <1>6, <3>1, <3>2, <3>3 DEF Next
  <2>2. Readable("sequence")' => Record("sequence")'.highestAllocated = HighestAllocated'
      BY DEF HighestAllocated
  <2>3. NumbersAreFresh'
      BY <2>1, <1>2 DEF SequenceInv, NumbersAreFresh
  <2>4. IssuedIsDurable'
      BY <2>1, <2>2, <1>1, <1>3 DEF IssuedIsDurable
  <2>5. asm' = "allocated" =>
           /\ Readable("sequence")' /\ FirstHighest' < HighestAllocated'
           /\ \A i \in 1..Len(issued') : issued'[i] < HighestAllocated'
      BY <2>1, <1>1, <1>2, <1>3 DEF SequenceInv
  <2> QED
      BY <1>1, <1>2, <1>3, <2>1, <2>3, <2>4, <2>5 DEF SequenceInv
<1> QED
    BY <1>4, <1>5, <1>6

(* Every number handed out is above all earlier ones and above what the    *)
(* first store had reached, whatever fails and however often the process   *)
(* starts (FotaStateStore::allocateSnapshotSeq).                           *)
THEOREM NumbersAreNew == MissingIsNoEnvelope => (Spec => []NumbersAreFresh)
<1> SUFFICES ASSUME MissingIsNoEnvelope PROVE Spec => []NumbersAreFresh
    OBVIOUS
<1>1. Init => SequenceInv /\ at \in 1..4
    BY SequenceInit
<1>2. SequenceInv /\ at \in 1..4 /\ [Next]_vars => SequenceInv' /\ (at \in 1..4)'
    BY SequenceStep, PlaceStays
<1>3. SequenceInv => NumbersAreFresh
    BY DEF SequenceInv
<1> QED
    BY <1>1, <1>2, <1>3, PTL DEF Spec

(* A number that was handed out is covered by the durable record from then *)
(* on (save before use in allocateSnapshotSeq).                            *)
THEOREM NumbersAreDurable == MissingIsNoEnvelope => (Spec => []IssuedIsDurable)
<1> SUFFICES ASSUME MissingIsNoEnvelope PROVE Spec => []IssuedIsDurable
    OBVIOUS
<1>1. Init => SequenceInv /\ at \in 1..4
    BY SequenceInit
<1>2. SequenceInv /\ at \in 1..4 /\ [Next]_vars => SequenceInv' /\ (at \in 1..4)'
    BY SequenceStep, PlaceStays
<1>3. SequenceInv => IssuedIsDurable
    BY DEF SequenceInv
<1> QED
    BY <1>1, <1>2, <1>3, PTL DEF Spec
-----------------------------------------------------------------------------
(* The only record removed is a job recover() has read.                    *)
JobInv == disk = [k \in Keys |-> disk[k]] /\ at \in 1..4 /\ (pc \in {"dedupe", "cleanup"} => Readable("active_job"))

LEMMA JobStep ==
    ASSUME JobInv, [Next]_vars
    PROVE  JobInv'
<1> USE DEF JobInv
<1>1. at' \in 1..4
    BY PlaceStays
<1>2. disk' = [k \in Keys |-> disk'[k]]
  <2>1. KeyOrder[at] \in Keys
      BY KeysAre
  <2> QED
      BY <2>1, Writers, KeysAre DEF Rewritten, Numbered, Windowed, Cleaned
<1>3. ASSUME pc' \in {"dedupe", "cleanup"} PROVE Readable("active_job")'
  <2> USE <1>3
  <2>1. CASE Recover
    <3>1. disk' = disk /\ Readable("active_job")
        BY <2>1 DEF Recover, stored
    <3> QED
        BY <3>1 DEF Readable, Exists
  <2>2. CASE ReconcileDedupe
    <3>1. pc = "dedupe" /\ (disk' = disk \/ \E v : disk' = [disk EXCEPT !["dedupe"] = v])
        BY <2>2 DEF ReconcileDedupe, Saved, SaveFails
    <3>2. disk'["active_job"] = disk["active_job"]
        BY <3>1, KeysAre
    <3> QED
        BY <3>1, <3>2 DEF Readable, Exists
  <2>3. CASE ~(Recover \/ ReconcileDedupe)
    <3>1. UNCHANGED vars \/ IntervalPasses \/ BeginAssemble \/ DiagFails \/ DiagAnswers \/ HandOut
          => pc' = pc /\ disk' = disk
        BY DEF vars, stored, process, IntervalPasses, BeginAssemble, DiagFails, DiagAnswers, HandOut
    <3>2. AllocateBlocked \/ AllocateSaves => pc' = pc /\ disk'["active_job"] = disk["active_job"]
        BY KeysAre DEF AllocateBlocked, AllocateSaves, Saved, SaveFails, process
    <3>3. ~(Boot \/ StopsNow \/ OpenFails \/ CheckKey \/ RewriteKey \/ VerifyKey \/ ReconcileCleanup)
        BY DEF Boot, StopsNow, OpenFails, CheckKey, RewriteKey, VerifyKey, ReconcileCleanup, BackUp, NextKey
    <3>4. pc' = pc /\ disk'["active_job"] = disk["active_job"]
        BY <2>3, <3>1, <3>2, <3>3 DEF Next
    <3> QED
        BY <3>4 DEF Readable, Exists
  <2> QED
      BY <2>1, <2>2, <2>3
<1> QED
    BY <1>1, <1>2, <1>3

LEMMA UnreadableStays ==
    ASSUME JobInv, [Next]_vars, NEW k \in Keys \ {"dedupe"}, Exists(k), ~Readable(k)
    PROVE  disk'[k] = disk[k]
<1>1. CASE Rewritten(KeyOrder[at])
    BY <1>1, KeysAre DEF JobInv, Rewritten
<1>2. CASE Numbered
    BY <1>2, KeysAre DEF JobInv, Numbered, MayAllocate
<1>3. CASE Windowed
    BY <1>3, KeysAre DEF JobInv, Windowed
<1>4. CASE pc = "cleanup" /\ Cleaned
    BY <1>4, KeysAre DEF JobInv, Cleaned
<1> QED
    BY <1>1, <1>2, <1>3, <1>4, Writers

(* A record that cannot be read is never overwritten or removed, except    *)
(* the dedupe window (migrateAndValidate, allocateSnapshotSeq,             *)
(* reconcileCompleted).                                                    *)
THEOREM UnreadableIsLeft == Spec => UnreadableIsKept
<1>1. Init => JobInv
  <2> SUFFICES ASSUME Init PROVE JobInv
      OBVIOUS
  <2>1. disk \in Stores /\ at = 1 /\ pc = "off"
      BY DEF Init
  <2>2. disk = [k \in Keys |-> disk[k]]
      BY <2>1, StoreAssumption
  <2> QED
      BY <2>1, <2>2 DEF JobInv
<1>2. JobInv /\ [Next]_vars => JobInv'
    BY JobStep
<1>3. JobInv /\ [Next]_vars => [\A k \in Keys \ {"dedupe"} : Exists(k) /\ ~Readable(k) => disk'[k] = disk[k]]_vars
    BY UnreadableStays
<1> QED
    BY <1>1, <1>2, <1>3, PTL DEF Spec, UnreadableIsKept
-----------------------------------------------------------------------------
(* Once open() is past the sequence record, the record is of this release, *)
(* missing, or blocked; and only a running process assembles.              *)
Passed == pc \in {"recover", "dedupe", "cleanup", "run"} \/ (pc \in {"check", "rewrite", "verify"} /\ at > 1)

IsUpToDate(k) == disk[k] = Missing \/ ~IsOlder(k, disk[k])

PassedInv ==
    /\ JobInv
    /\ corrupt = [k \in Keys |-> corrupt[k]]
    /\ asm # "idle" => pc = "run"
    /\ Passed => corrupt["sequence"] \/ IsUpToDate("sequence")
    /\ pc = "verify" => IsUpToDate(KeyOrder[at])

(* A record that is no longer the first one was written by this release.   *)
BackupInv ==
    /\ backup = [k \in Keys |-> backup[k]]
    /\ \A k \in Keys \ {"dedupe"} :
           disk[k] = first[k] \/ disk[k] = Missing \/ disk[k].version = SchemaVersion[k]
    /\ disk["sequence"] = Missing => first["sequence"] = Missing
    /\ pc = "rewrite" => disk[KeyOrder[at]] \in backup[KeyOrder[at]]
    /\ OldRecordIsBackedUp

LEMMA EncodedIsCurrent ==
    ASSUME NEW k \in Keys, NEW r
    PROVE  Encode(k, r).version = SchemaVersion[k] /\ ~IsOlder(k, Encode(k, r))
<1>1. Encode(k, r).version = SchemaVersion[k]
    BY DEF Encode, Envelope
<1>2. SchemaVersion[k] \in {1, 2}
    BY DEF SchemaVersion
<1> QED
    BY <1>1, <1>2 DEF IsOlder

(* The assembler and the end of the process.                               *)
LEMMA PassedRun ==
    ASSUME PassedInv, MissingIsNoEnvelope,
           UNCHANGED vars \/ Boot \/ StopsNow \/ BeginAssemble \/ DiagFails \/ DiagAnswers
           \/ AllocateBlocked \/ AllocateSaves \/ HandOut \/ IntervalPasses
    PROVE  PassedInv'
<1>1. JobInv'
    BY JobStep DEF PassedInv, Next
<1> USE DEF PassedInv
<1>2. CASE UNCHANGED vars \/ BeginAssemble \/ DiagFails \/ DiagAnswers \/ HandOut \/ IntervalPasses
  <2>1. UNCHANGED <<disk, pc, at, corrupt>> /\ (asm' # "idle" => pc = "run")
      BY <1>2 DEF vars, stored, process, assembler, BeginAssemble, DiagFails, DiagAnswers, HandOut, IntervalPasses
  <2> QED
      BY <1>1, <2>1 DEF Passed, IsUpToDate
<1>3. CASE Boot \/ StopsNow
  <2>1. /\ pc' = "off" \/ (pc' = "check" /\ at' = 1)
        /\ corrupt' = corrupt \/ corrupt' = [k \in Keys |-> FALSE]
      BY <1>3 DEF Boot, StopsNow, assembler
  <2>2. asm' = "idle"
      BY <1>3 DEF Boot, StopsNow, assembler
  <2>3. corrupt' = [k \in Keys |-> corrupt'[k]]
      BY <2>1
  <2> QED
      BY <1>1, <2>1, <2>2, <2>3 DEF Passed
<1>4. CASE AllocateBlocked
  <2>1. pc = "run" /\ pc' = pc /\ asm' = "idle" /\ corrupt' = [corrupt EXCEPT !["sequence"] = TRUE]
      BY <1>4 DEF AllocateBlocked, Flag
  <2>2. corrupt' = [k \in Keys |-> corrupt'[k]] /\ corrupt'["sequence"]
      BY <2>1, KeysAre
  <2> QED
      BY <1>1, <2>1, <2>2
<1>5. CASE AllocateSaves
  <2>1. pc = "run" /\ pc' = pc /\ corrupt' = corrupt /\ disk' = [disk EXCEPT !["sequence"] = NextSequence]
      BY <1>5 DEF AllocateSaves, Saved, process
  <2>2. disk'["sequence"] = NextSequence
      BY <2>1, KeysAre DEF JobInv
  <2>3. IsUpToDate("sequence")'
      BY <2>2, EncodedIsCurrent, KeysAre DEF NextSequence, IsUpToDate, IsOlder
  <2> QED
      BY <1>1, <2>1, <2>3
<1> QED
    BY <1>2, <1>3, <1>4, <1>5

(* open() and recover().                                                   *)
LEMMA PassedBoot ==
    ASSUME PassedInv, MissingIsNoEnvelope,
           OpenFails \/ CheckKey \/ RewriteKey \/ VerifyKey \/ Recover \/ ReconcileDedupe \/ ReconcileCleanup
    PROVE  PassedInv'
<1> DEFINE k == KeyOrder[at]
<1>1. JobInv' /\ k \in Keys /\ at \in 1..4 /\ (k = "sequence" <=> at = 1) /\ Len(KeyOrder) = 4
  <2>1. JobInv' /\ at \in 1..4
      BY JobStep DEF PassedInv, Next, JobInv
  <2>2. at = 1 \/ at = 2 \/ at = 3 \/ at = 4
      BY <2>1
  <2> QED
      BY <2>1, <2>2, KeysAre
<1> USE DEF PassedInv
<1>2. asm' = asm /\ asm = "idle"
    BY DEF OpenFails, CheckKey, RewriteKey, VerifyKey, Recover, ReconcileDedupe, ReconcileCleanup, assembler
<1>3. ASSUME NextKey PROVE (at' = at /\ pc' = "recover") \/ (at' = at + 1 /\ pc' = "check")
    BY <1>3 DEF NextKey
<1>4. ASSUME disk'["sequence"] = disk["sequence"] PROVE IsUpToDate("sequence")' = IsUpToDate("sequence")
    BY <1>4 DEF IsUpToDate, IsOlder
<1>5. ASSUME Flag(k) PROVE corrupt' = [l \in Keys |-> corrupt'[l]] /\ corrupt'[k] /\ (corrupt["sequence"] => corrupt'["sequence"])
    BY <1>5, <1>1, KeysAre DEF Flag
<1>6. CASE OpenFails
    BY <1>6, <1>1, <1>2 DEF OpenFails, Passed
<1>7. CASE CheckKey
  <2>1. disk' = disk /\ pc = "check"
      BY <1>7 DEF CheckKey
  <2>2. /\ corrupt' = [l \in Keys |-> corrupt'[l]] /\ (corrupt["sequence"] => corrupt'["sequence"])
        /\ \/ pc' = "rewrite" /\ at' = at
           \/ NextKey /\ (corrupt'[k] \/ IsUpToDate(k))
    <3>1. \/ Flag(k) /\ NextKey
          \/ disk[k] = Missing /\ NextKey /\ corrupt' = corrupt
          \/ disk[k].version = SchemaVersion[k] /\ NextKey /\ (corrupt' = corrupt \/ Flag(k))
          \/ pc' = "rewrite" /\ UNCHANGED <<at, corrupt>>
        BY <1>7 DEF CheckKey, BackUp
    <3>2. SchemaVersion[k] \in {1, 2}
        BY <1>1 DEF SchemaVersion
    <3>3. disk[k].version = SchemaVersion[k] => ~IsOlder(k, disk[k])
        BY <3>2 DEF IsOlder
    <3> QED
        BY <3>1, <3>3, <1>5 DEF IsUpToDate
  <2>3. corrupt'["sequence"] \/ IsUpToDate("sequence") \/ ~Passed'
    <3>1. CASE at = 1
        BY <3>1, <2>2, <1>1 DEF Passed
    <3>2. CASE at # 1
        BY <3>2, <2>1, <2>2, <1>1 DEF Passed
    <3> QED
        BY <3>1, <3>2
  <2>4. pc' # "verify"
      BY <2>2, <1>3
  <2> QED
      BY <1>1, <1>2, <1>4, <2>1, <2>2, <2>3, <2>4
<1>8. CASE RewriteKey
  <2>1. /\ pc = "rewrite"
        /\ \/ Flag(k) /\ NextKey /\ (disk' = disk \/ disk' = [disk EXCEPT ![k] = Encode(k, Record(k))])
           \/ disk' = [disk EXCEPT ![k] = Encode(k, Record(k))] /\ pc' = "verify" /\ UNCHANGED <<at, corrupt>>
      BY <1>8 DEF RewriteKey, Saved, SaveFails
  <2>2. CASE pc' = "verify" /\ UNCHANGED <<at, corrupt>> /\ disk' = [disk EXCEPT ![k] = Encode(k, Record(k))]
    <3>1. disk'[k] = Encode(k, Record(k)) /\ (k # "sequence" => disk'["sequence"] = disk["sequence"])
        BY <2>2, <1>1, KeysAre DEF JobInv
    <3>2. ~IsOlder(k, disk'[k])
        BY <3>1, <1>1, EncodedIsCurrent
    <3>3. IsUpToDate(k)'
        BY <3>2, <2>2 DEF IsUpToDate, IsOlder
    <3>4. k = "sequence" => IsUpToDate("sequence")'
        BY <3>2 DEF IsUpToDate, IsOlder
    <3>5. k # "sequence" => Passed
        BY <2>1, <1>1 DEF Passed
    <3>6. corrupt'["sequence"] \/ IsUpToDate("sequence")'
        BY <3>1, <3>4, <3>5, <1>4, <2>2
    <3>7. IsUpToDate(KeyOrder[at])'
        BY <3>2, <2>2 DEF IsUpToDate, IsOlder
    <3> QED
        BY <1>1, <1>2, <3>6, <3>7, <2>2
  <2>3. CASE Flag(k) /\ NextKey /\ (disk' = disk \/ disk' = [disk EXCEPT ![k] = Encode(k, Record(k))])
    <3>1. k # "sequence" => Passed /\ disk'["sequence"] = disk["sequence"]
        BY <2>1, <2>3, <1>1, KeysAre DEF Passed, JobInv
    <3>2. corrupt'["sequence"] \/ IsUpToDate("sequence")'
        BY <2>3, <3>1, <1>4, <1>5
    <3> QED
        BY <1>1, <1>2, <1>3, <1>5, <2>3, <3>2
  <2> QED
      BY <2>1, <2>2, <2>3
<1>9. CASE VerifyKey
  <2>1. pc = "verify" /\ disk' = disk /\ NextKey /\ (corrupt' = corrupt \/ Flag(k))
      BY <1>9 DEF VerifyKey, stored
  <2>2. corrupt' = [l \in Keys |-> corrupt'[l]] /\ (corrupt["sequence"] => corrupt'["sequence"])
      BY <2>1, <1>5
  <2>3. corrupt["sequence"] \/ IsUpToDate("sequence")
      BY <2>1, <1>1 DEF Passed
  <2> QED
      BY <1>1, <1>2, <1>3, <1>4, <2>1, <2>2, <2>3
<1>10. CASE Recover
  <2>1. pc = "recover" /\ disk' = disk /\ pc' \in {"run", "dedupe"}
      BY <1>10 DEF Recover, stored
  <2>2. corrupt' = [l \in Keys |-> corrupt'[l]] /\ (corrupt["sequence"] => corrupt'["sequence"])
      BY <1>10, KeysAre DEF Recover
  <2> QED
      BY <1>1, <1>2, <1>4, <2>1, <2>2 DEF Passed
<1>11. CASE ReconcileDedupe
  <2>1. /\ pc = "dedupe" /\ pc' \in {"cleanup", "off"} /\ (disk' = disk \/ \E v : disk' = [disk EXCEPT !["dedupe"] = v])
        /\ corrupt' = corrupt \/ corrupt' = [corrupt EXCEPT !["dedupe"] = FALSE]
      BY <1>11 DEF ReconcileDedupe, Saved, SaveFails
  <2>2. disk'["sequence"] = disk["sequence"] /\ corrupt'["sequence"] = corrupt["sequence"] /\ corrupt' = [l \in Keys |-> corrupt'[l]]
      BY <2>1, KeysAre DEF JobInv
  <2> QED
      BY <1>1, <1>2, <1>4, <2>1, <2>2 DEF Passed
<1>12. CASE ReconcileCleanup
  <2>1. pc = "cleanup" /\ pc' \in {"run", "off"} /\ (disk' = disk \/ disk' = [disk EXCEPT !["active_job"] = Missing]) /\ corrupt' = corrupt
      BY <1>12 DEF ReconcileCleanup, Saved, SaveFails
  <2>2. disk'["sequence"] = disk["sequence"]
      BY <2>1, KeysAre DEF JobInv
  <2> QED
      BY <1>1, <1>2, <1>4, <2>1, <2>2 DEF Passed
<1> QED
    BY <1>6, <1>7, <1>8, <1>9, <1>10, <1>11, <1>12
LEMMA BackedUp ==
    ASSUME PassedInv, BackupInv, MissingIsNoEnvelope, [Next]_vars
    PROVE  BackupInv'
<1> DEFINE c == KeyOrder[at]
<1>1. /\ c \in Keys /\ "sequence" \in Keys /\ disk = [k \in Keys |-> disk[k]]
      /\ backup = [k \in Keys |-> backup[k]] /\ first' = first
  <2>1. c \in Keys /\ "sequence" \in Keys
      BY KeysAre DEF PassedInv, JobInv
  <2>2. first' = first
      BY DEF Next, vars, Boot, StopsNow, OpenFails, CheckKey, RewriteKey, VerifyKey, Recover, ReconcileDedupe,
         ReconcileCleanup, BeginAssemble, DiagFails, DiagAnswers, AllocateBlocked, AllocateSaves, HandOut, IntervalPasses
  <2> QED
      BY <2>1, <2>2 DEF PassedInv, JobInv, BackupInv
<1> DEFINE Old(k) == first[k] # Missing /\ HeaderIsReadable(first[k]) /\ IsOlder(k, first[k])
<1>2. ASSUME NEW k \in Keys PROVE SchemaVersion[k] \in {1, 2}
    BY DEF SchemaVersion
(* A backup only adds, or replaces one of the same version.                *)
<1>3. CASE CheckKey
  <2>1. disk' = disk /\ pc = "check" /\ (backup' = backup \/ backup' = Kept(c, disk[c]))
        /\ (backup' # backup => disk[c] # Missing /\ IsOlder(c, disk[c]))
      BY <1>3 DEF CheckKey, BackUp
  <2>2. pc' = "rewrite" => backup' = Kept(c, disk[c]) /\ at' = at
      BY <1>3 DEF CheckKey, BackUp, NextKey
  <2>3. ASSUME backup' = Kept(c, disk[c])
        PROVE  /\ backup' = [k \in Keys |-> backup'[k]] /\ disk[c] \in backup'[c]
               /\ \A k \in Keys : k # c => backup'[k] = backup[k]
               /\ \A b \in backup[c] : b.version # disk[c].version => b \in backup'[c]
      BY <2>3, <1>1 DEF Kept
  <2>4. backup' = [k \in Keys |-> backup'[k]]
      BY <2>1, <2>3, <1>1
  <2>5. ASSUME NEW k \in Keys \ {"dedupe"}, Old(k), disk[k] # Missing, disk[k] # first[k]
        PROVE  first[k] \in backup'[k]
    <3>1. first[k] \in backup[k] /\ disk[k].version = SchemaVersion[k]
        BY <2>5 DEF BackupInv, OldRecordIsBackedUp, Exists
    <3>2. ~IsOlder(k, disk[k])
        BY <3>1, <1>2 DEF IsOlder
    <3>3. k = c => backup' = backup
        BY <3>2, <2>1
    <3> QED
        BY <3>1, <3>3, <2>1, <2>3
  <2>6. OldRecordIsBackedUp'
      BY <2>1, <2>5, <1>1 DEF OldRecordIsBackedUp, Exists, IsOlder
  <2>7. pc' = "rewrite" => disk'[KeyOrder[at']] \in backup'[KeyOrder[at']]
      BY <2>1, <2>2, <2>3
  <2> QED
      BY <1>1, <2>1, <2>4, <2>6, <2>7 DEF BackupInv
<1>4. CASE ~CheckKey
  <2>1. backup' = backup /\ (pc' = "rewrite" => pc = "rewrite" /\ at' = at /\ disk' = disk)
    <3>1. CASE UNCHANGED vars \/ Boot \/ StopsNow \/ OpenFails \/ VerifyKey \/ Recover \/ BeginAssemble
        BY <3>1 DEF vars, stored, process, Boot, StopsNow, OpenFails, VerifyKey, NextKey, Recover, BeginAssemble
    <3>2. CASE RewriteKey \/ ReconcileDedupe \/ ReconcileCleanup
        BY <3>2 DEF RewriteKey, NextKey, ReconcileDedupe, ReconcileCleanup
    <3>3. CASE DiagFails \/ DiagAnswers \/ HandOut \/ IntervalPasses
        BY <3>3 DEF stored, process, DiagFails, DiagAnswers, HandOut, IntervalPasses
    <3>4. CASE AllocateBlocked \/ AllocateSaves
      <4>1. asm # "idle" /\ pc' = pc /\ backup' = backup
          BY <3>4 DEF AllocateBlocked, AllocateSaves, process
      <4> QED
          BY <4>1 DEF PassedInv
    <3> QED
        BY <1>4, <3>1, <3>2, <3>3, <3>4 DEF Next
  <2>2. pc' = "rewrite" => disk'[KeyOrder[at']] \in backup'[KeyOrder[at']]
      BY <2>1 DEF BackupInv
  <2> DEFINE Good(k) ==
        /\ disk'[k] = first[k] \/ disk'[k] = Missing \/ disk'[k].version = SchemaVersion[k]
        /\ Old(k) /\ disk'[k] # Missing /\ disk'[k] # first[k] => first[k] \in backup[k]
  <2>3. ASSUME NEW k \in Keys \ {"dedupe"}, disk'[k] = disk[k]
        PROVE  Good(k)
      BY <2>3 DEF BackupInv, OldRecordIsBackedUp, Exists
  <2>4. /\ \A k \in Keys \ {"dedupe"} : Good(k)
        /\ disk'["sequence"] = Missing => first["sequence"] = Missing
    <3>1. CASE disk' = disk
        BY <3>1, <2>3 DEF BackupInv
    <3>2. CASE pc = "rewrite" /\ Rewritten(c)
      <4>1. /\ disk'[c] = Encode(c, Record(c)) /\ \A k \in Keys : k # c => disk'[k] = disk[k]
            /\ disk[c] \in backup[c] /\ disk[c] # Missing
          BY <3>2, <1>1 DEF Rewritten, Readable, Exists, BackupInv
      <4>2. disk'[c].version = SchemaVersion[c] /\ disk'[c] # Missing
          BY <4>1, <1>1, EncodedIsCurrent DEF MissingIsNoEnvelope, Encode
      <4>3. c # "dedupe" => Good(c)
          BY <4>1, <4>2, <1>1 DEF BackupInv, OldRecordIsBackedUp, Exists
      <4>4. disk'["sequence"] = Missing => first["sequence"] = Missing
          BY <4>1, <4>2, <1>1 DEF BackupInv
      <4> QED
          BY <4>1, <4>3, <4>4, <2>3
    <3>3. CASE asm = "allocate" /\ Numbered
      <4>1. /\ disk'["sequence"] = NextSequence /\ \A k \in Keys : k # "sequence" => disk'[k] = disk[k]
            /\ ~corrupt["sequence"]
          BY <3>3, <1>1 DEF Numbered, MayAllocate
      <4>2. disk'["sequence"].version = SchemaVersion["sequence"] /\ disk'["sequence"] # Missing
          BY <4>1, <1>1, EncodedIsCurrent DEF MissingIsNoEnvelope, Encode, NextSequence
      <4>3. IsUpToDate("sequence")
          BY <3>3, <4>1 DEF PassedInv, Passed
      <4>4. Good("sequence")
        <5>1. CASE disk["sequence"] = first["sequence"]
            BY <5>1, <4>2, <4>3 DEF IsUpToDate
        <5>2. CASE disk["sequence"] # first["sequence"]
            BY <5>2, <4>2, KeysAre DEF BackupInv, OldRecordIsBackedUp, Exists
        <5> QED
            BY <5>1, <5>2
      <4> QED
          BY <4>1, <4>2, <4>4, <2>3
    <3>4. CASE Windowed
      <4>1. \A k \in Keys \ {"dedupe"} : disk'[k] = disk[k]
          BY <3>4, <1>1 DEF Windowed
      <4> QED
          BY <4>1, <2>3, KeysAre DEF BackupInv
    <3>5. CASE Cleaned
      <4>1. disk'["active_job"] = Missing /\ \A k \in Keys : k # "active_job" => disk'[k] = disk[k]
          BY <3>5, <1>1, KeysAre DEF Cleaned
      <4> QED
          BY <4>1, <2>3, KeysAre DEF BackupInv
    <3> QED
        BY <3>1, <3>2, <3>3, <3>4, <3>5, Writers
  <2>5. OldRecordIsBackedUp'
      BY <2>1, <2>4, <1>1 DEF OldRecordIsBackedUp, Exists, IsOlder
  <2> QED
      BY <1>1, <2>1, <2>2, <2>4, <2>5 DEF BackupInv
<1> QED
    BY <1>3, <1>4

(* No record of an older release is replaced before its envelope was kept  *)
(* (migrateAndValidate), whichever write fails or is interrupted.          *)
THEOREM OldRecordsAreKept == MissingIsNoEnvelope => (Spec => []OldRecordIsBackedUp)
<1> SUFFICES ASSUME MissingIsNoEnvelope PROVE Spec => []OldRecordIsBackedUp
    OBVIOUS
<1>1. Init => PassedInv /\ BackupInv
  <2> SUFFICES ASSUME Init PROVE PassedInv /\ BackupInv
      OBVIOUS
  <2>1. /\ disk \in Stores /\ first = disk /\ at = 1 /\ pc = "off" /\ asm = "idle"
        /\ corrupt = [k \in Keys |-> FALSE] /\ backup = [k \in Keys |-> {}]
      BY DEF Init
  <2>2. disk = [k \in Keys |-> disk[k]]
      BY <2>1, StoreAssumption
  <2> QED
      BY <2>1, <2>2 DEF PassedInv, JobInv, Passed, BackupInv, OldRecordIsBackedUp
<1>2. PassedInv /\ [Next]_vars => PassedInv'
    BY PassedRun, PassedBoot DEF Next
<1>3. PassedInv /\ BackupInv /\ [Next]_vars => BackupInv'
    BY BackedUp
<1>4. BackupInv => OldRecordIsBackedUp
    BY DEF BackupInv
<1> QED
    BY <1>1, <1>2, <1>3, <1>4, PTL DEF Spec
-----------------------------------------------------------------------------
(* A record keeps its content: it is the first one, or that one upgraded.  *)
Resting(k) == disk[k] = first[k] \/ (FirstReads(k) /\ disk[k] = Encode(k, Decode(k, first[k])))

ContentInv ==
    /\ first \in Stores
    /\ Resting("last_success")
    /\ Resting("active_job") \/ disk["active_job"] = Missing
    /\ Readable("dedupe") => IsRecord("dedupe", Record("dedupe"))

LEMMA FirstRecord ==
    ASSUME first \in Stores, NEW k \in Keys, FirstReads(k)
    PROVE  IsRecord(k, Decode(k, first[k]))
<1>1. k = "dedupe" => IsList(Decode(k, first[k]).entries)
    BY StoreAssumption DEF FirstReads
<1> QED
    BY <1>1, RecordIsRead DEF FirstReads

LEMMA RestingContent ==
    ASSUME first \in Stores, NEW k \in Keys, Resting(k), Readable(k)
    PROVE  FirstReads(k) /\ Record(k) = Decode(k, first[k])
<1>1. CASE disk[k] = first[k]
    BY <1>1 DEF FirstReads, Readable, Exists, Record
<1>2. CASE FirstReads(k) /\ disk[k] = Encode(k, Decode(k, first[k]))
    BY <1>2, FirstRecord, ReadsBack DEF Record
<1> QED
    BY <1>1, <1>2 DEF Resting

LEMMA RestingRewritten ==
    ASSUME first \in Stores, NEW k \in Keys, Resting(k), Rewritten(k), disk = [l \in Keys |-> disk[l]], first' = first
    PROVE  Resting(k)'
<1>1. Readable(k) /\ disk'[k] = Encode(k, Record(k))
    BY DEF Rewritten
<1>2. FirstReads(k) /\ Record(k) = Decode(k, first[k])
    BY <1>1, RestingContent
<1> QED
    BY <1>1, <1>2 DEF Resting, FirstReads

(* The window stays a list of entries, and keeps the newest.               *)
LEMMA WindowGrows ==
    ASSUME NEW w, IsRecord("dedupe", [entries |-> w]), NEW e, IsEntry(e)
    PROVE  LET q == Evicted(Append(w, e))
           IN  IsRecord("dedupe", [entries |-> q]) /\ Len(q) \in Nat \ {0} /\ q[Len(q)] = e
<1>1. /\ Len(w) \in Nat /\ w = [i \in 1..Len(w) |-> EntryValue(w[i])]
      /\ \A i \in 1..Len(w) : IsEntry(w[i])
    BY DEF IsRecord, IsList
<1> DEFINE E == {w[i] : i \in 1..Len(w)} \cup {e}
           a == Append(w, e)
           q == Evicted(a)
<1>2. w \in Seq(E)
  <2>1. w \in [1..Len(w) -> E]
      BY <1>1
  <2> QED
      BY <1>1, <2>1, SeqDef
<1>3. \A x \in E : IsEntry(x) /\ EntryValue(x) = x
    BY <1>1 DEF IsEntry
<1> HIDE DEF E
<1>4. a \in Seq(E) /\ Len(a) = Len(w) + 1 /\ a[Len(a)] = e /\ Len(w) \in Nat /\ e \in E
    BY <1>2 DEF E
<1>5. q \in Seq(E) /\ Len(q) \in Nat \ {0} /\ q[Len(q)] = e
  <2>1. CASE Len(a) > DedupeMax
    <3>1. DedupeMax \in Nat \ {0}
        BY StoreAssumption
    <3> DEFINE m == Len(a) - DedupeMax + 1
    <3>2. q = SubSeq(a, m, Len(a)) /\ m \in 1..Len(a)
        BY <2>1, <3>1, <1>4 DEF Evicted
    <3>3. SubSeq(a, m, Len(a)) \in Seq(E) /\ Len(SubSeq(a, m, Len(a))) = DedupeMax
          /\ SubSeq(a, m, Len(a))[DedupeMax] = a[Len(a)]
      <4>1. m \in Nat /\ Len(a) \in Nat /\ 1 <= m /\ m <= Len(a) /\ Len(a) - m + 1 = DedupeMax
          BY <3>1, <3>2, <1>4
      <4> HIDE DEF m, a
      <4> QED
          BY <1>4, <4>1, <3>1
    <3> QED
        BY <3>1, <3>2, <3>3, <1>4
  <2>2. CASE ~(Len(a) > DedupeMax)
      BY <2>2, <1>4 DEF Evicted
  <2> QED
      BY <2>1, <2>2
<1> HIDE DEF q
<1>6. Len(q) \in Nat /\ DOMAIN q = 1..Len(q) /\ \A i \in 1..Len(q) : q[i] \in E
    BY <1>5
<1>7. q = [i \in 1..Len(q) |-> EntryValue(q[i])] /\ \A i \in 1..Len(q) : IsEntry(q[i])
    BY <1>3, <1>5, <1>6
<1>8. IsRecord("dedupe", [entries |-> q])
    BY <1>6, <1>7 DEF IsRecord, IsList
<1> QED
    BY <1>5, <1>8 DEF q

LEMMA WindowIsRecord ==
    ASSUME ContentInv, NEW lost \in BOOLEAN
    PROVE  IsRecord("dedupe", [entries |-> DedupeWindow(lost)])
<1>1. CASE DedupeWindow(lost) = <<>>
    BY <1>1 DEF IsRecord, IsList
<1>2. CASE DedupeWindow(lost) # <<>>
  <2>1. Readable("dedupe") /\ DedupeWindow(lost) = Record("dedupe").entries
      BY <1>2 DEF DedupeWindow
  <2>2. IsRecord("dedupe", Record("dedupe"))
      BY <2>1 DEF ContentInv
  <2>3. Record("dedupe") = [entries |-> Record("dedupe").entries]
      BY <2>2 DEF IsRecord
  <2> QED
      BY <2>1, <2>2, <2>3
<1> QED
    BY <1>1, <1>2
(* A key that a step leaves alone.                                         *)
LEMMA KeyStays ==
    ASSUME NEW k \in Keys, disk'[k] = disk[k], first' = first
    PROVE  /\ Exists(k)' = Exists(k) /\ Readable(k)' = Readable(k) /\ Record(k)' = Record(k)
           /\ Resting(k)' = Resting(k)
BY DEF Exists, Readable, Record, Resting, FirstReads

LEMMA FirstStays == [Next]_vars => first' = first
BY DEF Next, vars, Boot, StopsNow, OpenFails, CheckKey, RewriteKey, VerifyKey, Recover, ReconcileDedupe,
   ReconcileCleanup, BeginAssemble, DiagFails, DiagAnswers, AllocateBlocked, AllocateSaves, HandOut, IntervalPasses

(* A record written by the encoder is there and is the one given to it.    *)
LEMMA RecordWritten ==
    ASSUME MissingIsNoEnvelope, NEW k \in Keys, NEW r, IsRecord(k, r), disk'[k] = Encode(k, r)
    PROVE  Exists(k)' /\ Readable(k)' /\ Record(k)' = r
BY ReadsBack DEF MissingIsNoEnvelope, Encode, Exists, Readable, Record

(* What recover() has found when it settles a finished job, and what       *)
(* reconcileCompleted has done before it removes it.                       *)
Settling ==
    /\ Readable("active_job") /\ Record("active_job").phase = "CompletedPendingCleanup"
    /\ Readable("last_success") /\ IsEntryOf(Record("last_success"), Record("active_job"))

Listed == Readable("dedupe") /\ InWindow(Record("dedupe").entries, Record("last_success"))

SettleInv ==
    /\ JobInv /\ ContentInv
    /\ pc \in {"dedupe", "cleanup"} => Settling
    /\ pc = "cleanup" => Listed
    /\ JobEndsConfirmed

(* The window is only replaced while a job is settled, by a window that    *)
(* lists its report.                                                       *)
LEMMA WindowWritten ==
    ASSUME MissingIsNoEnvelope, SettleInv, pc = "dedupe", Windowed, first' = first
    PROVE  /\ Readable("dedupe")' /\ IsRecord("dedupe", Record("dedupe"))'
           /\ \A k \in Keys \ {"dedupe"} : disk'[k] = disk[k]
           /\ InWindow(Record("dedupe")'.entries, Record("last_success"))
<1>1. PICK lost \in BOOLEAN : disk' = [disk EXCEPT !["dedupe"] = Encode("dedupe", NewWindow(lost))]
    BY DEF Windowed
<1>2. disk'["dedupe"] = Encode("dedupe", NewWindow(lost)) /\ \A k \in Keys \ {"dedupe"} : disk'[k] = disk[k]
    BY <1>1, KeysAre DEF SettleInv, JobInv
<1>3. IsEntry(Record("last_success"))
  <2>1. IsRecord("last_success", Record("last_success"))
      BY RecordIsRead, KeysAre DEF SettleInv, Settling, Readable, Record
  <2> QED
      BY <2>1 DEF IsRecord
<1> DEFINE q == Evicted(Append(DedupeWindow(lost), Record("last_success")))
<1>4. IsRecord("dedupe", NewWindow(lost)) /\ Len(q) \in Nat \ {0} /\ q[Len(q)] = Record("last_success")
    BY <1>3, WindowIsRecord, WindowGrows DEF NewWindow, SettleInv
<1>5. Readable("dedupe")' /\ Record("dedupe")' = NewWindow(lost)
    BY <1>2, <1>4, RecordWritten, KeysAre
<1>6. NewWindow(lost).entries = q
    BY DEF NewWindow
<1> HIDE DEF q
<1>7. InWindow(q, Record("last_success"))
    BY <1>4 DEF InWindow, IsEntryOf
<1> QED
    BY <1>2, <1>4, <1>5, <1>6, <1>7

(* open() rewrites a record with its own content.                          *)
LEMMA RewrittenSame ==
    ASSUME MissingIsNoEnvelope, JobInv, ContentInv, first' = first,
           NEW c \in Keys, Rewritten(c), NEW k \in Keys
    PROVE  /\ Exists(k)' = Exists(k) /\ Readable(k)' = Readable(k)
           /\ Readable(k) => Record(k)' = Record(k)
<1>1. CASE k # c
    BY <1>1, KeyStays DEF Rewritten
<1>2. CASE k = c
  <2>1. Readable(k) /\ disk'[k] = Encode(k, Record(k))
      BY <1>2 DEF Rewritten, JobInv
  <2>2. IsRecord(k, Record(k))
    <3>1. CASE k = "dedupe"
        BY <2>1, <3>1 DEF ContentInv
    <3>2. CASE k # "dedupe"
        BY <2>1, <3>2, RecordIsRead DEF Readable, Record
    <3> QED
        BY <3>1, <3>2
  <2>3. Exists(k)' /\ Readable(k)' /\ Record(k)' = Record(k)
      BY <2>1, <2>2, RecordWritten
  <2> QED
      BY <2>1, <2>3 DEF Readable, Exists
<1> QED
    BY <1>1, <1>2

LEMMA ContentStep ==
    ASSUME MissingIsNoEnvelope, SettleInv, [Next]_vars
    PROVE  ContentInv'
<1>1. first' = first /\ first \in Stores /\ disk = [k \in Keys |-> disk[k]] /\ at \in 1..4
    BY FirstStays DEF SettleInv, ContentInv, JobInv
<1> DEFINE Kept3 == \A k \in {"last_success", "active_job", "dedupe"} : disk'[k] = disk[k]
<1>2. CASE Kept3
    BY <1>1, <1>2, KeyStays, KeysAre DEF SettleInv, ContentInv
<1>3. CASE Rewritten(KeyOrder[at])
  <2>0. PICK c \in Keys : c = KeyOrder[at]
      BY <1>1, KeysAre
  <2>1. Rewritten(c) /\ \A k \in Keys : k # c => disk'[k] = disk[k]
      BY <1>1, <1>3, <2>0 DEF Rewritten
  <2>2. CASE c = "sequence"
      BY <2>1, <2>2, <1>2, KeysAre
  <2>3. CASE c \in {"last_success", "active_job"}
    <3>1. Resting(c)
        BY <2>1, <2>3 DEF SettleInv, ContentInv, Rewritten, Readable, Exists
    <3>2. Resting(c)'
        BY <1>1, <2>1, <3>1, RestingRewritten
    <3>3. CASE c = "last_success"
        BY <1>1, <2>1, <3>2, <3>3, KeyStays, KeysAre DEF SettleInv, ContentInv
    <3>4. CASE c = "active_job"
        BY <1>1, <2>1, <3>2, <3>4, KeyStays, KeysAre DEF SettleInv, ContentInv
    <3> QED
        BY <2>3, <3>3, <3>4
  <2>4. CASE c = "dedupe"
    <3>1. Readable("dedupe") /\ Record("dedupe")' = Record("dedupe")
        BY <2>1, <2>4, <1>1, RewrittenSame DEF SettleInv, Rewritten
    <3> QED
        BY <1>1, <2>1, <2>4, <3>1, KeyStays, KeysAre DEF SettleInv, ContentInv
  <2> QED
      BY <2>1, <2>2, <2>3, <2>4 DEF Keys
<1>4. CASE pc = "dedupe" /\ Windowed
  <2>1. /\ IsRecord("dedupe", Record("dedupe"))'
        /\ \A k \in Keys \ {"dedupe"} : disk'[k] = disk[k]
      BY <1>1, <1>4, WindowWritten
  <2> QED
      BY <1>1, <2>1, KeyStays, KeysAre DEF SettleInv, ContentInv
<1>5. CASE Cleaned
  <2>1. disk'["active_job"] = Missing /\ \A k \in Keys \ {"active_job"} : disk'[k] = disk[k]
      BY <1>1, <1>5, KeysAre DEF Cleaned
  <2> QED
      BY <1>1, <2>1, KeyStays, KeysAre DEF SettleInv, ContentInv
<1>6. CASE disk' = disk \/ Numbered
  <2>1. Kept3
      BY <1>1, <1>6, KeysAre DEF Numbered
  <2> QED
      BY <2>1, <1>2
<1> QED
    BY <1>3, <1>4, <1>5, <1>6, Writers
-----------------------------------------------------------------------------
(* Only recover() and reconcileCompleted enter a place of the settlement.  *)
LEMMA SettlementStays ==
    ASSUME JobInv, [Next]_vars, pc' \in {"dedupe", "cleanup"}, ~Recover, ~ReconcileDedupe
    PROVE  pc' = pc /\ \A k \in Keys \ {"sequence"} : disk'[k] = disk[k]
<1>1. ~(Boot \/ StopsNow \/ OpenFails \/ CheckKey \/ RewriteKey \/ VerifyKey \/ ReconcileCleanup)
    BY DEF Boot, StopsNow, OpenFails, CheckKey, RewriteKey, VerifyKey, ReconcileCleanup, BackUp, NextKey
<1>2. CASE UNCHANGED vars \/ BeginAssemble \/ DiagFails \/ DiagAnswers \/ HandOut \/ IntervalPasses
    BY <1>2 DEF vars, stored, process, BeginAssemble, DiagFails, DiagAnswers, HandOut, IntervalPasses
<1>3. CASE AllocateBlocked \/ AllocateSaves
    BY <1>3, KeysAre DEF JobInv, AllocateBlocked, AllocateSaves, Saved, SaveFails, process
<1> QED
    BY <1>1, <1>2, <1>3 DEF Next

LEMMA SettlingKept ==
    ASSUME SettleInv, [Next]_vars, pc' \in {"dedupe", "cleanup"}
    PROVE  Settling'
<1>1. first' = first
    BY FirstStays
<1>2. CASE Recover
  <2>1. disk' = disk /\ Settling
      BY <1>2 DEF Recover, stored, Settling, Confirmed, IsEntryOf
  <2> QED
      BY <2>1, <1>1, KeyStays, KeysAre DEF Settling, IsEntryOf
<1>3. CASE ReconcileDedupe
  <2>1. Settling /\ \A k \in Keys \ {"dedupe"} : disk'[k] = disk[k]
    <3>1. pc = "dedupe" /\ (disk' = disk \/ \E v : disk' = [disk EXCEPT !["dedupe"] = v])
        BY <1>3 DEF ReconcileDedupe, Saved, SaveFails
    <3> QED
        BY <3>1, KeysAre DEF SettleInv, JobInv
  <2> QED
      BY <2>1, <1>1, KeyStays, KeysAre DEF Settling, IsEntryOf
<1>4. CASE ~(Recover \/ ReconcileDedupe)
  <2>1. Settling /\ \A k \in Keys \ {"sequence"} : disk'[k] = disk[k]
      BY <1>4, SettlementStays DEF SettleInv
  <2> QED
      BY <2>1, <1>1, KeyStays, KeysAre DEF Settling, IsEntryOf
<1> QED
    BY <1>2, <1>3, <1>4

LEMMA ListedKept ==
    ASSUME MissingIsNoEnvelope, SettleInv, [Next]_vars, pc' = "cleanup"
    PROVE  Listed'
<1>1. first' = first
    BY FirstStays
<1>2. CASE ReconcileDedupe
  <2>1. PICK lost \in BOOLEAN :
            \/ InWindow(DedupeWindow(lost), Record("last_success")) /\ disk' = disk
            \/ Windowed
      BY <1>2 DEF ReconcileDedupe, Saved, SaveFails, Windowed, NewWindow
  <2>2. CASE Windowed
    <3>1. pc = "dedupe"
        BY <1>2 DEF ReconcileDedupe
    <3>2. /\ Readable("dedupe")' /\ disk'["last_success"] = disk["last_success"]
          /\ InWindow(Record("dedupe")'.entries, Record("last_success"))
        BY <3>1, <2>2, <1>1, WindowWritten, KeysAre
    <3> QED
        BY <3>2, <1>1, KeyStays, KeysAre DEF Listed
  <2>3. CASE InWindow(DedupeWindow(lost), Record("last_success")) /\ disk' = disk
    <3>1. DedupeWindow(lost) # <<>>
        BY <2>3 DEF InWindow
    <3>2. Readable("dedupe") /\ DedupeWindow(lost) = Record("dedupe").entries
        BY <3>1 DEF DedupeWindow
    <3>3. Listed
        BY <2>3, <3>2 DEF Listed
    <3> QED
        BY <2>3, <3>3, <1>1, KeyStays, KeysAre DEF Listed
  <2> QED
      BY <2>1, <2>2, <2>3
<1>3. CASE ~ReconcileDedupe
  <2>1. ~Recover
      BY DEF Recover
  <2>2. Listed /\ \A k \in Keys \ {"sequence"} : disk'[k] = disk[k]
      BY <2>1, <1>3, SettlementStays DEF SettleInv
  <2> QED
      BY <2>2, <1>1, KeyStays, KeysAre DEF Listed
<1> QED
    BY <1>2, <1>3

LEMMA ConfirmedKept ==
    ASSUME MissingIsNoEnvelope, SettleInv, [Next]_vars
    PROVE  JobEndsConfirmed'
<1> DEFINE job == Decode("active_job", first["active_job"])
           Confirmation ==
               /\ job.phase = "CompletedPendingCleanup"
               /\ Readable("last_success") /\ IsEntryOf(Record("last_success"), job)
               /\ Readable("dedupe")
               /\ \E i \in 1..Len(Record("dedupe").entries) : IsEntryOf(Record("dedupe").entries[i], job)
<1>1. first' = first /\ first \in Stores /\ disk = [k \in Keys |-> disk[k]] /\ at \in 1..4
    BY FirstStays DEF SettleInv, ContentInv, JobInv
<1> SUFFICES ASSUME FirstReads("active_job"), ~Exists("active_job")' PROVE Confirmation'
    BY <1>1 DEF JobEndsConfirmed, FirstReads
<1>2. CASE pc = "cleanup" /\ Cleaned
  <2>1. Settling /\ Listed /\ Resting("active_job")
      BY <1>2 DEF SettleInv, ContentInv, Settling, Readable, Exists
  <2>2. Record("active_job") = job
      BY <2>1, <1>1, RestingContent, KeysAre DEF Settling
  <2>3. Confirmation
      BY <2>1, <2>2 DEF Settling, Listed, InWindow, IsEntryOf
  <2>4. disk'["last_success"] = disk["last_success"] /\ disk'["dedupe"] = disk["dedupe"]
      BY <1>1, <1>2, KeysAre DEF Cleaned
  <2> QED
      BY <2>3, <2>4, <1>1, KeyStays, KeysAre
<1>3. CASE ~(pc = "cleanup" /\ Cleaned)
  <2>1. /\ ~Exists("active_job")
        /\ \A k \in {"last_success", "dedupe"} :
               Readable(k) => Readable(k)' /\ Record(k)' = Record(k)
    <3>1. CASE disk' = disk \/ Numbered
      <4>1. \A k \in Keys \ {"sequence"} : disk'[k] = disk[k]
          BY <3>1, <1>1, KeysAre DEF Numbered
      <4> QED
          BY <4>1, <1>1, KeyStays, KeysAre
    <3>2. CASE Rewritten(KeyOrder[at])
      <4>1. PICK c \in Keys : c = KeyOrder[at]
          BY <1>1, KeysAre
      <4> QED
          BY <3>2, <4>1, <1>1, RewrittenSame, KeysAre DEF SettleInv
    <3>3. CASE pc = "dedupe" /\ Windowed
      <4>1. Exists("active_job") /\ disk'["active_job"] = disk["active_job"]
          BY <3>3, <1>1, WindowWritten, KeysAre DEF SettleInv, Settling, Readable
      <4> QED
          BY <4>1 DEF Exists
    <3> QED
        BY <3>1, <3>2, <3>3, <1>3, Writers
  <2>2. Confirmation
      BY <2>1 DEF SettleInv, JobEndsConfirmed
  <2> QED
      BY <2>1, <2>2, <1>1
<1> QED
    BY <1>2, <1>3

LEMMA SettleInit == Init => SettleInv
<1> SUFFICES ASSUME Init PROVE SettleInv
    OBVIOUS
<1>1. disk \in Stores /\ first = disk /\ at = 1 /\ pc = "off"
    BY DEF Init
<1>2. disk = [k \in Keys |-> disk[k]] /\ (Readable("dedupe") => IsList(Record("dedupe").entries))
    BY <1>1, StoreAssumption DEF Readable, Exists, Record
<1>3. Readable("dedupe") => IsRecord("dedupe", Record("dedupe"))
    BY <1>2, RecordIsRead, KeysAre DEF Readable, Record
<1> QED
    BY <1>1, <1>2, <1>3 DEF SettleInv, JobInv, ContentInv, Resting, JobEndsConfirmed, FirstReads, Exists

LEMMA SettleStep ==
    ASSUME MissingIsNoEnvelope, SettleInv, [Next]_vars
    PROVE  SettleInv'
<1>1. JobInv'
    BY JobStep DEF SettleInv
<1> QED
    BY <1>1, ContentStep, SettlingKept, ListedKept, ConfirmedKept DEF SettleInv

(* A job leaves the store only as a finished one whose success is recorded *)
(* and whose report is listed in the dedupe window, whatever fails and     *)
(* however often the process starts (StateRecovery::recover,               *)
(* reconcileCompleted).                                                    *)
THEOREM JobsEndConfirmed == MissingIsNoEnvelope => (Spec => []JobEndsConfirmed)
<1> SUFFICES ASSUME MissingIsNoEnvelope PROVE Spec => []JobEndsConfirmed
    OBVIOUS
<1>1. Init => SettleInv
    BY SettleInit
<1>2. SettleInv /\ [Next]_vars => SettleInv'
    BY SettleStep
<1>3. SettleInv => JobEndsConfirmed
    BY DEF SettleInv
<1> QED
    BY <1>1, <1>2, <1>3, PTL DEF Spec
-----------------------------------------------------------------------------
(***************************************************************************)
(* Boots that no store operation disturbs, only power losses do.           *)
(***************************************************************************)
Place == [k \in Keys |-> CASE k = "sequence" -> 1 [] k = "last_success" -> 2
                          [] k = "dedupe" -> 3 [] k = "active_job" -> 4]

Opening == pc \in {"check", "rewrite", "verify"}

(* open() is past the key.                                                 *)
Opened(k) == pc \in {"recover", "dedupe", "cleanup", "run"} \/ (Opening /\ Place[k] < at)

(* The flag of a key says what its bytes are, and they are not older.      *)
Judged(k) ==
    /\ corrupt[k] <=> Exists(k) /\ ~Readable(k)
    /\ Readable(k) => ~IsOlder(k, disk[k])

FlagInv ==
    /\ \A k \in Keys : Opening /\ ~Opened(k) => ~corrupt[k]
    /\ \A k \in Keys : Opened(k) /\ (k = "sequence" => pc # "run") => Judged(k)
    /\ pc = "rewrite" => Exists(KeyOrder[at]) /\ IsOlder(KeyOrder[at], disk[KeyOrder[at]])
    /\ pc = "verify" => Readable(KeyOrder[at]) /\ ~IsOlder(KeyOrder[at], disk[KeyOrder[at]])

LEMMA Places ==
    /\ \A k \in Keys : Place[k] \in 1..4 /\ KeyOrder[Place[k]] = k
    /\ \A i \in 1..4 : Place[KeyOrder[i]] = i
<1>1. /\ Place["sequence"] = 1 /\ Place["last_success"] = 2
      /\ Place["dedupe"] = 3 /\ Place["active_job"] = 4
    BY KeysAre DEF Place
<1> QED
    BY <1>1, KeysAre

LEMMA LoadsAreFinite == IsFiniteSet({"sequence", "last_success", "active_job"})
<1>1. \A x : IsFiniteSet({x})
    BY FS_Singleton
<1>2. IsFiniteSet({"sequence"} \cup {"last_success"})
    BY <1>1, FS_Union
<1>3. IsFiniteSet(({"sequence"} \cup {"last_success"}) \cup {"active_job"})
    BY <1>1, <1>2, FS_Union
<1>4. {"sequence", "last_success", "active_job"} = ({"sequence"} \cup {"last_success"}) \cup {"active_job"}
    OBVIOUS
<1> QED
    BY <1>3, <1>4

(* A failed store operation is never forgotten.                            *)
LEMMA FaultsGrow ==
    ASSUME faults \in Nat, [Next]_vars
    PROVE  faults' \in Nat /\ faults <= faults'
<1>1. CASE UNCHANGED vars \/ Boot \/ StopsNow \/ BeginAssemble \/ DiagFails \/ DiagAnswers \/ AllocateSaves
           \/ HandOut \/ IntervalPasses
    BY <1>1 DEF vars, Boot, StopsNow, BeginAssemble, DiagFails, DiagAnswers, AllocateSaves, HandOut, IntervalPasses
<1>2. CASE OpenFails \/ CheckKey \/ RewriteKey \/ VerifyKey \/ ReconcileCleanup \/ AllocateBlocked
  <2>1. Fails \/ Works
      BY <1>2 DEF OpenFails, CheckKey, BackUp, RewriteKey, VerifyKey, ReconcileCleanup, AllocateBlocked
  <2> QED
      BY <2>1 DEF Fails, Works
<1>3. CASE Recover
  <2>1. PICK lost \in SUBSET {"sequence", "last_success", "active_job"}, again \in BOOLEAN :
            faults' = faults + Cardinality(lost) + (IF again THEN 1 ELSE 0)
      BY <1>3 DEF Recover
  <2>2. IsFiniteSet({"sequence", "last_success", "active_job"})
      BY LoadsAreFinite
  <2>3. Cardinality(lost) \in Nat
      BY <2>2, FS_Subset, FS_CardinalityType
  <2> QED
      BY <2>1, <2>3
<1>4. CASE ReconcileDedupe
  <2>1. faults' = faults \/ faults' = faults + 1 \/ faults' = faults + 2
      BY <1>4 DEF ReconcileDedupe
  <2> QED
      BY <2>1
<1> QED
    BY <1>1, <1>2, <1>3, <1>4 DEF Next

LEMMA NextOpened ==
    ASSUME Opening, NextKey, at \in 1..4
    PROVE  /\ pc' \in {"check", "recover"}
           /\ \A k \in Keys : Opened(k)' <=> Opened(k) \/ k = KeyOrder[at]
<1>1. Len(KeyOrder) = 4
    BY KeysAre
<1>2. CASE at = 4
  <2>1. pc' = "recover" /\ \A k \in Keys : Opened(k)'
      BY <1>1, <1>2 DEF NextKey, Opened
  <2>2. \A k \in Keys : Place[k] < at \/ k = KeyOrder[at]
      BY <1>2, Places
  <2> QED
      BY <2>1, <2>2 DEF Opened
<1>3. CASE at # 4
  <2>1. pc' = "check" /\ at' = at + 1
      BY <1>1, <1>3 DEF NextKey
  <2>2. \A k \in Keys : Place[k] < at + 1 <=> Place[k] < at \/ k = KeyOrder[at]
      BY Places
  <2> QED
      BY <2>1, <2>2 DEF Opened, Opening
<1> QED
    BY <1>2, <1>3

(* What a step of open() leaves when it is done with its key.              *)
LEMMA FlagNext ==
    ASSUME FlagInv, Opening, NextKey, at \in 1..4, NEW c \in Keys, c = KeyOrder[at],
           \A k \in Keys : k # c => disk'[k] = disk[k] /\ corrupt'[k] = corrupt[k],
           Judged(c)'
    PROVE  FlagInv'
<1>1. \A k \in Keys : k # c => Judged(k)' = Judged(k)
    BY DEF Judged, Readable, Exists
<1>2. pc' \in {"check", "recover"} /\ \A k \in Keys : Opened(k)' <=> Opened(k) \/ k = c
    BY NextOpened
<1>3. \A k \in Keys : Opening' /\ ~Opened(k)' => ~corrupt'[k]
    BY <1>2 DEF FlagInv
<1>4. \A k \in Keys : Opened(k)' => Judged(k)'
    BY <1>1, <1>2 DEF FlagInv, Opening
<1> QED
    BY <1>2, <1>3, <1>4 DEF FlagInv

(* open() without a failing store operation.                               *)
LEMMA FlagOpen ==
    ASSUME MissingIsNoEnvelope, PassedInv, SettleInv, FlagInv, faults = 0, faults' = 0,
           CheckKey \/ RewriteKey \/ VerifyKey
    PROVE  FlagInv'
<1>1. /\ at \in 1..4 /\ disk = [k \in Keys |-> disk[k]] /\ corrupt = [k \in Keys |-> corrupt[k]]
      /\ Opening /\ ~Fails
    BY DEF PassedInv, JobInv, CheckKey, RewriteKey, VerifyKey, Opening, Fails
<1>2. PICK c \in Keys : c = KeyOrder[at]
    BY <1>1, KeysAre
<1>3. ~Opened(c) /\ ~corrupt[c]
  <2>1. Place[c] = at /\ pc \in {"check", "rewrite", "verify"}
      BY <1>1, <1>2, Places DEF Opening
  <2>2. ~Opened(c)
      BY <2>1, <1>1 DEF Opened
  <2> QED
      BY <1>1, <2>2 DEF FlagInv
<1>4. ASSUME Flag(c) PROVE corrupt'[c] /\ \A k \in Keys : k # c => corrupt'[k] = corrupt[k]
    BY <1>1, <1>4 DEF Flag
(* The process stays at its key.                                           *)
<1>5. ASSUME UNCHANGED <<at, corrupt>>, pc' \in {"rewrite", "verify"},
             \A k \in Keys : k # c => disk'[k] = disk[k],
             pc' = "rewrite" => Exists(c)' /\ IsOlder(c, disk'[c]),
             pc' = "verify" => Readable(c)' /\ ~IsOlder(c, disk'[c])
      PROVE  FlagInv'
  <2>1. \A k \in Keys : Opened(k)' = Opened(k)
      BY <1>1, <1>5 DEF Opened, Opening
  <2>2. \A k \in Keys : k # c => Judged(k)' = Judged(k)
      BY <1>5 DEF Judged, Readable, Exists
  <2>3. KeyOrder[at'] = c
      BY <1>2, <1>5
  <2>4. \A k \in Keys : Opened(k)' => Judged(k)'
      BY <1>1, <1>3, <2>1, <2>2 DEF FlagInv, Opening
  <2>5. \A k \in Keys : ~Opened(k)' => ~corrupt'[k]
      BY <1>1, <1>5, <2>1 DEF FlagInv
  <2>6. pc' = "rewrite" => Exists(KeyOrder[at])' /\ IsOlder(KeyOrder[at], disk[KeyOrder[at]])'
      BY <1>5, <2>3 DEF Exists, IsOlder
  <2>7. pc' = "verify" => Readable(KeyOrder[at])' /\ ~IsOlder(KeyOrder[at], disk[KeyOrder[at]])'
      BY <1>5, <2>3 DEF Readable, Exists, IsOlder
  <2> QED
      BY <2>4, <2>5, <2>6, <2>7 DEF FlagInv
<1>6. CASE CheckKey
  <2>1. /\ disk' = disk /\ pc = "check"
        /\ \/ disk[c] = Missing /\ NextKey /\ UNCHANGED corrupt
           \/ /\ disk[c] # Missing /\ (~HeaderIsReadable(disk[c]) \/ IsNewer(c, disk[c]))
              /\ Flag(c) /\ NextKey
           \/ /\ disk[c] # Missing /\ disk[c].version = SchemaVersion[c]
              /\ IF Decodes(c, disk[c]) THEN UNCHANGED corrupt ELSE Flag(c)
              /\ NextKey
           \/ /\ disk[c] # Missing /\ IsOlder(c, disk[c]) /\ pc' = "rewrite" /\ UNCHANGED <<at, corrupt>>
      BY <1>1, <1>2, <1>6 DEF CheckKey, BackUp
  <2>2. CASE disk[c] # Missing /\ IsOlder(c, disk[c]) /\ pc' = "rewrite" /\ UNCHANGED <<at, corrupt>>
      BY <1>5, <2>1, <2>2 DEF Exists, IsOlder
  <2>3. disk[c].version = SchemaVersion[c] => ~IsOlder(c, disk[c])
      BY Versions DEF IsOlder
  <2>4. CASE NextKey /\ (corrupt' = corrupt \/ Flag(c)) /\ Judged(c)'
      BY <1>1, <1>2, <1>4, <2>1, <2>4, FlagNext
  <2>5. CASE disk[c] = Missing /\ NextKey /\ UNCHANGED corrupt
    <3>1. Judged(c)'
        BY <1>3, <2>1, <2>5 DEF Judged, Exists, Readable
    <3> QED
        BY <2>4, <2>5, <3>1
  <2>6. CASE disk[c] # Missing /\ (~HeaderIsReadable(disk[c]) \/ IsNewer(c, disk[c])) /\ Flag(c) /\ NextKey
    <3>1. ~Decodes(c, disk[c])
        BY <2>6 DEF Decodes
    <3>2. Judged(c)'
        BY <1>4, <2>1, <2>6, <3>1 DEF Judged, Exists, Readable
    <3> QED
        BY <2>4, <2>6, <3>2
  <2>7. CASE /\ disk[c] # Missing /\ disk[c].version = SchemaVersion[c] /\ NextKey
             /\ IF Decodes(c, disk[c]) THEN UNCHANGED corrupt ELSE Flag(c)
    <3>1. Judged(c)'
        BY <1>3, <1>4, <2>1, <2>3, <2>7 DEF Judged, Exists, Readable, IsOlder
    <3> QED
        BY <2>4, <2>7, <3>1
  <2> QED
      BY <2>1, <2>2, <2>5, <2>6, <2>7
<1>7. CASE RewriteKey
  <2>1. /\ pc = "rewrite"
        /\ \/ ~Readable(c) /\ Flag(c) /\ NextKey /\ disk' = disk
           \/ Readable(c) /\ Rewritten(c) /\ pc' = "verify" /\ UNCHANGED <<at, corrupt>>
      BY <1>1, <1>2, <1>7 DEF RewriteKey, Saved, Rewritten
  <2>2. CASE ~Readable(c) /\ Flag(c) /\ NextKey /\ disk' = disk
    <3>1. Exists(c)
        BY <1>2, <2>1 DEF FlagInv
    <3>2. Judged(c)'
        BY <1>4, <2>2, <3>1 DEF Judged, Exists, Readable
    <3> QED
        BY <1>1, <1>2, <1>4, <2>2, <3>2, FlagNext
  <2>3. CASE Readable(c) /\ Rewritten(c) /\ pc' = "verify" /\ UNCHANGED <<at, corrupt>>
    <3>1. disk'[c] = Encode(c, Record(c)) /\ \A k \in Keys : k # c => disk'[k] = disk[k]
        BY <1>1, <2>3 DEF Rewritten
    <3>2. Readable(c)'
        BY <2>3, FirstStays, RewrittenSame DEF SettleInv, Next
    <3>3. ~IsOlder(c, disk'[c])
        BY <3>1, EncodedIsCurrent
    <3> QED
        BY <1>5, <2>3, <3>1, <3>2, <3>3
  <2> QED
      BY <2>1, <2>2, <2>3
<1>8. CASE VerifyKey
  <2>1. pc = "verify" /\ disk' = disk /\ NextKey /\ (IF Readable(c) THEN UNCHANGED corrupt ELSE Flag(c))
      BY <1>1, <1>2, <1>8 DEF VerifyKey, stored
  <2>2. Readable(c) /\ ~IsOlder(c, disk[c])
      BY <1>2, <2>1 DEF FlagInv
  <2>3. Judged(c)'
      BY <1>3, <2>1, <2>2 DEF Judged, Exists, Readable, IsOlder
  <2> QED
      BY <1>1, <1>2, <2>1, <2>2, <2>3, FlagNext
<1> QED
    BY <1>6, <1>7, <1>8

(* recover() when every load succeeds.                                     *)
LEMMA QuietRecover ==
    ASSUME PassedInv, FlagInv, faults = 0, faults' = 0, Recover
    PROVE  /\ pc = "recover" /\ disk' = disk /\ \A k \in Keys : corrupt'[k] <=> corrupt[k]
           /\ \/ BlockedBy({}) /\ pc' = "run"
              \/ ~BlockedBy({}) /\ ~Readable("active_job") /\ pc' = "run"
              \/ /\ ~BlockedBy({}) /\ Readable("active_job")
                 /\ pc' = IF Record("active_job").phase = "CompletedPendingCleanup" /\ Confirmed({})
                          THEN "dedupe" ELSE "run"
<1> DEFINE loaded(lost) == IF corrupt["sequence"] THEN {}
                           ELSE IF RolledBack(lost) THEN {"last_success"}
                           ELSE {"last_success", "active_job"}
           bad(lost, k) == k \in loaded(lost) /\ (k \in lost \/ (Exists(k) /\ ~Readable(k)))
           settles(lost) == /\ ~BlockedBy(lost) /\ Readable("active_job") /\ "active_job" \notin lost
                            /\ Record("active_job").phase = "CompletedPendingCleanup"
                            /\ Confirmed(lost)
<1>1. PICK lost \in SUBSET {"sequence", "last_success", "active_job"}, again \in BOOLEAN :
          /\ faults' = faults + Cardinality(lost) + (IF again THEN 1 ELSE 0)
          /\ corrupt' = [[k \in Keys |-> corrupt[k] \/ bad(lost, k)] EXCEPT !["last_success"] = @ \/ again]
          /\ \/ BlockedBy(lost) /\ pc' = "run"
             \/ ~BlockedBy(lost) /\ ~(Readable("active_job") /\ "active_job" \notin lost) /\ pc' = "run"
             \/ /\ ~BlockedBy(lost) /\ Readable("active_job") /\ "active_job" \notin lost
                /\ IF settles(lost) /\ ~again THEN pc' = "dedupe" ELSE pc' = "run"
    BY DEF Recover
<1>2. lost = {} /\ ~again
  <2>1. IsFiniteSet({"sequence", "last_success", "active_job"})
      BY LoadsAreFinite
  <2>2. IsFiniteSet(lost)
      BY <2>1, FS_Subset
  <2>3. Cardinality(lost) \in Nat
      BY <2>2, FS_CardinalityType
  <2>4. Cardinality(lost) = 0 /\ ~again
      BY <1>1, <2>3
  <2> QED
      BY <2>2, <2>4, FS_EmptySet
<1>3. pc = "recover" /\ disk' = disk
    BY DEF Recover, stored
<1>4. \A k \in Keys : Opened(k) /\ Judged(k)
    BY <1>3 DEF Opened, FlagInv
<1>5. \A k \in Keys : bad({}, k) => corrupt[k]
    BY <1>4 DEF Judged
<1>6. \A k \in Keys : corrupt'[k] <=> corrupt[k]
  <2>1. corrupt' = [[k \in Keys |-> corrupt[k] \/ bad({}, k)] EXCEPT !["last_success"] = @ \/ FALSE]
      BY <1>1, <1>2
  <2> HIDE DEF bad
  <2>2. \A k \in Keys : corrupt'[k] <=> corrupt[k] \/ bad({}, k)
      BY <2>1
  <2> QED
      BY <2>2, <1>5
<1> QED
    BY <1>1, <1>2, <1>3, <1>6

(* The settlement and the assembler without a failing store operation.     *)
LEMMA FlagRest ==
    ASSUME MissingIsNoEnvelope, PassedInv, SettleInv, FlagInv, faults = 0, faults' = 0,
           [Next]_vars, ~(CheckKey \/ RewriteKey \/ VerifyKey)
    PROVE  FlagInv'
<1>1. /\ at \in 1..4 /\ disk = [k \in Keys |-> disk[k]] /\ corrupt = [k \in Keys |-> corrupt[k]] /\ ~Fails
      /\ asm # "idle" => pc = "run"
    BY DEF PassedInv, JobInv, Fails
<1>2. ASSUME NEW k \in Keys, disk'[k] = disk[k], corrupt'[k] <=> corrupt[k] PROVE Judged(k)' <=> Judged(k)
    BY <1>2 DEF Judged, Readable, Exists
<1>3. CASE UNCHANGED vars \/ BeginAssemble \/ DiagFails \/ DiagAnswers \/ HandOut \/ IntervalPasses
  <2>1. UNCHANGED <<disk, pc, at, corrupt>>
      BY <1>3 DEF vars, stored, process, BeginAssemble, DiagFails, DiagAnswers, HandOut, IntervalPasses
  <2> QED
      BY <2>1 DEF FlagInv, Opening, Opened, Judged, Readable, Exists
<1>4. CASE Boot \/ StopsNow \/ OpenFails
  <2>1. \/ pc' = "off"
        \/ pc' = "check" /\ at' = 1 /\ corrupt' = [k \in Keys |-> FALSE]
      BY <1>4 DEF Boot, StopsNow, OpenFails
  <2>2. \A k \in Keys : ~Opened(k)'
    <3>1. \A k \in Keys : ~(Place[k] < 1)
        BY Places
    <3> QED
        BY <2>1, <3>1 DEF Opened, Opening
  <2>3. \A k \in Keys : Opening' => ~corrupt'[k]
      BY <2>1 DEF Opening
  <2> QED
      BY <2>1, <2>2, <2>3 DEF FlagInv
<1>5. CASE Recover
  <2>1. /\ pc = "recover" /\ pc' \in {"run", "dedupe"} /\ disk' = disk
        /\ \A k \in Keys : corrupt'[k] <=> corrupt[k]
      BY <1>5, QuietRecover
  <2>2. \A k \in Keys : Judged(k)
      BY <2>1 DEF FlagInv, Opened
  <2>3. \A k \in Keys : Judged(k)'
      BY <1>2, <2>1, <2>2
  <2> QED
      BY <2>1, <2>3 DEF FlagInv, Opening
<1>6. CASE ReconcileDedupe
  <2>1. /\ pc = "dedupe" /\ pc' = "cleanup"
        /\ \/ disk' = disk /\ corrupt' = corrupt
           \/ Windowed /\ corrupt' = [corrupt EXCEPT !["dedupe"] = FALSE]
    <3>1. PICK lost \in BOOLEAN :
              \/ pc' = "cleanup" /\ UNCHANGED <<disk, corrupt>>
              \/ /\ Saved("dedupe", Encode("dedupe", NewWindow(lost)))
                 /\ corrupt' = [corrupt EXCEPT !["dedupe"] = FALSE] /\ pc' = "cleanup"
              \/ faults' = faults + (IF lost THEN 2 ELSE 1)
        BY <1>6 DEF ReconcileDedupe, NewWindow
    <3> QED
        BY <1>6, <3>1 DEF ReconcileDedupe, Saved, Windowed
  <2>2. \A k \in Keys : Judged(k)
      BY <2>1 DEF FlagInv, Opened
  <2>3. \A k \in Keys : k # "dedupe" => Judged(k)'
    <3>1. \A k \in Keys : k # "dedupe" => disk'[k] = disk[k] /\ corrupt'[k] = corrupt[k]
        BY <1>1, <2>1 DEF Windowed
    <3> QED
        BY <1>2, <2>2, <3>1
  <2>4. Judged("dedupe")'
    <3>1. CASE disk' = disk /\ corrupt' = corrupt
        BY <1>2, <2>2, <3>1, KeysAre
    <3>2. CASE Windowed /\ corrupt' = [corrupt EXCEPT !["dedupe"] = FALSE]
      <4>1. Readable("dedupe")'
          BY <2>1, <3>2, FirstStays, WindowWritten
      <4>2. ~IsOlder("dedupe", disk'["dedupe"])
          BY <1>1, <3>2, EncodedIsCurrent, KeysAre DEF Windowed
      <4>3. ~corrupt'["dedupe"]
          BY <1>1, <3>2, KeysAre
      <4> QED
          BY <4>1, <4>2, <4>3 DEF Judged, IsOlder
    <3> QED
        BY <2>1, <3>1, <3>2
  <2>5. \A k \in Keys : Judged(k)'
      BY <2>3, <2>4
  <2> QED
      BY <2>1, <2>5 DEF FlagInv, Opening
<1>7. CASE ReconcileCleanup
  <2>1. /\ pc = "cleanup" /\ pc' = "run" /\ corrupt' = corrupt /\ disk'["active_job"] = Missing
        /\ \A k \in Keys : k # "active_job" => disk'[k] = disk[k]
      BY <1>1, <1>7, KeysAre DEF ReconcileCleanup, Saved
  <2>2. \A k \in Keys : Judged(k)
      BY <2>1 DEF FlagInv, Opened
  <2>3. ~corrupt["active_job"]
      BY <2>1, <2>2, KeysAre DEF SettleInv, Settling, Judged
  <2>4. Judged("active_job")'
      BY <2>1, <2>3 DEF Judged, Readable, Exists
  <2>5. \A k \in Keys : Judged(k)'
      BY <1>2, <2>1, <2>2, <2>4
  <2> QED
      BY <2>1, <2>5 DEF FlagInv, Opening
<1>8. CASE AllocateBlocked \/ AllocateSaves
  <2>1. /\ pc = "run" /\ pc' = "run"
        /\ \A k \in Keys : k # "sequence" => disk'[k] = disk[k] /\ corrupt'[k] = corrupt[k]
      BY <1>1, <1>8 DEF AllocateBlocked, AllocateSaves, Saved, Flag, process
  <2>2. \A k \in Keys : k # "sequence" => Judged(k)'
      BY <1>2, <2>1 DEF FlagInv, Opened
  <2> QED
      BY <2>1, <2>2 DEF FlagInv, Opening
<1> QED
    BY <1>3, <1>4, <1>5, <1>6, <1>7, <1>8 DEF Next
-----------------------------------------------------------------------------
(***************************************************************************)
(* What a single boot makes of the first store, and how far an interrupted *)
(* one has come.                                                           *)
(***************************************************************************)
Untouched(k) == disk[k] = first[k] \/ disk[k] = Upgraded(k)

Recovered ==
    /\ disk["last_success"] = Upgraded("last_success")
    /\ disk["active_job"] = IF FinishedJob THEN Missing ELSE Upgraded("active_job")
    /\ disk["dedupe"] = IF FinishedJob THEN SettledDedupe ELSE Upgraded("dedupe")

RestartInv ==
    /\ first["sequence"] # Missing /\ ~FirstReads("sequence") => disk["sequence"] = first["sequence"]
    /\ Untouched("last_success")
    /\ Untouched("active_job") \/ Recovered
    /\ Untouched("dedupe") \/ (FinishedJob /\ disk["dedupe"] = SettledDedupe)
    /\ Untouched("sequence") \/ Recovered
    /\ pc \in {"dedupe", "cleanup"} => FinishedJob
    /\ pc = "cleanup" => disk["dedupe"] = SettledDedupe
    /\ pc = "run" => Recovered

LEMMA UpgradedIs ==
    ASSUME first \in Stores, NEW k \in Keys
    PROVE  /\ FirstReads(k) => /\ Decodes(k, Upgraded(k)) /\ ~IsOlder(k, Upgraded(k))
                               /\ Decode(k, Upgraded(k)) = Decode(k, first[k])
           /\ ~FirstReads(k) => Upgraded(k) = first[k]
<1>1. CASE FirstReads(k) /\ IsOlder(k, first[k])
  <2>1. Upgraded(k) = Encode(k, Decode(k, first[k])) /\ IsRecord(k, Decode(k, first[k]))
      BY <1>1, FirstRecord DEF Upgraded
  <2> QED
      BY <1>1, <2>1, ReadsBack
<1>2. CASE ~(FirstReads(k) /\ IsOlder(k, first[k]))
  <2>1. Upgraded(k) = first[k]
      BY <1>2 DEF Upgraded
  <2> QED
      BY <1>2, <2>1 DEF FirstReads
<1> QED
    BY <1>1, <1>2

LEMMA UntouchedContent ==
    ASSUME MissingIsNoEnvelope, first \in Stores, NEW k \in Keys, Untouched(k)
    PROVE  /\ Readable(k) <=> FirstReads(k)
           /\ Exists(k) <=> first[k] # Missing
           /\ Readable(k) => Record(k) = Decode(k, first[k])
           /\ Judged(k) => disk[k] = Upgraded(k)
           /\ Readable(k) /\ IsOlder(k, disk[k]) => disk[k] = first[k]
<1>1. CASE disk[k] = first[k]
  <2>1. /\ Readable(k) <=> FirstReads(k)
        /\ Exists(k) <=> first[k] # Missing
        /\ Readable(k) => Record(k) = Decode(k, first[k])
      BY <1>1 DEF Readable, Exists, FirstReads, Record
  <2>2. Judged(k) => disk[k] = Upgraded(k)
      BY <1>1, <2>1 DEF Judged, Upgraded
  <2> QED
      BY <1>1, <2>1, <2>2
<1>2. CASE disk[k] # first[k]
  <2>1. /\ disk[k] = Upgraded(k) /\ FirstReads(k)
        /\ disk[k] = Encode(k, Decode(k, first[k]))
      BY <1>2 DEF Untouched, Upgraded
  <2>2. disk[k] # Missing
      BY <2>1 DEF MissingIsNoEnvelope, Encode
  <2> QED
      BY <2>1, <2>2, UpgradedIs DEF Readable, Exists, FirstReads, Record
<1> QED
    BY <1>1, <1>2

(* A single boot leaves no record older.                                   *)
LEMMA SettledIs ==
    ASSUME MissingIsNoEnvelope, first \in Stores, FinishedJob
    PROVE  \/ SettledDedupe = Upgraded("dedupe")
           \/ /\ SettledDedupe # Missing /\ Decodes("dedupe", SettledDedupe) /\ ~IsOlder("dedupe", SettledDedupe)
              /\ InWindow(Decode("dedupe", SettledDedupe).entries, Decode("last_success", first["last_success"]))
<1> DEFINE success == Decode("last_success", first["last_success"])
           window == IF FirstReads("dedupe") THEN Decode("dedupe", first["dedupe"]).entries ELSE <<>>
           q == Evicted(Append(window, success))
<1>1. IsEntry(success)
  <2>1. IsRecord("last_success", success)
      BY FirstRecord, KeysAre DEF FinishedJob
  <2> QED
      BY <2>1 DEF IsRecord
<1>2. IsRecord("dedupe", [entries |-> window])
  <2>1. CASE FirstReads("dedupe")
    <3>1. IsRecord("dedupe", Decode("dedupe", first["dedupe"]))
        BY <2>1, FirstRecord, KeysAre
    <3>2. Decode("dedupe", first["dedupe"]) = [entries |-> Decode("dedupe", first["dedupe"]).entries]
        BY <3>1 DEF IsRecord
    <3> QED
        BY <2>1, <3>1, <3>2
  <2>2. CASE ~FirstReads("dedupe")
      BY <2>2 DEF IsRecord, IsList
  <2> QED
      BY <2>1, <2>2
<1> HIDE DEF window, success
<1>3. IsRecord("dedupe", [entries |-> q]) /\ Len(q) \in Nat \ {0} /\ q[Len(q)] = success
    BY <1>1, <1>2, WindowGrows
<1> HIDE DEF q
<1>4. InWindow(q, success)
    BY <1>3 DEF InWindow, IsEntryOf
<1>5. SettledDedupe = Upgraded("dedupe") \/ SettledDedupe = Encode("dedupe", [entries |-> q])
    BY DEF SettledDedupe, q, window, success
<1>6. /\ Decodes("dedupe", Encode("dedupe", [entries |-> q])) /\ ~IsOlder("dedupe", Encode("dedupe", [entries |-> q]))
      /\ Decode("dedupe", Encode("dedupe", [entries |-> q])) = [entries |-> q]
      /\ Encode("dedupe", [entries |-> q]) # Missing
    BY <1>3, ReadsBack, KeysAre DEF MissingIsNoEnvelope, Encode
<1> QED
    BY <1>4, <1>5, <1>6 DEF success

LEMMA RecoveredIsNotOlder ==
    ASSUME MissingIsNoEnvelope, first \in Stores, Recovered, NEW k \in Keys \ {"sequence"}, Readable(k)
    PROVE  ~IsOlder(k, disk[k])
<1>1. CASE disk[k] = Upgraded(k)
  <2>1. FirstReads(k)
      BY <1>1, UpgradedIs DEF Readable, Exists, FirstReads
  <2> QED
      BY <1>1, <2>1, UpgradedIs
<1>2. CASE disk[k] # Upgraded(k)
  <2>1. k = "dedupe" /\ FinishedJob /\ disk[k] = SettledDedupe
      BY <1>2, KeysAre DEF Recovered, Readable, Exists
  <2> QED
      BY <1>2, <2>1, SettledIs
<1> QED
    BY <1>1, <1>2

(* Without a finished job a boot only upgrades.                            *)
LEMMA NothingToSettle ==
    ASSUME MissingIsNoEnvelope, first \in Stores, RestartInv, ~FinishedJob,
           \A k \in Keys : Judged(k)
    PROVE  Recovered
<1>1. CASE Untouched("active_job")
  <2>1. Untouched("last_success") /\ Untouched("dedupe")
      BY DEF RestartInv
  <2> QED
      BY <1>1, <2>1, UntouchedContent, KeysAre DEF Recovered
<1> QED
    BY <1>1 DEF RestartInv

LEMMA RestartRecover ==
    ASSUME MissingIsNoEnvelope, PassedInv, SettleInv, FlagInv, RestartInv, ~FirstRolledBack,
           faults = 0, faults' = 0, Recover
    PROVE  RestartInv'
<1>1. /\ pc = "recover" /\ disk' = disk /\ first' = first /\ first \in Stores
      /\ \A k \in Keys : Judged(k)
    BY QuietRecover DEF Recover, SettleInv, ContentInv, FlagInv, Opened
<1>2. ASSUME pc' \in {"run", "dedupe"}, pc' = "run" => Recovered, pc' = "dedupe" => FinishedJob
      PROVE  RestartInv'
    BY <1>1, <1>2 DEF RestartInv, Untouched, Recovered, FirstReads, Upgraded, FinishedJob, SettledDedupe
<1>3. FinishedJob => Recovered \/ (/\ Readable("active_job") /\ Record("active_job").phase = "CompletedPendingCleanup"
                                   /\ Confirmed({}))
  <2> SUFFICES ASSUME FinishedJob, ~Recovered
               PROVE  /\ Readable("active_job") /\ Record("active_job").phase = "CompletedPendingCleanup"
                      /\ Confirmed({})
      OBVIOUS
  <2>1. Untouched("active_job") /\ Untouched("last_success")
      BY DEF RestartInv
  <2>2. /\ Readable("active_job") /\ Record("active_job") = Decode("active_job", first["active_job"])
        /\ Readable("last_success") /\ Record("last_success") = Decode("last_success", first["last_success"])
      BY <1>1, <2>1, UntouchedContent, KeysAre DEF FinishedJob
  <2>3. ~corrupt["last_success"]
      BY <1>1, <2>2, KeysAre DEF Judged
  <2> QED
      BY <2>2, <2>3 DEF FinishedJob, Confirmed, IsEntryOf
<1>4. CASE BlockedBy({}) /\ pc' = "run"
  <2>1. SUFFICES ASSUME ~Recovered PROVE FALSE
      BY <1>2, <1>4
  <2>2. Untouched("sequence") /\ Untouched("last_success")
      BY <2>1 DEF RestartInv
  <2>3. CASE corrupt["sequence"]
    <3>1. first["sequence"] # Missing /\ ~FirstReads("sequence")
        BY <1>1, <2>2, <2>3, UntouchedContent, KeysAre DEF Judged
    <3> QED
        BY <1>1, <2>1, <3>1, NothingToSettle DEF FinishedJob
  <2>4. CASE RolledBack({})
    <3>1. /\ Readable("sequence") /\ Readable("last_success")
          /\ Record("last_success").snapshotSeq > Record("sequence").highestAllocated
        BY <2>4 DEF RolledBack
    <3>2. FirstReads("sequence") /\ Record("sequence") = Decode("sequence", first["sequence"])
        BY <1>1, <2>2, <3>1, UntouchedContent, KeysAre
    <3>3. FirstReads("last_success") /\ Record("last_success") = Decode("last_success", first["last_success"])
        BY <1>1, <2>2, <3>1, UntouchedContent, KeysAre
    <3> QED
        BY <3>1, <3>2, <3>3 DEF FirstRolledBack, FirstHighest
  <2> QED
      BY <1>4, <2>3, <2>4 DEF BlockedBy
<1>5. CASE pc' = "run" /\ ~(/\ Readable("active_job") /\ Record("active_job").phase = "CompletedPendingCleanup"
                            /\ Confirmed({}))
  <2>1. Recovered
      BY <1>1, <1>3, <1>5, NothingToSettle
  <2> QED
      BY <1>2, <1>5, <2>1
<1>6. CASE /\ pc' = "dedupe" /\ ~BlockedBy({}) /\ Readable("active_job")
           /\ Record("active_job").phase = "CompletedPendingCleanup" /\ Confirmed({})
  <2>1. /\ Readable("last_success") /\ IsEntryOf(Record("last_success"), Record("active_job"))
        /\ ~corrupt["sequence"]
      BY <1>6 DEF Confirmed, IsEntryOf, BlockedBy
  <2>2. FirstReads("active_job") /\ Record("active_job") = Decode("active_job", first["active_job"])
    <3>1. Resting("active_job")
        BY <1>6 DEF SettleInv, ContentInv, Readable, Exists
    <3> QED
        BY <1>1, <1>6, <3>1, RestingContent, KeysAre
  <2>3. FirstReads("last_success") /\ Record("last_success") = Decode("last_success", first["last_success"])
      BY <1>1, <2>1, RestingContent, KeysAre DEF SettleInv, ContentInv
  <2>4. first["sequence"] # Missing => FirstReads("sequence")
    <3> SUFFICES ASSUME first["sequence"] # Missing, ~FirstReads("sequence") PROVE FALSE
        OBVIOUS
    <3>1. disk["sequence"] = first["sequence"]
        BY DEF RestartInv
    <3>2. Exists("sequence") /\ ~Readable("sequence")
        BY <3>1 DEF Exists, Readable, FirstReads
    <3> QED
        BY <1>1, <2>1, <3>2, KeysAre DEF Judged
  <2>5. FinishedJob
      BY <1>6, <2>1, <2>2, <2>3, <2>4 DEF FinishedJob
  <2> QED
      BY <1>2, <1>6, <2>5
<1> QED
    BY <1>4, <1>5, <1>6, QuietRecover

LEMMA RestartDedupe ==
    ASSUME MissingIsNoEnvelope, PassedInv, SettleInv, FlagInv, RestartInv,
           faults = 0, faults' = 0, ReconcileDedupe
    PROVE  RestartInv'
<1> DEFINE window == DedupeWindow(FALSE)
           success == Decode("last_success", first["last_success"])
           firsts == IF FirstReads("dedupe") THEN Decode("dedupe", first["dedupe"]).entries ELSE <<>>
           new(w) == Encode("dedupe", [entries |-> Evicted(Append(w, success))])
<1>1. /\ pc = "dedupe" /\ first' = first /\ first \in Stores /\ FinishedJob /\ Settling
      /\ \A k \in Keys : Judged(k)
    BY DEF ReconcileDedupe, SettleInv, ContentInv, RestartInv, FlagInv, Opened
<1>2. Record("last_success") = success
  <2>1. Untouched("last_success") /\ Readable("last_success")
      BY <1>1 DEF RestartInv, Settling
  <2> QED
      BY <1>1, <2>1, UntouchedContent, KeysAre
<1>3. ~Recovered
    BY <1>1 DEF Recovered, Settling, Readable, Exists
<1>4. /\ pc' = "cleanup"
      /\ \/ InWindow(window, success) /\ disk' = disk
         \/ ~InWindow(window, success) /\ disk' = [disk EXCEPT !["dedupe"] = new(window)]
  <2>1. PICK lost \in BOOLEAN :
            \/ InWindow(DedupeWindow(lost), success) /\ disk' = disk /\ pc' = "cleanup"
            \/ /\ ~InWindow(DedupeWindow(lost), success) /\ faults' = faults + (IF lost THEN 1 ELSE 0)
               /\ disk' = [disk EXCEPT !["dedupe"] = new(DedupeWindow(lost))] /\ pc' = "cleanup"
            \/ faults' = faults + (IF lost THEN 2 ELSE 1)
      BY <1>2 DEF ReconcileDedupe, Saved
  <2>2. lost => ~InWindow(DedupeWindow(lost), success)
    <3>1. lost => DedupeWindow(lost) = <<>>
        BY DEF DedupeWindow
    <3>2. ~InWindow(<<>>, success)
        BY DEF InWindow
    <3> QED
        BY <3>1, <3>2
  <2>3. ~lost
      BY <2>1, <2>2
  <2>4. DedupeWindow(lost) = window
      BY <2>3 DEF DedupeWindow
  <2> HIDE DEF window
  <2> QED
      BY <2>1, <2>3, <2>4
<1>5. window = IF Readable("dedupe") THEN Record("dedupe").entries ELSE <<>>
    BY <1>1, KeysAre DEF DedupeWindow, Judged
<1>6. disk'["dedupe"] = SettledDedupe
  <2>1. CASE Untouched("dedupe")
    <3>1. window = firsts
        BY <1>1, <1>5, <2>1, UntouchedContent, KeysAre
    <3>2. disk["dedupe"] = Upgraded("dedupe")
        BY <1>1, <2>1, UntouchedContent, KeysAre
    <3>3. SettledDedupe = IF InWindow(firsts, success) THEN Upgraded("dedupe") ELSE new(firsts)
        BY DEF SettledDedupe, InWindow
    <3>4. disk'["dedupe"] = IF InWindow(window, success) THEN disk["dedupe"] ELSE new(window)
        BY <1>4, KeysAre DEF PassedInv, JobInv
    <3> QED
        BY <3>1, <3>2, <3>3, <3>4
  <2>2. CASE ~Untouched("dedupe")
    <3>1. disk["dedupe"] = SettledDedupe /\ SettledDedupe # Upgraded("dedupe")
        BY <2>2 DEF RestartInv, Untouched
    <3>2. /\ SettledDedupe # Missing /\ Decodes("dedupe", SettledDedupe)
          /\ InWindow(Decode("dedupe", SettledDedupe).entries, success)
        BY <1>1, <3>1, SettledIs
    <3>3. InWindow(window, success)
        BY <1>5, <3>1, <3>2 DEF Readable, Exists, Record
    <3> QED
        BY <1>4, <3>1, <3>3
  <2> QED
      BY <2>1, <2>2
<1>7. \A k \in Keys : k # "dedupe" => disk'[k] = disk[k]
    BY <1>4 DEF PassedInv, JobInv
<1>8. FinishedJob' /\ SettledDedupe' = SettledDedupe
    BY <1>1 DEF FinishedJob, SettledDedupe, FirstReads, Upgraded
<1>9. \A k \in Keys : k # "dedupe" => Untouched(k)' = Untouched(k)
    BY <1>1, <1>7 DEF Untouched, Upgraded, FirstReads
<1> QED
    BY <1>1, <1>3, <1>4, <1>6, <1>7, <1>8, <1>9, KeysAre DEF RestartInv, FirstReads

LEMMA RestartRewrite ==
    ASSUME MissingIsNoEnvelope, PassedInv, SettleInv, FlagInv, RestartInv,
           faults = 0, faults' = 0, RewriteKey
    PROVE  RestartInv'
<1>1. /\ pc = "rewrite" /\ first' = first /\ first \in Stores /\ at \in 1..4 /\ disk = [k \in Keys |-> disk[k]]
    BY DEF RewriteKey, SettleInv, ContentInv, JobInv
<1>2. PICK c \in Keys : c = KeyOrder[at]
    BY <1>1, KeysAre
<1>3. /\ pc' \in {"verify", "check", "recover"}
      /\ disk' = disk \/ (Readable(c) /\ Rewritten(c))
  <2>1. ~Fails
      BY DEF Fails
  <2> QED
      BY <1>2, <2>1 DEF RewriteKey, NextKey, Saved, Rewritten
<1>4. UNCHANGED FinishedJob /\ UNCHANGED SettledDedupe /\ \A k \in Keys : UNCHANGED Upgraded(k)
    BY <1>1 DEF FinishedJob, SettledDedupe, FirstReads, Upgraded
<1>5. CASE disk' = disk
    BY <1>1, <1>3, <1>4, <1>5, KeysAre DEF RestartInv, Untouched, Recovered, FirstReads
<1>6. CASE Readable(c) /\ Rewritten(c)
  <2>1. IsOlder(c, disk[c])
      BY <1>1, <1>2 DEF FlagInv
  <2>2. disk'[c] = Encode(c, Record(c)) /\ \A k \in Keys : k # c => disk'[k] = disk[k]
      BY <1>1, <1>6 DEF Rewritten
  <2>3. \A k \in Keys : k # c => Untouched(k)' = Untouched(k)
      BY <1>1, <1>4, <2>2 DEF Untouched
  <2>4. Untouched(c) => Untouched(c)'
    <3> SUFFICES ASSUME Untouched(c) PROVE disk'[c] = Upgraded(c)
        BY <1>4 DEF Untouched
    <3>1. disk[c] = first[c]
        BY <1>1, <1>6, <2>1, UntouchedContent
    <3> QED
        BY <1>6, <2>1, <2>2, <3>1 DEF Upgraded, FirstReads, Readable, Exists, Record
  <2>5. Recovered => Recovered'
    <3> SUFFICES ASSUME Recovered PROVE Recovered'
        OBVIOUS
    <3>1. c = "sequence"
        BY <1>1, <1>6, <2>1, RecoveredIsNotOlder
    <3> QED
        BY <1>4, <2>2, <3>1, KeysAre DEF Recovered
  <2>6. FinishedJob /\ disk["dedupe"] = SettledDedupe => Untouched("dedupe") \/ disk'["dedupe"] = SettledDedupe
    <3> SUFFICES ASSUME FinishedJob, disk["dedupe"] = SettledDedupe, SettledDedupe # Upgraded("dedupe")
                 PROVE  c # "dedupe"
        BY <2>2, KeysAre DEF Untouched
    <3>1. ~IsOlder("dedupe", disk["dedupe"])
        BY <1>1, SettledIs
    <3> QED
        BY <2>1, <3>1
  <2>7. Untouched("dedupe")' \/ (FinishedJob /\ disk["dedupe"] = SettledDedupe)'
      BY <1>4, <2>3, <2>4, <2>6, KeysAre DEF RestartInv
  <2>8. first["sequence"] # Missing /\ ~FirstReads("sequence") => disk'["sequence"] = first["sequence"]
    <3> SUFFICES ASSUME first["sequence"] # Missing, ~FirstReads("sequence") PROVE c # "sequence"
        BY <2>2, KeysAre DEF RestartInv
    <3>1. disk["sequence"] = first["sequence"]
        BY DEF RestartInv
    <3> QED
        BY <1>6, <3>1 DEF Readable, Exists, FirstReads
  <2> QED
      BY <1>1, <1>3, <2>3, <2>4, <2>5, <2>7, <2>8, KeysAre DEF RestartInv, FirstReads
<1> QED
    BY <1>3, <1>5, <1>6

LEMMA RestartRest ==
    ASSUME MissingIsNoEnvelope, PassedInv, SettleInv, FlagInv, RestartInv,
           faults = 0, faults' = 0, [Next]_vars, ~(Recover \/ ReconcileDedupe \/ RewriteKey)
    PROVE  RestartInv'
<1>1. /\ first' = first /\ first \in Stores /\ disk = [k \in Keys |-> disk[k]] /\ ~Fails
      /\ asm # "idle" => pc = "run"
    BY FirstStays DEF PassedInv, SettleInv, ContentInv, JobInv, Fails
<1>2. UNCHANGED FinishedJob /\ UNCHANGED SettledDedupe /\ \A k \in Keys : UNCHANGED Upgraded(k)
    BY <1>1 DEF FinishedJob, SettledDedupe, FirstReads, Upgraded
<1>3. ASSUME disk' = disk, pc' \notin {"dedupe", "cleanup", "run"} \/ pc' = pc
      PROVE  RestartInv'
    BY <1>1, <1>2, <1>3, KeysAre DEF RestartInv, Untouched, Recovered, FirstReads
<1>4. CASE UNCHANGED vars \/ Boot \/ StopsNow \/ BeginAssemble \/ DiagFails \/ DiagAnswers \/ HandOut \/ IntervalPasses
  <2>1. disk' = disk /\ (pc' \in {"off", "check"} \/ pc' = pc)
      BY <1>4 DEF vars, stored, process, Boot, StopsNow, BeginAssemble, DiagFails, DiagAnswers, HandOut, IntervalPasses
  <2> QED
      BY <1>3, <2>1
<1>5. CASE OpenFails \/ CheckKey \/ VerifyKey
  <2>1. disk' = disk /\ pc' \in {"off", "check", "rewrite", "recover"}
      BY <1>5 DEF stored, OpenFails, CheckKey, VerifyKey, BackUp, NextKey
  <2> QED
      BY <1>3, <2>1
<1>6. CASE ReconcileCleanup
  <2>1. /\ pc = "cleanup" /\ pc' = "run" /\ disk'["active_job"] = Missing
        /\ \A k \in Keys : k # "active_job" => disk'[k] = disk[k]
      BY <1>1, <1>6, KeysAre DEF ReconcileCleanup, Saved
  <2>2. FinishedJob /\ disk["dedupe"] = SettledDedupe /\ Untouched("last_success") /\ Judged("last_success")
      BY <2>1, KeysAre DEF RestartInv, FlagInv, Opened
  <2>3. disk["last_success"] = Upgraded("last_success")
      BY <1>1, <2>2, UntouchedContent, KeysAre
  <2>4. Recovered'
      BY <1>2, <2>1, <2>2, <2>3, KeysAre DEF Recovered
  <2> QED
      BY <1>1, <1>2, <2>1, <2>2, <2>4, KeysAre DEF RestartInv, Untouched, FirstReads
<1>7. CASE AllocateBlocked \/ AllocateSaves
  <2>1. /\ pc = "run" /\ pc' = "run"
        /\ disk' = disk \/ (MayAllocate /\ \A k \in Keys : k # "sequence" => disk'[k] = disk[k])
      BY <1>1, <1>7 DEF AllocateBlocked, AllocateSaves, Saved, process
  <2>2. CASE disk' = disk
      BY <1>3, <2>1, <2>2
  <2>3. CASE MayAllocate /\ \A k \in Keys : k # "sequence" => disk'[k] = disk[k]
    <3>1. Recovered'
        BY <1>2, <2>1, <2>3, KeysAre DEF RestartInv, Recovered
    <3>2. first["sequence"] # Missing => FirstReads("sequence")
        BY <2>3 DEF RestartInv, MayAllocate, Readable, Exists, FirstReads
    <3> QED
        BY <1>1, <1>2, <2>1, <2>3, <3>1, <3>2, KeysAre DEF RestartInv, Untouched, FirstReads
  <2> QED
      BY <2>1, <2>2, <2>3
<1> QED
    BY <1>4, <1>5, <1>6, <1>7 DEF Next

RestartableInv ==
    /\ PassedInv /\ SettleInv /\ faults \in Nat
    /\ faults = 0 => FlagInv
    /\ faults = 0 /\ ~FirstRolledBack => RestartInv

(* However often power losses interrupt the boot, one that ends leaves     *)
(* the records a single uninterrupted boot would have left                 *)
(* (migrateAndValidate and reconcileCompleted, "idempotent").              *)
THEOREM RestartsAreIdempotent == MissingIsNoEnvelope => (Spec => []RecoveryIsRestartable)
<1> SUFFICES ASSUME MissingIsNoEnvelope PROVE Spec => []RecoveryIsRestartable
    OBVIOUS
<1>1. Init => RestartableInv
  <2> SUFFICES ASSUME Init PROVE RestartableInv
      OBVIOUS
  <2>1. /\ disk \in Stores /\ first = disk /\ at = 1 /\ pc = "off" /\ asm = "idle" /\ faults = 0
        /\ corrupt = [k \in Keys |-> FALSE]
      BY DEF Init
  <2>2. disk = [k \in Keys |-> disk[k]]
      BY <2>1, StoreAssumption
  <2>3. PassedInv
      BY <2>1, <2>2 DEF PassedInv, JobInv, Passed
  <2>4. SettleInv
      BY SettleInit
  <2>5. FlagInv
      BY <2>1 DEF FlagInv, Opening, Opened
  <2>6. RestartInv
      BY <2>1 DEF RestartInv, Untouched
  <2> QED
      BY <2>1, <2>3, <2>4, <2>5, <2>6 DEF RestartableInv
<1>2. RestartableInv /\ [Next]_vars => RestartableInv'
  <2> SUFFICES ASSUME RestartableInv, [Next]_vars PROVE RestartableInv'
      OBVIOUS
  <2>1. PassedInv /\ SettleInv /\ faults \in Nat
      BY DEF RestartableInv
  <2>2. PassedInv'
      BY <2>1, PassedRun, PassedBoot DEF Next
  <2>3. SettleInv'
      BY <2>1, SettleStep
  <2>4. faults' \in Nat /\ (faults' = 0 => faults = 0)
      BY <2>1, FaultsGrow
  <2>5. faults' = 0 => FlagInv'
      BY <2>1, <2>4, FlagOpen, FlagRest DEF RestartableInv
  <2>6. FirstRolledBack' = FirstRolledBack
      BY FirstStays DEF FirstRolledBack, FirstReads, FirstHighest
  <2>7. faults' = 0 /\ ~FirstRolledBack' => RestartInv'
      BY <2>1, <2>4, <2>6, RestartRecover, RestartDedupe, RestartRewrite, RestartRest DEF RestartableInv
  <2> QED
      BY <2>2, <2>3, <2>4, <2>5, <2>7 DEF RestartableInv
<1>3. RestartableInv => RecoveryIsRestartable
    BY DEF RestartableInv, RestartInv, Recovered, RecoveryIsRestartable
<1> QED
    BY <1>1, <1>2, <1>3, PTL DEF Spec
-----------------------------------------------------------------------------
(***************************************************************************)
(* The records of earlier releases.                                        *)
(***************************************************************************)
LEMMA FieldsAre ==
    ASSUME NEW p, NEW fs, NEW f
    PROVE  /\ DOMAIN Put(p, fs) = DOMAIN p \cup DOMAIN fs /\ DOMAIN Fill(p, fs) = DOMAIN p \cup DOMAIN fs
           /\ f \in DOMAIN fs => Put(p, fs)[f] = fs[f]
           /\ f \in DOMAIN p \ DOMAIN fs => Put(p, fs)[f] = p[f]
           /\ f \in DOMAIN p => Fill(p, fs)[f] = p[f]
           /\ f \in DOMAIN fs \ DOMAIN p => Fill(p, fs)[f] = fs[f]
           /\ DOMAIN Erase(p, f) = DOMAIN p \ {f}
           /\ \A g \in DOMAIN p \ {f} : Erase(p, f)[g] = p[g]
BY DEF Put, Fill, Erase

LEMMA ListIs ==
    ASSUME NEW n \in Nat, NEW s, DOMAIN s = 1..n, s = [i \in 1..n |-> s[i]]
    PROVE  Len(s) = n
<1> DEFINE S == {s[i] : i \in 1..n}
<1>1. s \in [1..n -> S]
    OBVIOUS
<1>2. s \in Seq(S)
    BY <1>1, IsASeq
<1>3. Len(s) \in Nat /\ 1..n = 1..Len(s)
    BY <1>2, LenProperties
<1> HIDE DEF S
<1> QED
    BY <1>3

(* An object with the content of an entry.                                 *)
HasEntry(p, e, fingerprint) ==
    /\ {"reportId", "snapshotSeq", "fingerprints"} \subseteq DOMAIN p
    /\ p.reportId = e.reportId /\ p.snapshotSeq = e.snapshotSeq /\ p.fingerprints = fingerprint

LEMMA LegacyEntryIs ==
    ASSUME NEW e, IsEntry(e), NEW v \in 0..2
    PROVE  /\ v = 2 => LegacyEntry(v, e) = e
           /\ v < 2 => /\ {"reportId", "snapshotSeq"} \subseteq DOMAIN LegacyEntry(v, e)
                       /\ DOMAIN LegacyEntry(v, e) \subseteq {"reportId", "snapshotSeq", "fingerprint"}
                       /\ LegacyEntry(v, e).reportId = e.reportId
                       /\ LegacyEntry(v, e).snapshotSeq = e.snapshotSeq
                       /\ HasEntry(MigrateEntry(LegacyEntry(v, e)), e, "unknown")
           /\ HasEntry(e, e, e.fingerprints)
<1>1. DOMAIN e = {"reportId", "snapshotSeq", "fingerprints"}
    BY EntryFields DEF IsEntry
<1>2. HasEntry(e, e, e.fingerprints) /\ (v = 2 => LegacyEntry(v, e) = e)
    BY <1>1 DEF HasEntry, LegacyEntry
<1>3. CASE v < 2
  <2> DEFINE bare == Erase(e, "fingerprints")
             l == LegacyEntry(v, e)
  <2>1. DOMAIN bare = {"reportId", "snapshotSeq"} /\ bare.reportId = e.reportId /\ bare.snapshotSeq = e.snapshotSeq
      BY <1>1 DEF Erase
  <2>2. l = bare \/ l = Put(bare, [fingerprint |-> "legacy"])
      BY <1>3 DEF LegacyEntry
  <2> HIDE DEF bare
  <2>3. /\ {"reportId", "snapshotSeq"} \subseteq DOMAIN l
        /\ DOMAIN l \subseteq {"reportId", "snapshotSeq", "fingerprint"}
        /\ l.reportId = e.reportId /\ l.snapshotSeq = e.snapshotSeq
      BY <2>1, <2>2 DEF Put, Fill
  <2> HIDE DEF l
  <2>4. HasEntry(MigrateEntry(l), e, "unknown")
      BY <2>3 DEF MigrateEntry, Fill, Erase, UnknownFingerprints, HasEntry
  <2> QED
      BY <1>2, <1>3, <2>3, <2>4 DEF l
<1> QED
    BY <1>2, <1>3

(* What an old payload says of its version.                                *)
Versioned(k, p, v) ==
    IF v = 0 THEN "schemaVersion" \notin DOMAIN p
    ELSE "schemaVersion" \in DOMAIN p /\ p.schemaVersion = v

(* The payload of an old record holds what the record does.                *)
Holds(k, p, v, r) ==
    /\ Versioned(k, p, v)
    /\ v < 2 => "fingerprints" \notin DOMAIN p
    /\ k = "sequence" => "highestAllocated" \in DOMAIN p /\ p.highestAllocated = r.highestAllocated
    /\ k = "dedupe" =>
           /\ DOMAIN p \subseteq {"schemaVersion", "entries"} /\ "entries" \in DOMAIN p
           /\ p.entries = [i \in 1..Len(r.entries) |-> LegacyEntry(v, r.entries[i])]
    /\ k \in {"last_success", "active_job"} =>
           /\ {"reportId", "snapshotSeq"} \subseteq DOMAIN p
           /\ p.reportId = r.reportId /\ p.snapshotSeq = r.snapshotSeq
           /\ v = 2 => "fingerprints" \in DOMAIN p /\ p.fingerprints = r.fingerprints
    /\ k = "last_success" => "bodySeq" \in DOMAIN p /\ p.bodySeq = r.snapshotSeq
    /\ k = "active_job" => "phase" \in DOMAIN p /\ p.phase = r.phase

LEMMA LegacyPayloadIs ==
    ASSUME NEW k \in Keys, NEW r, IsRecord(k, r), NEW v \in 0..2, v <= SchemaVersion[k]
    PROVE  Holds(k, LegacyPayload(k, v, r), v, r)
<1> DEFINE versioned == IF v = 0 THEN <<>> ELSE [schemaVersion |-> v]
           p == LegacyPayload(k, v, r)
<1>1. (v = 0 => DOMAIN versioned = {}) /\ (v # 0 => DOMAIN versioned = {"schemaVersion"} /\ versioned.schemaVersion = v)
    OBVIOUS
<1> HIDE DEF versioned
<1>2. ASSUME NEW body, p = Put(body, versioned), "schemaVersion" \notin DOMAIN body
      PROVE  /\ Versioned(k, p, v)
             /\ DOMAIN p \subseteq DOMAIN body \cup {"schemaVersion"} /\ DOMAIN body \subseteq DOMAIN p
             /\ \A f \in DOMAIN body : p[f] = body[f]
    BY <1>1, <1>2 DEF Versioned, Put, Fill
<1>3. CASE k = "sequence"
  <2>1. p = Put(r, versioned) /\ r = [highestAllocated |-> r.highestAllocated]
      BY <1>3 DEF LegacyPayload, IsRecord, versioned
  <2>2. DOMAIN r = {"highestAllocated"}
      BY <2>1
  <2> HIDE DEF p
  <2> QED
      BY <1>2, <1>3, <2>1, <2>2 DEF p, Holds
<1>4. CASE k = "dedupe"
  <2> DEFINE body == [entries |-> [i \in 1..Len(r.entries) |-> LegacyEntry(v, r.entries[i])]]
  <2>1. p = Put(body, versioned)
      BY <1>4 DEF LegacyPayload, versioned
  <2>2. DOMAIN body = {"entries"} /\ body.entries = [i \in 1..Len(r.entries) |-> LegacyEntry(v, r.entries[i])]
      OBVIOUS
  <2> HIDE DEF p, body
  <2> QED
      BY <1>2, <1>4, <2>1, <2>2 DEF p, Holds
<1>5. CASE k = "last_success"
  <2> DEFINE l == LegacyEntry(v, r)
             body == Put(l, [bodySeq |-> r.snapshotSeq])
  <2>1. p = Put(body, versioned) /\ IsEntry(r)
      BY <1>5 DEF LegacyPayload, versioned, IsRecord
  <2>2. /\ {"reportId", "snapshotSeq"} \subseteq DOMAIN l
        /\ DOMAIN l \subseteq {"reportId", "snapshotSeq", "fingerprint", "fingerprints"}
        /\ l.reportId = r.reportId /\ l.snapshotSeq = r.snapshotSeq
        /\ v < 2 => "fingerprints" \notin DOMAIN l
        /\ v = 2 => "fingerprints" \in DOMAIN l /\ l.fingerprints = r.fingerprints
      BY <2>1, LegacyEntryIs, EntryFields DEF IsEntry, HasEntry
  <2> HIDE DEF l
  <2>3. DOMAIN body = DOMAIN l \cup {"bodySeq"} /\ body.bodySeq = r.snapshotSeq /\ \A f \in DOMAIN l : f # "bodySeq" => body[f] = l[f]
      BY DEF Put, Fill
  <2> HIDE DEF p, body
  <2> QED
      BY <1>2, <1>5, <2>1, <2>2, <2>3 DEF p, Holds
<1>6. CASE k = "active_job"
  <2> DEFINE body == IF v = 2 THEN r ELSE Erase(r, "fingerprints")
  <2>1. p = Put(body, versioned)
      BY <1>6 DEF LegacyPayload, versioned
  <2>2. DOMAIN r = {"reportId", "snapshotSeq", "fingerprints", "phase"}
      BY <1>6, EntryFields DEF IsRecord, Put, Fill
  <2>3. /\ DOMAIN body = IF v = 2 THEN DOMAIN r ELSE DOMAIN r \ {"fingerprints"}
        /\ \A f \in DOMAIN body : body[f] = r[f]
      BY DEF Erase
  <2> HIDE DEF p, body
  <2> QED
      BY <1>2, <1>6, <2>1, <2>2, <2>3 DEF p, Holds
<1> QED
    BY <1>3, <1>4, <1>5, <1>6 DEF Keys

(* The chain from an older version adds what was missing and erases the    *)
(* single fingerprint; the rest of an object stays.                        *)
LEMMA MigratedIs ==
    ASSUME NEW k \in {"last_success", "active_job"}, NEW p, NEW v \in 0..1,
           Versioned(k, p, v), "fingerprints" \notin DOMAIN p
    PROVE  LET m == Migrated(k, p, v)
           IN  /\ \A f \in DOMAIN p \ {"fingerprint", "schemaVersion"} : f \in DOMAIN m /\ m[f] = p[f]
               /\ "fingerprints" \in DOMAIN m /\ m.fingerprints = "unknown"
               /\ "schemaVersion" \in DOMAIN m /\ m.schemaVersion = 2
<1> DEFINE q == IF v = 0 THEN MigrateStep(k, p, 0) ELSE p
           m == Migrated(k, p, v)
<1>1. m = MigrateStep(k, q, 1)
  <2>1. SchemaVersion[k] = 2 /\ v <= 1
      BY Versions, KeysAre
  <2> QED
      BY <2>1 DEF Migrated
<1>2. /\ DOMAIN p \subseteq DOMAIN q /\ \A f \in DOMAIN p : q[f] = p[f]
      /\ "fingerprints" \notin DOMAIN q
    BY DEF MigrateStep, MigrateLastSuccess, MigrateActiveJob, Fill
<1> HIDE DEF q
<1>3. CASE k = "last_success"
  <2>1. m = Put(Fill(Erase(q, "fingerprint"), UnknownFingerprints), [schemaVersion |-> 2])
      BY <1>1, <1>3 DEF MigrateStep, MigrateLastSuccess
  <2> HIDE DEF m
  <2>2. /\ DOMAIN m = (DOMAIN q \ {"fingerprint"}) \cup {"fingerprints", "schemaVersion"}
        /\ \A f \in DOMAIN q \ {"fingerprint", "schemaVersion"} : m[f] = q[f]
        /\ m.fingerprints = "unknown" /\ m.schemaVersion = 2
    <3> DEFINE a == Erase(q, "fingerprint")
               b == Fill(a, UnknownFingerprints)
    <3>1. DOMAIN a = DOMAIN q \ {"fingerprint"} /\ \A f \in DOMAIN q \ {"fingerprint"} : a[f] = q[f]
        BY DEF Erase
    <3> HIDE DEF a
    <3>2. DOMAIN b = DOMAIN a \cup {"fingerprints"} /\ (\A f \in DOMAIN a : b[f] = a[f]) /\ b.fingerprints = "unknown"
        BY <1>2, <3>1 DEF Fill, UnknownFingerprints
    <3>3. m = Put(b, [schemaVersion |-> 2])
        BY <2>1 DEF a
    <3> HIDE DEF b
    <3> QED
        BY <3>1, <3>2, <3>3 DEF Put, Fill
  <2> QED
      BY <1>2, <2>2 DEF m
<1>4. CASE k = "active_job"
  <2>1. m = Put(Fill(q, UnknownFingerprints), [schemaVersion |-> 2])
      BY <1>1, <1>4 DEF MigrateStep, MigrateActiveJob
  <2> HIDE DEF m
  <2>2. /\ DOMAIN m = DOMAIN q \cup {"fingerprints", "schemaVersion"}
        /\ \A f \in DOMAIN q \ {"schemaVersion"} : m[f] = q[f]
        /\ m.fingerprints = "unknown" /\ m.schemaVersion = 2
    <3> DEFINE b == Fill(q, UnknownFingerprints)
    <3>1. DOMAIN b = DOMAIN q \cup {"fingerprints"} /\ (\A f \in DOMAIN q : b[f] = q[f]) /\ b.fingerprints = "unknown"
        BY <1>2 DEF Fill, UnknownFingerprints
    <3>2. m = Put(b, [schemaVersion |-> 2])
        BY <2>1
    <3> HIDE DEF b
    <3> QED
        BY <3>1, <3>2 DEF Put, Fill
  <2> QED
      BY <1>2, <2>2 DEF m
<1> QED
    BY <1>3, <1>4

(* The migrated window keeps its entries.                                  *)
LEMMA WindowMigrated ==
    ASSUME NEW r, IsRecord("dedupe", r), NEW v \in 0..2
    PROVE  LET m == Migrated("dedupe", LegacyPayload("dedupe", v, r), v)
           IN  /\ "entries" \in DOMAIN m /\ "fingerprints" \notin DOMAIN m
               /\ "schemaVersion" \in DOMAIN m => m.schemaVersion = 2
               /\ Len(m.entries) = Len(r.entries)
               /\ \A i \in 1..Len(r.entries) :
                      HasEntry(m.entries[i], r.entries[i], IF v = 2 THEN r.entries[i].fingerprints ELSE "unknown")
<1> DEFINE n == Len(r.entries)
           p == LegacyPayload("dedupe", v, r)
           m == Migrated("dedupe", p, v)
           old == [i \in 1..n |-> LegacyEntry(v, r.entries[i])]
<1>1. /\ n \in Nat /\ \A i \in 1..n : IsEntry(r.entries[i])
    BY DEF IsRecord, IsList
<1>2. SchemaVersion["dedupe"] = 2
    BY Versions, KeysAre
<1>3. /\ Versioned("dedupe", p, v) /\ DOMAIN p \subseteq {"schemaVersion", "entries"} /\ "entries" \in DOMAIN p
      /\ p.entries = old
  <2>1. Holds("dedupe", p, v, r)
      BY <1>2, LegacyPayloadIs, KeysAre
  <2> QED
      BY <2>1 DEF Holds
<1>4. Len(old) = n
    BY <1>1, ListIs
<1> HIDE DEF p
<1>5. CASE v = 2
  <2>1. m = p
      BY <1>2, <1>5 DEF Migrated
  <2>2. \A i \in 1..n : old[i] = r.entries[i] /\ HasEntry(old[i], r.entries[i], r.entries[i].fingerprints)
      BY <1>1, <1>5, LegacyEntryIs
  <2> HIDE DEF old
  <2> QED
      BY <1>3, <1>4, <1>5, <2>1, <2>2 DEF Versioned, p
<1>6. CASE v < 2
  <2> DEFINE q == IF v = 0 THEN MigrateStep("dedupe", p, 0) ELSE p
             es == [i \in 1..n |-> MigrateEntry(old[i])]
  <2>1. m = MigrateDedupe(q, 1)
      BY <1>2, <1>6 DEF Migrated, MigrateStep
  <2>2. DOMAIN q \subseteq {"schemaVersion", "entries"} /\ "entries" \in DOMAIN q /\ q.entries = old
      BY <1>3 DEF MigrateStep, MigrateDedupe, Fill
  <2> HIDE DEF q
  <2>3. m = Put(Put(q, [entries |-> es]), [schemaVersion |-> 2])
    <3>1. Len(q.entries) = n
        BY <1>4, <2>2
    <3>2. [i \in 1..Len(q.entries) |-> MigrateEntry(q.entries[i])] = es
      <4> HIDE DEF old
      <4> QED
          BY <2>2, <3>1
    <3> DEFINE qs == [i \in 1..Len(q.entries) |-> MigrateEntry(q.entries[i])]
    <3>3. m = Put(Put(q, [entries |-> qs]), [schemaVersion |-> 2])
      <4>1. MigrateDedupe(q, 1) = Put(Put(q, [entries |-> qs]), [schemaVersion |-> 2])
        <5>1. 1 # 0 /\ "entries" \in DOMAIN q
            BY <2>2
        <5> QED
            BY <5>1, Zenon DEF MigrateDedupe
      <4> QED
          BY <2>1, <4>1
    <3> QED
        BY <3>2, <3>3
  <2> HIDE DEF m
  <2>4. DOMAIN m = {"schemaVersion", "entries"} /\ m.schemaVersion = 2 /\ m.entries = es
    <3> HIDE DEF es
    <3> DEFINE a == Put(q, [entries |-> es])
    <3>1. DOMAIN a \subseteq {"schemaVersion", "entries"} /\ "entries" \in DOMAIN a /\ a.entries = es
        BY <2>2 DEF Put, Fill
    <3>2. m = Put(a, [schemaVersion |-> 2])
        BY <2>3
    <3> HIDE DEF a
    <3> QED
        BY <3>1, <3>2 DEF Put, Fill
  <2>5. Len(es) = n
      BY <1>1, ListIs
  <2>6. \A i \in 1..n : HasEntry(es[i], r.entries[i], "unknown")
      BY <1>1, <1>6, LegacyEntryIs
  <2> HIDE DEF es
  <2> QED
      BY <1>6, <2>4, <2>5, <2>6 DEF m, p
<1> QED
    BY <1>5, <1>6

LEMMA EntryRead ==
    ASSUME NEW m, NEW e, IsEntry(e), NEW f, HasEntry(m, e, f), f # "malformed"
    PROVE  /\ EntryIsValid(m) /\ FingerprintsOf(m) = f
           /\ EntryValue(m) = [reportId |-> e.reportId, snapshotSeq |-> e.snapshotSeq, fingerprints |-> f]
           /\ f = e.fingerprints => EntryValue(m) = e
           /\ f = "unknown" => EntryValue(m) = Put(e, UnknownFingerprints)
<1>1. /\ EntryIsValid(m) /\ FingerprintsOf(m) = f
      /\ EntryValue(m) = [reportId |-> e.reportId, snapshotSeq |-> e.snapshotSeq, fingerprints |-> f]
    BY DEF HasEntry, EntryIsValid, FingerprintsOf, EntryValue
<1>2. DOMAIN e = {"reportId", "snapshotSeq", "fingerprints"} /\ e = EntryValue(e) /\ FingerprintsOf(e) = e.fingerprints
    BY EntryFields DEF IsEntry, FingerprintsOf
<1>3. f = e.fingerprints => EntryValue(m) = e
    BY <1>1, <1>2 DEF EntryValue
<1>4. f = "unknown" => EntryValue(m) = Put(e, UnknownFingerprints)
    BY <1>1, <1>2 DEF Put, Fill, UnknownFingerprints
<1> QED
    BY <1>1, <1>3, <1>4

LEMMA LegacyIsRead ==
    ASSUME NEW k \in Keys, NEW r, IsRecord(k, r), NEW v \in 0..2, v <= SchemaVersion[k]
    PROVE  LET b == Legacy(k, v, r)
           IN  /\ PayloadIsValid(k, Migrated(k, b.payload, v))
               /\ Decode(k, b) = IF v = SchemaVersion[k] THEN r ELSE Forget(k, r)
<1> DEFINE p == LegacyPayload(k, v, r)
           m == Migrated(k, p, v)
           b == Legacy(k, v, r)
           f(e) == IF v = 2 THEN e.fingerprints ELSE "unknown"
<1>0. Holds(k, p, v, r)
    BY LegacyPayloadIs
<1>1. b.payload = p /\ b.version = v
    BY DEF Legacy, Envelope
<1>2. SchemaVersion[k] = (IF k = "sequence" THEN 1 ELSE 2)
    BY Versions
<1>3. CASE k = "sequence"
  <2>1. /\ "highestAllocated" \in DOMAIN p /\ p.highestAllocated = r.highestAllocated
        /\ "fingerprints" \notin DOMAIN p /\ Versioned(k, p, v)
      BY <1>2, <1>3, <1>0 DEF Holds
  <2>2. m = IF v = 0 THEN Fill(p, [schemaVersion |-> 1]) ELSE p
      BY <1>2, <1>3 DEF Migrated, MigrateStep, MigrateSequence
  <2> HIDE DEF p
  <2>3. /\ "highestAllocated" \in DOMAIN m /\ m.highestAllocated = r.highestAllocated
        /\ "fingerprints" \notin DOMAIN m /\ ("schemaVersion" \in DOMAIN m => m.schemaVersion = 1)
      BY <1>2, <1>3, <2>1, <2>2 DEF Fill, Versioned
  <2>4. Decode(k, b) = [highestAllocated |-> m.highestAllocated]
      BY <1>1, <1>3 DEF Decode
  <2> HIDE DEF m
  <2>5. PayloadIsValid(k, m)
      BY <1>2, <1>3, <2>3 DEF PayloadIsValid, Required, FingerprintsOf
  <2>6. r = [highestAllocated |-> r.highestAllocated] /\ Forget(k, r) = r
      BY <1>3 DEF IsRecord, Forget
  <2>7. Decode(k, b) = r
      BY <2>3, <2>4, <2>6
  <2> QED
      BY <1>1, <2>5, <2>6, <2>7 DEF m, p
<1>4. CASE k = "last_success" \/ k = "active_job"
  <2>1. IsEntry(EntryValue(r)) /\ EntryValue(r).fingerprints = r.fingerprints /\ r.fingerprints # "malformed"
    <3>1. CASE k = "last_success"
        BY <3>1, EntryFields DEF IsRecord, IsEntry
    <3>2. CASE k = "active_job"
      <4>1. DOMAIN r = {"reportId", "snapshotSeq", "fingerprints", "phase"} /\ r.fingerprints # "malformed"
          BY <3>2, EntryFields DEF IsRecord, Put, Fill
      <4> QED
          BY <4>1, EntryFields DEF IsEntry, FingerprintsOf
    <3> QED
        BY <1>4, <3>1, <3>2
  <2>2. HasEntry(m, EntryValue(r), f(r)) /\ f(r) # "malformed" /\ ("schemaVersion" \in DOMAIN m => m.schemaVersion = 2)
    <3>1. CASE v = 2
      <4>1. m = p
          BY <1>2, <1>4, <3>1 DEF Migrated
      <4>2. /\ Versioned(k, p, v) /\ {"reportId", "snapshotSeq", "fingerprints"} \subseteq DOMAIN p
            /\ p.reportId = r.reportId /\ p.snapshotSeq = r.snapshotSeq /\ p.fingerprints = r.fingerprints
          BY <1>0, <1>4, <3>1 DEF Holds
      <4> HIDE DEF p, m
      <4> QED
          BY <2>1, <3>1, <4>1, <4>2, EntryFields DEF HasEntry, Versioned
    <3>2. CASE v # 2
      <4>1. /\ Versioned(k, p, v) /\ {"reportId", "snapshotSeq"} \subseteq DOMAIN p /\ "fingerprints" \notin DOMAIN p
            /\ p.reportId = r.reportId /\ p.snapshotSeq = r.snapshotSeq
          BY <1>0, <1>4, <3>2 DEF Holds
      <4>2. v \in 0..1
          BY <3>2
      <4>3. /\ \A g \in DOMAIN p \ {"fingerprint", "schemaVersion"} : g \in DOMAIN m /\ m[g] = p[g]
            /\ "fingerprints" \in DOMAIN m /\ m.fingerprints = "unknown" /\ m.schemaVersion = 2
          BY <1>4, <4>1, <4>2, MigratedIs
      <4> HIDE DEF p, m
      <4> QED
          BY <2>1, <3>2, <4>1, <4>3, EntryFields DEF HasEntry
    <3> QED
        BY <3>1, <3>2
  <2>3. /\ k = "last_success" => "bodySeq" \in DOMAIN m /\ m.bodySeq = r.snapshotSeq
        /\ k = "active_job" => "phase" \in DOMAIN m /\ m.phase = r.phase
    <3>1. /\ k = "last_success" => "bodySeq" \in DOMAIN p /\ p.bodySeq = r.snapshotSeq
          /\ k = "active_job" => "phase" \in DOMAIN p /\ p.phase = r.phase
          /\ v < 2 => "fingerprints" \notin DOMAIN p
          /\ Versioned(k, p, v)
        BY <1>0, <1>4 DEF Holds
    <3>2. v = 2 => m = p
        BY <1>2, <1>4 DEF Migrated
    <3>3. v # 2 => \A g \in DOMAIN p \ {"fingerprint", "schemaVersion"} : g \in DOMAIN m /\ m[g] = p[g]
      <4>1. v # 2 => v \in 0..1
          OBVIOUS
      <4> QED
          BY <1>4, <3>1, <4>1, MigratedIs
    <3> HIDE DEF p, m
    <3> QED
        BY <3>1, <3>2, <3>3
  <2> DEFINE e == EntryValue(r)
             s == f(r)
  <2>4. EntryIsValid(m) /\ FingerprintsOf(m) = s
        /\ (s = r.fingerprints => EntryValue(m) = e) /\ (s = "unknown" => EntryValue(m) = Put(e, UnknownFingerprints))
    <3> HIDE DEF e, s, m
    <3> QED
        BY <2>1, <2>2, EntryRead DEF e, s
  <2>5. PayloadIsValid(k, m)
    <3>1. m.snapshotSeq = r.snapshotSeq
        BY <2>2, EntryFields DEF HasEntry
    <3>2. k = "active_job" => r.phase \in Phases
        BY DEF IsRecord
    <3> HIDE DEF m
    <3> QED
        BY <1>2, <1>4, <2>2, <2>3, <2>4, <3>1, <3>2 DEF PayloadIsValid, Required, EntryIsValid
  <2>6. CASE k = "last_success"
    <3>1. Decode(k, b) = EntryValue(m)
        BY <1>1, <2>6 DEF Decode
    <3>2. e = r /\ Forget(k, r) = Put(r, UnknownFingerprints)
        BY <2>6 DEF IsRecord, IsEntry, Forget
    <3> QED
        BY <1>1, <1>2, <2>4, <2>5, <2>6, <3>1, <3>2
  <2>7. CASE k = "active_job"
    <3>1. Decode(k, b) = Put(EntryValue(m), [phase |-> m.phase])
        BY <1>1, <2>7 DEF Decode
    <3>2. r = Put(e, [phase |-> r.phase]) /\ Forget(k, r) = Put(r, UnknownFingerprints)
        BY <2>7 DEF IsRecord, Forget
    <3>3. Put(Put(e, [phase |-> r.phase]), UnknownFingerprints) = Put(Put(e, UnknownFingerprints), [phase |-> r.phase])
      <4>1. DOMAIN e = {"reportId", "snapshotSeq", "fingerprints"}
          BY EntryFields
      <4> HIDE DEF e
      <4> QED
          BY <4>1 DEF Put, Fill, UnknownFingerprints
    <3>4. Forget(k, r) = Put(Put(e, UnknownFingerprints), [phase |-> r.phase])
      <4> HIDE DEF e
      <4> QED
          BY <3>2, <3>3
    <3> HIDE DEF e
    <3> QED
        BY <1>1, <1>2, <2>3, <2>4, <2>5, <2>7, <3>1, <3>2, <3>4
  <2> QED
      BY <1>4, <2>6, <2>7
<1>5. CASE k = "dedupe"
  <2> DEFINE n == Len(r.entries)
  <2>1. /\ "entries" \in DOMAIN m /\ "fingerprints" \notin DOMAIN m
        /\ "schemaVersion" \in DOMAIN m => m.schemaVersion = 2
        /\ Len(m.entries) = n
        /\ \A i \in 1..n : HasEntry(m.entries[i], r.entries[i], f(r.entries[i]))
      BY <1>5, WindowMigrated
  <2>2. \A i \in 1..n : IsEntry(r.entries[i]) /\ f(r.entries[i]) # "malformed"
      BY <1>5 DEF IsRecord, IsEntry
  <2>3. ASSUME NEW i \in 1..n
        PROVE  /\ EntryIsValid(m.entries[i])
               /\ f(r.entries[i]) = r.entries[i].fingerprints => EntryValue(m.entries[i]) = r.entries[i]
               /\ f(r.entries[i]) = "unknown" => EntryValue(m.entries[i]) = Put(r.entries[i], UnknownFingerprints)
    <3> DEFINE e == r.entries[i]
               s == f(e)
               o == m.entries[i]
    <3>1. HasEntry(o, e, s) /\ IsEntry(e) /\ s # "malformed"
        BY <2>1, <2>2
    <3> HIDE DEF e, s, o
    <3>2. /\ EntryIsValid(o)
          /\ s = e.fingerprints => EntryValue(o) = e
          /\ s = "unknown" => EntryValue(o) = Put(e, UnknownFingerprints)
        BY <3>1, EntryRead
    <3> QED
        BY <3>2 DEF e, s, o
  <2>4. PayloadIsValid(k, m)
    <3> HIDE DEF m
    <3> QED
        BY <1>2, <1>5, <2>1, <2>3 DEF PayloadIsValid, Required, FingerprintsOf
  <2>5. Decode(k, b) = [entries |-> [i \in 1..n |-> EntryValue(m.entries[i])]]
    <3>1. Decode(k, b) = [entries |-> [i \in 1..Len(m.entries) |-> EntryValue(m.entries[i])]]
        BY <1>1, <1>5 DEF Decode
    <3> QED
        BY <2>1, <3>1
  <2>6. CASE v = 2
    <3>1. \A i \in 1..n : EntryValue(m.entries[i]) = r.entries[i]
        BY <2>3, <2>6
    <3>2. r = [entries |-> r.entries] /\ r.entries = [i \in 1..n |-> EntryValue(r.entries[i])]
        BY <1>5 DEF IsRecord
    <3>3. r.entries = [i \in 1..n |-> r.entries[i]]
        BY <3>2
    <3>4. [i \in 1..n |-> EntryValue(m.entries[i])] = [i \in 1..n |-> r.entries[i]]
        BY <3>1
    <3> QED
        BY <1>1, <1>2, <1>5, <2>4, <2>5, <2>6, <3>2, <3>3, <3>4
  <2>7. CASE v # 2
    <3>1. \A i \in 1..n : EntryValue(m.entries[i]) = Put(r.entries[i], UnknownFingerprints)
        BY <2>3, <2>7
    <3>2. Forget(k, r) = [entries |-> [i \in 1..n |-> Put(r.entries[i], UnknownFingerprints)]]
        BY <1>5 DEF Forget
    <3>3. [i \in 1..n |-> EntryValue(m.entries[i])] = [i \in 1..n |-> Put(r.entries[i], UnknownFingerprints)]
        BY <3>1
    <3> QED
        BY <1>1, <1>2, <1>5, <2>4, <2>5, <2>7, <3>2, <3>3
  <2> QED
      BY <2>6, <2>7
<1> QED
    BY <1>3, <1>4, <1>5 DEF Keys

(* An envelope that is damaged, newer or inconsistent is refused.          *)
LEMMA DamagedIsRefused ==
    ASSUME NEW k \in Keys, NEW r, IsRecord(k, r), k = "last_success" => r.snapshotSeq \in Nat,
           NEW v \in 0..2, v <= SchemaVersion[k]
    PROVE  LET b == Legacy(k, v, r)
           IN  /\ \A c \in {Damaged(b), Newer(b), NotJson(b), [b EXCEPT !.minReader = 3]} : ~Decodes(k, c)
               /\ k = "last_success" => ~Decodes(k, [b EXCEPT !.payload.bodySeq = r.snapshotSeq + 1])
               /\ k = "active_job" => ~Decodes(k, [b EXCEPT !.payload.phase = "Unknown"])
<1> DEFINE p == LegacyPayload(k, v, r)
           b == Legacy(k, v, r)
<1>1. /\ b = [wellFormed |-> TRUE, minReader |-> 0, version |-> v, json |-> TRUE, payload |-> p]
      /\ Holds(k, p, v, r)
    BY LegacyPayloadIs DEF Legacy, Envelope, MinReaderVersion
<1> HIDE DEF p, b
<1>2. \A c \in {Damaged(b), Newer(b), NotJson(b), [b EXCEPT !.minReader = 3]} : ~Decodes(k, c)
  <2>1. ~Damaged(b).wellFormed /\ ~NotJson(b).json /\ Newer(b).version = 3 /\ [b EXCEPT !.minReader = 3].minReader = 3
      BY <1>1 DEF Damaged, NotJson, Newer
  <2>2. ASSUME NEW c, ~c.wellFormed \/ ~c.json \/ c.version = 3 \/ c.minReader = 3
        PROVE  ~Decodes(k, c)
      BY <2>2, Versions DEF Decodes, HeaderIsReadable, IsNewer, WriterVersion
  <2> QED
      BY <2>1, <2>2
<1>3. ASSUME NEW f, f \in DOMAIN p \ {"fingerprint", "schemaVersion", "fingerprints"}, NEW x, k \in {"last_success", "active_job"}
      PROVE  LET q == [p EXCEPT ![f] = x]
                 m == Migrated(k, q, v)
             IN  m[f] = x /\ \A g \in DOMAIN p \ {f, "fingerprint", "schemaVersion", "fingerprints"} : m[g] = p[g]
  <2> DEFINE q == [p EXCEPT ![f] = x]
  <2>1. /\ DOMAIN q = DOMAIN p /\ q[f] = x /\ (\A g \in DOMAIN p \ {f} : q[g] = p[g])
        /\ Versioned(k, q, v)
    <3>1. DOMAIN q = DOMAIN p /\ q[f] = x /\ (\A g \in DOMAIN p \ {f} : q[g] = p[g])
        BY <1>3
    <3> HIDE DEF q
    <3> QED
        BY <1>1, <1>3, <3>1 DEF Holds, Versioned
  <2> HIDE DEF q
  <2>2. CASE v = 2
    <3>1. Migrated(k, q, v) = q
        BY <1>3, <2>2, Versions, KeysAre DEF Migrated
    <3> QED
        BY <1>3, <2>1, <3>1 DEF q
  <2>3. CASE v # 2
    <3>1. v \in 0..1 /\ "fingerprints" \notin DOMAIN q
        BY <1>1, <2>1, <2>3 DEF Holds
    <3>2. \A g \in DOMAIN q \ {"fingerprint", "schemaVersion"} : Migrated(k, q, v)[g] = q[g]
        BY <1>3, <2>1, <3>1, MigratedIs
    <3> QED
        BY <1>3, <2>1, <3>2 DEF q
  <2> QED
      BY <2>2, <2>3
<1>4. CASE k = "last_success"
  <2> DEFINE q == [p EXCEPT !["bodySeq"] = r.snapshotSeq + 1]
             c == [b EXCEPT !.payload.bodySeq = r.snapshotSeq + 1]
             m == Migrated(k, q, v)
  <2>1. c.payload = q /\ c.version = v
      BY <1>1
  <2>2. "bodySeq" \in DOMAIN p /\ "snapshotSeq" \in DOMAIN p /\ p.snapshotSeq = r.snapshotSeq
      BY <1>1, <1>4 DEF Holds
  <2>3. m.bodySeq = r.snapshotSeq + 1 /\ m.snapshotSeq = r.snapshotSeq
      BY <1>3, <1>4, <2>2
  <2>4. m.bodySeq # m.snapshotSeq
      BY <1>4, <2>3
  <2> HIDE DEF q, c, m
  <2>5. ~PayloadIsValid(k, m)
      BY <1>4, <2>4 DEF PayloadIsValid
  <2>6. ~Decodes(k, c)
      BY <2>1, <2>5 DEF Decodes, m
  <2> QED
      BY <1>2, <1>4, <2>6 DEF c, b
<1>5. CASE k = "active_job"
  <2> DEFINE q == [p EXCEPT !["phase"] = "Unknown"]
             c == [b EXCEPT !.payload.phase = "Unknown"]
             m == Migrated(k, q, v)
  <2>1. c.payload = q /\ c.version = v
      BY <1>1
  <2>2. "phase" \in DOMAIN p
      BY <1>1, <1>5 DEF Holds
  <2>3. m.phase = "Unknown"
      BY <1>3, <1>5, <2>2
  <2> HIDE DEF q, c, m
  <2>4. ~PayloadIsValid(k, m)
      BY <1>5, <2>3 DEF PayloadIsValid, Phases
  <2>5. ~Decodes(k, c)
      BY <2>1, <2>4 DEF Decodes, m
  <2> QED
      BY <1>2, <1>5, <2>5 DEF c, b
<1>6. CASE k \notin {"last_success", "active_job"}
    BY <1>2, <1>6 DEF b
<1> QED
    BY <1>4, <1>5, <1>6

LEMMA LegacySurvives ==
    ASSUME NEW k \in Keys, NEW r, IsRecord(k, r), k = "last_success" => r.snapshotSeq \in Nat
    PROVE  SurvivesUpgrade(k, r)
<1>1. Decodes(k, Encode(k, r)) /\ Decode(k, Encode(k, r)) = r
    BY ReadsBack
<1>2. ASSUME NEW v \in 0..SchemaVersion[k]
      PROVE  LET b == Legacy(k, v, r)
                 bad == {Damaged(b), Newer(b), NotJson(b), [b EXCEPT !.minReader = 3]}
             IN  /\ Decodes(k, b)
                 /\ Decode(k, b) = IF v = SchemaVersion[k] THEN r ELSE Forget(k, r)
                 /\ \A c \in bad : ~Decodes(k, c)
                 /\ k = "last_success" => ~Decodes(k, [b EXCEPT !.payload.bodySeq = r.snapshotSeq + 1])
                 /\ k = "active_job" => ~Decodes(k, [b EXCEPT !.payload.phase = "Unknown"])
  <2> DEFINE b == Legacy(k, v, r)
  <2>1. v \in 0..2 /\ v <= SchemaVersion[k]
      BY Versions
  <2>2. /\ b.wellFormed = TRUE /\ b.minReader = 0 /\ b.json = TRUE /\ b.version = v
      BY DEF Legacy, Envelope, MinReaderVersion
  <2>3. /\ PayloadIsValid(k, Migrated(k, b.payload, v))
        /\ Decode(k, b) = IF v = SchemaVersion[k] THEN r ELSE Forget(k, r)
      BY <2>1, LegacyIsRead
  <2> HIDE DEF b
  <2>4. Decodes(k, b)
      BY <2>1, <2>2, <2>3, Versions DEF Decodes, HeaderIsReadable, IsNewer, WriterVersion
  <2> QED
      BY <2>1, <2>3, <2>4, DamagedIsRefused DEF b
<1> QED
    BY <1>1, <1>2 DEF SurvivesUpgrade

(* Every record an earlier release wrote is read with its content by the   *)
(* chained migrations, what this release writes reads back, and what is    *)
(* damaged, newer or inconsistent is refused, for every record of every    *)
(* format (fota_state_serializer.cpp).                                     *)
THEOREM RecordsAreUpgraded == Spec => []RecordsSurviveUpgrade
<1>1. RecordsSurviveUpgrade
    BY RecordsAssumption, LegacySurvives DEF RecordsSurviveUpgrade
<1> QED
    BY <1>1, PTL
=============================================================================
