--------------------------- MODULE SnapshotStore ---------------------------
(***************************************************************************)
(* The life of the inventory.* records: FotaStateStore::open checks and    *)
(* upgrades every key, StateRecovery::recover makes the plan and settles a *)
(* finished job, and the snapshot assembler allocates a durable number for *)
(* every inventory it hands to the orchestrator's provider.                *)
(*                                                                         *)
(* One thread does all of this.  A step ends where a power loss can tell   *)
(* the difference, so at a durable write, or where the store can fail.  A  *)
(* failed write of the framework store leaves the old value or the new     *)
(* one.  Between two boots nothing changes the store; what older releases, *)
(* other versions or a damaged file left in it is the initial state.       *)
(***************************************************************************)
EXTENDS StateRecords, FiniteSets

CONSTANTS
    Stores,        \* what may be in the store at the first boot
    Missing,       \* a key that is not there
    SeqMax,        \* SNAPSHOT_SEQ_MAX
    DedupeMax,     \* fota.inventory.dedupe_max_entries
    DiagRetries,   \* fota.diag.retry_max_attempts
    MaxBoots,      \* bound: boots
    MaxFaults      \* bound: store operations that fail

(* A number decoded from a sequence record is an unsigned one, a decoded   *)
(* window a list.                                                          *)
ASSUME StoreAssumption ==
    /\ {SeqMax, DiagRetries, MaxBoots, MaxFaults} \subseteq Nat
    /\ DedupeMax \in Nat \ {0}
    /\ \A s \in Stores :
           /\ s = [k \in Keys |-> s[k]]
           /\ s["sequence"] # Missing /\ Decodes("sequence", s["sequence"]) =>
                  Decode("sequence", s["sequence"]).highestAllocated \in Nat
           /\ s["dedupe"] # Missing /\ Decodes("dedupe", s["dedupe"]) =>
                  IsList(Decode("dedupe", s["dedupe"]).entries)

VARIABLES
    disk,          \* inventory.*: the bytes under each key
    backup,        \* migration.backup.<key>.v<n>: the envelopes kept
    pc,            \* where main() stands
    at,            \* the key open() is at, by its place in KeyOrder
    corrupt,       \* the flag of each key: sequenceBlocked_, activeJobCorrupted_,
                   \* and the negations of the two available_ flags
    plan,          \* RecoveryPlan::action
    asm,           \* where assembleSnapshot stands
    attempt,       \* DIAG attempts that failed in this call
    throttled,     \* the report interval has not passed
    (* History and bounds.                                                 *)
    first,         \* the store at the first boot
    issued,        \* the numbers handed out with an inventory, in order
    boots, faults

stored == <<disk, backup>>
process == <<pc, at, corrupt, plan>>
assembler == <<asm, attempt, throttled>>
vars == <<stored, process, assembler, first, issued, boots, faults>>

KeyOrder == <<"sequence", "last_success", "dedupe", "active_job">>

Exists(k) == disk[k] # Missing

(* load and decode of a key that is there succeed.                         *)
Readable(k) == Exists(k) /\ Decodes(k, disk[k])

Record(k) == Decode(k, disk[k])

Fails == faults < MaxFaults /\ faults' = faults + 1
Works == UNCHANGED faults

(* store_.save of value v under key k, done or failed.                     *)
Saved(k, v) == disk' = [disk EXCEPT ![k] = v]
SaveFails(k, v) == disk' \in {disk, [disk EXCEPT ![k] = v]}

-----------------------------------------------------------------------------
(* FotaStateStore::open, one key after the other.                          *)

NextKey ==
    IF at = Len(KeyOrder)
    THEN pc' = "recover" /\ at' = at
    ELSE pc' = "check" /\ at' = at + 1

Flag(k) == corrupt' = [corrupt EXCEPT ![k] = TRUE]

(* The root cannot be opened or locked: open() throws and main() exits.    *)
OpenFails ==
    /\ pc = "check" /\ at = 1 /\ Fails
    /\ pc' = "off"
    /\ UNCHANGED <<stored, at, corrupt, plan, assembler, first, issued, boots>>

(* An older envelope is kept under migration.backup.<key>.v<n> first; a    *)
(* key whose backup fails is not upgraded.                                 *)
Kept(k, b) == [backup EXCEPT ![k] = {c \in @ : c.version # b.version} \cup {b}]

Mut_BackUp(k, b) ==
    /\ \/ Works /\ backup' = Kept(k, b)
       \/ Fails /\ backup' \in {backup, Kept(k, b)}
    /\ pc' = "rewrite" /\ UNCHANGED <<at, corrupt>>

BackUp(k, b) ==
    \/ /\ Works /\ backup' = Kept(k, b)
       /\ pc' = "rewrite" /\ UNCHANGED <<at, corrupt>>
    \/ /\ Fails /\ backup' \in {backup, Kept(k, b)}
       /\ Flag(k) /\ NextKey

CheckKey ==
    LET k == KeyOrder[at]
        b == disk[k]
    IN  /\ pc = "check"
        /\ UNCHANGED <<disk, plan, assembler, first, issued, boots>>
        /\ \/ (* has or load throws *)
              Fails /\ Flag(k) /\ NextKey /\ UNCHANGED backup
           \/ /\ b = Missing
              /\ Works /\ NextKey /\ UNCHANGED <<backup, corrupt>>
           \/ (* damaged, asks for a newer reader, or newer than this binary *)
              /\ b # Missing /\ (~HeaderIsReadable(b) \/ IsNewer(k, b))
              /\ Works /\ Flag(k) /\ NextKey /\ UNCHANGED backup
           \/ /\ b # Missing /\ HeaderIsReadable(b) /\ b.version = SchemaVersion[k]
              /\ IF Decodes(k, b) THEN UNCHANGED corrupt ELSE Flag(k)
              /\ Works /\ NextKey /\ UNCHANGED backup
           \/ /\ b # Missing /\ HeaderIsReadable(b) /\ IsOlder(k, b)
              /\ BackUp(k, b)

Mut_RewriteKey ==
    LET k == KeyOrder[at]
        new == IF Readable(k) THEN Encode(k, Record(k))
               ELSE Encode("sequence", [highestAllocated |-> 0])
    IN  /\ pc = "rewrite"
        /\ Works /\ Saved(k, new)
        /\ pc' = "verify"
        /\ UNCHANGED <<backup, at, corrupt, plan, assembler, first, issued, boots>>

(* Decode through the migration chain and save in the current format.      *)
RewriteKey ==
    LET k == KeyOrder[at]
        new == Encode(k, Record(k))
    IN  /\ pc = "rewrite"
        /\ UNCHANGED <<backup, plan, assembler, first, issued, boots>>
        /\ \/ ~Readable(k) /\ Works /\ Flag(k) /\ NextKey /\ UNCHANGED disk
           \/ Readable(k) /\ Fails /\ SaveFails(k, new) /\ Flag(k) /\ NextKey
           \/ /\ Readable(k) /\ Works /\ Saved(k, new)
              /\ pc' = "verify" /\ UNCHANGED <<at, corrupt>>

(* Read back what was written.                                             *)
VerifyKey ==
    LET k == KeyOrder[at] IN
    /\ pc = "verify"
    /\ \/ Works /\ (IF Readable(k) THEN UNCHANGED corrupt ELSE Flag(k))
       \/ Fails /\ Flag(k)
    /\ NextKey
    /\ UNCHANGED <<stored, plan, assembler, first, issued, boots>>

-----------------------------------------------------------------------------
(* StateRecovery::recover.  "lost" are the keys whose load fails.          *)

RolledBack(lost) ==
    /\ \A k \in {"sequence", "last_success"} : Readable(k) /\ ~corrupt[k] /\ k \notin lost
    /\ Record("last_success").snapshotSeq > Record("sequence").highestAllocated

BlockedBy(lost) == corrupt["sequence"] \/ RolledBack(lost)

Mut_Confirmed(lost) ==
    Readable("last_success") /\ ~corrupt["last_success"] /\ "last_success" \notin lost

Confirmed(lost) ==
    /\ Readable("last_success") /\ ~corrupt["last_success"] /\ "last_success" \notin lost
    /\ Record("last_success").reportId = Record("active_job").reportId
    /\ Record("last_success").snapshotSeq = Record("active_job").snapshotSeq

PlanOf(phase) ==
    CASE phase \in {"Accepted", "Collecting"} -> "ReCollect"
      [] phase \in {"Assembled", "SubmitPrepared"} ->
             IF Record("active_job").snapshotSeq = 0 THEN "ReCollect" ELSE "Resubmit"
      [] phase \in {"SubmitUnknown", "RetryWaiting"} -> "Retry"
      [] phase = "CompletedPendingCleanup" -> "ReCollect"

(* last_success is loaded before the comparison with the sequence, the job *)
(* only when nothing blocks, and last_success once more ("again": this     *)
(* load fails) to confirm a finished job.  A load of these two that fails  *)
(* sets the flag of its key.                                               *)
Recover ==
    /\ pc = "recover"
    /\ \E lost \in SUBSET {"sequence", "last_success", "active_job"}, again \in BOOLEAN :
        LET loaded == IF corrupt["sequence"] THEN {}
                      ELSE IF RolledBack(lost) THEN {"last_success"}
                      ELSE {"last_success", "active_job"}
            bad(k) == k \in loaded /\ (k \in lost \/ (Exists(k) /\ ~Readable(k)))
            flagged == [k \in Keys |-> corrupt[k] \/ bad(k)]
            hasJob == Readable("active_job") /\ "active_job" \notin lost
            settles == /\ ~BlockedBy(lost) /\ hasJob
                       /\ Record("active_job").phase = "CompletedPendingCleanup"
                       /\ Confirmed(lost)
        IN  /\ faults' = faults + Cardinality(lost) + (IF again THEN 1 ELSE 0)
            /\ faults' <= MaxFaults
            /\ again => settles
            /\ corrupt' = [flagged EXCEPT !["last_success"] = @ \/ again]
            /\ \/ /\ BlockedBy(lost)
                  /\ plan' = "Blocked" /\ pc' = "run"
               \/ /\ ~BlockedBy(lost) /\ ~hasJob
                  /\ plan' = IF flagged["active_job"] THEN "ReCollectFresh" ELSE "None"
                  /\ pc' = "run"
               \/ /\ ~BlockedBy(lost) /\ hasJob
                  /\ IF settles /\ ~again
                     THEN plan' = "None" /\ pc' = "dedupe"
                     ELSE plan' = PlanOf(Record("active_job").phase) /\ pc' = "run"
    /\ UNCHANGED <<stored, at, assembler, first, issued, boots>>

(* reconcileCompleted: complete the window, then remove the job.  The      *)
(* window is read through loadDedupe, which answers an unreadable record   *)
(* with an empty one.  A write that throws ends the process.               *)
DedupeWindow(lost) ==
    IF Readable("dedupe") /\ ~corrupt["dedupe"] /\ ~lost THEN Record("dedupe").entries ELSE <<>>

IsEntryOf(e, r) == e.snapshotSeq = r.snapshotSeq /\ e.reportId = r.reportId

Mut_InWindow(window, success) == FALSE

InWindow(window, success) == \E i \in 1..Len(window) : IsEntryOf(window[i], success)

Evicted(entries) ==
    IF Len(entries) > DedupeMax
    THEN SubSeq(entries, Len(entries) - DedupeMax + 1, Len(entries))
    ELSE entries

ReconcileDedupe ==
    /\ pc = "dedupe"
    /\ \E lost \in BOOLEAN :
        LET success == Record("last_success")
            window == DedupeWindow(lost)
            found == InWindow(window, success)
            new == Encode("dedupe", [entries |-> Evicted(Append(window, success))])
        IN  /\ lost => ~corrupt["dedupe"]
            /\ \/ /\ found /\ faults' = faults
                  /\ pc' = "cleanup" /\ UNCHANGED <<disk, corrupt>>
               \/ /\ ~found /\ faults' = faults + (IF lost THEN 1 ELSE 0)
                  /\ Saved("dedupe", new)
                  /\ corrupt' = [corrupt EXCEPT !["dedupe"] = FALSE]
                  /\ pc' = "cleanup"
               \/ /\ ~found /\ faults' = faults + (IF lost THEN 2 ELSE 1)
                  /\ SaveFails("dedupe", new)
                  /\ pc' = "off" /\ UNCHANGED corrupt
            /\ faults' <= MaxFaults
    /\ UNCHANGED <<backup, at, plan, assembler, first, issued, boots>>

ReconcileCleanup ==
    /\ pc = "cleanup"
    /\ \/ Works /\ Saved("active_job", Missing) /\ pc' = "run"
       \/ Fails /\ SaveFails("active_job", Missing) /\ pc' = "off"
    /\ UNCHANGED <<backup, at, corrupt, plan, assembler, first, issued, boots>>

-----------------------------------------------------------------------------
(* SnapshotAssembler::assembleSnapshot, called by the provider of the      *)
(* orchestrator under its mutex.  Without a snapshot the provider answers  *)
(* with an empty inventory, which changes nothing here.                    *)

BeginAssemble ==
    /\ pc = "run" /\ asm = "idle" /\ ~throttled
    /\ asm' = "collect" /\ attempt' = 0
    /\ UNCHANGED <<stored, process, throttled, first, issued, boots, faults>>

(* collectVehicleInventory: unavailable, call failed or malformed VIN.     *)
DiagFails ==
    /\ asm = "collect"
    /\ attempt' = attempt + 1
    /\ asm' = IF attempt < DiagRetries THEN "collect" ELSE "idle"
    /\ UNCHANGED <<stored, process, throttled, first, issued, boots, faults>>

(* validateSnapshot may find more ECUs than configured.                    *)
DiagAnswers ==
    /\ asm = "collect"
    /\ asm' \in {"allocate", "idle"}
    /\ UNCHANGED <<stored, process, attempt, throttled, first, issued, boots, faults>>

(* The highest number allocated, 0 on a store without the key.             *)
HighestAllocated == IF Readable("sequence") THEN Record("sequence").highestAllocated ELSE 0

MayAllocate ==
    /\ ~corrupt["sequence"]
    /\ ~Exists("sequence") \/ Readable("sequence")
    /\ HighestAllocated < SeqMax

Mut_NextSequence == Encode("sequence", [highestAllocated |-> HighestAllocated])

NextSequence == Encode("sequence", [highestAllocated |-> HighestAllocated + 1])

(* allocateSnapshotSeq: blocked, not loaded, not decoded, at the limit or  *)
(* not saved, it throws and blocks the sequence until the next start.      *)
AllocateBlocked ==
    /\ asm = "allocate"
    /\ \/ ~MayAllocate /\ Works /\ UNCHANGED disk
       \/ ~corrupt["sequence"] /\ Fails /\ UNCHANGED disk
       \/ MayAllocate /\ Fails /\ SaveFails("sequence", NextSequence)
    /\ Flag("sequence")
    /\ asm' = "idle"
    /\ UNCHANGED <<backup, pc, at, plan, attempt, throttled, first, issued, boots>>

AllocateSaves ==
    /\ asm = "allocate" /\ MayAllocate
    /\ Saved("sequence", NextSequence)
    /\ asm' = "allocated"
    /\ UNCHANGED <<backup, process, attempt, throttled, first, issued, boots, faults>>

HandOut ==
    /\ asm = "allocated"
    /\ issued' = Append(issued, HighestAllocated)
    /\ throttled' = TRUE
    /\ asm' = "idle"
    /\ UNCHANGED <<stored, process, attempt, first, boots, faults>>

IntervalPasses ==
    /\ throttled /\ asm = "idle"
    /\ throttled' = FALSE
    /\ UNCHANGED <<stored, process, asm, attempt, first, issued, boots, faults>>

-----------------------------------------------------------------------------
(* The process: started, ended by a signal or by a power loss, which may   *)
(* come between any two steps.                                             *)
StopsNow ==
    /\ pc # "off"
    /\ pc' = "off"
    /\ asm' = "idle" /\ attempt' = 0 /\ throttled' = FALSE
    /\ UNCHANGED <<stored, at, corrupt, plan, first, issued, boots, faults>>

Boot ==
    /\ pc = "off" /\ boots < MaxBoots
    /\ pc' = "check" /\ at' = 1
    /\ corrupt' = [k \in Keys |-> FALSE]
    /\ plan' = "None"
    /\ boots' = boots + 1
    /\ UNCHANGED <<stored, assembler, first, issued, faults>>

Init ==
    /\ disk \in Stores
    /\ first = disk
    /\ backup = [k \in Keys |-> {}]
    /\ pc = "off" /\ at = 1
    /\ corrupt = [k \in Keys |-> FALSE]
    /\ plan = "None"
    /\ asm = "idle" /\ attempt = 0 /\ throttled = FALSE
    /\ issued = <<>>
    /\ boots = 0 /\ faults = 0

Next ==
    \/ Boot \/ StopsNow
    \/ OpenFails \/ CheckKey \/ RewriteKey \/ VerifyKey
    \/ Recover \/ ReconcileDedupe \/ ReconcileCleanup
    \/ BeginAssemble \/ DiagFails \/ DiagAnswers
    \/ AllocateBlocked \/ AllocateSaves \/ HandOut \/ IntervalPasses

Spec == Init /\ [][Next]_vars
-----------------------------------------------------------------------------
(* Every variable holds a value of its kind; the bytes under a key come    *)
(* from the first store or from this program.                              *)
TypeOK ==
    /\ DOMAIN disk = Keys /\ DOMAIN backup = Keys
    /\ \A k \in Keys : Exists(k) /\ disk[k] # first[k] => Decodes(k, disk[k])
    /\ pc \in {"off", "check", "rewrite", "verify", "recover", "dedupe", "cleanup", "run"}
    /\ at \in 1..Len(KeyOrder)
    /\ corrupt \in [Keys -> BOOLEAN]
    /\ plan \in {"None", "ReCollect", "Resubmit", "Retry", "ReCollectFresh", "Blocked"}
    /\ asm \in {"idle", "collect", "allocate", "allocated"}
    /\ attempt \in 0..(DiagRetries + 1) /\ throttled \in BOOLEAN
    /\ issued \in Seq(Nat)
    /\ boots \in 0..MaxBoots /\ faults \in 0..MaxFaults

FirstReads(k) == first[k] # Missing /\ Decodes(k, first[k])

FirstHighest == IF FirstReads("sequence") THEN Decode("sequence", first["sequence"]).highestAllocated ELSE 0

(* "Monotonic; a crash may leave gaps, no number goes back or is reused"   *)
(* (fota_state.hpp, SequenceState): every number handed out is new, in     *)
(* spite of power losses, failed writes and the upgrade of the record.     *)
NumbersAreFresh ==
    \A i \in 1..Len(issued) :
        /\ issued[i] > FirstHighest
        /\ \A j \in 1..(i - 1) : issued[j] < issued[i]

(* A number is used only after save() made it durable                      *)
(* (FotaStateStore::allocateSnapshotSeq), and stays covered for ever.      *)
IssuedIsDurable ==
    issued # <<>> =>
        /\ Readable("sequence")
        /\ \A i \in 1..Len(issued) : issued[i] <= Record("sequence").highestAllocated

(* A record this binary cannot read, damaged or of a newer release, is     *)
(* left as it is (migrateAndValidate, "fail-closed, not overwritten"); the *)
(* dedupe window is the exception, see reconcileCompleted.                 *)
UnreadableIsKept ==
    [][\A k \in Keys \ {"dedupe"} : Exists(k) /\ ~Readable(k) => disk'[k] = disk[k]]_vars

(* An older record is replaced only when its envelope was backed up        *)
(* (migrateAndValidate), whichever write of open() fails or is interrupted.*)
OldRecordIsBackedUp ==
    \A k \in Keys \ {"dedupe"} :
        /\ first[k] # Missing /\ HeaderIsReadable(first[k]) /\ IsOlder(k, first[k])
        /\ Exists(k) /\ disk[k] # first[k]
        => first[k] \in backup[k]

(* A job leaves the store only as a finished one whose success is recorded *)
(* and whose report is in the dedupe window (StateRecovery: an unknown     *)
(* result is never taken for success).                                     *)
JobEndsConfirmed ==
    FirstReads("active_job") /\ ~Exists("active_job") =>
        LET job == Decode("active_job", first["active_job"])
        IN  /\ job.phase = "CompletedPendingCleanup"
            /\ Readable("last_success") /\ IsEntryOf(Record("last_success"), job)
            /\ Readable("dedupe")
            /\ \E i \in 1..Len(Record("dedupe").entries) : IsEntryOf(Record("dedupe").entries[i], job)

(* The result of open() and recover() on the first store in one go.        *)
Upgraded(k) ==
    IF FirstReads(k) /\ IsOlder(k, first[k]) THEN Encode(k, Decode(k, first[k])) ELSE first[k]

FinishedJob ==
    /\ first["sequence"] # Missing => FirstReads("sequence")
    /\ FirstReads("active_job") /\ FirstReads("last_success")
    /\ LET job == Decode("active_job", first["active_job"])
       IN  /\ job.phase = "CompletedPendingCleanup"
           /\ IsEntryOf(Decode("last_success", first["last_success"]), job)

SettledDedupe ==
    LET success == Decode("last_success", first["last_success"])
        window == IF FirstReads("dedupe") THEN Decode("dedupe", first["dedupe"]).entries ELSE <<>>
    IN  IF \E i \in 1..Len(window) : IsEntryOf(window[i], success)
        THEN Upgraded("dedupe")
        ELSE Encode("dedupe", [entries |-> Evicted(Append(window, success))])

FirstRolledBack ==
    /\ FirstReads("sequence") /\ FirstReads("last_success")
    /\ Decode("last_success", first["last_success"]).snapshotSeq > FirstHighest

(* However often the boot was interrupted, one that ends leaves the store  *)
(* a single uninterrupted boot would have left (migrateAndValidate and     *)
(* reconcileCompleted, "idempotent").                                      *)
RecoveryIsRestartable ==
    pc = "run" /\ faults = 0 /\ ~FirstRolledBack =>
        /\ disk["last_success"] = Upgraded("last_success")
        /\ disk["active_job"] = IF FinishedJob THEN Missing ELSE Upgraded("active_job")
        /\ disk["dedupe"] = IF FinishedJob THEN SettledDedupe ELSE Upgraded("dedupe")

(* "Blocked: stop automatic and active reporting" (RecoveryAction): no     *)
(* number is allocated in a process whose recovery answered Blocked.       *)
BlockedStopsReporting ==
    [][issued' # issued => plan # "Blocked"]_vars
=============================================================================
