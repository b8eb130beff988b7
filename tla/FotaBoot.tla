------------------------------ MODULE FotaBoot ------------------------------
(***************************************************************************)
(* main(): from the configuration over the migration of the old records to *)
(* the running daemon, and back on a signal, on an error or by power loss. *)
(*                                                                         *)
(* The records of SnapshotStore are opened and recovered in one step that  *)
(* returns or throws.  The framework and the peers are what they answer:   *)
(* a call returns or throws, DIAG becomes available or does not.  The rest *)
(* of the daemon is one action, SavesState, which stands for every durable *)
(* write of the orchestrator: it moves the sequence numbers on.            *)
(***************************************************************************)
EXTENDS FotaMigration, FotaConfig

CONSTANTS
    Configs,       \* the configurations a start may find
    MaxBoots,      \* bound: starts of the process
    MaxNumber      \* bound: the sequence number the daemon reaches

(* A store holds each old key or not, and what is read as a list of        *)
(* entries is one; the identifiers of a configuration are read as 64-bit   *)
(* integers.                                                               *)
ASSUME BootAssumption ==
    /\ \A s \in Stores :
           /\ s.legacy = [k \in LegacyKinds |-> s.legacy[k]]
           /\ s.marker \in {Missing, "completed", "unreadable"}
           /\ \A k \in DOMAIN EntryNeeds :
                  s.legacy[k] # Missing /\ LegacyDecodes(k, s.legacy[k]) => IsList(s.legacy[k].payload.entries)
    /\ \A c \in Configs : {c.methodId, c.eventId, c.eventgroupId, c.interfaceMajor} \subseteq Int
    /\ {MaxBoots, MaxNumber} \subseteq Nat

VARIABLES
    pc,            \* where main() stands
    config,        \* the configuration of this process
    signalled,     \* running is false
    runtime,       \* the SOME/IP runtime: none, created, started, stopped
    diag,          \* the DIAG service is requested
    daemon,        \* none, created, running, stopped
    saved,         \* history: the sequence numbers the daemon saved last
    boots

process == <<pc, config, signalled, runtime, diag, daemon>>
vars == <<migration, process, saved, boots>>

(* A return from main destroys the daemon, which stops it, and then the    *)
(* runtime.                                                                *)
Exit == pc' = "unwind" /\ UNCHANGED <<config, signalled, runtime, diag, daemon>>

Goto(p) == pc' = p /\ UNCHANGED <<config, signalled>>

UnchangedRest == UNCHANGED <<migration, saved, boots>>

-----------------------------------------------------------------------------
Start ==
    /\ pc = "off" /\ boots < MaxBoots
    /\ \E c \in Configs : config' = c
    /\ boots' = boots + 1
    /\ pc' = "config" /\ signalled' = FALSE
    /\ runtime' = "none" /\ diag' = FALSE /\ daemon' = "none"
    /\ UNCHANGED <<migration, saved>>

LoadConfig ==
    /\ pc = "config"
    /\ IF Accepts(config) THEN Goto("store") /\ UNCHANGED <<runtime, diag, daemon>> ELSE Exit
    /\ UnchangedRest

(* Logger, FotaStateStore::open and StateRecovery::recover; a blocked plan *)
(* is only logged.                                                         *)
OpenStore ==
    /\ pc = "store"
    /\ \/ Begin /\ Goto("migrate") /\ UNCHANGED <<runtime, diag, daemon>>
       \/ Exit /\ UNCHANGED migration
    /\ UNCHANGED <<saved, boots>>

Migrate ==
    /\ pc = "migrate" /\ stage # "done"
    /\ MigrationStep \/ Interrupted
    /\ pc' = IF stage' = "idle" THEN "unwind" ELSE "migrate"
    /\ UNCHANGED <<config, signalled, runtime, diag, daemon, saved, boots>>

CreateRuntime ==
    /\ pc = "migrate" /\ stage = "done"
    /\ \/ runtime' = "created" /\ Goto("start") /\ UNCHANGED <<diag, daemon>>
       \/ Exit
    /\ UnchangedRest

StartRuntime ==
    /\ pc = "start"
    /\ \/ runtime' = "started" /\ diag' = TRUE /\ Goto("wait") /\ UNCHANGED daemon
       \/ Exit
    /\ UnchangedRest

Mut_WaitForDiag ==
    /\ pc = "wait" /\ ~signalled
    /\ Goto(IF config.cloudEnabled THEN "resolve" ELSE "run")
    /\ UNCHANGED <<runtime, diag, daemon>> /\ UnchangedRest

(* At most five seconds: DIAG is there, or is not, or the signal came.     *)
WaitForDiag ==
    /\ pc = "wait"
    /\ Goto(IF config.cloudEnabled THEN "resolve" ELSE "run")
    /\ UNCHANGED <<runtime, diag, daemon>> /\ UnchangedRest

ResolveAddress ==
    /\ pc = "resolve"
    /\ IF Resolution(config) = "resolved"
       THEN Goto("daemon") /\ UNCHANGED <<runtime, diag, daemon>>
       ELSE Exit
    /\ UnchangedRest

CreateDaemon ==
    /\ pc = "daemon" /\ daemon = "none"
    /\ \/ daemon' = "created" /\ Goto("daemon") /\ UNCHANGED <<runtime, diag>>
       \/ Exit
    /\ UnchangedRest

(* The records reconcileOnStart loads.                                     *)
Reconcilable ==
    \A kind \in {"vehicle_task", "execution", "event_outbox_meta"} :
        <<kind>> \in DOMAIN cloud => CloudDecodes(kind, cloud[<<kind>>])

(* FotaDaemon::start: transport, subscription, reconcileOnStart, step.  It *)
(* throws half way when a record cannot be read, or when the transport     *)
(* does not start; the daemon then exists and has to be stopped.           *)
StartDaemon ==
    /\ pc = "daemon" /\ daemon = "created"
    /\ daemon' = "running"
    /\ UNCHANGED <<runtime, diag>>
    /\ \/ Reconcilable /\ Goto("run")
       \/ Goto("unwind")
    /\ UnchangedRest

NumbersOf(b) == MetaOf(CloudDecode("event_outbox_meta", b))

SavesState ==
    /\ pc = "run" /\ daemon = "running"
    /\ LET now == IF MetaKey \in DOMAIN cloud THEN NumbersOf(cloud[MetaKey]) ELSE FreshMeta
           next == [now EXCEPT !.nextSequenceNo = @ + 1]
       IN  /\ now.nextSequenceNo < MaxNumber
           /\ saved' = next
           /\ cloud' = [key \in DOMAIN cloud \cup {MetaKey} |->
                            IF key = MetaKey THEN CloudEncode("event_outbox_meta", next) ELSE cloud[key]]
    /\ UNCHANGED <<legacy, marker, locals, first, process, boots>>

-----------------------------------------------------------------------------
(* SIGINT or SIGTERM: the handler clears running, which main() looks at in *)
(* the wait for DIAG and in its loop.                                      *)
Signal ==
    /\ pc \notin {"off", "unwind"} /\ ~signalled
    /\ signalled' = TRUE
    /\ UNCHANGED <<migration, pc, config, runtime, diag, daemon, saved, boots>>

StopDaemon ==
    /\ pc = "run" /\ signalled
    /\ daemon' = IF daemon = "none" THEN "none" ELSE "stopped"
    /\ Goto("release") /\ UNCHANGED <<runtime, diag>>
    /\ UnchangedRest

ReleaseDiag ==
    /\ pc = "release"
    /\ diag' = FALSE
    /\ Goto("stop") /\ UNCHANGED <<runtime, daemon>>
    /\ UnchangedRest

StopRuntime ==
    /\ pc = "stop"
    /\ runtime' = "stopped"
    /\ Goto("unwind") /\ UNCHANGED <<diag, daemon>>
    /\ UnchangedRest

(* The destructors, in the reverse order of construction, after a return   *)
(* wherever it stands: the daemon, which its destructor stops, the client  *)
(* of DIAG, whose request ends with it, and the runtime.                   *)
DaemonIsDown == daemon \in {"none", "stopped"}

DestroyDaemon ==
    /\ pc = "unwind" /\ ~DaemonIsDown
    /\ daemon' = "stopped"
    /\ Goto("unwind") /\ UNCHANGED <<runtime, diag>>
    /\ UnchangedRest

Mut_DestroyClient ==
    /\ pc = "unwind" /\ diag
    /\ diag' = FALSE
    /\ Goto("unwind") /\ UNCHANGED <<runtime, daemon>>
    /\ UnchangedRest

DestroyClient ==
    /\ pc = "unwind" /\ DaemonIsDown /\ diag
    /\ diag' = FALSE
    /\ Goto("unwind") /\ UNCHANGED <<runtime, daemon>>
    /\ UnchangedRest

Left ==
    /\ pc = "unwind" /\ DaemonIsDown /\ ~diag
    /\ runtime' = IF runtime = "none" THEN "none" ELSE "stopped"
    /\ stage' = "idle"
    /\ Goto("off") /\ UNCHANGED <<diag, daemon>>
    /\ UNCHANGED <<store, at, queue, meta, first, saved, boots>>

PowerLoss ==
    /\ pc # "off"
    /\ pc' = "off" /\ stage' = "idle"
    /\ runtime' = "none" /\ diag' = FALSE /\ daemon' = "none"
    /\ UNCHANGED <<store, at, queue, meta, first, config, signalled, saved, boots>>

Init ==
    /\ MigrationInit
    /\ pc = "off" /\ config \in Configs
    /\ signalled = FALSE
    /\ runtime = "none" /\ diag = FALSE /\ daemon = "none"
    /\ saved = Missing
    /\ boots = 0

MainStep ==
    \/ LoadConfig \/ OpenStore \/ Migrate \/ CreateRuntime \/ StartRuntime \/ WaitForDiag
    \/ ResolveAddress \/ CreateDaemon \/ StartDaemon
    \/ StopDaemon \/ ReleaseDiag \/ StopRuntime
    \/ DestroyDaemon \/ DestroyClient \/ Left

Next == Start \/ MainStep \/ SavesState \/ Signal \/ PowerLoss

(* main() runs on: every call it makes returns or throws, see the README.  *)
Fairness == WF_vars(MainStep)

Spec == Init /\ [][Next]_vars /\ Fairness
-----------------------------------------------------------------------------
(* Every variable holds a value of its kind, and every record in fota.*    *)
(* can be read back unless it was there at first.                          *)
TypeOK ==
    /\ DOMAIN legacy = LegacyKinds /\ marker \in {Missing, "completed", "unreadable"}
    /\ \A key \in DOMAIN cloud :
           \/ key \in DOMAIN first.cloud /\ cloud[key] = first.cloud[key]
           \/ key[1] \in CloudKinds /\ CloudDecodes(key[1], cloud[key])
    /\ stage \in {"idle", "detect", "convert", "mark", "clean", "done"}
    /\ at \in 1..(Len(LegacyKeys) + 1)
    /\ pc \in {"off", "config", "store", "migrate", "start", "wait", "resolve", "daemon", "run",
               "release", "stop", "unwind"}
    /\ config \in Configs /\ signalled \in BOOLEAN /\ diag \in BOOLEAN
    /\ runtime \in {"none", "created", "started", "stopped"}
    /\ daemon \in {"none", "created", "running", "stopped"}
    /\ boots \in 0..MaxBoots

(* Once the migration is over, fota.* holds what one uninterrupted call    *)
(* makes of the first store, and on top of it what the daemon saved: no    *)
(* repetition of the migration, or of its clean-up, takes the daemon back  *)
(* (fota_state_migration.hpp, "idempotent after an interruption").         *)
RecordsSurviveRestarts ==
    marker = "completed" \/ stage = "done" =>
        \A key \in DOMAIN cloud \cup DOMAIN Expected :
            IF key = MetaKey /\ saved # Missing
            THEN cloud[key] = CloudEncode("event_outbox_meta", saved)
            ELSE key \in DOMAIN cloud /\ key \in DOMAIN Expected /\ cloud[key] = Expected[key]

(* What the releases before wrote: the fields of their own structs, whole  *)
(* offsets and sizes, and one entry per id; of two with the same id only   *)
(* the later could have a key of its own.                                  *)
OldOptional ==
    [vehicle_task |-> {"frozenSnapshotPbHex", "localDispositionResult", "superseded"},
     inventory |-> {"inventoryPbHex", "fullRequired"},
     consent |-> {"consentReceiptPbHex", "termsId", "termsVersion"},
     downloads |-> {"credentialExpiresAtMs", "ready"},
     execution |-> {"installPlanVersion", "stage", "progressPercent", "finalSequenceNo", "resultStatus",
                    "checkpointPbHex", "offlinePolicyPbHex", "timeoutPolicyPbHex"},
     event_outbox |-> {"progressPercent"}, controls |-> {},
     policy |-> {"conflict", "effectivePolicyPbHex"}, log_jobs |-> {}]

IsOld(k, needs, r) ==
    /\ DOMAIN r \subseteq needs \cup OldOptional[k] \cup {"schemaVersion"}
    /\ k = "downloads" => r.offset \in Int
    /\ k = "log_jobs" => r.sizeBytes \in Int

OldRecordsAreRegular ==
    \A s \in Stores, k \in LegacyKinds :
        s.legacy[k] # Missing /\ LegacyDecodes(k, s.legacy[k]) =>
            LET p == s.legacy[k].payload IN
            IF k \in DOMAIN EntryNeeds
            THEN \A i \in 1..Len(p.entries) :
                     /\ IsOld(k, EntryNeeds[k], p.entries[i])
                     /\ \A j \in 1..Len(p.entries) : SavesOf(k, p)[i][1] = SavesOf(k, p)[j][1] => i = j
            ELSE IsOld(k, Needs[k], p)

(* "The business ids, revisions, sequence numbers, digests, offsets, times *)
(* are kept" (fota_state_migration.hpp, step 4): every migrated record,    *)
(* read back, agrees with its old one in every field they share, whatever  *)
(* it was called, and no entry of a list is lost.  Only what was encoded   *)
(* in the old protocol is dropped: the events, the two policies and the    *)
(* checkpoint of the execution, and the effective policy.                  *)
OldName ==
    [targetBaselineCode |-> "targetBaselineId", ecuListDigestHex |-> "ecuListDigest",
     currentOffsetBytes |-> "offset", stageResultDigestHex |-> "stageResultDigest",
     eventDigestHex |-> "eventDigest", eventStatus |-> "result", progress |-> "progressPercent",
     occurredAtMs |-> "timestampMs", action |-> "commandType"]

Opaque == {"eventPbHex", "checkpointPbHex", "offlinePolicyPbHex", "timeoutPolicyPbHex", "effectivePolicyPbHex"}
Revisions == {"taskRevision", "inventoryRevision", "controlRevision"}

SameValue(f, new, old) ==
    CASE f \in Revisions -> new = (IF old[1] = "decimal" THEN old[2] ELSE HashOf[old[2]])
      [] f \in {"currentOffsetBytes", "sizeBytes"} -> new = old \/ (old < 0 /\ new = 0)
      [] f \in {"action", "applyMode"} ->
             new = old \/ <<old, new>> \in {<<"IMMEDIATE", "IMMEDIATE_IF_SAFE">>, <<"RESUME", "CONTINUE">>}
      [] OTHER -> new = old

Kept(old, key) ==
    /\ key \in DOMAIN cloud
    /\ LET new == CloudDecode(key[1], cloud[key])
       IN  \A f \in DOMAIN new \ Opaque :
               LET o == IF f \in DOMAIN OldName THEN OldName[f] ELSE f
               IN  o \in DOMAIN old => SameValue(f, new[f], old[o])

BusinessFieldsAreKept ==
    stage = "done" /\ ToMigrate =>
        \A k \in LegacyKinds :
            first.legacy[k] # Missing =>
                LET p == first.legacy[k].payload IN
                IF k \in DOMAIN EntryNeeds
                THEN \A i \in 1..Len(p.entries) :
                         \E key \in DOMAIN cloud : key[1] = k /\ Kept(p.entries[i], key)
                ELSE Kept(p, <<k>>)

(* The transport is opened only when the migration is over: no process     *)
(* that has a runtime can see an old key ("completed before the transport  *)
(* is opened and tasks are triggered", fota_state_migration.hpp).  And the *)
(* daemon is only made for a complete, free address of the right version:  *)
(* what the Registry did not allocate is never guessed                     *)
(* (tbox_generic_transport_contract.hpp).                                  *)
OpensOnlyWhenReady ==
    /\ runtime # "none" \/ daemon # "none" => NoLegacy
    /\ daemon # "none" =>
           LET a == Address(config)
           IN  /\ 1 < a.method /\ a.method <= 32767
               /\ 32768 <= a.event /\ a.event <= 65534
               /\ 1 <= a.eventgroup /\ a.eventgroup <= 65534
               /\ a.major = 1

(* On every way out of main(), a return with an error wherever it stands   *)
(* among them, DIAG is released only after the daemon is stopped, and the  *)
(* runtime is stopped only after both: no thread of the daemon is left to  *)
(* call into what is gone.                                                 *)
StopsInOrder ==
    [][/\ diag /\ ~diag' => DaemonIsDown'
       /\ runtime' = "stopped" => DaemonIsDown' /\ ~diag']_vars

(* A signal ends the process, wherever it finds main().                    *)
SignalEndsProcess == signalled /\ pc # "off" ~> pc = "off"
=============================================================================
