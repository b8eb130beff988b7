--------------------------- MODULE FotaBootProofs ---------------------------
(***************************************************************************)
(* What main() and the migration guarantee on any store, with any          *)
(* configuration and any number of starts and power losses.                *)
(***************************************************************************)
EXTENDS FotaBoot, SequenceTheorems, TLAPS

(* The old keys.  They go one after the other once the marker is durable,  *)
(* and the migration is over only when all are gone.                       *)
LegacyInv ==
    /\ legacy = [k \in LegacyKinds |-> legacy[k]]
    /\ at \in 1..(Len(LegacyKeys) + 1)
    /\ LegacyKeptUntilMarked
    /\ stage = "clean" => marker = "completed" /\ \A i \in 1..(at - 1) : legacy[LegacyKeys[i]] = Missing
    /\ stage = "done" => NoLegacy

(* What main() has checked where it stands.                                *)
OpenInv ==
    /\ pc \in {"store", "migrate", "start", "wait", "resolve", "daemon", "run"} => Accepts(config)
    /\ pc = "daemon" => Resolution(config) = "resolved"
    /\ pc \in {"config", "store", "migrate"} => runtime = "none"
    /\ pc \in {"config", "store", "migrate", "start", "wait", "resolve"} => daemon = "none"
    /\ daemon # "none" => Accepts(config) /\ Resolution(config) = "resolved"
    /\ pc \in {"start", "wait", "resolve", "daemon", "run", "release", "stop"} => NoLegacy
    /\ runtime # "none" \/ daemon # "none" => NoLegacy
    /\ config \in Configs

-----------------------------------------------------------------------------
LEMMA Keys9 ==
    /\ Len(LegacyKeys) = 9
    /\ \A i \in 1..9 : LegacyKeys[i] \in LegacyKinds
    /\ \A k \in LegacyKinds : \E i \in 1..9 : LegacyKeys[i] = k
BY DEF LegacyKeys, LegacyKinds

LEMMA LegacyInit == MigrationInit => LegacyInv
BY BootAssumption, Keys9 DEF MigrationInit, LegacyInv, LegacyKeptUntilMarked

LEMMA LegacyRemoved ==
    ASSUME LegacyInv, RemoveLegacy
    PROVE  LegacyInv'
<1> DEFINE k == LegacyKeys[at]
<1>1. at \in 1..9 /\ k \in LegacyKinds
    BY Keys9 DEF RemoveLegacy, LegacyInv
<1>2. /\ legacy' = [legacy EXCEPT ![k] = Missing] /\ at' = at + 1
      /\ UNCHANGED <<marker, stage, first>> /\ stage = "clean"
    BY DEF RemoveLegacy
<1>3. legacy'[k] = Missing /\ \A l \in LegacyKinds : legacy'[l] = Missing \/ legacy'[l] = legacy[l]
    BY <1>1, <1>2 DEF LegacyInv
<1>4. \A i \in 1..(at' - 1) : legacy'[LegacyKeys[i]] = Missing
  <2> SUFFICES ASSUME NEW i \in 1..at PROVE legacy'[LegacyKeys[i]] = Missing
      BY <1>1, <1>2
  <2>1. CASE i = at
      BY <2>1, <1>3
  <2>2. CASE i # at
    <3>1. i \in 1..(at - 1) /\ LegacyKeys[i] \in LegacyKinds
        BY <2>2, <1>1, Keys9
    <3> QED
        BY <3>1, <1>2, <1>3 DEF LegacyInv
  <2> QED
      BY <2>1, <2>2
<1>5. at' \in 1..(Len(LegacyKeys) + 1)
    BY <1>1, <1>2, Keys9
<1>6. legacy' = [l \in LegacyKinds |-> legacy'[l]]
    BY <1>2 DEF LegacyInv
<1> QED
    BY <1>2, <1>4, <1>5, <1>6 DEF LegacyInv, LegacyKeptUntilMarked

LEMMA LegacyStep ==
    ASSUME LegacyInv, MigrationNext \/ UNCHANGED <<legacy, marker, stage, at, first>>
    PROVE  LegacyInv'
<1> USE DEF LegacyInv, LegacyKeptUntilMarked
<1>1. CASE UNCHANGED <<legacy, marker, stage, at, first>>
    BY <1>1 DEF NoLegacy
<1>2. CASE Begin \/ Interrupted
    BY <1>2 DEF Begin, Interrupted, Throws, store
<1>3. CASE Detect
    BY <1>3, Keys9 DEF Detect, store, NoLegacy
<1>4. CASE Convert
  <2>1. /\ UNCHANGED <<legacy, marker, first>>
        /\ \/ stage' = "idle" /\ at' = at
           \/ stage' = "convert" /\ at' = at + 1
      BY <1>4 DEF Convert, Throws, store
  <2>2. at \in 1..9
      BY <1>4, Keys9 DEF Convert
  <2> QED
      BY <2>1, <2>2, Keys9
<1>5. CASE SaveRecord
    BY <1>5 DEF SaveRecord
<1>6. CASE Check
  <2>1. UNCHANGED <<legacy, marker, first, at>> /\ stage' \in {"mark", "idle"}
      BY <1>6 DEF Check, Throws, store
  <2> QED
      BY <2>1
<1>7. CASE Mark
    BY <1>7, Keys9 DEF Mark
<1>8. CASE RemoveLegacy
    BY <1>8, LegacyRemoved
<1>9. CASE Finish
  <2>1. at = 10 /\ \A i \in 1..9 : legacy[LegacyKeys[i]] = Missing
      BY <1>9, Keys9 DEF Finish
  <2>2. NoLegacy /\ UNCHANGED <<legacy, marker, first, at>> /\ stage' = "done"
      BY <1>9, <2>1, Keys9 DEF Finish, store, NoLegacy
  <2> QED
      BY <2>2 DEF NoLegacy
<1> QED
    BY <1>1, <1>2, <1>3, <1>4, <1>5, <1>6, <1>7, <1>8, <1>9 DEF MigrationNext, MigrationStep

(* Outside Migrate main() only leaves the migration, or calls it.          *)
LEMMA BootLegacy ==
    ASSUME LegacyInv, [Next]_vars
    PROVE  LegacyInv'
<1>1. CASE OpenStore \/ Migrate
    BY <1>1, LegacyStep DEF OpenStore, Migrate, MigrationNext, migration, store, locals
<1>2. CASE Left \/ PowerLoss
    BY <1>2 DEF Left, PowerLoss, store, LegacyInv, LegacyKeptUntilMarked
<1>3. CASE SavesState
    BY <1>3, LegacyStep DEF SavesState, locals
<1>4. CASE ~(OpenStore \/ Migrate \/ Left \/ PowerLoss \/ SavesState)
  <2>1. UNCHANGED migration
      BY <1>4 DEF Next, MainStep, Start, LoadConfig, CreateRuntime, StartRuntime, WaitForDiag, ResolveAddress,
         CreateDaemon, StartDaemon, StopDaemon, ReleaseDiag, StopRuntime, DestroyDaemon, DestroyClient, Signal, UnchangedRest, vars
  <2> QED
      BY <2>1, LegacyStep DEF migration, store, locals
<1> QED
    BY <1>1, <1>2, <1>3, <1>4

(* No old record is removed before the completed marker is durable,        *)
(* whatever interrupts the migration and however often it is repeated      *)
(* (migrateOtaToFota).                                                     *)
THEOREM LegacyIsKept == Spec => []LegacyKeptUntilMarked
<1>1. Init => LegacyInv
    BY LegacyInit DEF Init
<1>2. LegacyInv /\ [Next]_vars => LegacyInv'
    BY BootLegacy
<1>3. LegacyInv => LegacyKeptUntilMarked
    BY DEF LegacyInv
<1> QED
    BY <1>1, <1>2, <1>3, PTL DEF Spec
-----------------------------------------------------------------------------
(* Every step of main() but Migrate leaves the old keys alone.             *)
LEMMA LegacyStays ==
    ASSUME [Next]_vars, ~Migrate
    PROVE  legacy' = legacy
BY DEF Next, MainStep, Start, LoadConfig, OpenStore, CreateRuntime, StartRuntime, WaitForDiag, ResolveAddress,
   CreateDaemon, StartDaemon, StopDaemon, ReleaseDiag, StopRuntime, DestroyDaemon, DestroyClient, Left, PowerLoss, SavesState,
   Signal, UnchangedRest, vars, migration, store, Begin

LEMMA OpenStep ==
    ASSUME OpenInv, LegacyInv, [Next]_vars
    PROVE  OpenInv'
<1> USE DEF OpenInv
<1>1. CASE Migrate
  <2>1. /\ pc = "migrate" /\ pc' \in {"migrate", "unwind"}
        /\ UNCHANGED <<config, runtime, daemon>>
      BY <1>1 DEF Migrate
  <2> QED
      BY <2>1
<1>2. CASE UNCHANGED vars \/ Signal \/ SavesState
  <2>1. UNCHANGED <<pc, config, runtime, daemon, legacy>>
      BY <1>2 DEF vars, process, Signal, SavesState, migration, store
  <2> QED
      BY <2>1 DEF NoLegacy
<1>3. CASE Start \/ PowerLoss
  <2>1. pc' \in {"config", "off"} /\ runtime' = "none" /\ daemon' = "none" /\ config' \in Configs
      BY <1>3 DEF Start, PowerLoss
  <2> QED
      BY <2>1
<1>4. CASE ~(Migrate \/ Signal \/ SavesState \/ Start \/ PowerLoss \/ UNCHANGED vars)
  <2>1. legacy' = legacy /\ config' = config /\ MainStep
      BY <1>4, LegacyStays DEF Next, MainStep, LoadConfig, OpenStore, CreateRuntime, StartRuntime, WaitForDiag,
         ResolveAddress, CreateDaemon, StartDaemon, StopDaemon, ReleaseDiag, StopRuntime, DestroyDaemon, DestroyClient, Left, Goto, Exit
  <2>2. CASE LoadConfig \/ OpenStore \/ StartRuntime \/ WaitForDiag \/ ResolveAddress
      BY <2>1, <2>2 DEF LoadConfig, OpenStore, StartRuntime, WaitForDiag, ResolveAddress, Goto, Exit, NoLegacy
  <2>3. CASE CreateRuntime
      BY <2>1, <2>3 DEF CreateRuntime, Goto, Exit, NoLegacy, LegacyInv
  <2>4. CASE CreateDaemon \/ StartDaemon
      BY <2>1, <2>4 DEF CreateDaemon, StartDaemon, Goto, Exit, NoLegacy
  <2>5. CASE StopDaemon \/ ReleaseDiag \/ DestroyDaemon \/ DestroyClient
      BY <2>1, <2>5 DEF StopDaemon, ReleaseDiag, DestroyDaemon, DestroyClient, DaemonIsDown, Goto, NoLegacy
  <2>6. CASE StopRuntime
    <3>1. NoLegacy' <=> NoLegacy
        BY <2>1 DEF NoLegacy
    <3>2. pc = "stop" /\ pc' = "unwind" /\ daemon' = daemon
        BY <2>6 DEF StopRuntime, Goto
    <3> QED
        BY <2>1, <3>1, <3>2
  <2>7. CASE Left
    <3>1. NoLegacy' <=> NoLegacy
        BY <2>1 DEF NoLegacy
    <3>2. pc' = "off" /\ daemon' = daemon /\ (runtime' # "none" => runtime # "none")
        BY <2>7 DEF Left, Goto
    <3> QED
        BY <2>1, <3>1, <3>2
  <2> QED
      BY <2>1, <1>4, <2>2, <2>3, <2>4, <2>5, <2>6, <2>7 DEF MainStep
<1> QED
    BY <1>1, <1>2, <1>3, <1>4

LEMMA ResolvedIsUsable ==
    ASSUME NEW c \in Configs, Accepts(c), Resolution(c) = "resolved"
    PROVE  /\ 1 < Address(c).method /\ Address(c).method <= 32767
           /\ 32768 <= Address(c).event /\ Address(c).event <= 65534
           /\ 1 <= Address(c).eventgroup /\ Address(c).eventgroup <= 65534
           /\ Address(c).major = 1
<1>1. AnyDeclared(c) /\ c.methodId # 1 /\ c.interfaceMajor = 1
    BY DEF Resolution, ReportSoftwareInventory
<1>2. /\ 1 <= c.methodId /\ c.methodId <= 32767
      /\ 32768 <= c.eventId /\ c.eventId <= 65534
      /\ 1 <= c.eventgroupId /\ c.eventgroupId <= 65534
    BY <1>1 DEF Accepts, IdentifiersAreValid, InRange, Unbounded
<1>3. c.methodId \in Int /\ c.eventId \in Int /\ c.eventgroupId \in Int
    BY BootAssumption
<1>4. /\ Address(c).method = c.methodId /\ Address(c).event = c.eventId
      /\ Address(c).eventgroup = c.eventgroupId /\ Address(c).major = c.interfaceMajor
    BY DEF Address
<1>5. 1 < c.methodId
    BY <1>1, <1>2, <1>3
<1> QED
    BY <1>1, <1>2, <1>4, <1>5

(* Neither the runtime nor the daemon exists before the migration is over, *)
(* and a daemon only with an accepted, free and complete address (main,    *)
(* FotaConfig::from, resolveTboxGenericTransport).                         *)
THEOREM OpenedWhenReady == Spec => []OpensOnlyWhenReady
<1>1. Init => OpenInv /\ LegacyInv
    BY LegacyInit DEF Init, OpenInv
<1>2. OpenInv /\ LegacyInv /\ [Next]_vars => OpenInv' /\ LegacyInv'
    BY OpenStep, BootLegacy
<1>3. OpenInv => OpensOnlyWhenReady
  <2> SUFFICES ASSUME OpenInv PROVE OpensOnlyWhenReady
      OBVIOUS
  <2>1. runtime # "none" \/ daemon # "none" => NoLegacy
      BY DEF OpenInv
  <2>2. ASSUME daemon # "none"
        PROVE  /\ 1 < Address(config).method /\ Address(config).method <= 32767
               /\ 32768 <= Address(config).event /\ Address(config).event <= 65534
               /\ 1 <= Address(config).eventgroup /\ Address(config).eventgroup <= 65534
               /\ Address(config).major = 1
    <3>1. config \in Configs /\ Accepts(config) /\ Resolution(config) = "resolved"
        BY <2>2 DEF OpenInv
    <3> QED
        BY <3>1, ResolvedIsUsable
  <2> QED
      BY <2>1, <2>2 DEF OpensOnlyWhenReady
<1> QED
    BY <1>1, <1>2, <1>3, PTL DEF Spec

(* The way out of main(): once the loop is left the daemon is stopped or   *)
(* was never made, then DIAG is released, and then the runtime stopped.    *)
StopInv ==
    /\ pc \in {"release", "stop"} => DaemonIsDown
    /\ pc = "stop" => ~diag
    /\ runtime = "stopped" => pc \in {"off", "unwind"} /\ DaemonIsDown /\ ~diag

LEMMA StopStep ==
    ASSUME StopInv, OpenInv, [Next]_vars
    PROVE  /\ StopInv'
           /\ diag /\ ~diag' => DaemonIsDown'
           /\ runtime' = "stopped" => DaemonIsDown' /\ ~diag'
<1> USE DEF StopInv, DaemonIsDown
<1>1. CASE UNCHANGED vars \/ Signal \/ SavesState
    BY <1>1 DEF vars, process, Signal, SavesState
<1>2. CASE Start \/ PowerLoss \/ Left
    BY <1>2 DEF Start, PowerLoss, Left, Goto
<1>3. CASE LoadConfig \/ OpenStore \/ Migrate \/ CreateRuntime \/ StartRuntime \/ WaitForDiag \/ ResolveAddress
    BY <1>3 DEF OpenInv, LoadConfig, OpenStore, Migrate, CreateRuntime, StartRuntime, WaitForDiag, ResolveAddress, Goto, Exit
<1>4. CASE CreateDaemon \/ StartDaemon
    BY <1>4 DEF CreateDaemon, StartDaemon, Goto, Exit
<1>5. CASE StopDaemon
    BY <1>5 DEF StopDaemon, Goto
<1>6. CASE ReleaseDiag \/ StopRuntime
    BY <1>6 DEF ReleaseDiag, StopRuntime, Goto
<1>7. CASE DestroyDaemon \/ DestroyClient
    BY <1>7 DEF DestroyDaemon, DestroyClient, Goto
<1> QED
    BY <1>1, <1>2, <1>3, <1>4, <1>5, <1>6, <1>7 DEF Next, MainStep

(* Whatever makes main() return, a signal or an error wherever it stands,  *)
(* DIAG is released only after the daemon is stopped and the runtime       *)
(* stopped only after both (the end of main, and its destructors).         *)
THEOREM ShutdownIsOrdered == Spec => StopsInOrder
<1>1. Init => StopInv /\ OpenInv /\ LegacyInv
    BY LegacyInit DEF Init, OpenInv, StopInv
<1>2. StopInv /\ OpenInv /\ LegacyInv /\ [Next]_vars => StopInv' /\ OpenInv' /\ LegacyInv'
    BY StopStep, OpenStep, BootLegacy
<1>3. StopInv /\ OpenInv /\ [Next]_vars =>
          [/\ diag /\ ~diag' => DaemonIsDown'
           /\ runtime' = "stopped" => DaemonIsDown' /\ ~diag']_vars
    BY StopStep
<1> QED
    BY <1>1, <1>2, <1>3, PTL DEF Spec, StopsInOrder
-----------------------------------------------------------------------------
(* The records.  A process converts one old key after the other and saves  *)
(* what it made of it; what it may ever save is known from the first store.*)

Sources == {k \in LegacyKinds : FirstHas(k) /\ LegacyDecodes(k, first.legacy[k])}

FirstSaves(k) == SavesOf(k, first.legacy[k].payload)

Metas == {FreshMeta} \cup {MetaOf(first.legacy[k].payload) : k \in Sources}

MetaSave(m) == Save("event_outbox_meta", MetaKey, m)

Elements(s) == {s[i] : i \in 1..Len(s)}
SourceSaves == UNION {Elements(FirstSaves(k)) : k \in Sources}
MetaSaves == {MetaSave(m) : m \in Metas}
SaveSet == SourceSaves \cup MetaSaves

IsSave(x) == x = <<x[1], x[2]>> /\ x[1][1] \in CloudKinds /\ CloudDecodes(x[1][1], x[2])

LEMMA EncodedDecodes ==
    ASSUME NEW kind \in CloudKinds, NEW r
    PROVE  CloudDecodes(kind, CloudEncode(kind, r))
BY DEF CloudDecodes, CloudEncode, Envelope, JsonOfVersion, HeaderIsReadable, CloudVersion, WriterVersion,
   MinReaderVersion

LEMMA SaveIsSave ==
    ASSUME NEW kind \in CloudKinds, NEW key, key[1] = kind, NEW r
    PROVE  IsSave(Save(kind, key, r))
BY EncodedDecodes DEF IsSave, Save

LEMMA SavesAreSaves ==
    ASSUME NEW k \in LegacyKinds, NEW p, k \in DOMAIN EntryNeeds => IsList(p.entries)
    PROVE  /\ SavesOf(k, p) \in Seq({SavesOf(k, p)[i] : i \in 1..Len(SavesOf(k, p))})
           /\ \A i \in 1..Len(SavesOf(k, p)) : IsSave(SavesOf(k, p)[i])
<1> USE DEF IsList
<1>0. k \in CloudKinds
    BY DEF LegacyKinds, LegacyKeys, CloudKinds, FieldsOf
<1>1. CASE k = "vehicle_task"
    BY <1>0, <1>1, SaveIsSave DEF SavesOf
<1>2. CASE k = "inventory"
    BY <1>0, <1>2, SaveIsSave DEF SavesOf
<1>3. CASE k = "consent"
    BY <1>0, <1>3, SaveIsSave DEF SavesOf
<1>4. CASE k = "execution"
    BY <1>0, <1>4, SaveIsSave DEF SavesOf
<1>5. CASE k = "policy"
    BY <1>0, <1>5, SaveIsSave DEF SavesOf
<1>6. CASE k = "downloads"
    BY <1>0, <1>6, SaveIsSave DEF SavesOf, EntryNeeds
<1>7. CASE k = "event_outbox"
    BY <1>0, <1>7, SaveIsSave DEF SavesOf, EntryNeeds
<1>8. CASE k = "controls"
  <2> DEFINE id(e) == RevisionToUint64(e.controlRevision)
             record(e) == ToControl(e)
  <2>1. SavesOf(k, p) = [i \in 1..Len(p.entries) |-> Save(k, <<k, id(p.entries[i])>>, record(p.entries[i]))]
      BY <1>8 DEF SavesOf
  <2>2. Len(p.entries) \in Nat
      BY <1>8 DEF EntryNeeds
  <2> HIDE DEF id, record
  <2>3. /\ Len(SavesOf(k, p)) = Len(p.entries)
        /\ \A i \in 1..Len(p.entries) :
              SavesOf(k, p)[i] = Save(k, <<k, id(p.entries[i])>>, record(p.entries[i]))
      BY <2>1, <2>2
  <2>4. \A i \in 1..Len(SavesOf(k, p)) : IsSave(SavesOf(k, p)[i])
    <3> SUFFICES ASSUME NEW i \in 1..Len(p.entries)
                 PROVE  IsSave(Save(k, <<k, id(p.entries[i])>>, record(p.entries[i])))
        BY <2>3
    <3>1. <<k, id(p.entries[i])>>[1] = k
        OBVIOUS
    <3> QED
        BY <1>0, <3>1, SaveIsSave
  <2>5. SavesOf(k, p) \in Seq({SavesOf(k, p)[i] : i \in 1..Len(SavesOf(k, p))})
    <3> DEFINE f == SavesOf(k, p)
    <3>1. f = [i \in 1..Len(p.entries) |-> f[i]] /\ Len(f) = Len(p.entries)
        BY <2>1, <2>3
    <3> HIDE DEF f
    <3> QED
        BY <2>2, <3>1 DEF f
  <2> QED
      BY <2>4, <2>5
<1>9. CASE k = "log_jobs"
    BY <1>0, <1>9, SaveIsSave DEF SavesOf, EntryNeeds
<1> QED
    BY <1>1, <1>2, <1>3, <1>4, <1>5, <1>6, <1>7, <1>8, <1>9 DEF LegacyKinds, LegacyKeys

LEMMA FirstSavesAre ==
    ASSUME NEW k \in Sources, first \in Stores
    PROVE  FirstSaves(k) \in Seq(SaveSet) /\ \A i \in 1..Len(FirstSaves(k)) : IsSave(FirstSaves(k)[i])
<1>1. k \in DOMAIN EntryNeeds => IsList(first.legacy[k].payload.entries)
    BY BootAssumption DEF Sources, FirstHas
<1>2. /\ FirstSaves(k) \in Seq(Elements(FirstSaves(k)))
      /\ \A i \in 1..Len(FirstSaves(k)) : IsSave(FirstSaves(k)[i])
    BY <1>1, SavesAreSaves DEF Sources, FirstSaves, Elements
<1>3. Elements(FirstSaves(k)) \subseteq SaveSet
    BY DEF SaveSet, SourceSaves
<1> QED
    BY <1>2, <1>3

LEMMA SavesDecode ==
    ASSUME first \in Stores, NEW x \in SaveSet
    PROVE  IsSave(x)
<1>1. ASSUME NEW m PROVE IsSave(MetaSave(m))
    BY SaveIsSave DEF MetaSave, MetaKey, CloudKinds, FieldsOf
<1>2. CASE x \in MetaSaves
    BY <1>1, <1>2 DEF MetaSaves
<1>3. CASE x \in SourceSaves
  <2>1. PICK k \in Sources : x \in Elements(FirstSaves(k))
      BY <1>3 DEF SourceSaves
  <2>2. PICK i \in 1..Len(FirstSaves(k)) : x = FirstSaves(k)[i]
      BY <2>1 DEF Elements
  <2> QED
      BY <2>2, FirstSavesAre
<1> QED
    BY <1>2, <1>3 DEF SaveSet

(* What the records of a process come from, and what fota.* holds.         *)
RecordInv ==
    /\ first \in Stores
    /\ marker \in {Missing, "completed", "unreadable"}
    /\ stage \in {"idle", "detect", "convert", "mark", "clean", "done"}
    /\ stage \in {"convert", "mark"} => marker # "completed"
    /\ queue \in Seq(SaveSet) /\ meta \in Metas
    /\ \A key \in DOMAIN cloud :
           \/ key \in DOMAIN first.cloud /\ cloud[key] = first.cloud[key]
           \/ key[1] \in CloudKinds /\ CloudDecodes(key[1], cloud[key])

LEMMA Sets ==
    ASSUME first' = first
    PROVE  Sources' = Sources /\ Metas' = Metas /\ SaveSet' = SaveSet
<1>1. Sources' = Sources /\ \A k : FirstSaves(k)' = FirstSaves(k)
    BY DEF Sources, FirstHas, FirstSaves
<1>2. Metas' = Metas
    BY <1>1 DEF Metas
<1>3. SourceSaves' = SourceSaves /\ MetaSaves' = MetaSaves
    BY <1>1, <1>2 DEF SourceSaves, MetaSaves
<1> QED
    BY <1>1, <1>2, <1>3 DEF SaveSet

(* An old key that is there and can be read is a source.                   *)
LEMMA Converted ==
    ASSUME RecordInv, LegacyInv, Convert, ~Throws
    PROVE  \E k \in LegacyKinds :
               /\ k = LegacyKeys[at] /\ at \in 1..9
               /\ legacy = first.legacy
               /\ FirstHas(k) => k \in Sources
               /\ meta' = IF FirstHas(k) /\ k \in {"execution", "event_outbox"}
                          THEN MetaOf(first.legacy[k].payload) ELSE meta
               /\ queue' = LET saves == IF FirstHas(k) THEN FirstSaves(k) ELSE <<>>
                           IN  IF k = "event_outbox" THEN Append(saves, MetaSave(meta')) ELSE saves
               /\ at' = at + 1
               /\ queue = <<>> /\ stage = "convert"
               /\ UNCHANGED <<store, stage, first>>
<1>1. at \in 1..9 /\ LegacyKeys[at] \in LegacyKinds /\ legacy = first.legacy /\ stage = "convert"
    BY Keys9 DEF Convert, LegacyInv, LegacyKeptUntilMarked, RecordInv
<1>2. PICK k \in LegacyKinds : k = LegacyKeys[at]
    BY <1>1
<1>3. FirstHas(k) <=> legacy[k] # Missing
    BY <1>1 DEF FirstHas
<1>4. FirstHas(k) => LegacyDecodes(k, first.legacy[k])
    BY <1>1, <1>2, <1>3 DEF Convert
<1>5. FirstHas(k) => k \in Sources
    BY <1>4 DEF Sources
<1>6. /\ meta' = IF FirstHas(k) /\ k \in {"execution", "event_outbox"}
                 THEN MetaOf(first.legacy[k].payload) ELSE meta
      /\ queue' = LET saves == IF FirstHas(k) THEN FirstSaves(k) ELSE <<>>
                  IN  IF k = "event_outbox" THEN Append(saves, MetaSave(meta')) ELSE saves
      /\ at' = at + 1 /\ queue = <<>>
      /\ UNCHANGED <<store, stage, first>>
    BY <1>1, <1>2, <1>3 DEF Convert, FirstSaves, MetaSave
<1> QED
    BY <1>1, <1>2, <1>5, <1>6

LEMMA RecordStep ==
    ASSUME RecordInv, LegacyInv,
           MigrationNext \/ SavesState
               \/ (UNCHANGED <<store, queue, meta, first>> /\ stage' \in {stage, "idle"})
    PROVE  RecordInv'
<1> USE DEF RecordInv
<1>1. CASE UNCHANGED <<store, queue, meta, first>> /\ stage' \in {stage, "idle"}
    BY <1>1, Sets DEF store
<1>2. CASE Begin \/ Interrupted \/ Finish \/ Check
    BY <1>2, Sets DEF Begin, Interrupted, Throws, Finish, Check, store
<1>3. CASE Detect
    BY <1>3, Sets DEF Detect, store, Metas
<1>4. CASE Convert
  <2>1. CASE Throws
      BY <2>1, Sets DEF Throws, store
  <2>2. CASE ~Throws
    <3>1. PICK k \in LegacyKinds :
               /\ FirstHas(k) => k \in Sources
               /\ meta' = IF FirstHas(k) /\ k \in {"execution", "event_outbox"}
                          THEN MetaOf(first.legacy[k].payload) ELSE meta
               /\ queue' = LET saves == IF FirstHas(k) THEN FirstSaves(k) ELSE <<>>
                           IN  IF k = "event_outbox" THEN Append(saves, MetaSave(meta')) ELSE saves
               /\ UNCHANGED <<store, stage, first>>
        BY <1>4, <2>2, Converted
    <3>2. meta' \in Metas
        BY <3>1 DEF Metas
    <3>3. MetaSave(meta') \in SaveSet
        BY <3>2 DEF SaveSet, MetaSaves
    <3>4. queue' \in Seq(SaveSet)
        BY <3>1, <3>3, FirstSavesAre
    <3> QED
        BY <3>1, <3>2, <3>4, Sets DEF store
  <2> QED
      BY <2>1, <2>2
<1>5. CASE SaveRecord
  <2>1. Head(queue) \in SaveSet /\ Tail(queue) \in Seq(SaveSet)
      BY <1>5 DEF SaveRecord
  <2>2. PICK save \in SaveSet : save = Head(queue)
      BY <2>1
  <2>3. save[1][1] \in CloudKinds /\ CloudDecodes(save[1][1], save[2])
      BY <2>2, SavesDecode DEF IsSave
  <2>4. /\ cloud' = [key \in DOMAIN cloud \cup {save[1]} |-> IF key = save[1] THEN save[2] ELSE cloud[key]]
        /\ queue' \in Seq(SaveSet) /\ UNCHANGED <<marker, stage, meta, first>>
      BY <1>5, <2>1, <2>2 DEF SaveRecord
  <2>5. \A key \in DOMAIN cloud' :
           \/ key \in DOMAIN first.cloud /\ cloud'[key] = first.cloud[key]
           \/ key[1] \in CloudKinds /\ CloudDecodes(key[1], cloud'[key])
      BY <2>3, <2>4
  <2> QED
      BY <2>4, <2>5, Sets
<1>6. CASE Mark \/ RemoveLegacy
    BY <1>6, Sets DEF Mark, RemoveLegacy
<1>7. CASE SavesState
  <2>1. PICK b : /\ cloud' = [key \in DOMAIN cloud \cup {MetaKey} |-> IF key = MetaKey THEN b ELSE cloud[key]]
                 /\ CloudDecodes("event_outbox_meta", b)
      BY <1>7, EncodedDecodes DEF SavesState, CloudKinds, FieldsOf
  <2>2. MetaKey[1] = "event_outbox_meta" /\ "event_outbox_meta" \in CloudKinds
      BY DEF MetaKey, CloudKinds, FieldsOf
  <2>3. UNCHANGED <<marker, locals, first>>
      BY <1>7 DEF SavesState
  <2>4. \A key \in DOMAIN cloud' :
           \/ key \in DOMAIN first.cloud /\ cloud'[key] = first.cloud[key]
           \/ key[1] \in CloudKinds /\ CloudDecodes(key[1], cloud'[key])
      BY <2>1, <2>2
  <2> QED
      BY <2>3, <2>4, Sets DEF locals
<1> QED
    BY <1>1, <1>2, <1>3, <1>4, <1>5, <1>6, <1>7 DEF MigrationNext, MigrationStep

(* Each step of main() calls the migration, saves, or leaves the records   *)
(* as they are.                                                            *)
LEMMA BootMoves ==
    ASSUME [Next]_vars
    PROVE  \/ MigrationNext /\ (OpenStore \/ Migrate) /\ UNCHANGED saved
           \/ SavesState
           \/ UNCHANGED <<store, at, queue, meta, first, saved>> /\ stage' \in {stage, "idle"}
<1>1. CASE OpenStore \/ Migrate
    BY <1>1 DEF OpenStore, Migrate, MigrationNext, migration, locals
<1>2. CASE Left \/ PowerLoss
    BY <1>2 DEF Left, PowerLoss
<1>3. CASE ~(OpenStore \/ Migrate \/ Left \/ PowerLoss \/ SavesState)
  <2>1. UNCHANGED migration /\ UNCHANGED saved
      BY <1>3 DEF Next, MainStep, Start, LoadConfig, CreateRuntime, StartRuntime, WaitForDiag, ResolveAddress,
         CreateDaemon, StartDaemon, StopDaemon, ReleaseDiag, StopRuntime, DestroyDaemon, DestroyClient, Signal, UnchangedRest, vars
  <2> QED
      BY <2>1 DEF migration, locals
<1> QED
    BY <1>1, <1>2, <1>3

LEMMA RecordInit == MigrationInit => RecordInv
<1> SUFFICES ASSUME MigrationInit PROVE RecordInv
    OBVIOUS
<1>1. /\ first \in Stores /\ cloud = first.cloud /\ marker = first.marker
      /\ stage = "idle" /\ queue = <<>> /\ meta = FreshMeta
    BY DEF MigrationInit
<1>2. marker \in {Missing, "completed", "unreadable"}
    BY <1>1, BootAssumption
<1>3. queue \in Seq(SaveSet) /\ meta \in Metas
    BY <1>1 DEF Metas
<1> QED
    BY <1>1, <1>2, <1>3 DEF RecordInv

LEMMA BootRecords ==
    ASSUME RecordInv, LegacyInv, [Next]_vars
    PROVE  RecordInv'
BY BootMoves, RecordStep

(* Where main() stands, and what it holds.                                 *)
KindInv ==
    /\ pc \in {"off", "config", "store", "migrate", "start", "wait", "resolve", "daemon", "run",
               "release", "stop", "unwind"}
    /\ config \in Configs /\ signalled \in BOOLEAN /\ diag \in BOOLEAN
    /\ runtime \in {"none", "created", "started", "stopped"}
    /\ daemon \in {"none", "created", "running", "stopped"}
    /\ boots \in 0..MaxBoots

LEMMA Bounds == MaxBoots \in Nat /\ MaxNumber \in Nat
<1>1. {MaxBoots, MaxNumber} \subseteq Nat
    BY BootAssumption
<1> QED
    BY <1>1

LEMMA KindStep ==
    ASSUME KindInv, [Next]_vars
    PROVE  KindInv'
<1> USE DEF KindInv
<1>1. CASE Start
  <2>1. boots' \in 0..MaxBoots
      BY <1>1, Bounds DEF Start
  <2> QED
      BY <1>1, <2>1 DEF Start
<1>2. CASE Migrate \/ SavesState \/ Signal \/ PowerLoss \/ UNCHANGED vars
    BY <1>2 DEF Migrate, SavesState, Signal, PowerLoss, process, vars
<1>3. CASE LoadConfig \/ OpenStore \/ CreateRuntime \/ StartRuntime
    BY <1>3 DEF LoadConfig, OpenStore, CreateRuntime, StartRuntime, Goto, Exit, UnchangedRest
<1>4. CASE WaitForDiag \/ ResolveAddress \/ CreateDaemon \/ StartDaemon
    BY <1>4 DEF WaitForDiag, ResolveAddress, CreateDaemon, StartDaemon, Goto, Exit, UnchangedRest
<1>5. CASE StopDaemon \/ ReleaseDiag \/ StopRuntime \/ DestroyDaemon \/ DestroyClient \/ Left
    BY <1>5 DEF StopDaemon, ReleaseDiag, StopRuntime, DestroyDaemon, DestroyClient, Left, Goto, UnchangedRest
<1> QED
    BY <1>1, <1>2, <1>3, <1>4, <1>5 DEF Next, MainStep

(* Every variable holds a value of its kind; every record the migration or *)
(* the daemon wrote under fota.* can be read back (migrateOtaToFota, main).*)
THEOREM TypeCorrect == Spec => []TypeOK
<1>1. Init => KindInv /\ RecordInv /\ LegacyInv
  <2>1. 0 \in 0..MaxBoots
      BY Bounds
  <2>2. Init => KindInv
      BY <2>1 DEF Init, KindInv
  <2> QED
      BY <2>2, LegacyInit, RecordInit DEF Init
<1>2. KindInv /\ RecordInv /\ LegacyInv /\ [Next]_vars => KindInv' /\ RecordInv' /\ LegacyInv'
    BY KindStep, BootRecords, BootLegacy
<1>3. KindInv /\ RecordInv /\ LegacyInv => TypeOK
    BY DEF KindInv, RecordInv, LegacyInv, TypeOK
<1> QED
    BY <1>1, <1>2, <1>3, PTL DEF Spec
-----------------------------------------------------------------------------
(* The saves of a call, in the order of the old keys: what the i-th old    *)
(* key of the first store leads to, and what the keys from there on do.    *)

AllDecode == \A k \in LegacyKinds : FirstHas(k) => k \in Sources

SavesFirst(k) == IF FirstHas(k) THEN FirstSaves(k) ELSE <<>>

FoundMeta ==
    IF FirstHas("event_outbox") THEN MetaOf(first.legacy["event_outbox"].payload)
    ELSE IF FirstHas("execution") THEN MetaOf(first.legacy["execution"].payload)
    ELSE FreshMeta

Part(i) ==
    IF i = 6 THEN Append(SavesFirst("event_outbox"), MetaSave(FoundMeta)) ELSE SavesFirst(LegacyKeys[i])

From8 == Part(8) \o Part(9)
From6 == Part(6) \o (Part(7) \o From8)
From4 == Part(4) \o (Part(5) \o From6)
From2 == Part(2) \o (Part(3) \o From4)

Rest(i) ==
    <<Part(1) \o From2, From2, Part(3) \o From4, From4, Part(5) \o From6, From6,
      Part(7) \o From8, From8, Part(9), <<>>>>[i]

LEMMA PartIs ==
    ASSUME first \in Stores, AllDecode, NEW i \in 1..9
    PROVE  Part(i) \in Seq(SaveSet)
<1>1. \A k \in LegacyKinds : SavesFirst(k) \in Seq(SaveSet)
    BY FirstSavesAre DEF SavesFirst, AllDecode
<1>2. FoundMeta \in Metas
    BY DEF FoundMeta, Metas, AllDecode, LegacyKinds, LegacyKeys
<1>3. MetaSave(FoundMeta) \in SaveSet
    BY <1>2 DEF SaveSet, MetaSaves
<1>4. "event_outbox" \in LegacyKinds /\ LegacyKeys[i] \in LegacyKinds
    BY Keys9 DEF LegacyKinds, LegacyKeys
<1> QED
    BY <1>1, <1>3, <1>4 DEF Part

LEMMA RestIs ==
    ASSUME first \in Stores, AllDecode, NEW i \in 1..10
    PROVE  /\ Rest(i) \in Seq(SaveSet)
           /\ i # 10 => Rest(i) = Part(i) \o Rest(i + 1)
           /\ i = 10 => Rest(i) = <<>>
<1>1. \A j \in 1..9 : Part(j) \in Seq(SaveSet)
    BY PartIs
<1>2. From8 \in Seq(SaveSet)
    BY <1>1, ConcatProperties DEF From8
<1>3. From6 \in Seq(SaveSet)
    BY <1>1, <1>2, ConcatProperties DEF From6
<1>4. From4 \in Seq(SaveSet)
    BY <1>1, <1>3, ConcatProperties DEF From4
<1>5. From2 \in Seq(SaveSet)
    BY <1>1, <1>4, ConcatProperties DEF From2
<1>6. /\ Rest(1) = Part(1) \o From2 /\ Rest(2) = From2
      /\ Rest(3) = Part(3) \o From4 /\ Rest(4) = From4
      /\ Rest(5) = Part(5) \o From6 /\ Rest(6) = From6
      /\ Rest(7) = Part(7) \o From8 /\ Rest(8) = From8
      /\ Rest(9) = Part(9) /\ Rest(10) = <<>>
    BY DEF Rest
<1>7. Part(9) = Part(9) \o <<>>
    BY <1>1, ConcatEmptySeq
<1> HIDE DEF Rest
<1>10. i \in {1, 2, 3, 4, 5, 6, 7, 8, 9, 10}
    OBVIOUS
<1>8. Rest(i) \in Seq(SaveSet)
  <2>1. Part(1) \o From2 \in Seq(SaveSet) /\ Part(3) \o From4 \in Seq(SaveSet)
      BY <1>1, <1>4, <1>5, ConcatProperties
  <2>2. Part(5) \o From6 \in Seq(SaveSet) /\ Part(7) \o From8 \in Seq(SaveSet)
      BY <1>1, <1>2, <1>3, ConcatProperties
  <2>3. <<>> \in Seq(SaveSet) /\ Part(9) \in Seq(SaveSet)
      BY <1>1
  <2> QED
      BY <2>1, <2>2, <2>3, <1>2, <1>3, <1>4, <1>5, <1>6, <1>10, Zenon
<1>9. i # 10 => Rest(i) = Part(i) \o Rest(i + 1)
  <2>1. /\ Rest(2) = Part(2) \o Rest(3) /\ Rest(4) = Part(4) \o Rest(5)
        /\ Rest(6) = Part(6) \o Rest(7) /\ Rest(8) = Part(8) \o Rest(9)
      BY <1>6 DEF From2, From4, From6, From8
  <2>2. /\ Rest(1) = Part(1) \o Rest(2) /\ Rest(3) = Part(3) \o Rest(4)
        /\ Rest(5) = Part(5) \o Rest(6) /\ Rest(7) = Part(7) \o Rest(8)
        /\ Rest(9) = Part(9) \o Rest(10)
      BY <1>6, <1>7
  <2>3. 1 + 1 = 2 /\ 2 + 1 = 3 /\ 3 + 1 = 4 /\ 4 + 1 = 5 /\ 5 + 1 = 6 /\ 6 + 1 = 7 /\ 7 + 1 = 8 /\ 8 + 1 = 9 /\ 9 + 1 = 10
      OBVIOUS
  <2> QED
      BY <2>1, <2>2, <2>3, <1>10, Zenon
<1> QED
    BY <1>6, <1>8, <1>9

(* Concatenation, of which the provers need only know these two facts.     *)
Cat(s, t) == s \o t

LEMMA CatIn ==
    ASSUME NEW S, NEW s \in Seq(S), NEW t \in Seq(S)
    PROVE  Cat(s, t) \in Seq(S)
BY DEF Cat

LEMMA CatAssociative ==
    ASSUME NEW S, NEW s \in Seq(S), NEW t \in Seq(S), NEW u \in Seq(S)
    PROVE  Cat(Cat(s, t), u) = Cat(s, Cat(t, u))
BY ConcatAssociative DEF Cat

LEMMA Regrouped ==
    ASSUME NEW S, NEW p, \A n \in 1..10 : p[n] \in Seq(S)
    PROVE  Cat(Cat(Cat(Cat(Cat(Cat(Cat(Cat(Cat(p[1], p[2]), p[3]), p[4]), p[5]), p[6]), p[7]), p[8]), p[9]), p[10])
               = Cat(p[1], Cat(p[2], Cat(p[3], Cat(p[4], Cat(p[5],
                     Cat(Cat(p[6], p[7]), Cat(p[8], Cat(p[9], p[10]))))))))
<1> DEFINE a == p[1]
           b == p[2]
           c == p[3]
           d == p[4]
           e == p[5]
           f == p[6]
           g == p[7]
           h == p[8]
           i == p[9]
           j == p[10]
<1>0. /\ a \in Seq(S) /\ b \in Seq(S) /\ c \in Seq(S) /\ d \in Seq(S) /\ e \in Seq(S)
      /\ f \in Seq(S) /\ g \in Seq(S) /\ h \in Seq(S) /\ i \in Seq(S) /\ j \in Seq(S)
    OBVIOUS
<1> HIDE DEF a, b, c, d, e, f, g, h, i, j
<1>1. Cat(a, b) \in Seq(S) /\ Cat(f, g) \in Seq(S) /\ Cat(i, j) \in Seq(S) 
    BY <1>0, CatIn
<1>2. Cat(Cat(a, b), c) \in Seq(S) /\ Cat(h, Cat(i, j)) \in Seq(S)
    BY <1>0, <1>1, CatIn
<1>3. Cat(Cat(Cat(a, b), c), d) \in Seq(S) /\ Cat(Cat(f, g), Cat(h, Cat(i, j))) \in Seq(S)
    BY <1>0, <1>1, <1>2, CatIn
<1>4. Cat(Cat(Cat(Cat(a, b), c), d), e) \in Seq(S)
    BY <1>0, <1>3, CatIn
<1> DEFINE left == Cat(Cat(Cat(Cat(a, b), c), d), e)
           right == Cat(Cat(f, g), Cat(h, Cat(i, j)))
<1>5. Cat(Cat(Cat(Cat(Cat(left, f), g), h), i), j) = Cat(left, right)
  <2> HIDE DEF left
  <2> DEFINE most == Cat(left, Cat(f, g))
  <2>1. left \in Seq(S) /\ most \in Seq(S)
      BY <1>0, <1>1, <1>4, CatIn DEF left
  <2>2. Cat(Cat(left, f), g) = most
      BY <1>0, <2>1, CatAssociative
  <2>3. Cat(most, Cat(h, Cat(i, j))) = Cat(left, right)
      BY <1>0, <1>1, <1>2, <2>1, CatAssociative
  <2> HIDE DEF most
  <2>4. Cat(most, h) \in Seq(S)
      BY <1>0, <2>1, CatIn
  <2>5. Cat(Cat(Cat(most, h), i), j) = Cat(most, Cat(h, Cat(i, j)))
      BY <1>0, <1>1, <2>1, <2>4, CatAssociative
  <2> QED
      BY <2>2, <2>3, <2>5
<1>6. Cat(left, right) = Cat(a, Cat(b, Cat(c, Cat(d, Cat(e, right)))))
    BY <1>0, <1>1, <1>2, <1>3, CatIn, CatAssociative
<1> QED
    BY <1>5, <1>6 DEF a, b, c, d, e, f, g, h, i, j

(* What an uninterrupted call saves.                                       *)
LEMMA AllSavesAre ==
    ASSUME first \in Stores, AllDecode
    PROVE  AllSaves = Rest(1) /\ AllSaves \in Seq(SaveSet)
<1> DEFINE m == MetaSave(FoundMeta)
           f == SavesFirst("event_outbox")
<1>1. AllSaves =
          Cat(Cat(Cat(Cat(Cat(Cat(Cat(Cat(Cat(
              SavesFirst("vehicle_task"), SavesFirst("inventory")), SavesFirst("consent")),
              SavesFirst("downloads")), SavesFirst("execution")), f), <<m>>),
              SavesFirst("controls")), SavesFirst("policy")), SavesFirst("log_jobs"))
    BY Zenon DEF AllSaves, SavesFirst, FirstSaves, FoundMeta, MetaSave, Cat
<1>2. /\ Part(1) = SavesFirst("vehicle_task") /\ Part(2) = SavesFirst("inventory")
      /\ Part(3) = SavesFirst("consent") /\ Part(4) = SavesFirst("downloads")
      /\ Part(5) = SavesFirst("execution") /\ Part(6) = Append(f, m)
      /\ Part(7) = SavesFirst("controls") /\ Part(8) = SavesFirst("policy") /\ Part(9) = SavesFirst("log_jobs")
    BY DEF Part, LegacyKeys
<1>3. m \in SaveSet
  <2>1. FoundMeta \in Metas
      BY DEF FoundMeta, Metas, AllDecode, LegacyKinds, LegacyKeys
  <2> QED
      BY <2>1 DEF SaveSet, MetaSaves
<1>4. f \in Seq(SaveSet)
    BY FirstSavesAre DEF SavesFirst, AllDecode, LegacyKinds, LegacyKeys
<1> HIDE DEF m, f
<1>5. <<m>> \in Seq(SaveSet)
    BY <1>3
<1>6. Append(f, m) = Cat(f, <<m>>)
    BY <1>3, <1>4, AppendIsConcat DEF Cat
<1>7. Rest(1) = Cat(Part(1), Cat(Part(2), Cat(Part(3), Cat(Part(4), Cat(Part(5),
                    Cat(Part(6), Cat(Part(7), Cat(Part(8), Part(9)))))))))
    BY DEF Rest, From2, From4, From6, From8, Cat
<1>8. AllSaves =
          Cat(Cat(Cat(Cat(Cat(Cat(Cat(Cat(Cat(Part(1), Part(2)), Part(3)), Part(4)), Part(5)), f), <<m>>),
              Part(7)), Part(8)), Part(9))
    BY <1>1, <1>2, Zenon
<1>9. /\ Part(1) \in Seq(SaveSet) /\ Part(2) \in Seq(SaveSet) /\ Part(3) \in Seq(SaveSet)
      /\ Part(4) \in Seq(SaveSet) /\ Part(5) \in Seq(SaveSet) /\ Part(7) \in Seq(SaveSet)
      /\ Part(8) \in Seq(SaveSet) /\ Part(9) \in Seq(SaveSet)
    BY PartIs
<1> DEFINE p == <<Part(1), Part(2), Part(3), Part(4), Part(5), f, <<m>>, Part(7), Part(8), Part(9)>>
<1>10. /\ p[1] = Part(1) /\ p[2] = Part(2) /\ p[3] = Part(3) /\ p[4] = Part(4) /\ p[5] = Part(5)
       /\ p[6] = f /\ p[7] = <<m>> /\ p[8] = Part(7) /\ p[9] = Part(8) /\ p[10] = Part(9)
    OBVIOUS
<1> HIDE DEF p
<1>11. \A n \in 1..10 : p[n] \in Seq(SaveSet)
  <2>1. \A n \in 1..10 : n \in {1, 2, 3, 4, 5, 6, 7, 8, 9, 10}
      OBVIOUS
  <2> QED
      BY <1>4, <1>5, <1>9, <1>10, <2>1, Zenon
<1>12. AllSaves = Cat(p[1], Cat(p[2], Cat(p[3], Cat(p[4], Cat(p[5],
                      Cat(Cat(p[6], p[7]), Cat(p[8], Cat(p[9], p[10]))))))))
    BY <1>8, <1>10, <1>11, Regrouped
<1>13. AllSaves = Rest(1)
    BY <1>2, <1>6, <1>7, <1>10, <1>12
<1> QED
    BY <1>13, RestIs

-----------------------------------------------------------------------------
(* While the old keys are converted, what is saved so far and what is      *)
(* still to come make up AllSaves, and fota.* holds the last save of each  *)
(* key among those made.  An interrupted call may have left more; the next *)
(* one makes all the saves again.                                          *)

(* c holds the last of the first d saves of s under each of their keys.    *)
AppliedTo(s, c, d) ==
    \A i \in 1..d :
        \E j \in 1..d :
            /\ s[j][1] = s[i][1] /\ \A l \in (j + 1)..d : s[l][1] # s[j][1]
            /\ s[j][1] \in DOMAIN c /\ c[s[j][1]] = s[j][2]

Ends(s, d, rest) ==
    /\ Len(s) = d + Len(rest)
    /\ \A i \in 1..Len(rest) : s[d + i] = rest[i]

Midway ==
    \E d \in Nat, n \in 1..10 :
        /\ n = at
        /\ Ends(AllSaves, d, queue \o Rest(n))
        /\ AppliedTo(AllSaves, cloud, d)

SavedKeys == {AllSaves[i][1] : i \in 1..Len(AllSaves)}

Untouched ==
    /\ DOMAIN first.cloud \subseteq DOMAIN cloud
    /\ \A key \in DOMAIN cloud \ SavedKeys : key \in DOMAIN first.cloud /\ cloud[key] = first.cloud[key]

Fits ==
    \A key \in DOMAIN cloud \cup DOMAIN Expected :
        IF key = MetaKey /\ saved # Missing
        THEN cloud[key] = CloudEncode("event_outbox_meta", saved)
        ELSE key \in DOMAIN cloud /\ key \in DOMAIN Expected /\ cloud[key] = Expected[key]

(* The keys passed could be read, and gave the sequence numbers.           *)
Passed ==
    /\ \A i \in 1..(at - 1) : FirstHas(LegacyKeys[i]) => LegacyKeys[i] \in Sources
    /\ at <= 5 => meta = FreshMeta
    /\ at = 6 => meta = IF FirstHas("execution") THEN MetaOf(first.legacy["execution"].payload) ELSE FreshMeta

SurviveInv ==
    /\ first.marker = "completed" => marker = "completed"
    /\ ~ToMigrate \/ marker = "completed" => Fits
    /\ ToMigrate /\ marker # "completed" => saved = Missing /\ (AllDecode => Untouched)
    /\ stage \in {"convert", "mark"} => ToMigrate
    /\ stage = "convert" => Passed /\ (AllDecode => Midway)
    /\ stage = "mark" => AllDecode /\ AppliedTo(AllSaves, cloud, Len(AllSaves))

LEMMA AppliedOne ==
    ASSUME NEW s, NEW c, NEW d \in Nat, AppliedTo(s, c, d), NEW c2,
           c2 = [key \in DOMAIN c \cup {s[d + 1][1]} |-> IF key = s[d + 1][1] THEN s[d + 1][2] ELSE c[key]]
    PROVE  AppliedTo(s, c2, d + 1)
<1> SUFFICES ASSUME NEW i \in 1..(d + 1)
             PROVE  \E j \in 1..(d + 1) :
                        /\ s[j][1] = s[i][1] /\ \A l \in (j + 1)..(d + 1) : s[l][1] # s[j][1]
                        /\ s[j][1] \in DOMAIN c2 /\ c2[s[j][1]] = s[j][2]
    BY DEF AppliedTo
<1>1. CASE s[i][1] = s[d + 1][1]
    BY <1>1
<1>2. CASE s[i][1] # s[d + 1][1]
  <2>1. i \in 1..d
      BY <1>2
  <2>2. PICK j \in 1..d :
            /\ s[j][1] = s[i][1] /\ \A l \in (j + 1)..d : s[l][1] # s[j][1]
            /\ s[j][1] \in DOMAIN c /\ c[s[j][1]] = s[j][2]
      BY <2>1 DEF AppliedTo
  <2>3. \A l \in (j + 1)..(d + 1) : s[l][1] # s[j][1]
      BY <1>2, <2>2
  <2>4. s[j][1] \in DOMAIN c2 /\ c2[s[j][1]] = s[j][2]
      BY <1>2, <2>2
  <2> QED
      BY <2>2, <2>3, <2>4
<1> QED
    BY <1>1, <1>2

(* What all the saves leave is what is expected of one uninterrupted call. *)
LEMMA AllApplied ==
    ASSUME first \in Stores, ToMigrate, AllDecode, Untouched, saved = Missing,
           AppliedTo(AllSaves, cloud, Len(AllSaves))
    PROVE  Fits
<1> DEFINE S == AllSaves
           N == Len(AllSaves)
           IsLast(i, key) == S[i][1] = key /\ \A j \in (i + 1)..N : S[j][1] # key
<1>1. N \in Nat
    BY AllSavesAre
<1>2. /\ DOMAIN Expected = SavedKeys \cup DOMAIN first.cloud
      /\ \A key \in DOMAIN Expected :
             Expected[key] = IF key \in SavedKeys THEN S[CHOOSE i \in 1..N : IsLast(i, key)][2] ELSE first.cloud[key]
    BY DEF Expected, SavedKeys
<1> SUFFICES ASSUME NEW key \in DOMAIN cloud \cup DOMAIN Expected
             PROVE  key \in DOMAIN cloud /\ key \in DOMAIN Expected /\ cloud[key] = Expected[key]
    BY DEF Fits
<1>3. CASE key \in SavedKeys
  <2>1. PICK i \in 1..N : S[i][1] = key
      BY <1>3 DEF SavedKeys
  <2>2. PICK j \in 1..N : IsLast(j, key) /\ key \in DOMAIN cloud /\ cloud[key] = S[j][2]
      BY <2>1 DEF AppliedTo
  <2>3. ASSUME NEW l \in 1..N, IsLast(l, key) PROVE l = j
    <3>1. ~(l < j) /\ ~(j < l)
        BY <1>1, <2>2, <2>3
    <3> QED
        BY <1>1, <3>1
  <2> HIDE DEF IsLast
  <2>4. (CHOOSE l \in 1..N : IsLast(l, key)) = j
      BY <2>2, <2>3
  <2> QED
      BY <1>2, <1>3, <2>2, <2>4
<1>4. CASE key \notin SavedKeys
    BY <1>2, <1>4 DEF Untouched
<1> QED
    BY <1>3, <1>4

LEMMA Fixed ==
    ASSUME first' = first
    PROVE  /\ AllSaves' = AllSaves /\ SavedKeys' = SavedKeys /\ Expected' = Expected
           /\ ToMigrate' <=> ToMigrate
           /\ AllDecode' <=> AllDecode
           /\ Sources' = Sources /\ \A i : Rest(i)' = Rest(i)
<1>1. \A k : FirstHas(k)' <=> FirstHas(k)
    BY DEF FirstHas
<1>2. \A k : FirstSaves(k)' = FirstSaves(k) /\ SavesFirst(k)' = SavesFirst(k)
    BY <1>1 DEF FirstSaves, SavesFirst
<1>3. FoundMeta' = FoundMeta
    BY <1>1 DEF FoundMeta
<1>4. \A i : Part(i)' = Part(i)
    BY <1>2, <1>3 DEF Part
<1>5. \A i : Rest(i)' = Rest(i)
    BY <1>4 DEF Rest, From2, From4, From6, From8
<1>6. AllSaves' = AllSaves
    BY DEF AllSaves, FirstHas
<1>7. ToMigrate' <=> ToMigrate
    BY <1>1 DEF ToMigrate
<1>8. Expected' = Expected
    BY <1>6, <1>7 DEF Expected
<1> QED
    BY <1>1, <1>5, <1>6, <1>7, <1>8, Sets DEF AllDecode, SavedKeys

(* Steps that leave fota.* and the marker alone and convert nothing.       *)
LEMMA SurviveQuiet ==
    ASSUME SurviveInv, UNCHANGED <<cloud, marker, first, saved>>,
           stage' \notin {"convert", "mark"} \/ UNCHANGED <<stage, at, queue, meta>>
    PROVE  SurviveInv'
<1>1. /\ first.marker = "completed" => marker = "completed"
      /\ ~ToMigrate \/ marker = "completed" => Fits
      /\ ToMigrate /\ marker # "completed" => saved = Missing /\ (AllDecode => Untouched)
    BY DEF SurviveInv
<1>2. /\ Fits' <=> Fits
      /\ Untouched' <=> Untouched
    BY Fixed DEF Fits, Untouched
<1>3. CASE stage' \notin {"convert", "mark"}
    BY <1>1, <1>2, <1>3, Fixed DEF SurviveInv
<1>4. CASE UNCHANGED <<stage, at, queue, meta>>
  <2>1. Passed' <=> Passed
      BY <1>4, Fixed DEF Passed, FirstHas
  <2>2. Midway' <=> Midway
      BY <1>4, Fixed DEF Midway
  <2> QED
      BY <1>1, <1>2, <1>4, <2>1, <2>2, Fixed DEF SurviveInv
<1> QED
    BY <1>3, <1>4

LEMMA SurviveDetect ==
    ASSUME SurviveInv, RecordInv, LegacyInv, Detect, saved' = saved
    PROVE  SurviveInv'
<1>1. CASE stage' # "convert"
  <2>1. stage' \notin {"convert", "mark"} /\ UNCHANGED <<cloud, marker, first, saved>>
      BY <1>1 DEF Detect, store
  <2> QED
      BY <2>1, SurviveQuiet
<1>2. CASE stage' = "convert"
  <2>1. /\ ~NoLegacy /\ marker # "completed" /\ at' = 1 /\ queue' = <<>> /\ meta' = FreshMeta
        /\ UNCHANGED <<legacy, cloud, marker, first, saved>>
      BY <1>2 DEF Detect, store
  <2>2. legacy = first.legacy
      BY <2>1 DEF LegacyInv, LegacyKeptUntilMarked
  <2>3. ToMigrate
      BY <2>1, <2>2 DEF ToMigrate, NoLegacy, FirstHas, SurviveInv
  <2>4. Passed'
      BY <2>1 DEF Passed
  <2>5. ASSUME AllDecode PROVE Midway'
    <3>1. AllSaves = Rest(1) /\ AllSaves \in Seq(SaveSet)
        BY <2>5, AllSavesAre DEF RecordInv
    <3>2. <<>> \o Rest(1) = Rest(1)
        BY <3>1, ConcatEmptySeq
    <3>3. queue' \o Rest(1)' = AllSaves /\ AllSaves' = AllSaves
        BY <2>1, <3>1, <3>2, Fixed
    <3>4. AppliedTo(AllSaves', cloud', 0)
        BY DEF AppliedTo
    <3>5. Ends(AllSaves', 0, queue' \o Rest(1)')
        BY <3>1, <3>3 DEF Ends
    <3>6. 1 = at' /\ 0 \in Nat /\ 1 \in 1..10
        BY <2>1
    <3> QED
        BY <3>4, <3>5, <3>6 DEF Midway
  <2>6. saved' = Missing /\ (AllDecode => Untouched')
      BY <2>1, <2>3, Fixed DEF SurviveInv, Untouched
  <2>7. ToMigrate' /\ marker' # "completed" /\ (AllDecode' => AllDecode)
      BY <2>1, <2>3, Fixed
  <2>8. first'.marker # "completed"
      BY <2>1 DEF SurviveInv
  <2> QED
      BY <1>2, <2>4, <2>5, <2>6, <2>7, <2>8 DEF SurviveInv
<1> QED
    BY <1>1, <1>2

(* An old key is converted: its saves move from what is to come to the     *)
(* queue.                                                                  *)
LEMMA SurviveConvert ==
    ASSUME SurviveInv, RecordInv, LegacyInv, Convert, saved' = saved
    PROVE  SurviveInv'
<1>1. CASE Throws
  <2>1. stage' \notin {"convert", "mark"} /\ UNCHANGED <<cloud, marker, first, saved>>
      BY <1>1 DEF Throws, store
  <2> QED
      BY <2>1, SurviveQuiet
<1>2. CASE ~Throws
  <2>1. PICK k \in LegacyKinds :
               /\ k = LegacyKeys[at] /\ at \in 1..9
               /\ FirstHas(k) => k \in Sources
               /\ meta' = IF FirstHas(k) /\ k \in {"execution", "event_outbox"}
                          THEN MetaOf(first.legacy[k].payload) ELSE meta
               /\ queue' = LET saves == IF FirstHas(k) THEN FirstSaves(k) ELSE <<>>
                           IN  IF k = "event_outbox" THEN Append(saves, MetaSave(meta')) ELSE saves
               /\ at' = at + 1
               /\ queue = <<>> /\ stage = "convert"
               /\ UNCHANGED <<store, stage, first>>
      BY <1>2, Converted
  <2>2. /\ at \in {1, 2, 3, 4, 5, 6, 7, 8, 9}
        /\ LegacyKeys[1] = "vehicle_task" /\ LegacyKeys[2] = "inventory" /\ LegacyKeys[3] = "consent"
        /\ LegacyKeys[4] = "downloads" /\ LegacyKeys[5] = "execution" /\ LegacyKeys[6] = "event_outbox"
        /\ LegacyKeys[7] = "controls" /\ LegacyKeys[8] = "policy" /\ LegacyKeys[9] = "log_jobs"
      BY <2>1 DEF LegacyKeys
  <2>3. at = 5 <=> k = "execution"
      BY <2>1, <2>2
  <2>4. at = 6 <=> k = "event_outbox"
      BY <2>1, <2>2
  <2>5. Passed
      BY <2>1 DEF SurviveInv
  <2>6. Passed'
    <3>1. \A i \in 1..(at' - 1) : FirstHas(LegacyKeys[i]) => LegacyKeys[i] \in Sources
        BY <2>1, <2>5 DEF Passed
    <3>2. at' <= 5 => meta' = FreshMeta
        BY <2>1, <2>3, <2>4, <2>5 DEF Passed
    <3>3. at' = 6 => meta' = IF FirstHas("execution") THEN MetaOf(first.legacy["execution"].payload) ELSE FreshMeta
        BY <2>1, <2>3, <2>4, <2>5 DEF Passed
    <3>4. \A j : FirstHas(j)' <=> FirstHas(j)
        BY <2>1 DEF FirstHas
    <3> QED
        BY <2>1, <3>1, <3>2, <3>3, <3>4, Fixed DEF Passed
  <2>7. k = "event_outbox" => meta' = FoundMeta
      BY <2>1, <2>4, <2>5 DEF Passed, FoundMeta
  <2>8. \A n \in 1..9 : n = at => queue' = Part(n)
    <3>1. CASE k = "event_outbox"
        BY <2>1, <2>4, <2>7, <3>1 DEF Part, SavesFirst
    <3>2. CASE k # "event_outbox"
        BY <2>1, <2>4, <3>2 DEF Part, SavesFirst
    <3> QED
        BY <3>1, <3>2
  <2>9. ASSUME AllDecode PROVE Midway'
    <3>1. PICK d \in Nat, n \in 1..10 : n = at /\ Ends(AllSaves, d, queue \o Rest(n)) /\ AppliedTo(AllSaves, cloud, d)
        BY <2>1, <2>9 DEF SurviveInv, Midway
    <3>2. Rest(n) \in Seq(SaveSet) /\ Rest(n) = Part(n) \o Rest(n + 1)
      <4>1. first \in Stores /\ n # 10
          BY <2>1, <3>1 DEF RecordInv
      <4> QED
          BY <2>9, <4>1, RestIs
    <3>3. queue \o Rest(n) = Rest(n)
        BY <2>1, <3>2, ConcatEmptySeq
    <3>4. Ends(AllSaves, d, queue' \o Rest(n + 1))
        BY <2>1, <2>8, <3>1, <3>2, <3>3
    <3>5. PICK m \in 1..10 : m = n + 1 /\ m = at'
        BY <2>1, <3>1
    <3>6. Ends(AllSaves', d, queue' \o Rest(m)') /\ AppliedTo(AllSaves', cloud', d)
        BY <2>1, <3>1, <3>4, <3>5, Fixed DEF store
    <3> QED
        BY <3>5, <3>6 DEF Midway
  <2>10. UNCHANGED <<cloud, marker, stage, saved, first>>
      BY <2>1 DEF store
  <2>11. Fits' <=> Fits
      BY <2>10, Fixed DEF Fits
  <2>12. Untouched' <=> Untouched
      BY <2>10, Fixed DEF Untouched
  <2> QED
      BY <2>1, <2>6, <2>9, <2>10, <2>11, <2>12, Fixed DEF SurviveInv
<1> QED
    BY <1>1, <1>2

LEMMA TailOfConcat ==
    ASSUME NEW S, NEW q \in Seq(S), q # <<>>, NEW r \in Seq(S), NEW s, NEW d \in Nat, Ends(s, d, q \o r)
    PROVE  /\ s[d + 1] = Head(q) /\ d + 1 <= Len(s) /\ Len(s) \in Nat
           /\ Ends(s, d + 1, Tail(q) \o r)
<1>1. /\ q \o r \in Seq(S) /\ Len(q \o r) = Len(q) + Len(r) /\ Len(q) >= 1 /\ Len(r) \in Nat /\ Len(q) \in Nat
      /\ \A i \in 1..(Len(q) + Len(r)) : (q \o r)[i] = IF i <= Len(q) THEN q[i] ELSE r[i - Len(q)]
    BY ConcatProperties
<1>2. /\ Tail(q) \in Seq(S) /\ Len(Tail(q)) = Len(q) - 1 /\ Head(q) = q[1]
      /\ \A i \in 1..(Len(q) - 1) : Tail(q)[i] = q[i + 1]
    BY HeadTailProperties
<1> DEFINE t == Tail(q)
<1> HIDE DEF t
<1>3. /\ Len(t \o r) = Len(t) + Len(r)
      /\ \A i \in 1..(Len(t) + Len(r)) : (t \o r)[i] = IF i <= Len(t) THEN t[i] ELSE r[i - Len(t)]
    BY <1>2, ConcatProperties DEF t
<1>4. Len(s) = d + Len(q) + Len(r) /\ \A i \in 1..(Len(q) + Len(r)) : s[d + i] = (q \o r)[i]
    BY <1>1 DEF Ends
<1>5. s[d + 1] = Head(q)
    BY <1>1, <1>2, <1>4
<1>6. \A i \in 1..Len(t \o r) : s[(d + 1) + i] = (t \o r)[i]
  <2> SUFFICES ASSUME NEW i \in 1..(Len(q) - 1 + Len(r)) PROVE s[(d + 1) + i] = (t \o r)[i]
      BY <1>1, <1>2, <1>3 DEF t
  <2>1. i + 1 \in 1..(Len(q) + Len(r)) /\ (d + 1) + i = d + (i + 1)
      BY <1>1
  <2>2. s[(d + 1) + i] = IF i + 1 <= Len(q) THEN q[i + 1] ELSE r[(i + 1) - Len(q)]
      BY <1>1, <1>4, <2>1
  <2>3. (t \o r)[i] = IF i <= Len(q) - 1 THEN q[i + 1] ELSE r[i - (Len(q) - 1)]
      BY <1>1, <1>2, <1>3 DEF t
  <2>4. (i + 1) - Len(q) = i - (Len(q) - 1)
      BY <1>1
  <2> QED
      BY <1>1, <2>2, <2>3, <2>4
<1> QED
    BY <1>1, <1>2, <1>3, <1>4, <1>5, <1>6 DEF Ends, t

(* The first record of the queue is saved.                                 *)
LEMMA SurviveSave ==
    ASSUME SurviveInv, RecordInv, LegacyInv, SaveRecord, saved' = saved
    PROVE  SurviveInv'
<1>1. /\ stage = "convert" /\ queue # <<>> /\ queue' = Tail(queue)
      /\ UNCHANGED <<legacy, marker, stage, at, meta, first, saved>>
    BY DEF SaveRecord
<1>2. PICK x : /\ x = Head(queue)
               /\ cloud' = [key \in DOMAIN cloud \cup {x[1]} |-> IF key = x[1] THEN x[2] ELSE cloud[key]]
    BY DEF SaveRecord
<1>3. marker # "completed" /\ ToMigrate /\ saved = Missing
    BY <1>1 DEF RecordInv, SurviveInv
<1>4. Passed'
    BY <1>1, Fixed DEF SurviveInv, Passed, FirstHas
<1>5. ASSUME AllDecode PROVE Midway' /\ Untouched'
  <2>1. PICK d \in Nat, n \in 1..10 : n = at /\ Ends(AllSaves, d, queue \o Rest(n)) /\ AppliedTo(AllSaves, cloud, d)
      BY <1>1, <1>5 DEF SurviveInv, Midway
  <2>2. queue \in Seq(SaveSet) /\ Rest(n) \in Seq(SaveSet)
      BY <1>5, RestIs DEF RecordInv
  <2>3. /\ AllSaves[d + 1] = x /\ d + 1 <= Len(AllSaves) /\ Len(AllSaves) \in Nat
        /\ Ends(AllSaves, d + 1, queue' \o Rest(n))
      BY <1>1, <1>2, <2>1, <2>2, TailOfConcat
  <2>4. AppliedTo(AllSaves, cloud', d + 1)
      BY <1>2, <2>1, <2>3, AppliedOne
  <2>5. Ends(AllSaves', d + 1, queue' \o Rest(n)') /\ AppliedTo(AllSaves', cloud', d + 1)
      BY <1>1, <2>3, <2>4, Fixed
  <2>6. Midway'
      BY <1>1, <2>1, <2>5 DEF Midway
  <2>7. x[1] \in SavedKeys
      BY <2>3 DEF SavedKeys
  <2>8. Untouched
      BY <1>3, <1>5 DEF SurviveInv
  <2>9. Untouched'
      BY <1>1, <1>2, <2>7, <2>8, Fixed DEF Untouched
  <2> QED
      BY <2>6, <2>9
<1> QED
    BY <1>1, <1>3, <1>4, <1>5, Fixed DEF SurviveInv

(* Everything is saved, so every old key could be read.                    *)
LEMMA SurviveCheck ==
    ASSUME SurviveInv, RecordInv, LegacyInv, Check, saved' = saved
    PROVE  SurviveInv'
<1>1. /\ UNCHANGED <<legacy, cloud, marker, at, queue, meta, first, saved>>
      /\ stage = "convert" /\ queue = <<>> /\ at > 9
    BY Keys9 DEF Check, Throws, store
<1>2. CASE stage' # "mark"
  <2>1. stage' \notin {"convert", "mark"}
      BY <1>2 DEF Check, Throws
  <2> QED
      BY <1>1, <2>1, SurviveQuiet
<1>3. CASE stage' = "mark"
  <2>1. at = 10
      BY <1>1, Keys9 DEF LegacyInv
  <2>2. AllDecode
    <3>1. \A i \in 1..9 : FirstHas(LegacyKeys[i]) => LegacyKeys[i] \in Sources
        BY <1>1, <2>1 DEF SurviveInv, Passed
    <3> QED
        BY <3>1, Keys9 DEF AllDecode
  <2>3. PICK d \in Nat : Ends(AllSaves, d, queue \o Rest(10)) /\ AppliedTo(AllSaves, cloud, d)
      BY <1>1, <2>1, <2>2 DEF SurviveInv, Midway
  <2>4. queue \o Rest(10) = <<>>
      BY <1>1, <2>2, RestIs DEF RecordInv
  <2>5. d = Len(AllSaves)
      BY <2>3, <2>4 DEF Ends
  <2>6. Fits' <=> Fits
      BY <1>1, Fixed DEF Fits
  <2>7. Untouched' <=> Untouched
      BY <1>1, Fixed DEF Untouched
  <2> QED
      BY <1>1, <1>3, <2>2, <2>3, <2>5, <2>6, <2>7, Fixed DEF SurviveInv
<1> QED
    BY <1>2, <1>3

LEMMA SurviveMark ==
    ASSUME SurviveInv, RecordInv, Mark, saved' = saved
    PROVE  SurviveInv'
<1>1. /\ stage = "mark" /\ stage' = "clean" /\ marker' = "completed"
      /\ UNCHANGED <<cloud, first, saved>>
    BY DEF Mark
<1>2. ToMigrate /\ marker # "completed" /\ AllDecode /\ AppliedTo(AllSaves, cloud, Len(AllSaves))
    BY <1>1 DEF SurviveInv, RecordInv
<1>3. Fits
    BY <1>2, AllApplied DEF SurviveInv, RecordInv
<1>4. Fits'
    BY <1>1, <1>3, Fixed DEF Fits
<1> QED
    BY <1>1, <1>4, Fixed DEF SurviveInv

(* The daemon saves only when no old key is left, so on top of what is     *)
(* expected of the migration.                                              *)
MissingIsNoNumbers == \A n, a : [nextSequenceNo |-> n, acceptedSequenceNo |-> a] # Missing

LEMMA SurviveSaves ==
    ASSUME MissingIsNoNumbers, SurviveInv, RecordInv, LegacyInv, OpenInv, SavesState
    PROVE  SurviveInv'
<1>1. pc = "run" /\ UNCHANGED <<legacy, marker, stage, at, queue, meta, first>>
    BY DEF SavesState, locals
<1>2. NoLegacy
    BY <1>1 DEF OpenInv
<1>3. ~ToMigrate \/ marker = "completed"
    BY <1>2 DEF NoLegacy, LegacyInv, LegacyKeptUntilMarked, ToMigrate, FirstHas
<1>4. stage \notin {"convert", "mark"}
    BY <1>3 DEF SurviveInv, RecordInv
<1>5. saved' # Missing
  <2>1. \E n, a : saved' = [nextSequenceNo |-> n, acceptedSequenceNo |-> a]
      BY DEF SavesState, NumbersOf, MetaOf, FreshMeta
  <2> QED
      BY <2>1 DEF MissingIsNoNumbers
<1>6. cloud' = [key \in DOMAIN cloud \cup {MetaKey} |->
                   IF key = MetaKey THEN CloudEncode("event_outbox_meta", saved') ELSE cloud[key]]
    BY DEF SavesState
<1>7. Fits
    BY <1>3 DEF SurviveInv
<1>8. Fits'
  <2> SUFFICES ASSUME NEW key \in DOMAIN cloud' \cup DOMAIN Expected, key # MetaKey
               PROVE  key \in DOMAIN cloud' /\ key \in DOMAIN Expected /\ cloud'[key] = Expected[key]
      BY <1>1, <1>5, <1>6, Fixed DEF Fits
  <2> QED
      BY <1>6, <1>7 DEF Fits
<1> QED
    BY <1>1, <1>3, <1>4, <1>8, Fixed DEF SurviveInv

LEMMA SurviveStep ==
    ASSUME MissingIsNoNumbers, SurviveInv, RecordInv, LegacyInv, OpenInv, [Next]_vars
    PROVE  SurviveInv'
<1>1. CASE SavesState
    BY <1>1, SurviveSaves
<1>2. CASE UNCHANGED <<store, at, queue, meta, first, saved>> /\ stage' \in {stage, "idle"}
    BY <1>2, SurviveQuiet DEF store
<1>3. CASE MigrationNext /\ saved' = saved
  <2>1. CASE Begin \/ Interrupted \/ Finish \/ RemoveLegacy
    <3>1. stage' \notin {"convert", "mark"} /\ UNCHANGED <<cloud, marker, first, saved>>
        BY <1>3, <2>1 DEF Begin, Interrupted, Throws, Finish, RemoveLegacy, store
    <3> QED
        BY <3>1, SurviveQuiet
  <2> QED
      BY <1>3, <2>1, SurviveDetect, SurviveConvert, SurviveSave, SurviveCheck, SurviveMark
         DEF MigrationNext, MigrationStep
<1> QED
    BY <1>1, <1>2, <1>3, BootMoves

LEMMA SurviveInit == Init => SurviveInv
<1> SUFFICES ASSUME Init PROVE SurviveInv
    OBVIOUS
<1>1. cloud = first.cloud /\ marker = first.marker /\ stage = "idle" /\ saved = Missing
    BY DEF Init, MigrationInit
<1>2. ~ToMigrate \/ marker = "completed" => Fits
    BY <1>1 DEF Fits, Expected, ToMigrate
<1>3. Untouched
    BY <1>1 DEF Untouched
<1> QED
    BY <1>1, <1>2, <1>3 DEF SurviveInv

(* Once the migration is over, fota.* holds what one uninterrupted call    *)
(* makes of the first store, and on top of it what the daemon saved,       *)
(* however often the process stopped and the call was repeated             *)
(* (migrateOtaToFota).                                                     *)
THEOREM RecordsSurvive == MissingIsNoNumbers => (Spec => []RecordsSurviveRestarts)
<1> SUFFICES ASSUME MissingIsNoNumbers PROVE Spec => []RecordsSurviveRestarts
    OBVIOUS
<1> DEFINE Inv == SurviveInv /\ RecordInv /\ LegacyInv /\ OpenInv
<1>1. Init => Inv
    BY LegacyInit, RecordInit, SurviveInit DEF Init, OpenInv
<1>2. Inv /\ [Next]_vars => Inv'
    BY SurviveStep, BootRecords, BootLegacy, OpenStep
<1>3. Inv => RecordsSurviveRestarts
  <2> SUFFICES ASSUME Inv, marker = "completed" \/ stage = "done" PROVE Fits
      BY DEF RecordsSurviveRestarts, Fits
  <2>1. ~ToMigrate \/ marker = "completed"
      BY DEF NoLegacy, LegacyInv, LegacyKeptUntilMarked, ToMigrate, FirstHas
  <2> QED
      BY <2>1 DEF SurviveInv
<1> QED
    BY <1>1, <1>2, <1>3, PTL DEF Spec

-----------------------------------------------------------------------------
(* Field by field.  NameBefore(f) is what an old record called f.          *)

NameBefore(f) == IF f \in DOMAIN OldName THEN OldName[f] ELSE f

Fields(k) == FieldsOf[k].required \cup FieldsOf[k].optional

(* A new record r holds in f what the old one o held there.                *)
Holds(r, o, f) ==
    NameBefore(f) \in DOMAIN o =>
        SameValue(f, IF f \in DOMAIN r THEN r[f] ELSE Default, o[NameBefore(f)])

LEMMA PutIs ==
    ASSUME NEW a, NEW b
    PROVE  /\ DOMAIN Put(a, b) = DOMAIN a \cup DOMAIN b
           /\ \A f \in DOMAIN Put(a, b) : Put(a, b)[f] = IF f \in DOMAIN b THEN b[f] ELSE a[f]
BY DEF Put, Fill

LEMMA CarryIs ==
    ASSUME NEW o, NEW sources
    PROVE  /\ DOMAIN Carry(o, sources) = DOMAIN sources
           /\ \A f \in DOMAIN sources : sources[f] \in DOMAIN o => Carry(o, sources)[f] = o[sources[f]]
BY DEF Carry

(* The fields whose values are converted.                                  *)
Computed == Revisions \cup {"currentOffsetBytes", "sizeBytes", "action", "applyMode"}

LEMMA CarriedHolds ==
    ASSUME NEW o, NEW sources, NEW f \in DOMAIN sources \ Computed, sources[f] = NameBefore(f)
    PROVE  Holds(Carry(o, sources), o, f)
<1>1. f \in DOMAIN Carry(o, sources) /\ (NameBefore(f) \in DOMAIN o => Carry(o, sources)[f] = o[NameBefore(f)])
    BY CarryIs
<1>2. f \notin Revisions /\ f \notin {"currentOffsetBytes", "sizeBytes"} /\ f \notin {"action", "applyMode"}
    BY DEF Computed
<1> QED
    BY <1>1, <1>2 DEF Holds, SameValue

LEMMA PutHolds ==
    ASSUME NEW o, NEW a, NEW b, NEW f \in DOMAIN a \cup DOMAIN b,
           f \in DOMAIN b => Holds(b, o, f),
           f \notin DOMAIN b => Holds(a, o, f)
    PROVE  Holds(Put(a, b), o, f)
<1>1. f \in DOMAIN Put(a, b) /\ Put(a, b)[f] = IF f \in DOMAIN b THEN b[f] ELSE a[f]
    BY PutIs
<1> QED
    BY <1>1 DEF Holds

(* Fields carried under the same name, and under a name of before.         *)
IsSame(names) == \A f \in names : f \notin DOMAIN OldName /\ f \notin Computed
IsRenamed(g) == \A f \in DOMAIN g : f \in DOMAIN OldName /\ g[f] = OldName[f] /\ f \notin Computed

LEMMA SameHolds ==
    ASSUME NEW o, NEW names, IsSame(names)
    PROVE  /\ DOMAIN Carry(o, Same(names)) = names
           /\ \A f \in names : Holds(Carry(o, Same(names)), o, f)
<1>1. DOMAIN Same(names) = names /\ \A f \in names : Same(names)[f] = f
    BY DEF Same
<1>2. \A f \in names : f \in DOMAIN Same(names) \ Computed /\ Same(names)[f] = NameBefore(f)
    BY <1>1 DEF IsSame, NameBefore
<1> QED
    BY <1>1, <1>2, CarryIs, CarriedHolds

LEMMA RenamedHolds ==
    ASSUME NEW o, NEW names, IsSame(names), NEW renamed, IsRenamed(renamed)
    PROVE  /\ DOMAIN Carry(o, Put(Same(names), renamed)) = names \cup DOMAIN renamed
           /\ \A f \in names \cup DOMAIN renamed : Holds(Carry(o, Put(Same(names), renamed)), o, f)
<1> DEFINE s == Same(names)
           both == Put(s, renamed)
<1>1. DOMAIN s = names /\ \A f \in names : s[f] = f
    BY DEF Same
<1>2. DOMAIN both = names \cup DOMAIN renamed
    BY <1>1, PutIs
<1>3. \A f \in DOMAIN both : both[f] = IF f \in DOMAIN renamed THEN renamed[f] ELSE s[f]
    BY PutIs
<1> HIDE DEF s, both
<1>4. \A f \in names \cup DOMAIN renamed : f \in DOMAIN both \ Computed /\ both[f] = NameBefore(f)
    BY <1>1, <1>2, <1>3 DEF NameBefore, IsSame, IsRenamed
<1>5. DOMAIN Carry(o, both) = names \cup DOMAIN renamed
    BY <1>2, CarryIs
<1>6. \A f \in names \cup DOMAIN renamed : Holds(Carry(o, both), o, f)
    BY <1>4, CarriedHolds
<1> QED
    BY <1>5, <1>6 DEF s, both

LEMMA RevisionHolds ==
    ASSUME NEW o, NEW b, NEW f \in Revisions \cap DOMAIN b, b[f] = RevisionToUint64(o[f])
    PROVE  Holds(b, o, f)
BY DEF Holds, NameBefore, OldName, SameValue, Revisions, RevisionToUint64

LEMMA SameSetHolds ==
    ASSUME NEW o, NEW names, IsSame(names), NEW set, \A f \in DOMAIN set : Holds(set, o, f)
    PROVE  \A f \in names \cup DOMAIN set : Holds(Put(Carry(o, Same(names)), set), o, f)
<1> DEFINE carried == Carry(o, Same(names))
<1>1. DOMAIN carried = names /\ \A f \in names : Holds(carried, o, f)
    BY SameHolds
<1> HIDE DEF carried
<1> QED
    BY <1>1, PutHolds DEF carried

LEMMA RenamedSetHolds ==
    ASSUME NEW o, NEW names, IsSame(names), NEW renamed, IsRenamed(renamed),
           NEW set, \A f \in DOMAIN set : Holds(set, o, f)
    PROVE  \A f \in names \cup DOMAIN renamed \cup DOMAIN set :
               Holds(Put(Carry(o, Put(Same(names), renamed)), set), o, f)
<1> DEFINE carried == Carry(o, Put(Same(names), renamed))
<1>1. DOMAIN carried = names \cup DOMAIN renamed /\ \A f \in names \cup DOMAIN renamed : Holds(carried, o, f)
    BY RenamedHolds
<1> HIDE DEF carried
<1> QED
    BY <1>1, PutHolds DEF carried

(* What the old records do not have.                                       *)
LEMMA AbsentHolds ==
    ASSUME NEW o, NEW r, NEW f, NameBefore(f) \notin DOMAIN o
    PROVE  Holds(r, o, f)
BY DEF Holds

LEMMA VehicleTaskHolds ==
    ASSUME NEW o, IsOld("vehicle_task", Needs["vehicle_task"], o)
    PROVE  \A f \in Fields("vehicle_task") \ Opaque : Holds(ToVehicleTask(o), o, f)
<1> DEFINE names == {"vehicleTaskId", "vehicleTaskState", "frozenAtMs", "localDispositionResult",
                     "superseded"}
           renamed == [targetBaselineCode |-> "targetBaselineId"]
           set == [taskRevision |-> RevisionToUint64(o.taskRevision)]
<1>1. IsSame(names) /\ IsRenamed(renamed)
    BY DEF IsSame, IsRenamed, OldName, Computed, Revisions
<1>2. \A r : \A f \in {"taskSnapshotPbHex"} : Holds(r, o, f)
    BY AbsentHolds DEF NameBefore, OldName, IsOld, Needs, VehicleTaskNeeds, OldOptional
<1>3. DOMAIN set = {"taskRevision"} /\ \A f \in DOMAIN set : Holds(set, o, f)
    BY RevisionHolds DEF Revisions
<1>4. DOMAIN renamed = {"targetBaselineCode"}
    OBVIOUS
<1> HIDE DEF names, renamed, set
<1>5. \A f \in names \cup DOMAIN renamed \cup DOMAIN set : Holds(ToVehicleTask(o), o, f)
    BY <1>1, <1>3, RenamedSetHolds DEF ToVehicleTask, names, renamed, set
<1> QED
    BY <1>2, <1>3, <1>4, <1>5 DEF names, Fields, FieldsOf, VehicleTaskFields, Opaque

LEMMA InventoryHolds ==
    ASSUME NEW o, IsOld("inventory", Needs["inventory"], o)
    PROVE  \A f \in Fields("inventory") \ Opaque : Holds(ToInventory(o), o, f)
<1> DEFINE names == {"mode", "algorithm", "collectedAtMs", "fullRequired"}
           renamed == [ecuListDigestHex |-> "ecuListDigest"]
           set == [inventoryRevision |-> RevisionToUint64(o.inventoryRevision)]
<1>1. IsSame(names) /\ IsRenamed(renamed)
    BY DEF IsSame, IsRenamed, OldName, Computed, Revisions
<1>2. \A r : \A f \in {"baselineCode", "fotaMasterVersion", "requestPbHex"} : Holds(r, o, f)
    BY AbsentHolds DEF NameBefore, OldName, IsOld, Needs, InventoryNeeds, OldOptional
<1>3. DOMAIN set = {"inventoryRevision"} /\ \A f \in DOMAIN set : Holds(set, o, f)
    BY RevisionHolds DEF Revisions
<1>4. DOMAIN renamed = {"ecuListDigestHex"}
    OBVIOUS
<1> HIDE DEF names, renamed, set
<1>5. \A f \in names \cup DOMAIN renamed \cup DOMAIN set : Holds(ToInventory(o), o, f)
    BY <1>1, <1>3, RenamedSetHolds DEF ToInventory, names, renamed, set
<1> QED
    BY <1>2, <1>3, <1>4, <1>5 DEF names, Fields, FieldsOf, InventoryFields, Opaque

LEMMA ConsentHolds ==
    ASSUME NEW o, IsOld("consent", Needs["consent"], o)
    PROVE  \A f \in Fields("consent") \ Opaque : Holds(ToConsent(o), o, f)
<1> DEFINE names == {"vehicleTaskId", "effectiveStatus", "receiptId", "receiptExpiresAtMs", "termsId",
                     "termsVersion"}
<1>1. IsSame(names)
    BY DEF IsSame, OldName, Computed, Revisions
<1>2. \A r : \A f \in {"termsDigestHex", "termsAlgorithm", "consentTimeMs", "channel"} : Holds(r, o, f)
    BY AbsentHolds DEF NameBefore, OldName, IsOld, Needs, ConsentNeeds, OldOptional
<1> HIDE DEF names
<1>5. \A f \in names : Holds(ToConsent(o), o, f)
    BY <1>1, SameHolds DEF ToConsent, names
<1> QED
    BY <1>2, <1>5 DEF names, Fields, FieldsOf, ConsentFields, Opaque

LEMMA DownloadHolds ==
    ASSUME NEW o, IsOld("downloads", EntryNeeds["downloads"], o)
    PROVE  \A f \in Fields("downloads") \ Opaque : Holds(ToDownload(o), o, f)
<1> DEFINE names == {"packageId", "packageRevision", "etag", "credentialExpiresAtMs", "verifyStatus",
                     "stageResultId", "ready"}
           renamed == [stageResultDigestHex |-> "stageResultDigest"]
           set == [currentOffsetBytes |-> AtLeast0(o.offset), offsetScope |-> "STORED_OBJECT"]
<1>1. IsSame(names) /\ IsRenamed(renamed)
    BY DEF IsSame, IsRenamed, OldName, Computed, Revisions
<1>2. \A r : \A f \in {"offsetScope"} : Holds(r, o, f)
    BY AbsentHolds DEF NameBefore, OldName, IsOld, EntryNeeds, DownloadNeeds, OldOptional
<1>3. DOMAIN set = {"currentOffsetBytes", "offsetScope"} /\ \A f \in DOMAIN set : Holds(set, o, f)
  <2>1. Holds(set, o, "currentOffsetBytes")
      BY DEF Holds, NameBefore, OldName, SameValue, Revisions, AtLeast0, IsOld
  <2> QED
      BY <2>1, <1>2
<1>4. DOMAIN renamed = {"stageResultDigestHex"}
    OBVIOUS
<1> HIDE DEF names, renamed, set
<1>5. \A f \in names \cup DOMAIN renamed \cup DOMAIN set : Holds(ToDownload(o), o, f)
    BY <1>1, <1>3, RenamedSetHolds DEF ToDownload, names, renamed, set
<1> QED
    BY <1>2, <1>3, <1>4, <1>5 DEF names, Fields, FieldsOf, DownloadFields, Opaque

LEMMA ExecutionHolds ==
    ASSUME NEW o, IsOld("execution", Needs["execution"], o)
    PROVE  \A f \in Fields("execution") \ Opaque : Holds(ToExecution(o), o, f)
<1> DEFINE names == {"vehicleTaskId", "executionId", "attemptNo", "permitId", "permitToken",
                     "validUntilMs", "executionState", "installPlanVersion"}
           set == [controlRevision |-> RevisionToUint64(o.controlRevision)]
<1>1. IsSame(names)
    BY DEF IsSame, OldName, Computed, Revisions
<1>3. DOMAIN set = {"controlRevision"} /\ \A f \in DOMAIN set : Holds(set, o, f)
    BY RevisionHolds DEF Revisions
<1> HIDE DEF names, set
<1>5. \A f \in names \cup DOMAIN set : Holds(ToExecution(o), o, f)
    BY <1>1, <1>3, SameSetHolds DEF ToExecution, names, set
<1> QED
    BY <1>3, <1>5 DEF names, Fields, FieldsOf, ExecutionFields, Opaque

LEMMA EventHolds ==
    ASSUME NEW o, IsOld("event_outbox", EntryNeeds["event_outbox"], o)
    PROVE  \A f \in Fields("event_outbox") \ Opaque : Holds(ToEvent(o), o, f)
<1> DEFINE names == {"sequenceNo", "eventId", "stage", "payloadSummary", "sendStatus"}
           renamed == [eventDigestHex |-> "eventDigest", eventStatus |-> "result",
                       progress |-> "progressPercent", occurredAtMs |-> "timestampMs"]
<1>1. IsSame(names) /\ IsRenamed(renamed)
    BY DEF IsSame, IsRenamed, OldName, Computed, Revisions
<1>4. DOMAIN renamed = {"eventDigestHex", "eventStatus", "progress", "occurredAtMs"}
    OBVIOUS
<1> HIDE DEF names, renamed
<1>5. \A f \in names \cup DOMAIN renamed : Holds(ToEvent(o), o, f)
    BY <1>1, RenamedHolds DEF ToEvent, names, renamed
<1> QED
    BY <1>4, <1>5 DEF names, Fields, FieldsOf, EventFields, Opaque

LEMMA ControlHolds ==
    ASSUME NEW o, IsOld("controls", EntryNeeds["controls"], o)
    PROVE  \A f \in Fields("controls") \ Opaque : Holds(ToControl(o), o, f)
<1> DEFINE names == {"expiresAtMs", "reason", "ackStatus", "ackSequenceNo", "appliedAtMs"}
           set == [controlRevision |-> RevisionToUint64(o.controlRevision),
                   action |-> MapControlAction(o.commandType), scope |-> "EXECUTION",
                   applyMode |-> MapApplyMode(o.applyMode)]
<1>1. IsSame(names)
    BY DEF IsSame, OldName, Computed, Revisions
<1>2. \A r : \A f \in {"controlId", "issuedAtMs", "scope"} : Holds(r, o, f)
    BY AbsentHolds DEF NameBefore, OldName, IsOld, EntryNeeds, ControlNeeds, OldOptional
<1>3. DOMAIN set = {"controlRevision", "action", "scope", "applyMode"} /\ \A f \in DOMAIN set : Holds(set, o, f)
  <2>1. Holds(set, o, "controlRevision")
      BY RevisionHolds DEF Revisions
  <2>2. Holds(set, o, "action")
      BY DEF Holds, NameBefore, OldName, SameValue, Revisions, MapControlAction
  <2>3. Holds(set, o, "applyMode")
      BY DEF Holds, NameBefore, OldName, SameValue, Revisions, MapApplyMode
  <2> QED
      BY <2>1, <2>2, <2>3, <1>2
<1> HIDE DEF names, set
<1>5. \A f \in names \cup DOMAIN set : Holds(ToControl(o), o, f)
    BY <1>1, <1>3, SameSetHolds DEF ToControl, names, set
<1> QED
    BY <1>2, <1>3, <1>5 DEF names, Fields, FieldsOf, ControlFields, Opaque

LEMMA PolicyHolds ==
    ASSUME NEW o, IsOld("policy", Needs["policy"], o)
    PROVE  \A f \in Fields("policy") \ Opaque : Holds(ToPolicy(o), o, f)
<1> DEFINE names == {"basePreferenceVersion", "preferenceVersion", "conflict"}
<1>1. IsSame(names)
    BY DEF IsSame, OldName, Computed, Revisions
<1>2. \A r : \A f \in {"localPolicyVersion", "effectiveAtMs"} : Holds(r, o, f)
    BY AbsentHolds DEF NameBefore, OldName, IsOld, Needs, PolicyNeeds, OldOptional
<1> HIDE DEF names
<1>5. \A f \in names : Holds(ToPolicy(o), o, f)
    BY <1>1, SameHolds DEF ToPolicy, names
<1> QED
    BY <1>2, <1>5 DEF names, Fields, FieldsOf, PolicyFields, Opaque

LEMMA LogJobHolds ==
    ASSUME NEW o, IsOld("log_jobs", EntryNeeds["log_jobs"], o)
    PROVE  \A f \in Fields("log_jobs") \ Opaque : Holds(ToLogJob(o), o, f)
<1> DEFINE names == {"logRequestId", "objectKey", "digestHex", "status", "completedAtMs"}
           set == [sizeBytes |-> AtLeast0(o.sizeBytes)]
<1>1. IsSame(names)
    BY DEF IsSame, OldName, Computed, Revisions
<1>2. \A r : \A f \in {"algorithm"} : Holds(r, o, f)
    BY AbsentHolds DEF NameBefore, OldName, IsOld, EntryNeeds, LogJobNeeds, OldOptional
<1>3. DOMAIN set = {"sizeBytes"} /\ \A f \in DOMAIN set : Holds(set, o, f)
  <2>1. Holds(set, o, "sizeBytes")
      BY DEF Holds, NameBefore, OldName, SameValue, Revisions, AtLeast0, IsOld
  <2> QED
      BY <2>1
<1> HIDE DEF names, set
<1>5. \A f \in names \cup DOMAIN set : Holds(ToLogJob(o), o, f)
    BY <1>1, <1>3, SameSetHolds DEF ToLogJob, names, set
<1> QED
    BY <1>2, <1>3, <1>5 DEF names, Fields, FieldsOf, LogJobFields, Opaque

LEMMA KeptIs ==
    ASSUME NEW k \in CloudKinds, NEW key \in DOMAIN cloud, key[1] = k, NEW r, cloud[key] = CloudEncode(k, r),
           NEW o, \A f \in Fields(k) \ Opaque : Holds(r, o, f)
    PROVE  Kept(o, key)
<1> DEFINE new == CloudDecode(k, CloudEncode(k, r))
<1>1. \A f \in Fields(k) : f # "schemaVersion"
    BY DEF Fields, CloudKinds, FieldsOf, VehicleTaskFields, InventoryFields, ConsentFields, DownloadFields,
       ExecutionFields, OutboxMetaFields, EventFields, ControlFields, PolicyFields, LogJobFields
<1>2. /\ DOMAIN CloudEncode(k, r).payload = Fields(k) \cup {"schemaVersion"}
      /\ \A f \in Fields(k) : CloudEncode(k, r).payload[f] = IF f \in DOMAIN r THEN r[f] ELSE Default
    BY <1>1 DEF CloudEncode, Envelope, Fields
<1>3. DOMAIN new = Fields(k) /\ \A f \in Fields(k) : new[f] = IF f \in DOMAIN r THEN r[f] ELSE Default
    BY <1>2 DEF CloudDecode, Fields
<1> HIDE DEF new
<1>4. \A f \in DOMAIN new \ Opaque : NameBefore(f) \in DOMAIN o => SameValue(f, new[f], o[NameBefore(f)])
    BY <1>3 DEF Holds
<1> QED
    BY <1>4 DEF Kept, NameBefore, new

(* The old record the i-th save of an old key comes from.                  *)
OldRecord(k, i) ==
    IF k \in DOMAIN EntryNeeds THEN first.legacy[k].payload.entries[i] ELSE first.legacy[k].payload

IsConverted(k, i, x) ==
    \E key, r :
        /\ x = <<key, CloudEncode(k, r)>> /\ key[1] = k
        /\ k \notin DOMAIN EntryNeeds => key = <<k>>
        /\ \A f \in Fields(k) \ Opaque : Holds(r, OldRecord(k, i), f)

LEMMA FirstSavesHold ==
    ASSUME OldRecordsAreRegular, first \in Stores, NEW k \in Sources
    PROVE  /\ Len(FirstSaves(k)) = IF k \in DOMAIN EntryNeeds THEN Len(first.legacy[k].payload.entries) ELSE 1
           /\ \A i \in 1..Len(FirstSaves(k)) : IsConverted(k, i, FirstSaves(k)[i])
           /\ \A i, j \in 1..Len(FirstSaves(k)) : FirstSaves(k)[i][1] = FirstSaves(k)[j][1] => i = j
<1> DEFINE p == first.legacy[k].payload
<1>1. k \in LegacyKinds /\ first.legacy[k] # Missing /\ LegacyDecodes(k, first.legacy[k])
    BY DEF Sources, FirstHas
<1>2. k \in DOMAIN EntryNeeds => IsList(p.entries)
    BY <1>1, BootAssumption
<1>3. /\ k \notin DOMAIN EntryNeeds => IsOld(k, Needs[k], p)
      /\ k \in DOMAIN EntryNeeds =>
             \A i \in 1..Len(p.entries) :
                 /\ IsOld(k, EntryNeeds[k], p.entries[i])
                 /\ \A j \in 1..Len(p.entries) : SavesOf(k, p)[i][1] = SavesOf(k, p)[j][1] => i = j
    BY <1>1 DEF OldRecordsAreRegular
<1>4. k \in DOMAIN EntryNeeds <=> k \in {"downloads", "event_outbox", "controls", "log_jobs"}
    BY DEF EntryNeeds
<1> HIDE DEF p
<1>5. CASE k \notin DOMAIN EntryNeeds
  <2>1. \E r : SavesOf(k, p) = <<Save(k, <<k>>, r)>> /\ \A f \in Fields(k) \ Opaque : Holds(r, p, f)
    <3>1. CASE k = "vehicle_task"
        BY <1>3, <1>5, <3>1, VehicleTaskHolds DEF SavesOf
    <3>2. CASE k = "inventory"
        BY <1>3, <1>5, <3>2, InventoryHolds DEF SavesOf
    <3>3. CASE k = "consent"
        BY <1>3, <1>5, <3>3, ConsentHolds DEF SavesOf
    <3>4. CASE k = "execution"
        BY <1>3, <1>5, <3>4, ExecutionHolds DEF SavesOf
    <3>5. CASE k = "policy"
        BY <1>3, <1>5, <3>5, PolicyHolds DEF SavesOf
    <3> QED
        BY <1>1, <1>4, <1>5, <3>1, <3>2, <3>3, <3>4, <3>5 DEF LegacyKinds, LegacyKeys
  <2>2. PICK r : SavesOf(k, p) = <<Save(k, <<k>>, r)>> /\ \A f \in Fields(k) \ Opaque : Holds(r, p, f)
      BY <2>1
  <2>3. FirstSaves(k) = <<Save(k, <<k>>, r)>> /\ Len(FirstSaves(k)) = 1
      BY <2>2 DEF FirstSaves, p
  <2>4. OldRecord(k, 1) = p
      BY <1>5 DEF OldRecord, p
  <2>5. IsConverted(k, 1, Save(k, <<k>>, r))
      BY <2>2, <2>4 DEF IsConverted, Save
  <2> QED
      BY <1>5, <2>3, <2>5
<1>6. CASE k \in DOMAIN EntryNeeds
  <2> DEFINE n == Len(p.entries)
  <2>1. n \in Nat
      BY <1>2, <1>6 DEF IsList
  <2>2. /\ Len(SavesOf(k, p)) = n
        /\ \A i \in 1..n : \E id, r :
              SavesOf(k, p)[i] = Save(k, <<k, id>>, r) /\ \A f \in Fields(k) \ Opaque : Holds(r, p.entries[i], f)
    <3>0. \A i \in 1..n : IsOld(k, EntryNeeds[k], p.entries[i])
        BY <1>3, <1>6
    <3>1. CASE k = "downloads"
      <4>1. SavesOf(k, p) = [i \in 1..n |-> Save(k, <<k, p.entries[i].packageId>>, ToDownload(p.entries[i]))]
          BY <3>1 DEF SavesOf
      <4>2. Len(SavesOf(k, p)) = n
            /\ \A i \in 1..n : SavesOf(k, p)[i] = Save(k, <<k, p.entries[i].packageId>>, ToDownload(p.entries[i]))
          BY <2>1, <4>1
      <4>3. \A i \in 1..n : \A f \in Fields(k) \ Opaque : Holds(ToDownload(p.entries[i]), p.entries[i], f)
          BY <3>0, <3>1, DownloadHolds
      <4> QED
          BY <4>2, <4>3
    <3>2. CASE k = "event_outbox"
      <4>1. SavesOf(k, p) = [i \in 1..n |-> Save(k, <<k, p.entries[i].sequenceNo>>, ToEvent(p.entries[i]))]
          BY <3>2 DEF SavesOf
      <4>2. Len(SavesOf(k, p)) = n
            /\ \A i \in 1..n : SavesOf(k, p)[i] = Save(k, <<k, p.entries[i].sequenceNo>>, ToEvent(p.entries[i]))
          BY <2>1, <4>1
      <4>3. \A i \in 1..n : \A f \in Fields(k) \ Opaque : Holds(ToEvent(p.entries[i]), p.entries[i], f)
          BY <3>0, <3>2, EventHolds
      <4> QED
          BY <4>2, <4>3
    <3>3. CASE k = "controls"
      <4>1. SavesOf(k, p) = [i \in 1..n |-> Save(k, <<k, RevisionToUint64(p.entries[i].controlRevision)>>, ToControl(p.entries[i]))]
          BY <3>3 DEF SavesOf
      <4>2. Len(SavesOf(k, p)) = n
            /\ \A i \in 1..n : SavesOf(k, p)[i] = Save(k, <<k, RevisionToUint64(p.entries[i].controlRevision)>>, ToControl(p.entries[i]))
          BY <2>1, <4>1
      <4>3. \A i \in 1..n : \A f \in Fields(k) \ Opaque : Holds(ToControl(p.entries[i]), p.entries[i], f)
          BY <3>0, <3>3, ControlHolds
      <4> QED
          BY <4>2, <4>3
    <3>4. CASE k = "log_jobs"
      <4>1. SavesOf(k, p) = [i \in 1..n |-> Save(k, <<k, p.entries[i].logRequestId>>, ToLogJob(p.entries[i]))]
          BY <3>4 DEF SavesOf
      <4>2. Len(SavesOf(k, p)) = n
            /\ \A i \in 1..n : SavesOf(k, p)[i] = Save(k, <<k, p.entries[i].logRequestId>>, ToLogJob(p.entries[i]))
          BY <2>1, <4>1
      <4>3. \A i \in 1..n : \A f \in Fields(k) \ Opaque : Holds(ToLogJob(p.entries[i]), p.entries[i], f)
          BY <3>0, <3>4, LogJobHolds
      <4> QED
          BY <4>2, <4>3
    <3> QED
        BY <1>4, <1>6, <3>1, <3>2, <3>3, <3>4
  <2>3. \A i \in 1..n : OldRecord(k, i) = p.entries[i]
      BY <1>6 DEF OldRecord, p
  <2>4. FirstSaves(k) = SavesOf(k, p)
      BY DEF FirstSaves, p
  <2>5. ASSUME NEW i \in 1..n PROVE IsConverted(k, i, SavesOf(k, p)[i])
    <3>1. PICK id, r : SavesOf(k, p)[i] = Save(k, <<k, id>>, r) /\ \A f \in Fields(k) \ Opaque : Holds(r, p.entries[i], f)
        BY <2>2
    <3>2. <<k, id>>[1] = k
        OBVIOUS
    <3> QED
        BY <1>6, <2>3, <3>1, <3>2 DEF IsConverted, Save
  <2>6. \A i, j \in 1..n : SavesOf(k, p)[i][1] = SavesOf(k, p)[j][1] => i = j
      BY <1>3, <1>6
  <2> QED
      BY <1>6, <2>2, <2>4, <2>5, <2>6 DEF p
<1> QED
    BY <1>5, <1>6

(* Under a key of the i-th kind nothing is saved but what that old key     *)
(* leads to.                                                               *)
LEMMA ConcatElements ==
    ASSUME NEW S, NEW s \in Seq(S), NEW t \in Seq(S)
    PROVE  Elements(s \o t) = Elements(s) \cup Elements(t)
<1>1. /\ Len(s) \in Nat /\ Len(t) \in Nat /\ Len(s \o t) = Len(s) + Len(t)
      /\ \A i \in 1..(Len(s) + Len(t)) : (s \o t)[i] = IF i <= Len(s) THEN s[i] ELSE t[i - Len(s)]
    BY ConcatProperties
<1>2. ASSUME NEW x \in Elements(s \o t) PROVE x \in Elements(s) \cup Elements(t)
  <2>1. PICK i \in 1..(Len(s) + Len(t)) : x = (s \o t)[i]
      BY <1>1, <1>2 DEF Elements
  <2>2. CASE i <= Len(s)
      BY <1>1, <2>1, <2>2 DEF Elements
  <2>3. CASE ~(i <= Len(s))
    <3>1. i - Len(s) \in 1..Len(t) /\ x = t[i - Len(s)]
        BY <1>1, <2>1, <2>3
    <3> QED
        BY <3>1 DEF Elements
  <2> QED
      BY <2>2, <2>3
<1>3. ASSUME NEW x \in Elements(s) PROVE x \in Elements(s \o t)
  <2>1. PICK i \in 1..Len(s) : x = s[i]
      BY <1>3 DEF Elements
  <2>2. i \in 1..(Len(s) + Len(t)) /\ x = (s \o t)[i]
      BY <1>1, <2>1
  <2> QED
      BY <1>1, <2>2 DEF Elements
<1>4. ASSUME NEW x \in Elements(t) PROVE x \in Elements(s \o t)
  <2>1. PICK i \in 1..Len(t) : x = t[i]
      BY <1>4 DEF Elements
  <2>2. Len(s) + i \in 1..(Len(s) + Len(t)) /\ x = (s \o t)[Len(s) + i]
      BY <1>1, <2>1
  <2> QED
      BY <1>1, <2>2 DEF Elements
<1> QED
    BY <1>2, <1>3, <1>4

LEMMA AllElements ==
    ASSUME first \in Stores, AllDecode, NEW x
    PROVE  x \in Elements(AllSaves) <=> \E i \in 1..9 : x \in Elements(Part(i))
<1>2. ASSUME NEW i \in 1..9
      PROVE  x \in Elements(Rest(i)) <=> x \in Elements(Part(i)) \/ x \in Elements(Rest(i + 1))
  <2>1. i \in 1..10 /\ i # 10 /\ i + 1 \in 1..10
      OBVIOUS
  <2>2. Rest(i) = Part(i) \o Rest(i + 1)
      BY <2>1, RestIs
  <2>3. Rest(i + 1) \in Seq(SaveSet)
      BY <2>1, RestIs
  <2>4. Part(i) \in Seq(SaveSet)
      BY PartIs
  <2>5. Elements(Part(i) \o Rest(i + 1)) = Elements(Part(i)) \cup Elements(Rest(i + 1))
      BY <2>3, <2>4, ConcatElements
  <2> QED
      BY <2>2, <2>5
<1>3. x \notin Elements(Rest(10))
  <2>1. Rest(10) = <<>>
      BY RestIs
  <2> QED
      BY <2>1 DEF Elements
<1> DEFINE In(i) == x \in Elements(Rest(i))
           Of(i) == x \in Elements(Part(i))
<1>4. /\ In(1) <=> Of(1) \/ In(2)
      /\ In(2) <=> Of(2) \/ In(3)
      /\ In(3) <=> Of(3) \/ In(4)
      /\ In(4) <=> Of(4) \/ In(5)
      /\ In(5) <=> Of(5) \/ In(6)
      /\ In(6) <=> Of(6) \/ In(7)
      /\ In(7) <=> Of(7) \/ In(8)
      /\ In(8) <=> Of(8) \/ In(9)
      /\ In(9) <=> Of(9) \/ In(10)
    BY <1>2
<1>5. (\E i \in 1..9 : Of(i)) <=> Of(1) \/ Of(2) \/ Of(3) \/ Of(4) \/ Of(5) \/ Of(6) \/ Of(7) \/ Of(8) \/ Of(9)
  <2>1. \A i \in 1..9 : i \in {1, 2, 3, 4, 5, 6, 7, 8, 9}
      OBVIOUS
  <2> HIDE DEF Of
  <2> QED
      BY <2>1
<1>6. AllSaves = Rest(1)
    BY AllSavesAre
<1> QED
    BY <1>3, <1>4, <1>5, <1>6

(* What is saved under a key of kind k.                                    *)
LEMMA KindElements ==
    ASSUME OldRecordsAreRegular, first \in Stores, AllDecode, NEW k \in Sources
    PROVE  /\ Elements(FirstSaves(k)) \subseteq Elements(AllSaves)
           /\ \A x \in Elements(AllSaves) : x[1][1] = k => x \in Elements(FirstSaves(k))
<1>1. \A j \in Sources : \A x \in Elements(FirstSaves(j)) : x[1][1] = j
    BY FirstSavesHold DEF IsConverted, Elements
<1>2. k \in LegacyKinds /\ FirstHas(k)
    BY DEF Sources
<1>3. \A i \in 1..9 : i # 6 => Part(i) = SavesFirst(LegacyKeys[i])
    BY DEF Part
<1>4. \A x : x \in Elements(Part(6)) <=> x \in Elements(SavesFirst("event_outbox")) \/ x = MetaSave(FoundMeta)
  <2>1. "event_outbox" \in LegacyKinds
      BY DEF LegacyKinds, LegacyKeys
  <2>2. SavesFirst("event_outbox") \in Seq(SaveSet)
      BY <2>1, FirstSavesAre DEF SavesFirst, AllDecode
  <2>3. FoundMeta \in Metas
      BY DEF FoundMeta, Metas, AllDecode, LegacyKinds, LegacyKeys
  <2>4. MetaSave(FoundMeta) \in SaveSet
      BY <2>3 DEF SaveSet, MetaSaves
  <2>5. Part(6) = SavesFirst("event_outbox") \o <<MetaSave(FoundMeta)>>
      BY <2>2, <2>4, AppendIsConcat DEF Part
  <2>6. <<MetaSave(FoundMeta)>> \in Seq(SaveSet) /\ Elements(<<MetaSave(FoundMeta)>>) = {MetaSave(FoundMeta)}
      BY <2>4 DEF Elements
  <2>7. Elements(Part(6)) = Elements(SavesFirst("event_outbox")) \cup {MetaSave(FoundMeta)}
    <3> DEFINE front == SavesFirst("event_outbox")
               last == <<MetaSave(FoundMeta)>>
    <3>1. /\ front \in Seq(SaveSet) /\ last \in Seq(SaveSet)
          /\ Elements(last) = {MetaSave(FoundMeta)} /\ Part(6) = front \o last
        BY <2>2, <2>5, <2>6
    <3> HIDE DEF front, last
    <3>2. Elements(front \o last) = Elements(front) \cup Elements(last)
        BY <3>1, ConcatElements
    <3> QED
        BY <3>1, <3>2 DEF front
  <2> QED
      BY <2>7
<1>5. MetaSave(FoundMeta)[1][1] \notin LegacyKinds
    BY DEF MetaSave, Save, MetaKey, LegacyKinds, LegacyKeys
<1>6. LegacyKeys[6] = "event_outbox" /\ \A i \in 1..9 : LegacyKeys[i] \in LegacyKinds
    BY Keys9 DEF LegacyKeys
<1>7. \A j \in LegacyKinds : \A x \in Elements(SavesFirst(j)) : j \in Sources /\ x \in Elements(FirstSaves(j))
    BY DEF SavesFirst, AllDecode, Elements
<1>8. ASSUME NEW x \in Elements(FirstSaves(k)) PROVE x \in Elements(AllSaves)
  <2>1. PICK i \in 1..9 : LegacyKeys[i] = k
      BY <1>2, Keys9
  <2>2. x \in Elements(SavesFirst(k))
      BY <1>2, <1>8 DEF SavesFirst
  <2>3. x \in Elements(Part(i))
      BY <1>3, <1>4, <1>6, <2>1, <2>2
  <2> QED
      BY <2>3, AllElements
<1>9. ASSUME NEW x \in Elements(AllSaves), x[1][1] = k PROVE x \in Elements(FirstSaves(k))
  <2>1. PICK i \in 1..9 : x \in Elements(Part(i))
      BY <1>9, AllElements
  <2>2. x # MetaSave(FoundMeta)
      BY <1>2, <1>5, <1>9
  <2>3. x \in Elements(SavesFirst(LegacyKeys[i]))
      BY <1>3, <1>4, <1>6, <2>1, <2>2
  <2>4. LegacyKeys[i] \in Sources /\ x \in Elements(FirstSaves(LegacyKeys[i]))
      BY <1>6, <1>7, <2>3
  <2>5. LegacyKeys[i] = k
      BY <1>1, <1>9, <2>4
  <2> QED
      BY <2>4, <2>5
<1> QED
    BY <1>8, <1>9

(* What is expected under a key is one of the saves made under it.         *)
MigratedInv ==
    ToMigrate /\ marker = "completed" =>
        AllDecode /\ \A key \in SavedKeys : <<key, Expected[key]>> \in Elements(AllSaves)

LEMMA MigratedMark ==
    ASSUME SurviveInv, RecordInv, Mark
    PROVE  MigratedInv'
<1>1. stage = "mark" /\ first' = first
    BY DEF Mark
<1>2. ToMigrate /\ AllDecode /\ AppliedTo(AllSaves, cloud, Len(AllSaves)) /\ saved = Missing /\ Untouched
    BY <1>1 DEF SurviveInv, RecordInv
<1>3. Fits
    BY <1>2, AllApplied DEF RecordInv
<1>4. ASSUME NEW key \in SavedKeys PROVE <<key, Expected[key]>> \in Elements(AllSaves)
  <2>1. PICK i \in 1..Len(AllSaves) : AllSaves[i][1] = key
      BY <1>4 DEF SavedKeys
  <2>2. PICK j \in 1..Len(AllSaves) : AllSaves[j][1] = key /\ key \in DOMAIN cloud /\ cloud[key] = AllSaves[j][2]
      BY <1>2, <2>1 DEF AppliedTo
  <2>3. cloud[key] = Expected[key]
      BY <1>2, <1>3, <2>2 DEF Fits
  <2>4. AllSaves[j] \in SaveSet
      BY <1>2, AllSavesAre DEF RecordInv
  <2>5. AllSaves[j] = <<AllSaves[j][1], AllSaves[j][2]>>
      BY <2>4, SavesDecode DEF RecordInv, IsSave
  <2> QED
      BY <2>2, <2>3, <2>5 DEF Elements
<1> QED
    BY <1>1, <1>2, <1>4, Fixed DEF MigratedInv, Elements

LEMMA MigratedStep ==
    ASSUME MigratedInv, SurviveInv, RecordInv, [Next]_vars
    PROVE  MigratedInv'
<1>1. CASE Mark
    BY <1>1, MigratedMark
<1>2. CASE ~Mark
  <2>1. marker' = marker /\ first' = first
      BY <1>2, BootMoves DEF MigrationNext, MigrationStep, Begin, Interrupted, Throws, Detect, Convert, SaveRecord,
         Check, RemoveLegacy, Finish, SavesState, store, locals
  <2> QED
      BY <2>1, Fixed DEF MigratedInv, Elements
<1> QED
    BY <1>1, <1>2

LEMMA SourceIsKept ==
    ASSUME OldRecordsAreRegular, MigratedInv, Fits, ToMigrate, marker = "completed", first \in Stores,
           NEW k \in Sources, NEW i \in 1..Len(FirstSaves(k))
    PROVE  \E key \in DOMAIN cloud :
               key[1] = k /\ (k \notin DOMAIN EntryNeeds => key = <<k>>) /\ Kept(OldRecord(k, i), key)
<1> DEFINE x == FirstSaves(k)[i]
<1>1. PICK key, r :
          /\ x = <<key, CloudEncode(k, r)>> /\ key[1] = k
          /\ k \notin DOMAIN EntryNeeds => key = <<k>>
          /\ \A f \in Fields(k) \ Opaque : Holds(r, OldRecord(k, i), f)
    BY FirstSavesHold DEF IsConverted
<1>2. AllDecode /\ \A l \in SavedKeys : <<l, Expected[l]>> \in Elements(AllSaves)
    BY DEF MigratedInv
<1>3. x \in Elements(FirstSaves(k))
    BY DEF Elements
<1> HIDE DEF x
<1>4. key \in SavedKeys
  <2>1. x \in Elements(AllSaves)
      BY <1>2, <1>3, KindElements
  <2> QED
      BY <1>1, <2>1 DEF Elements, SavedKeys
<1>5. Expected[key] = CloudEncode(k, r)
  <2>1. <<key, Expected[key]>> \in Elements(FirstSaves(k))
      BY <1>1, <1>2, <1>4, KindElements
  <2>2. PICK j \in 1..Len(FirstSaves(k)) : <<key, Expected[key]>> = FirstSaves(k)[j]
      BY <2>1 DEF Elements
  <2>3. FirstSaves(k)[j][1] = FirstSaves(k)[i][1]
      BY <1>1, <2>2 DEF x
  <2>4. j = i
      BY <2>3, FirstSavesHold
  <2> QED
      BY <1>1, <2>2, <2>4 DEF x
<1>6. key # MetaKey /\ k \in CloudKinds
  <2>1. k \in LegacyKinds
      BY DEF Sources
  <2> QED
      BY <1>1, <2>1 DEF MetaKey, LegacyKinds, LegacyKeys, CloudKinds, FieldsOf
<1>7. key \in DOMAIN Expected
    BY <1>4 DEF Expected, SavedKeys
<1>8. key \in DOMAIN cloud /\ cloud[key] = CloudEncode(k, r)
    BY <1>5, <1>6, <1>7 DEF Fits
<1>9. Kept(OldRecord(k, i), key)
    BY <1>1, <1>6, <1>8, KeptIs
<1> QED
    BY <1>1, <1>8, <1>9

(* Every migrated record, read back, agrees with its old one in every      *)
(* field they share, and no entry of a list is lost, however often the     *)
(* process stopped in between, where the old records are those the         *)
(* releases before wrote (migrateOtaToFota, step 4).                       *)
THEOREM FieldsAreKept == MissingIsNoNumbers /\ OldRecordsAreRegular => (Spec => []BusinessFieldsAreKept)
<1> SUFFICES ASSUME MissingIsNoNumbers, OldRecordsAreRegular PROVE Spec => []BusinessFieldsAreKept
    OBVIOUS
<1> DEFINE Inv == SurviveInv /\ RecordInv /\ LegacyInv /\ OpenInv /\ MigratedInv
<1>1. Init => Inv
  <2>1. Init => MigratedInv
      BY DEF Init, MigrationInit, MigratedInv, ToMigrate
  <2> QED
      BY <2>1, LegacyInit, RecordInit, SurviveInit DEF Init, OpenInv
<1>2. Inv /\ [Next]_vars => Inv'
    BY SurviveStep, BootRecords, BootLegacy, OpenStep, MigratedStep
<1>3. Inv => BusinessFieldsAreKept
  <2> SUFFICES ASSUME Inv, stage = "done", ToMigrate, NEW k \in LegacyKinds, first.legacy[k] # Missing
               PROVE  LET p == first.legacy[k].payload IN
                      IF k \in DOMAIN EntryNeeds
                      THEN \A i \in 1..Len(p.entries) :
                               \E key \in DOMAIN cloud : key[1] = k /\ Kept(p.entries[i], key)
                      ELSE Kept(p, <<k>>)
      BY DEF BusinessFieldsAreKept
  <2>1. marker = "completed"
      BY DEF NoLegacy, LegacyInv, LegacyKeptUntilMarked, ToMigrate, FirstHas
  <2>2. Fits /\ first \in Stores /\ k \in Sources
      BY <2>1 DEF SurviveInv, RecordInv, MigratedInv, AllDecode, FirstHas
  <2>3. \A i \in 1..Len(FirstSaves(k)) :
            \E key \in DOMAIN cloud :
                key[1] = k /\ (k \notin DOMAIN EntryNeeds => key = <<k>>) /\ Kept(OldRecord(k, i), key)
      BY <2>1, <2>2, SourceIsKept
  <2>4. Len(FirstSaves(k)) = IF k \in DOMAIN EntryNeeds THEN Len(first.legacy[k].payload.entries) ELSE 1
      BY <2>2, FirstSavesHold
  <2>5. CASE k \in DOMAIN EntryNeeds
      BY <2>3, <2>4, <2>5 DEF OldRecord
  <2>6. CASE k \notin DOMAIN EntryNeeds
    <3>1. 1 \in 1..Len(FirstSaves(k)) /\ OldRecord(k, 1) = first.legacy[k].payload
        BY <2>4, <2>6 DEF OldRecord
    <3> QED
        BY <2>3, <2>6, <3>1
  <2> QED
      BY <2>5, <2>6
<1> QED
    BY <1>1, <1>2, <1>3, PTL DEF Spec
=============================================================================
