----------------------------- MODULE MCFotaBoot -----------------------------
(***************************************************************************)
(* Constants of the model-checking run of FotaBoot: the stores earlier     *)
(* releases and earlier starts leave behind, and configurations at the     *)
(* edges of what is accepted.                                              *)
(***************************************************************************)
EXTENDS FotaBoot

Text == [t \in {"2024-Q1"} |-> 77]

(* A record with its own value in every field, those named set.  The full  *)
(* records hold every field the ones of an earlier release could, the      *)
(* bare execution only those its reader insists on.                        *)
Filled(needs, fields) ==
    Put([f \in needs |-> f], fields)

Old(payload) == Envelope(1, payload)

Dec(n) == <<"decimal", n>>

Task == Old(Filled(VehicleTaskNeeds \cup OldOptional.vehicle_task, [taskRevision |-> Dec(3)]))
Inventory == Old(Filled(InventoryNeeds \cup OldOptional.inventory, [inventoryRevision |-> <<"text", "2024-Q1">>]))
Consent == Old(Filled(ConsentNeeds \cup OldOptional.consent, <<>>))
Downloads ==
    Old([entries |-> <<Filled(DownloadNeeds \cup OldOptional.downloads, [packageId |-> "p1", offset |-> 5]),
                       Filled(DownloadNeeds, [packageId |-> "p2", offset |-> -1])>>])
BareExecution ==
    Old(Filled(ExecutionNeeds, [controlRevision |-> Dec(2), nextSequenceNo |-> 2, acceptedSequenceNo |-> 0]))
Execution ==
    Old(Put([f \in OldOptional.execution |-> f], BareExecution.payload))
Outbox ==
    Old([nextSequenceNo |-> 3, acceptedSequenceNo |-> 1,
         entries |-> <<Filled(EventNeeds \cup {"progressPercent"}, [sequenceNo |-> 1]), Filled(EventNeeds, [sequenceNo |-> 2])>>])
Controls ==
    Old([entries |-> <<Filled(ControlNeeds, [controlRevision |-> Dec(1), commandType |-> "RESUME", applyMode |-> "IMMEDIATE"]),
                       Filled(ControlNeeds, [controlRevision |-> <<"text", "2024-Q1">>])>>])
Policy == Old(Filled(PolicyNeeds \cup OldOptional.policy, <<>>))
LogJobs == Old([entries |-> <<Filled(LogJobNeeds, [sizeBytes |-> 9])>>])

None == [k \in LegacyKinds |-> Missing]
Full ==
    [vehicle_task |-> Task, inventory |-> Inventory, consent |-> Consent, downloads |-> Downloads,
     execution |-> Execution, event_outbox |-> Outbox, controls |-> Controls, policy |-> Policy,
     log_jobs |-> LogJobs]

Store(l, c, m) == [legacy |-> l, cloud |-> c, marker |-> m]

Saved == [key \in {MetaKey} |-> CloudEncode("event_outbox_meta", [FreshMeta EXCEPT !.nextSequenceNo = 2])]
Unreadable == [key \in {<<"execution">>} |-> [Envelope(2, <<>>) EXCEPT !.version = 2]]

(* A new vehicle; everything to migrate; an execution without an outbox; a *)
(* damaged and a newer record, a record without a needed field; a vehicle  *)
(* that was migrated, without and with old keys written by a downgrade; a  *)
(* record of fota.* only a newer release can read; a downgraded vehicle    *)
(* that never had a marker; a damaged marker.                              *)
SomeStores ==
    {Store(None, <<>>, Missing),
     Store(Full, <<>>, Missing),
     Store([None EXCEPT !["execution"] = BareExecution], <<>>, Missing),
     Store([Full EXCEPT !["policy"].wellFormed = FALSE], <<>>, Missing),
     Store([Full EXCEPT !["consent"].version = 2], <<>>, Missing),
     Store([Full EXCEPT !["log_jobs"] = Old([entries |-> <<Erase(LogJobs.payload.entries[1], "objectKey")>>])], <<>>, Missing),
     Store(None, Saved, "completed"),
     Store([None EXCEPT !["execution"] = Execution, !["vehicle_task"] = Task], Saved, "completed"),
     Store(None, Unreadable, "completed"),
     Store([None EXCEPT !["execution"] = BareExecution], Saved, Missing),
     Store([None EXCEPT !["execution"] = Execution], Saved, "unreadable")}

(* The stores meet what BusinessFieldsAreKept is proved from.              *)
ASSUME StoresAreRegular == OldRecordsAreRegular

Config(settings, ids, major) ==
    [settings |-> settings, malformed |-> FALSE, legacySection |-> FALSE, mockEnabled |-> FALSE,
     cloudEnabled |-> TRUE, methodId |-> ids[1], eventId |-> ids[2], eventgroupId |-> ids[3],
     interfaceMajor |-> major]

Good == Config([max_in_flight |-> 1, downlink_workers |-> 64], <<2, 32768, 1>>, 1)

SomeConfigs ==
    {Good,
     [Good EXCEPT !.cloudEnabled = FALSE],
     Config(<<>>, <<0, 0, 0>>, 1),
     Config(<<>>, <<1, 65534, 65534>>, 1),
     Config(<<>>, <<32767, 32768, 65534>>, 2),
     Config(<<>>, <<2, 0, 1>>, 1),
     Config([downlink_workers |-> 65], <<2, 32768, 1>>, 1),
     [Good EXCEPT !.mockEnabled = TRUE],
     [Good EXCEPT !.legacySection = TRUE]}
=============================================================================
