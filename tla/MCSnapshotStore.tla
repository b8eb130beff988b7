-------------------------- MODULE MCSnapshotStore --------------------------
(***************************************************************************)
(* Constants of the model-checking run of SnapshotStore: the stores older, *)
(* other and damaged releases leave behind, and the bounded inputs of the  *)
(* record formats.                                                         *)
(***************************************************************************)
EXTENDS RecordUpgrades, InventoryDigests

Entry(report, n) == [reportId |-> report, snapshotSeq |-> n, fingerprints |-> "unknown"]
Job(report, n, phase) == Put(Entry(report, n), [phase |-> phase])

SequenceV0 == Legacy("sequence", 0, [highestAllocated |-> 2])
SequenceV1 == Legacy("sequence", 1, [highestAllocated |-> 2])
SuccessV0 == Legacy("last_success", 0, Entry("r1", 2))
SuccessV1 == Legacy("last_success", 1, Entry("r1", 2))
DedupeV1 == Legacy("dedupe", 1, [entries |-> <<Entry("r0", 1)>>])
DedupeFull == Legacy("dedupe", 2, [entries |-> <<Entry("r0", 1), Entry("r1", 2)>>])
Done == Legacy("active_job", 1, Job("r1", 2, "CompletedPendingCleanup"))

Store(s, l, d, j) == [sequence |-> s, last_success |-> l, dedupe |-> d, active_job |-> j]

(* A new vehicle; one release after another; the window full or complete;  *)
(* another report's success; each key damaged, newer or undecodable; a     *)
(* sequence behind the last success.                                       *)
SomeStores ==
    {Store(Missing, Missing, Missing, Missing),
     Store(SequenceV0, SuccessV0, DedupeV1, Done),
     Store(SequenceV1, SuccessV1, DedupeFull, Done),
     Store(SequenceV1, SuccessV1, Missing, Legacy("active_job", 0, Job("r2", 2, "CompletedPendingCleanup"))),
     Store(SequenceV1, SuccessV1, DedupeV1, NotJson(Done)),
     Store(SequenceV1, Newer(SuccessV1), DedupeV1, Done),
     Store(SequenceV1, NotJson(SuccessV1), Newer(DedupeV1), Done),
     Store(SequenceV1, SuccessV1, Damaged(DedupeV1), Done),
     Store(Damaged(SequenceV1), SuccessV1, DedupeV1, Done),
     Store(NotJson(SequenceV0), SuccessV1, DedupeV1, Done),
     Store(Legacy("sequence", 1, [highestAllocated |-> 1]), SuccessV1, DedupeV1, Done)}
    \cup {Store(SequenceV1, SuccessV1, DedupeV1, Legacy("active_job", 2, Job("r2", n, phase))) :
             n \in {0, 2}, phase \in {"Accepted", "SubmitPrepared", "SubmitUnknown"}}

(* Records of each key to write and read.                                  *)
SomeRecords ==
    [k \in Keys |->
        CASE k = "sequence" -> {[highestAllocated |-> n] : n \in 0..2}
          [] k = "last_success" -> {[Entry("r1", n) EXCEPT !.fingerprints = f] : n \in 0..2, f \in {"unknown", "sha256"}}
          [] k = "dedupe" -> {[entries |-> es] : es \in {<<>>, <<Entry("r1", 1)>>, <<Entry("r1", 1), Entry("r2", 2)>>}}
          [] k = "active_job" -> {Job("r1", n, phase) : n \in 0..1, phase \in Phases}]

-----------------------------------------------------------------------------
(* Inventories for the digests: short strings, some of which look like the *)
(* header of a field, optional ones missing, empty or present.             *)
SomeTexts == {<<>>, <<2>>, <<2, 0>>}
Optional(texts) == {<<>>} \cup {<<t>> : t \in texts}

Lists(ecus) ==
    {<<>>} \cup {<<e>> : e \in ecus} \cup {l \in ecus \X ecus : ~HasDuplicateKey(l)}

SomeVersionEcus ==
    [ecuId : {<<>>, <<2>>}, partNumber : Optional({<<>>, <<2>>}), swVersion : Optional({<<2>>}),
     hwVersion : Optional({<<>>}), source : {1}, status : {1}, errorCode : {<<>>}]

SomeVersionInventories ==
    [vin : {<<65>>}, vinSource : {1}, baselineSource : {1}, baselineId : Optional(SomeTexts),
     registryVersion : {<<>>, <<2>>}, result : {1, 2}, ecus : Lists(SomeVersionEcus)]

SomeSnapshotEcus ==
    [ecuId : {<<>>, <<2>>}, partNumber : Optional({<<>>}), swVersion : {<<>>}, hwVersion : {<<>>},
     source : {1, 2}, status : {1, 4}, errorCode : Optional({<<2>>})]

SomeSnapshotInventories ==
    [vin : {<<65>>, <<97>>, <<66>>}, vinSource : {1, 2}, baselineSource : {1, 3}, baselineId : Optional({<<>>}),
     registryVersion : {<<2>>}, result : {1, 2}, ecus : Lists(SomeSnapshotEcus)]
=============================================================================
