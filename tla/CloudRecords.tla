---------------------------- MODULE CloudRecords ----------------------------
(***************************************************************************)
(* The records of the fota.* keys, as their serialiser writes and reads    *)
(* them.  A record is a function from field names to values; each kind has *)
(* the fields a reader insists on and those for which it has a default.    *)
(* There is no migration of these keys: one version is written and read.   *)
(***************************************************************************)
EXTENDS Envelope

CloudVersion == 1

(* The default of an optional field, and of a member the writer never sets.*)
Default == "default"

VehicleTaskFields ==
    [required |-> {"vehicleTaskId", "taskRevision", "targetBaselineCode", "vehicleTaskState", "frozenAtMs"},
     optional |-> {"taskSnapshotPbHex", "localDispositionResult", "superseded"}]

InventoryFields ==
    [required |-> {"mode", "inventoryRevision", "algorithm", "ecuListDigestHex", "collectedAtMs"},
     optional |-> {"baselineCode", "fotaMasterVersion", "requestPbHex", "fullRequired"}]

ConsentFields ==
    [required |-> {"vehicleTaskId", "effectiveStatus", "receiptId", "receiptExpiresAtMs"},
     optional |-> {"termsId", "termsVersion", "termsDigestHex", "termsAlgorithm", "consentTimeMs", "channel"}]

DownloadFields ==
    [required |-> {"packageId", "packageRevision", "etag", "currentOffsetBytes", "verifyStatus"},
     optional |-> {"offsetScope", "credentialExpiresAtMs", "stageResultId", "stageResultDigestHex", "ready"}]

ExecutionFields ==
    [required |-> {"vehicleTaskId", "executionId", "attemptNo", "permitId", "permitToken",
                   "controlRevision", "validUntilMs", "executionState"},
     optional |-> {"installPlanVersion", "checkpointPbHex", "offlinePolicyPbHex", "timeoutPolicyPbHex"}]

OutboxMetaFields ==
    [required |-> {"nextSequenceNo", "acceptedSequenceNo"}, optional |-> {}]

EventFields ==
    [required |-> {"sequenceNo", "eventId", "sendStatus"},
     optional |-> {"eventDigestHex", "stage", "eventStatus", "progress", "occurredAtMs",
                   "payloadSummary", "eventPbHex"}]

ControlFields ==
    [required |-> {"controlRevision"},
     optional |-> {"controlId", "action", "scope", "applyMode", "issuedAtMs", "expiresAtMs",
                   "reason", "ackStatus", "ackSequenceNo", "appliedAtMs"}]

PolicyFields ==
    [required |-> {"basePreferenceVersion", "preferenceVersion"},
     optional |-> {"localPolicyVersion", "effectivePolicyPbHex", "conflict", "effectiveAtMs"}]

LogJobFields ==
    [required |-> {"logRequestId", "objectKey", "sizeBytes", "status"},
     optional |-> {"digestHex", "algorithm", "completedAtMs"}]

FieldsOf ==
    [vehicle_task |-> VehicleTaskFields, inventory |-> InventoryFields, consent |-> ConsentFields,
     downloads |-> DownloadFields, execution |-> ExecutionFields, event_outbox_meta |-> OutboxMetaFields,
     event_outbox |-> EventFields, controls |-> ControlFields, policy |-> PolicyFields,
     log_jobs |-> LogJobFields]

CloudKinds == DOMAIN FieldsOf

Mut_CloudEncode(kind, r) ==
    Envelope(WriterVersion,
             [f \in FieldsOf[kind].required \cup FieldsOf[kind].optional \cup {"schemaVersion"} |->
                 IF f = "schemaVersion" THEN CloudVersion ELSE IF f \in DOMAIN r THEN r[f] ELSE Default])

(* Every member is written.                                                *)
CloudEncode(kind, r) ==
    Envelope(CloudVersion,
             [f \in FieldsOf[kind].required \cup FieldsOf[kind].optional \cup {"schemaVersion"} |->
                 IF f = "schemaVersion" THEN CloudVersion ELSE IF f \in DOMAIN r THEN r[f] ELSE Default])

(* decodeEnvelopeJson: an older version is refused like a newer one.       *)
JsonOfVersion(b, version) == HeaderIsReadable(b) /\ b.version = version /\ b.json

CloudDecodes(kind, b) ==
    JsonOfVersion(b, CloudVersion) /\ FieldsOf[kind].required \subseteq DOMAIN b.payload

CloudDecode(kind, b) ==
    [f \in FieldsOf[kind].required \cup FieldsOf[kind].optional |->
        IF f \in DOMAIN b.payload THEN b.payload[f] ELSE Default]
=============================================================================
