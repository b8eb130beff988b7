----------------------------- MODULE FotaConfig -----------------------------
(***************************************************************************)
(* FotaConfig::from and resolveTboxGenericTransport: which configurations  *)
(* start, and with which address of the TBOX service.                      *)
(*                                                                         *)
(* A configuration is what the snapshot of the configuration files holds:  *)
(* the integer settings present, whether a section has an unknown key or a *)
(* value of another type, the switches, and the generic_transport          *)
(* identifiers, 0 when absent.                                             *)
(***************************************************************************)
EXTENDS Integers

(* An upper bound of INT64_MAX; no setting reaches it.                     *)
Unbounded == -1

(* The allowed range and the default of every integer setting.             *)
InventorySettings ==
    [min_report_interval_ms |-> <<0, Unbounded, 300000>>,
     max_pending_requests |-> <<1, 1024, 32>>,
     dedupe_max_entries |-> <<1, 1024, 100>>,
     dedupe_ttl_ms |-> <<0, Unbounded, 3600000>>]

DiagSettings ==
    [collect_timeout_ms |-> <<1, Unbounded, 30000>>,
     retry_max_attempts |-> <<0, 10, 2>>,
     retry_backoff_ms |-> <<0, Unbounded, 1000>>]

TransportSettings ==
    [exchange_timeout_ms |-> <<1, Unbounded, 10000>>,
     max_envelope_bytes |-> <<64, Unbounded, 262144>>,
     max_payload_bytes |-> <<1, Unbounded, 262144>>,
     max_in_flight |-> <<1, 1024, 64>>,
     downlink_queue_capacity |-> <<1, 1048576, 256>>,
     downlink_workers |-> <<1, 64, 1>>,
     in_flight_ttl_ms |-> <<1, Unbounded, 30000>>,
     availability_wait_ms |-> <<1, Unbounded, 5000>>]

CloudSettings ==
    [task_check_interval_ms |-> <<1, Unbounded, 60000>>,
     event_outbox_max |-> <<1, 1048576, 4096>>,
     event_batch_max |-> <<1, 65535, 64>>,
     control_ack_timeout_ms |-> <<1, Unbounded, 5000>>,
     cloud_call_timeout_ms |-> <<1, Unbounded, 10000>>]

Sections == {InventorySettings, DiagSettings, TransportSettings, CloudSettings}
Setting(name) == LET s == CHOOSE t \in Sections : name \in DOMAIN t IN s[name]

InRange(v, range) == range[1] <= v /\ (range[2] = Unbounded \/ v <= range[2])

(* The identifiers of generic_transport: none, or all and each in range.   *)
AnyDeclared(c) == c.methodId # 0 \/ c.eventId # 0 \/ c.eventgroupId # 0

IdentifiersAreValid(c) ==
    AnyDeclared(c) =>
        /\ InRange(c.methodId, <<1, 32767>>)
        /\ InRange(c.eventId, <<32768, 65534>>)
        /\ InRange(c.eventgroupId, <<1, 65534>>)
        /\ InRange(c.interfaceMajor, <<1, 255>>)

(* FotaConfig::from returns; otherwise it throws.  A production build.     *)
Accepts(c) ==
    /\ ~c.malformed
    /\ ~c.legacySection
    /\ \A name \in DOMAIN c.settings : InRange(c.settings[name], Setting(name))
    /\ IdentifiersAreValid(c)
    /\ ~c.mockEnabled

-----------------------------------------------------------------------------
(* TBOX_METHOD_REPORT_SOFTWARE_INVENTORY                                   *)
ReportSoftwareInventory == 1

(* resolveTboxGenericTransport answers, answers that nothing is allocated, *)
(* or throws.  The configuration keeps the major version only with the     *)
(* identifiers.                                                            *)
Resolution(c) ==
    IF ~AnyDeclared(c) THEN "unallocated"
    ELSE IF \/ c.methodId = ReportSoftwareInventory
            \/ c.interfaceMajor # 1
         THEN "throws"
         ELSE "resolved"

Address(c) ==
    [method |-> c.methodId, event |-> c.eventId, eventgroup |-> c.eventgroupId, major |-> c.interfaceMajor]
=============================================================================
