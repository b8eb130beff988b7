------------------------------ MODULE Envelope ------------------------------
(***************************************************************************)
(* The versioned envelope around every durable record.                     *)
(*                                                                         *)
(* An envelope keeps what the readers decide on: whether its bytes form a  *)
(* header (magic, size and declared length), the reader version it asks    *)
(* for, the schema version, whether the payload is JSON, and the payload   *)
(* as a function from the fields present to their values.                  *)
(***************************************************************************)
EXTENDS Naturals, Sequences

WriterVersion == 2
MinReaderVersion == 0

(* What encodeEnvelope makes of a payload.                                 *)
Envelope(version, payload) ==
    [wellFormed |-> TRUE, minReader |-> MinReaderVersion, version |-> version,
     json |-> TRUE, payload |-> payload]

(* parseEnvelopeHeader returns; otherwise it throws.                       *)
HeaderIsReadable(b) == b.wellFormed /\ b.minReader <= WriterVersion

(* Payloads: fields are added when absent, set, or erased.                 *)

Fill(payload, defaults) ==
    [f \in DOMAIN payload \cup DOMAIN defaults |->
        IF f \in DOMAIN payload THEN payload[f] ELSE defaults[f]]

Put(payload, fields) == Fill(fields, payload)

Erase(payload, field) == [f \in DOMAIN payload \ {field} |-> payload[f]]

(* The value of a field that holds a JSON array.                           *)
IsList(s) == Len(s) \in Nat /\ DOMAIN s = 1..Len(s)
=============================================================================
