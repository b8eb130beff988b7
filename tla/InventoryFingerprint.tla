------------------------ MODULE InventoryFingerprint ------------------------
(***************************************************************************)
(* The canonical encoding of an inventory and the digests built on it.     *)
(*                                                                         *)
(* A byte string is a sequence of numbers; a fixed-width integer is one    *)
(* number, as are the codes of an enumeration.  SHA-256 is taken to be     *)
(* free of collisions, so a digest is the encoding it is computed from,    *)
(* and a digest put into another encoding as text is that sequence.        *)
(* An optional string is <<>> when missing and <<s>> otherwise.            *)
(***************************************************************************)
EXTENDS Naturals, SequencesExt

Absent == 0
Present == 2

(* The domains, as the one character in which they differ.                 *)
VersionDomain == <<118>>
SnapshotDomain == <<115>>
DedupeDomain == <<100>>
IdDomain(kind) == <<105>> \o (IF kind = "Vin" THEN <<118>> ELSE <<110>>)

-----------------------------------------------------------------------------
(* CanonicalEncoder                                                        *)

Field(id, state, bytes) == <<id, state, Len(bytes)>> \o bytes

StringField(id, s) == Field(id, Present, s)

Mut_OptionalField(id, o) == Field(id, Present, IF o = <<>> THEN <<>> ELSE o[1])

OptionalField(id, o) ==
    IF o = <<>> THEN Field(id, Absent, <<>>) ELSE Field(id, Present, o[1])

EnumField(id, code) == Field(id, Present, <<code>>)

ListField(id, items) == Field(id, Present, <<Len(items)>> \o FlattenSeq(items))

Canonical(domain, fields) ==
    <<Len(domain)>> \o domain \o <<Len(fields)>> \o FlattenSeq(fields)

-----------------------------------------------------------------------------
(* sortEcuIndices: by identifier, part number and software version, a      *)
(* missing one counting as an empty one.                                   *)

OrEmpty(o) == IF o = <<>> THEN <<>> ELSE o[1]

StableKey(e) == <<e.ecuId, OrEmpty(e.partNumber), OrEmpty(e.swVersion)>>

(* Lexicographic order of strings, and of keys by their strings.           *)
Before(a, b) ==
    \E n \in 0..Len(b) - 1 :
        /\ n <= Len(a) /\ SubSeq(a, 1, n) = SubSeq(b, 1, n)
        /\ n = Len(a) \/ a[n + 1] < b[n + 1]

KeyBefore(k, l) ==
    \E n \in 1..3 : Before(k[n], l[n]) /\ \A m \in 1..(n - 1) : k[m] = l[m]

Precedes(ecus, i, j) ==
    \/ KeyBefore(StableKey(ecus[i]), StableKey(ecus[j]))
    \/ StableKey(ecus[i]) = StableKey(ecus[j]) /\ i < j

Rank(ecus, i) == Cardinality({j \in DOMAIN ecus : Precedes(ecus, j, i)})

Sorted(ecus) ==
    [n \in DOMAIN ecus |-> ecus[CHOOSE i \in DOMAIN ecus : Rank(ecus, i) = n - 1]]

(* CGW-FOTA-2001: no digest is made of an inventory with such a pair.      *)
HasDuplicateKey(ecus) ==
    LET sorted == Sorted(ecus)
    IN  \E i \in 2..Len(sorted) : StableKey(sorted[i - 1]) = StableKey(sorted[i])

-----------------------------------------------------------------------------
(* The digests.                                                            *)

VersionEcu(e) ==
    Canonical(<<>>, <<StringField(1, e.ecuId), OptionalField(2, e.partNumber),
                   OptionalField(3, e.swVersion), OptionalField(4, e.hwVersion)>>)

SnapshotEcu(e) ==
    Canonical(<<>>, <<StringField(1, e.ecuId), OptionalField(2, e.partNumber),
                   OptionalField(3, e.swVersion), OptionalField(4, e.hwVersion),
                   EnumField(5, e.source), EnumField(6, e.status), OptionalField(7, e.errorCode)>>)

(* The ECUs in their order, each in its code.                              *)
EncodedEcus(ecus, code) ==
    LET sorted == Sorted(ecus) IN [i \in DOMAIN sorted |-> code[sorted[i]]]

EcusOf(s) == {s.ecus[i] : i \in DOMAIN s.ecus}

VersionFingerprint(s) ==
    Canonical(VersionDomain,
           <<EnumField(1, s.baselineSource), OptionalField(2, s.baselineId),
             StringField(3, s.registryVersion),
             ListField(4, EncodedEcus(s.ecus, [e \in EcusOf(s) |-> VersionEcu(e)]))>>)

(* Upper case for the letters a to z only.                                 *)
NormalizeVin(vin) == [i \in DOMAIN vin |-> IF vin[i] \in 97..122 THEN vin[i] - 32 ELSE vin[i]]

IdentifierDigest(kind, value) == Canonical(IdDomain(kind), <<StringField(1, value)>>)

SnapshotFingerprint(s) ==
    Canonical(SnapshotDomain,
           <<StringField(1, IdentifierDigest("Vin", NormalizeVin(s.vin))), EnumField(2, s.vinSource),
             EnumField(3, s.baselineSource), OptionalField(4, s.baselineId),
             StringField(5, s.registryVersion), EnumField(6, s.result),
             ListField(7, EncodedEcus(s.ecus, [e \in EcusOf(s) |-> SnapshotEcu(e)]))>>)

DedupeKey(canonicalization, digest, destination) ==
    Canonical(DedupeDomain,
           <<StringField(1, destination), StringField(2, canonicalization), Field(3, Present, digest)>>)
=============================================================================
