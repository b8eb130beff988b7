-------------------------- MODULE InventoryDigests --------------------------
(***************************************************************************)
(* What the digests of an inventory tell apart.                            *)
(***************************************************************************)
EXTENDS SnapshotStore, InventoryFingerprint

CONSTANTS VersionInventories, SnapshotInventories,   \* inventories to make digests of
          Texts                                      \* identifiers and destinations

Str == Seq(Nat)
OptionalStr == {o \in Seq(Str) : Len(o) <= 1}

Ecu == [ecuId : Str, partNumber : OptionalStr, swVersion : OptionalStr, hwVersion : OptionalStr,
        source : Nat, status : Nat, errorCode : OptionalStr]

Inventory ==
    [vin : Str, vinSource : Nat, baselineSource : Nat, baselineId : OptionalStr,
     registryVersion : Str, result : Nat, ecus : Seq(Ecu)]

(* CanonicalError is thrown for any other inventory.                       *)
HasDigest(s) == s \in Inventory /\ ~HasDuplicateKey(s.ecus)

ASSUME InventoriesAssumption ==
    /\ IsFiniteSet(VersionInventories) /\ \A s \in VersionInventories : HasDigest(s)
    /\ IsFiniteSet(SnapshotInventories) /\ \A s \in SnapshotInventories : HasDigest(s)
    /\ \A t \in Texts : t \in Str

-----------------------------------------------------------------------------
(* What a digest is to tell apart: the content, with the ECUs as a set.    *)
VersionOf(e) == <<e.ecuId, e.partNumber, e.swVersion, e.hwVersion>>

VersionContent(s) ==
    <<s.baselineSource, s.baselineId, s.registryVersion, {VersionOf(e) : e \in EcusOf(s)}>>

SnapshotContent(s) ==
    <<NormalizeVin(s.vin), s.vinSource, s.baselineSource, s.baselineId, s.registryVersion,
      s.result, EcusOf(s)>>

(* No two pairs have one digest, and no two have one content.              *)
OneToOne(pairs) ==
    /\ Cardinality(pairs) = Cardinality({p[1] : p \in pairs})
    /\ Cardinality(pairs) = Cardinality({p[2] : p \in pairs})

VersionsAreNamed == OneToOne({<<VersionFingerprint(s), VersionContent(s)>> : s \in VersionInventories})

SnapshotsAreNamed == OneToOne({<<SnapshotFingerprint(s), SnapshotContent(s)>> : s \in SnapshotInventories})

Kinds == {"Vin", "DeviceSn"}

TextsAreNamed ==
    /\ \A k, l \in Kinds, v, w \in Texts :
           IdentifierDigest(k, v) = IdentifierDigest(l, w) => <<k, v>> = <<l, w>>
    /\ \A c1, d1, t1, c2, d2, t2 \in Texts :
           DedupeKey(c1, d1, t1) = DedupeKey(c2, d2, t2) => <<c1, d1, t1>> = <<c2, d2, t2>>

VersionDigests == {VersionFingerprint(s) : s \in VersionInventories}
SnapshotDigests == {SnapshotFingerprint(s) : s \in SnapshotInventories}
IdDigests == {IdentifierDigest(k, v) : k \in Kinds, v \in Texts}
DedupeKeys == {DedupeKey(c, d, t) : c, d, t \in Texts}

DomainsAreSeparate ==
    /\ VersionDigests \cap (SnapshotDigests \cup IdDigests \cup DedupeKeys) = {}
    /\ SnapshotDigests \cap (IdDigests \cup DedupeKeys) = {}
    /\ IdDigests \cap DedupeKeys = {}

(* The version digest depends on baseline, registry and the versions of    *)
(* the ECUs, on all of them and on nothing else: not on the order in which *)
(* DIAG lists the ECUs.  The snapshot digest adds VIN, sources, status,    *)
(* error codes and result.  No digest is that of another value of its      *)
(* kind, or of another kind ("must not share a namespace"); all in         *)
(* inventory_fingerprint.hpp.  No step changes that: it is evaluated       *)
(* before the first boot.                                                  *)
DigestsNameContent ==
    boots = 0 => VersionsAreNamed /\ SnapshotsAreNamed /\ TextsAreNamed /\ DomainsAreSeparate
=============================================================================
