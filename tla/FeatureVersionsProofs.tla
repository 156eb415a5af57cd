------------------------ MODULE FeatureVersionsProofs ------------------------
(***************************************************************************)
(* Proofs that every safety property of FeatureVersions holds for any set  *)
(* of version ids and of fingerprints, with or without the partial index.  *)
(*                                                                         *)
(* OneApproved and CurrentIsApproved are inductive only together: a new    *)
(* version may be approved without review only when the feature has no     *)
(* current version, hence no approved one; and the current version may be  *)
(* rejected only if a second approved one exists, which never happens.     *)
(***************************************************************************)
EXTENDS FeatureVersions, FiniteSetTheorems, TLAPS

\* The core of the lifecycle: types, a single approved version, and it is the current one.
CoreInv == TypeOK /\ OneApproved /\ CurrentIsApproved

USE VersionIdsAreOrdered, NoFingerprintIsNull, PartialIndexIsBoolean

-----------------------------------------------------------------------------
(* What the row writers return. *)

LEMMA NoRowIsNotARow == NoRow \notin VersionRow
  BY DEF NoRow, VersionRow

LEMMA WritersKeepRows ==
    ASSUME NEW row \in VersionRow
    PROVE  /\ AsApproved(row) \in VersionRow
           /\ AsSuperseded(row) \in VersionRow
           /\ AsRejected(row) \in VersionRow
           /\ AsApproved(row).status = "approved"
           /\ AsSuperseded(row).status = "superseded"
           /\ AsRejected(row).status = "rejected"
           /\ AsApproved(row).fingerprint = row.fingerprint
           /\ AsSuperseded(row).fingerprint = row.fingerprint
           /\ AsRejected(row).fingerprint = row.fingerprint
           /\ AsApproved(row).number = row.number
           /\ AsSuperseded(row).number = row.number
           /\ AsRejected(row).number = row.number
           /\ AsApproved(row).stamps = {"approved_at"}
           /\ AsSuperseded(row).stamps = {"superseded_at"}
           /\ AsRejected(row).stamps = {"rejected_at"}
  BY DEF VersionRow, AsApproved, AsSuperseded, AsRejected, Statuses, Stamps

LEMMA NewRowIsARow ==
    ASSUME NEW current \in Fingerprints \cup {NoFingerprint},
           NEW fp \in Fingerprints, NEW n \in Nat \ {0}
    PROVE  /\ NewRow(current, fp, n) \in VersionRow
           /\ NewRow(current, fp, n).fingerprint = fp
           /\ NewRow(current, fp, n).number = n
           /\ NewRow(current, fp, n).status = IF Changed(current, fp) THEN "candidate" ELSE "approved"
           /\ NewRow(current, fp, n).stamps = IF Changed(current, fp) THEN {} ELSE {"approved_at"}
  BY DEF VersionRow, NewRow, Candidate, Initial, Statuses, Stamps

LEMMA RecordedRows ==
    ASSUME TypeOK
    PROVE  /\ \A v \in Recorded : v \in VersionIds /\ version[v] \in VersionRow
           /\ Approved \subseteq Recorded
           /\ \A v \in VersionIds \ Recorded : version[v] = NoRow
  BY DEF TypeOK, Recorded, Approved, NoRow

LEMMA NextNumbersArePositive ==
    ASSUME TypeOK, NEW n \in NextNumbers
    PROVE  n \in Nat \ {0}
  BY RecordedRows DEF NextNumbers, Latest, VersionRow

-----------------------------------------------------------------------------
(* What a step leaves in the table of versions. *)

LEMMA CreateEffect ==
    ASSUME TypeOK, NEW v \in VersionIds, NEW fp \in Fingerprints, CreateVersion(v, fp)
    PROVE  \E n \in NextNumbers :
             /\ version' = [version EXCEPT ![v] = NewRow(feature.fingerprint, fp, n)]
             /\ version'[v] = NewRow(feature.fingerprint, fp, n)
             /\ version'[v] \in VersionRow
             /\ \A w \in VersionIds \ {v} : version'[w] = version[w]
             /\ Recorded' = Recorded \cup {v}
             /\ Approved' = IF Changed(feature.fingerprint, fp) THEN Approved
                            ELSE Approved \cup {v}
  <1>1. PICK n \in NextNumbers :
            version' = [version EXCEPT ![v] = NewRow(feature.fingerprint, fp, n)]
    BY DEF CreateVersion
  <1>2. n \in Nat \ {0} /\ feature.fingerprint \in Fingerprints \cup {NoFingerprint}
    BY NextNumbersArePositive DEF TypeOK, FeatureRow
  <1>3. /\ version'[v] = NewRow(feature.fingerprint, fp, n)
        /\ version'[v] \in VersionRow
        /\ \A w \in VersionIds \ {v} : version'[w] = version[w]
    BY <1>1, <1>2, NewRowIsARow DEF TypeOK
  <1>4. Recorded' = Recorded \cup {v}
    BY <1>3, NoRowIsNotARow DEF Recorded
  <1>5. Approved' = IF Changed(feature.fingerprint, fp) THEN Approved ELSE Approved \cup {v}
    <2>1. version'[v].status = IF Changed(feature.fingerprint, fp) THEN "candidate" ELSE "approved"
      BY <1>2, <1>3, NewRowIsARow
    <2>2. v \notin Approved
      BY RecordedRows DEF CreateVersion
    <2>3. QED  BY <2>1, <2>2, <1>3 DEF Approved
  <1>6. QED  BY <1>1, <1>3, <1>4, <1>5

LEMMA ApproveEffect ==
    ASSUME TypeOK, NEW v \in VersionIds, ApproveFeatureVersion(v)
    PROVE  /\ v \in Recorded
           /\ version' \in [VersionIds -> VersionRow \cup {NoRow}]
           /\ version'[v] = AsApproved(version[v])
           /\ \A w \in Approved \ {v} : version'[w] = AsSuperseded(version[w])
           /\ \A w \in VersionIds \ (Approved \cup {v}) : version'[w] = version[w]
           /\ Recorded' = Recorded
           /\ Approved' = {v}
  <1>1. /\ v \in Recorded
        /\ version'[v] = AsApproved(version[v])
        /\ \A w \in Approved \ {v} : version'[w] = AsSuperseded(version[w])
        /\ \A w \in VersionIds \ (Approved \cup {v}) : version'[w] = version[w]
        /\ DOMAIN version' = VersionIds
    BY DEF ApproveFeatureVersion, Approved
  <1>2. \A w \in Recorded : version'[w] \in VersionRow
    BY <1>1, RecordedRows, WritersKeepRows
  <1>3. \A w \in VersionIds \ Recorded : version'[w] = NoRow
    BY <1>1, RecordedRows
  <1>4. version' \in [VersionIds -> VersionRow \cup {NoRow}]
    BY <1>2, <1>3 DEF ApproveFeatureVersion
  <1>5. Recorded' = Recorded
    BY <1>2, <1>3, NoRowIsNotARow DEF Recorded
  <1>6. Approved' = {v}
    <2>1. version'[v].status = "approved"
      BY <1>1, RecordedRows, WritersKeepRows
    <2>2. ASSUME NEW w \in Approved \ {v} PROVE version'[w].status = "superseded"
      <3>1. version[w] \in VersionRow
        BY RecordedRows
      <3>2. QED  BY <1>1, <3>1, WritersKeepRows
    <2>3. \A w \in VersionIds \ (Approved \cup {v}) : version'[w].status # "approved"
      BY <1>1 DEF Approved
    <2>4. QED  BY <1>1, <2>1, <2>2, <2>3 DEF Approved
  <1>7. QED  BY <1>1, <1>4, <1>5, <1>6

LEMMA RejectEffect ==
    ASSUME TypeOK, NEW v \in VersionIds, RejectFeatureVersion(v)
    PROVE  /\ v \in Recorded
           /\ version' \in [VersionIds -> VersionRow \cup {NoRow}]
           /\ version'[v] = AsRejected(version[v])
           /\ \A w \in VersionIds \ {v} : version'[w] = version[w]
           /\ Recorded' = Recorded
           /\ Approved' = Approved \ {v}
  <1>1. /\ v \in Recorded
        /\ version' = [version EXCEPT ![v] = AsRejected(version[v])]
        /\ version'[v] = AsRejected(version[v])
        /\ \A w \in VersionIds \ {v} : version'[w] = version[w]
    BY DEF RejectFeatureVersion, TypeOK
  <1>2. version' \in [VersionIds -> VersionRow \cup {NoRow}]
    BY <1>1, RecordedRows, WritersKeepRows DEF TypeOK
  <1>3. Recorded' = Recorded
    BY <1>1, RecordedRows, WritersKeepRows, NoRowIsNotARow DEF Recorded
  <1>4. Approved' = Approved \ {v}
    BY <1>1, RecordedRows, WritersKeepRows DEF Approved
  <1>5. QED  BY <1>1, <1>2, <1>3, <1>4

-----------------------------------------------------------------------------
(* The core invariant. *)

LEMMA InitCore == Init => CoreInv
  BY DEF Init, CoreInv, TypeOK, OneApproved, CurrentIsApproved, FeatureRow, PointAt,
         Recorded, Approved, NoRow

LEMMA CreateKeepsCore ==
    ASSUME CoreInv, NEW v \in VersionIds, NEW fp \in Fingerprints, CreateVersion(v, fp)
    PROVE  CoreInv'
  <1> USE DEF CoreInv
  <1>1. PICK n \in NextNumbers :
            /\ version' = [version EXCEPT ![v] = NewRow(feature.fingerprint, fp, n)]
            /\ version'[v] = NewRow(feature.fingerprint, fp, n)
            /\ version'[v] \in VersionRow
            /\ \A w \in VersionIds \ {v} : version'[w] = version[w]
            /\ Recorded' = Recorded \cup {v}
            /\ Approved' = IF Changed(feature.fingerprint, fp) THEN Approved
                           ELSE Approved \cup {v}
    BY CreateEffect
  <1>2. /\ v \notin Recorded
        /\ \A w \in Recorded : version[w].fingerprint # fp
        /\ feature' = PointAtFirst(feature, fp, v)
        /\ decision' = decision
    BY DEF CreateVersion
  <1>3. version'[v].fingerprint = fp
    BY <1>1, NextNumbersArePositive, NewRowIsARow DEF TypeOK, FeatureRow
  <1>4. TypeOK'
    BY <1>1, <1>2 DEF TypeOK, FeatureRow, PointAtFirst, PointAt
  <1>5. CASE feature.version = NoVersion
    <2>1. /\ Recorded = {} /\ Approved = {}
          /\ feature.fingerprint = NoFingerprint
      BY <1>5, RecordedRows DEF CurrentIsApproved
    <2>2. Approved' = {v} /\ feature' = [fingerprint |-> fp, version |-> v]
      BY <1>1, <1>2, <2>1 DEF Changed, PointAtFirst, PointAt
    <2>3. QED  BY <1>3, <1>4, <2>2 DEF OneApproved, CurrentIsApproved
  <1>6. CASE feature.version # NoVersion
    <2>1. /\ feature.version \in Approved /\ feature.version \in Recorded
          /\ feature.version # v
          /\ feature.fingerprint = version[feature.version].fingerprint
          /\ feature.fingerprint \in Fingerprints
      BY <1>2, <1>6, RecordedRows DEF CurrentIsApproved, VersionRow
    <2>2. Changed(feature.fingerprint, fp)
      BY <1>2, <2>1 DEF Changed
    <2>3. Approved' = Approved /\ feature' = feature
      BY <1>1, <1>2, <2>1, <2>2 DEF PointAtFirst
    <2>4. QED
      BY <1>1, <1>4, <1>6, <2>1, <2>3, RecordedRows DEF OneApproved, CurrentIsApproved
  <1>7. QED  BY <1>5, <1>6

LEMMA ApproveKeepsCore ==
    ASSUME CoreInv, NEW v \in VersionIds, ApproveFeatureVersion(v)
    PROVE  CoreInv'
  <1> USE DEF CoreInv
  <1>1. /\ v \in Recorded
        /\ version' \in [VersionIds -> VersionRow \cup {NoRow}]
        /\ version'[v] = AsApproved(version[v])
        /\ Approved' = {v}
    BY ApproveEffect
  <1>2. /\ feature' = [fingerprint |-> version[v].fingerprint, version |-> v]
        /\ decision' = [decision EXCEPT ![v] = "approve"]
    BY DEF ApproveFeatureVersion, PointAt
  <1>3. version[v].fingerprint \in Fingerprints /\ version'[v].fingerprint = version[v].fingerprint
    <2>1. version[v] \in VersionRow
      BY <1>1, RecordedRows
    <2>2. QED  BY <1>1, <2>1, WritersKeepRows DEF VersionRow
  <1>4. TypeOK'
    BY <1>1, <1>2, <1>3 DEF TypeOK, FeatureRow
  <1>5. QED
    BY <1>1, <1>2, <1>3, <1>4 DEF OneApproved, CurrentIsApproved

LEMMA RejectKeepsCore ==
    ASSUME CoreInv, NEW v \in VersionIds, RejectFeatureVersion(v)
    PROVE  CoreInv'
  <1> USE DEF CoreInv
  <1>1. /\ v \in Recorded
        /\ version' \in [VersionIds -> VersionRow \cup {NoRow}]
        /\ \A w \in VersionIds \ {v} : version'[w] = version[w]
        /\ Recorded' = Recorded
        /\ Approved' = Approved \ {v}
    BY RejectEffect
  <1>2. feature' = feature /\ feature.version # v
    <2>1. CASE RejectingCurrentApproved(feature.version = v, version[v])
      <3>1. v \in Approved /\ Approved \ {v} = {}
        BY <2>1 DEF RejectingCurrentApproved, Approved, OneApproved
      <3>2. QED  BY <2>1, <3>1 DEF RejectFeatureVersion
    <2>2. CASE ~RejectingCurrentApproved(feature.version = v, version[v])
      <3>1. feature' = feature
        BY <2>2 DEF RejectFeatureVersion
      <3>2. feature.version # v
        BY <2>2, VersionIdsAreOrdered DEF RejectingCurrentApproved, CurrentIsApproved, Approved
      <3>3. QED  BY <3>1, <3>2
    <2>3. QED  BY <2>1, <2>2
  <1>3. decision' = [decision EXCEPT ![v] = "reject"]
    BY DEF RejectFeatureVersion
  <1>4. TypeOK'
    BY <1>1, <1>2, <1>3 DEF TypeOK
  <1>5. QED
    BY <1>1, <1>2, <1>4, RecordedRows DEF OneApproved, CurrentIsApproved

LEMMA NextKeepsCore == CoreInv /\ [Next]_vars => CoreInv'
  <1> SUFFICES ASSUME CoreInv, [Next]_vars PROVE CoreInv'
    OBVIOUS
  <1>1. CASE \E v \in VersionIds, fp \in Fingerprints : CreateVersion(v, fp)
    BY <1>1, CreateKeepsCore
  <1>2. CASE \E v \in VersionIds : ApproveFeatureVersion(v)
    BY <1>2, ApproveKeepsCore
  <1>3. CASE \E v \in VersionIds : RejectFeatureVersion(v)
    BY <1>3, RejectKeepsCore
  <1>4. CASE UNCHANGED vars
    BY <1>4 DEF vars, CoreInv, TypeOK, OneApproved, CurrentIsApproved, Recorded, Approved
  <1>5. QED  BY <1>1, <1>2, <1>3, <1>4 DEF Next

\* Creating, approving and rejecting versions keep the types, the single approved version
\* and the feature's pointer to it.
THEOREM CoreHolds == Spec => []CoreInv
  BY InitCore, NextKeepsCore, PTL DEF Spec

\* The tables keep their types: rows are only ever written whole by the three operations.
THEOREM TypesHold == Spec => []TypeOK
  BY CoreHolds, PTL DEF CoreInv

\* feature_service.py leaves at most one version approved, even without the index.
THEOREM OneApprovedHolds == Spec => []OneApproved
  BY CoreHolds, PTL DEF CoreInv

\* The feature always points at an approved version once it has one.
THEOREM CurrentIsApprovedHolds == Spec => []CurrentIsApproved
  BY CoreHolds, PTL DEF CoreInv

-----------------------------------------------------------------------------
(* The properties that rest on the core. *)

\* What StampsMatchStatus says of one row.
StampOf(status) == CASE status = "approved" -> {"approved_at"}
                     [] status = "superseded" -> {"superseded_at"}
                     [] status = "rejected" -> {"rejected_at"}
                     [] OTHER -> {}

LEMMA StampsPerRow == StampsMatchStatus <=> \A v \in Recorded : version[v].stamps = StampOf(version[v].status)
  BY DEF StampsMatchStatus, StampOf

LEMMA StampsPerRowNext ==
    StampsMatchStatus' <=> \A v \in Recorded' : version'[v].stamps = StampOf(version'[v].status)
  BY DEF StampsMatchStatus, StampOf

LEMMA WritersStamp ==
    ASSUME NEW row \in VersionRow
    PROVE  /\ AsApproved(row).stamps = StampOf(AsApproved(row).status)
           /\ AsSuperseded(row).stamps = StampOf(AsSuperseded(row).status)
           /\ AsRejected(row).stamps = StampOf(AsRejected(row).status)
  BY WritersKeepRows DEF StampOf

LEMMA NextKeepsStamps == CoreInv /\ StampsMatchStatus /\ [Next]_vars => StampsMatchStatus'
  <1> SUFFICES ASSUME CoreInv, StampsMatchStatus, [Next]_vars
               PROVE  StampsMatchStatus'
    OBVIOUS
  <1> USE DEF CoreInv
  <1>0. \A v \in Recorded : version[v].stamps = StampOf(version[v].status)
    BY StampsPerRow
  <1>1. ASSUME NEW v \in VersionIds, NEW fp \in Fingerprints, CreateVersion(v, fp)
        PROVE  StampsMatchStatus'
    <2>1. PICK n \in NextNumbers :
              /\ version'[v] = NewRow(feature.fingerprint, fp, n)
              /\ \A w \in VersionIds \ {v} : version'[w] = version[w]
              /\ Recorded' = Recorded \cup {v}
      BY <1>1, CreateEffect
    <2>2. version'[v].stamps = StampOf(version'[v].status)
      BY <2>1, NextNumbersArePositive, NewRowIsARow DEF StampOf, TypeOK, FeatureRow
    <2>3. \A w \in Recorded \ {v} : version'[w] = version[w]
      BY <2>1, RecordedRows
    <2>4. QED  BY <1>0, <2>1, <2>2, <2>3, StampsPerRowNext
  <1>2. ASSUME NEW v \in VersionIds, ApproveFeatureVersion(v)
        PROVE  StampsMatchStatus'
    <2>1. ASSUME NEW w \in Recorded PROVE version'[w].stamps = StampOf(version'[w].status)
      <3>1. version[w] \in VersionRow /\ w \in VersionIds
        BY RecordedRows
      <3>2. CASE w = v
        BY <1>2, <3>1, <3>2, ApproveEffect, WritersStamp
      <3>3. CASE w # v /\ w \in Approved
        BY <1>2, <3>1, <3>3, ApproveEffect, WritersStamp
      <3>4. CASE w # v /\ w \notin Approved
        BY <1>0, <1>2, <3>1, <3>4, ApproveEffect
      <3>5. QED  BY <3>2, <3>3, <3>4
    <2>2. Recorded' = Recorded
      BY <1>2, ApproveEffect
    <2>3. QED  BY <2>1, <2>2, StampsPerRowNext
  <1>3. ASSUME NEW v \in VersionIds, RejectFeatureVersion(v)
        PROVE  StampsMatchStatus'
    <2>1. ASSUME NEW w \in Recorded PROVE version'[w].stamps = StampOf(version'[w].status)
      <3>1. version[w] \in VersionRow /\ w \in VersionIds
        BY RecordedRows
      <3>2. CASE w = v
        BY <1>3, <3>1, <3>2, RejectEffect, WritersStamp
      <3>3. CASE w # v
        BY <1>0, <1>3, <3>1, <3>3, RejectEffect
      <3>4. QED  BY <3>2, <3>3
    <2>2. Recorded' = Recorded
      BY <1>3, RejectEffect
    <2>3. QED  BY <2>1, <2>2, StampsPerRowNext
  <1>4. CASE UNCHANGED vars
    BY <1>4 DEF vars, StampsMatchStatus, Recorded
  <1>5. QED  BY <1>1, <1>2, <1>3, <1>4 DEF Next

\* Each status carries its own timestamp and no other, through any history of decisions.
THEOREM StampsHold == Spec => []StampsMatchStatus
  <1>1. Init => StampsMatchStatus
    BY DEF Init, StampsMatchStatus, Recorded
  <1>2. QED  BY <1>1, NextKeepsStamps, CoreHolds, PTL DEF Spec

\* Inductive form of the two properties about decisions: none is taken on a version
\* that does not exist.
DecisionInv ==
    /\ ApprovedNeedsDecision
    /\ RejectionStands
    /\ \A v \in VersionIds \ Recorded : decision[v] = "none"

LEMMA NextKeepsDecisions == CoreInv /\ DecisionInv /\ [Next]_vars => DecisionInv'
  <1> SUFFICES ASSUME CoreInv, DecisionInv, [Next]_vars
               PROVE  DecisionInv'
    OBVIOUS
  <1> USE DEF CoreInv
  <1>1. ASSUME NEW v \in VersionIds, NEW fp \in Fingerprints, CreateVersion(v, fp)
        PROVE  DecisionInv'
    <2>1. PICK n \in NextNumbers :
              /\ version'[v] = NewRow(feature.fingerprint, fp, n)
              /\ \A w \in VersionIds \ {v} : version'[w] = version[w]
              /\ Recorded' = Recorded \cup {v}
              /\ Approved' = IF Changed(feature.fingerprint, fp) THEN Approved
                             ELSE Approved \cup {v}
      BY <1>1, CreateEffect
    <2>2. /\ v \notin Recorded
          /\ \A w \in Recorded : version[w].fingerprint # fp
          /\ decision' = decision
      BY <1>1 DEF CreateVersion
    <2>3. /\ version'[v].number = n
          /\ version'[v].status \in {"candidate", "approved"}
      BY <2>1, NextNumbersArePositive, NewRowIsARow DEF TypeOK, FeatureRow
    <2>4. ~Changed(feature.fingerprint, fp) => n = 1
      <3>1. SUFFICES ASSUME ~Changed(feature.fingerprint, fp) PROVE Recorded = {}
        BY DEF NextNumbers
      <3>2. CASE feature.version = NoVersion
        BY <3>2 DEF CurrentIsApproved
      <3>3. CASE feature.version # NoVersion
        <4>1. /\ feature.version \in Recorded
              /\ version[feature.version].fingerprint = feature.fingerprint
              /\ feature.fingerprint \in Fingerprints
          BY <3>3, RecordedRows DEF CurrentIsApproved, VersionRow
        <4>2. feature.fingerprint = fp
          BY <3>1, <4>1 DEF Changed
        <4>3. QED  BY <2>2, <4>1, <4>2
      <3>4. QED  BY <3>2, <3>3
    <2>5. ApprovedNeedsDecision'
      <3>1. ASSUME NEW w \in Approved', w # v
            PROVE  version'[w].number = 1 \/ decision'[w] = "approve"
        <4>1. w \in Approved /\ version'[w] = version[w]
          BY <2>1, <3>1, RecordedRows
        <4>2. QED  BY <2>2, <4>1 DEF DecisionInv, ApprovedNeedsDecision
      <3>2. v \in Approved' => version'[v].number = 1
        BY <2>1, <2>2, <2>3, <2>4, RecordedRows
      <3>3. QED  BY <3>1, <3>2 DEF ApprovedNeedsDecision
    <2>6. RejectionStands'
      BY <2>1, <2>2, <2>3, RecordedRows DEF DecisionInv, RejectionStands
    <2>7. QED  BY <2>1, <2>2, <2>5, <2>6 DEF DecisionInv
  <1>2. ASSUME NEW v \in VersionIds, ApproveFeatureVersion(v)
        PROVE  DecisionInv'
    <2>1. decision' = [decision EXCEPT ![v] = "approve"] /\ decision'[v] = "approve"
      BY <1>2 DEF ApproveFeatureVersion, TypeOK
    <2>2. v \in Recorded /\ Recorded' = Recorded /\ Approved' = {v}
      BY <1>2, ApproveEffect
    <2>3. ASSUME NEW w \in Recorded
          PROVE  (decision'[w] = "reject") <=> (version'[w].status = "rejected")
      <3>1. version[w] \in VersionRow /\ w \in VersionIds
        BY RecordedRows
      <3>2. CASE w = v
        BY <1>2, <2>1, <3>1, <3>2, ApproveEffect, WritersKeepRows
      <3>3. CASE w # v /\ w \in Approved
        <4>1. version'[w].status = "superseded"
          BY <1>2, <3>1, <3>3, ApproveEffect, WritersKeepRows
        <4>2. decision'[w] = decision[w] /\ decision[w] # "reject"
          BY <2>1, <3>1, <3>3 DEF DecisionInv, RejectionStands, Approved, TypeOK
        <4>3. QED  BY <4>1, <4>2
      <3>4. CASE w # v /\ w \notin Approved
        BY <1>2, <2>1, <3>1, <3>4, ApproveEffect DEF DecisionInv, RejectionStands, TypeOK
      <3>5. QED  BY <3>2, <3>3, <3>4
    <2>4. QED
      BY <2>1, <2>2, <2>3 DEF DecisionInv, ApprovedNeedsDecision, RejectionStands, TypeOK
  <1>3. ASSUME NEW v \in VersionIds, RejectFeatureVersion(v)
        PROVE  DecisionInv'
    <2>1. decision' = [decision EXCEPT ![v] = "reject"] /\ decision'[v] = "reject"
      BY <1>3 DEF RejectFeatureVersion, TypeOK
    <2>2. /\ v \in Recorded /\ Recorded' = Recorded /\ Approved' = Approved \ {v}
          /\ \A w \in VersionIds \ {v} : version'[w] = version[w]
      BY <1>3, RejectEffect
    <2>3. version'[v].status = "rejected"
      <3>1. version[v] \in VersionRow
        BY <2>2, RecordedRows
      <3>2. QED  BY <1>3, <3>1, RejectEffect, WritersKeepRows
    <2>4. \A w \in VersionIds \ {v} : decision'[w] = decision[w]
      BY <2>1 DEF TypeOK
    <2>5. ApprovedNeedsDecision'
      BY <2>2, <2>4, RecordedRows DEF DecisionInv, ApprovedNeedsDecision
    <2>6. RejectionStands'
      BY <2>1, <2>2, <2>3, <2>4, RecordedRows DEF DecisionInv, RejectionStands
    <2>7. QED  BY <2>2, <2>4, <2>5, <2>6 DEF DecisionInv
  <1>4. CASE UNCHANGED vars
    BY <1>4 DEF vars, DecisionInv, ApprovedNeedsDecision, RejectionStands, Recorded, Approved
  <1>5. QED  BY <1>1, <1>2, <1>3, <1>4 DEF Next

LEMMA DecisionsHold == Spec => []DecisionInv
  <1>1. Init => DecisionInv
    BY DEF Init, DecisionInv, ApprovedNeedsDecision, RejectionStands, Recorded, Approved, NoRow
  <1>2. QED  BY <1>1, NextKeepsDecisions, CoreHolds, PTL DEF Spec

\* Nothing but being the first version makes a version approved without a human decision.
THEOREM ApprovedNeedsDecisionHolds == Spec => []ApprovedNeedsDecision
  BY DecisionsHold, PTL DEF DecisionInv

\* A rejected version stays rejected until it is approved, whatever runs or is superseded.
THEOREM RejectionStandsHolds == Spec => []RejectionStands
  BY DecisionsHold, PTL DEF DecisionInv

-----------------------------------------------------------------------------
(* The numbering of versions. *)

NumberingInv == VersionsNumbered /\ IsFiniteSet(Recorded)

LEMMA SameRowsSameNumbering ==
    ASSUME TypeOK, VersionsNumbered, Recorded' = Recorded,
           \A v \in Recorded : /\ version'[v].number = version[v].number
                               /\ version'[v].fingerprint = version[v].fingerprint
    PROVE  VersionsNumbered'
  BY DEF VersionsNumbered

LEMMA NextKeepsNumbering == CoreInv /\ NumberingInv /\ [Next]_vars => NumberingInv'
  <1> SUFFICES ASSUME CoreInv, NumberingInv, [Next]_vars
               PROVE  NumberingInv'
    OBVIOUS
  <1> USE DEF CoreInv
  <1>1. ASSUME NEW v \in VersionIds, NEW fp \in Fingerprints, CreateVersion(v, fp)
        PROVE  NumberingInv'
    <2>1. PICK n \in NextNumbers :
              /\ version'[v] = NewRow(feature.fingerprint, fp, n)
              /\ \A w \in VersionIds \ {v} : version'[w] = version[w]
              /\ Recorded' = Recorded \cup {v}
      BY <1>1, CreateEffect
    <2>2. v \notin Recorded /\ \A w \in Recorded : version[w].fingerprint # fp
      BY <1>1 DEF CreateVersion
    <2>3. /\ n \in Nat \ {0}
          /\ version'[v].number = n
          /\ version'[v].fingerprint = fp
      BY <2>1, NextNumbersArePositive, NewRowIsARow DEF TypeOK, FeatureRow
    <2>4. ASSUME NEW w \in Recorded
          PROVE  /\ version'[w] = version[w]
                 /\ version[w].number \in Nat
                 /\ version[w].number < n
      <3>1. version[w] \in VersionRow /\ version'[w] = version[w]
        BY <2>1, <2>2, RecordedRows
      <3>2. PICK l \in Latest : n = version[l].number + 1
        BY DEF NextNumbers
      <3>3. /\ version[l].number \in Nat
            /\ version[w].number <= version[l].number
        BY RecordedRows DEF Latest, VersionRow
      <3>4. QED  BY <3>1, <3>2, <3>3 DEF VersionRow
    <2>5. /\ IsFiniteSet(Recorded')
          /\ Cardinality(Recorded) \in Nat
          /\ Cardinality(Recorded') = Cardinality(Recorded) + 1
      BY <2>1, <2>2, FS_AddElement, FS_CardinalityType DEF NumberingInv
    <2>6. n <= Cardinality(Recorded) + 1
      <3>1. CASE Recorded = {}
        BY <2>5, <3>1 DEF NextNumbers
      <3>2. CASE Recorded # {}
        <4>1. PICK l \in Latest : n = version[l].number + 1
          BY <3>2 DEF NextNumbers
        <4>2. version[l].number \in Nat /\ version[l].number <= Cardinality(Recorded)
          BY RecordedRows DEF Latest, VersionRow, NumberingInv, VersionsNumbered
        <4>3. QED  BY <2>5, <4>1, <4>2
      <3>3. QED  BY <3>1, <3>2
    <2>7. ASSUME NEW w \in Recorded', NEW x \in Recorded',
                 \/ version'[w].number = version'[x].number
                 \/ version'[w].fingerprint = version'[x].fingerprint
          PROVE  w = x
      <3>1. CASE w = v /\ x \in Recorded
        BY <2>2, <2>3, <2>4, <2>7, <3>1
      <3>2. CASE x = v /\ w \in Recorded
        BY <2>2, <2>3, <2>4, <2>7, <3>2
      <3>3. CASE w \in Recorded /\ x \in Recorded
        BY <2>4, <2>7, <3>3 DEF NumberingInv, VersionsNumbered
      <3>4. QED  BY <2>1, <3>1, <3>2, <3>3
    <2>8. ASSUME NEW w \in Recorded'
          PROVE  version'[w].number <= Cardinality(Recorded')
      <3>1. CASE w = v
        BY <2>3, <2>5, <2>6, <3>1
      <3>2. CASE w \in Recorded
        <4>1. version[w].number <= Cardinality(Recorded)
          BY <3>2 DEF NumberingInv, VersionsNumbered
        <4>2. QED  BY <2>4, <2>5, <3>2, <4>1
      <3>3. QED  BY <2>1, <3>1, <3>2
    <2>9. QED  BY <2>5, <2>7, <2>8 DEF NumberingInv, VersionsNumbered
  <1>2. ASSUME NEW v \in VersionIds, ApproveFeatureVersion(v)
        PROVE  NumberingInv'
    <2>1. ASSUME NEW w \in Recorded
          PROVE  /\ version'[w].number = version[w].number
                 /\ version'[w].fingerprint = version[w].fingerprint
      <3>1. version[w] \in VersionRow /\ w \in VersionIds
        BY RecordedRows
      <3>2. CASE w = v
        BY <1>2, <3>1, <3>2, ApproveEffect, WritersKeepRows
      <3>3. CASE w # v /\ w \in Approved
        BY <1>2, <3>1, <3>3, ApproveEffect, WritersKeepRows
      <3>4. CASE w # v /\ w \notin Approved
        BY <1>2, <3>1, <3>4, ApproveEffect
      <3>5. QED  BY <3>2, <3>3, <3>4
    <2>2. Recorded' = Recorded
      BY <1>2, ApproveEffect
    <2>3. QED  BY <2>1, <2>2, SameRowsSameNumbering DEF NumberingInv
  <1>3. ASSUME NEW v \in VersionIds, RejectFeatureVersion(v)
        PROVE  NumberingInv'
    <2>1. ASSUME NEW w \in Recorded
          PROVE  /\ version'[w].number = version[w].number
                 /\ version'[w].fingerprint = version[w].fingerprint
      <3>1. version[w] \in VersionRow /\ w \in VersionIds
        BY RecordedRows
      <3>2. CASE w = v
        BY <1>3, <3>1, <3>2, RejectEffect, WritersKeepRows
      <3>3. CASE w # v
        BY <1>3, <3>1, <3>3, RejectEffect
      <3>4. QED  BY <3>2, <3>3
    <2>2. Recorded' = Recorded
      BY <1>3, RejectEffect
    <2>3. QED  BY <2>1, <2>2, SameRowsSameNumbering DEF NumberingInv
  <1>4. CASE UNCHANGED vars
    BY <1>4 DEF vars, NumberingInv, VersionsNumbered, Recorded
  <1>5. QED  BY <1>1, <1>2, <1>3, <1>4 DEF Next

\* Version numbers and fingerprints are never reused, and the numbers have no gap.
THEOREM VersionsNumberedHolds == Spec => []VersionsNumbered
  <1>1. Init => NumberingInv
    <2>1. Init => Recorded = {}
      BY DEF Init, Recorded
    <2>2. QED  BY <2>1, FS_EmptySet DEF NumberingInv, VersionsNumbered
  <1>2. NumberingInv => VersionsNumbered
    BY DEF NumberingInv
  <1>3. QED  BY <1>1, <1>2, NextKeepsNumbering, CoreHolds, PTL DEF Spec
=============================================================================
