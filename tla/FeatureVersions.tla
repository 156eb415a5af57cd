--------------------------- MODULE FeatureVersions ---------------------------
(***************************************************************************)
(* The versions of one registered AI feature, as feature_service.py keeps  *)
(* them in the tables ai_features and feature_versions when each request   *)
(* runs alone, from authentication to commit.  Every query of the service  *)
(* filters on (tenant_id, feature_pk), so one feature stands for all.      *)
(*                                                                         *)
(* Column abstraction: current_prompt_hash moves with current_fingerprint  *)
(* (the prompt hash is an argument of the fingerprint), and of a timestamp *)
(* the model keeps only whether it is populated.                           *)
(***************************************************************************)
EXTENDS Naturals, FiniteSets

CONSTANTS
    VersionIds,     \* the uuid4 primary keys, numbered in their string order
    NoVersion,      \* NULL in current_feature_version_id
    Fingerprints,   \* hashes of (feature, provider, model, prompt, policy bundle)
    NoFingerprint,  \* NULL in current_fingerprint
    PartialIndex    \* TRUE: the database has uq_one_approved_version_per_feature

ASSUME VersionIdsAreOrdered == VersionIds \subseteq Nat /\ NoVersion \notin VersionIds
ASSUME NoFingerprintIsNull == NoFingerprint \notin Fingerprints
ASSUME PartialIndexIsBoolean == PartialIndex \in BOOLEAN

VARIABLES
    feature,    \* the ai_features row: current fingerprint and current version
    version,    \* the feature_versions table: primary key |-> row
    decision    \* history: the last governance decision taken on each version

vars == <<feature, version, decision>>

Statuses == {"candidate", "approved", "superseded", "rejected"}
Stamps == {"approved_at", "superseded_at", "rejected_at"}
FeatureRow == [fingerprint : Fingerprints \cup {NoFingerprint},
               version : VersionIds \cup {NoVersion}]
VersionRow == [number : Nat \ {0}, fingerprint : Fingerprints,
               status : Statuses, stamps : SUBSET Stamps]
NoRow == [number |-> 0, fingerprint |-> NoFingerprint, status |-> "absent", stamps |-> {}]

TypeOK ==
    /\ feature \in FeatureRow
    /\ version \in [VersionIds -> VersionRow \cup {NoRow}]
    /\ decision \in [VersionIds -> {"none", "approve", "reject"}]

Recorded == {v \in VersionIds : version[v] # NoRow}
\* Fault: the query for approved versions loses its status filter.
AnyRecorded == Recorded
Approved == {v \in VersionIds : version[v].status = "approved"}
Latest == {v \in Recorded : \A w \in Recorded : version[w].number <= version[v].number}

-----------------------------------------------------------------------------
\* The rows that feature_service.py writes.

Initial(fp, n) ==
    [number |-> n, fingerprint |-> fp, status |-> "approved", stamps |-> {"approved_at"}]
Candidate(fp, n) ==
    [number |-> n, fingerprint |-> fp, status |-> "candidate", stamps |-> {}]
\* Fault: the verb of the request is stored as the status.
StoredVerb(row) == [row EXCEPT !.status = "approve", !.stamps = {"approved_at"}]
AsApproved(row) == [row EXCEPT !.status = "approved", !.stamps = {"approved_at"}]
\* Fault: supersession stamps the row and forgets its status.
StampedSuperseded(row) == [row EXCEPT !.stamps = {"superseded_at"}]
AsSuperseded(row) == [row EXCEPT !.status = "superseded", !.stamps = {"superseded_at"}]
\* Fault: a rejection adds its timestamp and clears none.
RejectedKeepingStamps(row) ==
    [row EXCEPT !.status = "rejected", !.stamps = @ \cup {"rejected_at"}]
AsRejected(row) == [row EXCEPT !.status = "rejected", !.stamps = {"rejected_at"}]

PointAt(fp, v) == [fingerprint |-> fp, version |-> v]

\* bool(feature.current_fingerprint and feature.current_fingerprint != fingerprint)
Changed(current, fp) == current \notin {NoFingerprint, fp}

\* order_by(version.desc()).first(), plus one
NextNumbers == IF Recorded = {} THEN {1} ELSE {version[v].number + 1 : v \in Latest}

\* Fault: every new version is approved at once.
AlwaysInitial(current, fp, n) == Initial(fp, n)
NewRow(current, fp, n) == IF Changed(current, fp) THEN Candidate(fp, n) ELSE Initial(fp, n)

\* Only a feature without a fingerprint is pointed at the version just inserted.
PointAtFirst(ft, fp, v) == IF ft.fingerprint = NoFingerprint THEN PointAt(fp, v) ELSE ft

\* One flush emits the UPDATEs of a table in primary-key order, so the promotion of v
\* reaches the partial index while a version with a greater key is still approved.
PromotedTooEarly(v) == PartialIndex /\ \E w \in Approved \ {v} : v < w

\* Fault: the current version is not protected from rejection.
NeverProtected(isCurrent, row) == FALSE
RejectingCurrentApproved(isCurrent, row) == isCurrent /\ row.status = "approved"

-----------------------------------------------------------------------------
Init ==
    /\ feature = PointAt(NoFingerprint, NoVersion)
    /\ version = [v \in VersionIds |-> NoRow]
    /\ decision = [v \in VersionIds |-> "none"]

\* ensure_feature_version_candidate meets a fingerprint it has not recorded.
CreateVersion(v, fp) ==
    /\ v \notin Recorded
    /\ \A w \in Recorded : version[w].fingerprint # fp
    /\ PartialIndex /\ ~Changed(feature.fingerprint, fp) => Approved = {}
    /\ \E n \in NextNumbers :
           version' = [version EXCEPT ![v] = NewRow(feature.fingerprint, fp, n)]
    /\ feature' = PointAtFirst(feature, fp, v)
    /\ UNCHANGED decision

ApproveFeatureVersion(v) ==
    /\ v \in Recorded
    /\ ~PromotedTooEarly(v)
    /\ version' = [w \in VersionIds |->
                       IF w = v THEN AsApproved(version[w])
                       ELSE IF w \in Approved THEN AsSuperseded(version[w])
                       ELSE version[w]]
    /\ feature' = PointAt(version[v].fingerprint, v)
    /\ decision' = [decision EXCEPT ![v] = "approve"]

\* The current approved version may go only if another approved one can replace it.
RejectFeatureVersion(v) ==
    /\ v \in Recorded
    /\ IF RejectingCurrentApproved(feature.version = v, version[v])
       THEN \E w \in Approved \ {v} : feature' = PointAt(version[w].fingerprint, w)
       ELSE UNCHANGED feature
    /\ version' = [version EXCEPT ![v] = AsRejected(@)]
    /\ decision' = [decision EXCEPT ![v] = "reject"]

Next ==
    \E v \in VersionIds :
        \/ \E fp \in Fingerprints : CreateVersion(v, fp)
        \/ ApproveFeatureVersion(v)
        \/ RejectFeatureVersion(v)

Spec == Init /\ [][Next]_vars

-----------------------------------------------------------------------------
\* At most one version of a feature is approved: promoting one supersedes the rest.
OneApproved == \A v, w \in Approved : v = w

\* The version the feature runs under is an approved one with the feature's fingerprint,
\* and a feature has a current version from its first recorded version on.
CurrentIsApproved ==
    /\ feature.version = NoVersion => Recorded = {} /\ feature.fingerprint = NoFingerprint
    /\ feature.version # NoVersion =>
           /\ feature.version \in Approved
           /\ version[feature.version].fingerprint = feature.fingerprint

\* "Only the timestamp matching the active status should be populated."
StampsMatchStatus ==
    \A v \in Recorded :
        version[v].stamps = CASE version[v].status = "approved" -> {"approved_at"}
                              [] version[v].status = "superseded" -> {"superseded_at"}
                              [] version[v].status = "rejected" -> {"rejected_at"}
                              [] OTHER -> {}

\* An AI change runs as approved only after a human approved that version: the first
\* version alone is approved by being first.
ApprovedNeedsDecision ==
    \A v \in Approved : version[v].number = 1 \/ decision[v] = "approve"

\* A version is rejected exactly as long as its last decision is a rejection: no later
\* request or supersession brings it back or hides it.
RejectionStands ==
    \A v \in Recorded : decision[v] = "reject" <=> version[v].status = "rejected"

\* No two versions share a number or a fingerprint, and the numbers have no gap.
VersionsNumbered ==
    /\ \A v, w \in Recorded :
           \/ version[v].number = version[w].number
           \/ version[v].fingerprint = version[w].fingerprint
           => v = w
    /\ \A v \in Recorded : version[v].number <= Cardinality(Recorded)

\* Whatever version an administrator picks, its approval can be written.
ApprovalCanBeWritten == \A v \in Recorded : ~PromotedTooEarly(v)
=============================================================================
