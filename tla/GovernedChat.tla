---------------------------- MODULE GovernedChat ----------------------------
(***************************************************************************)
(* POST /v1/chat/completions (pipeline.py) with the tables it writes:      *)
(* feature_versions, review_tasks, evidence_logs and usage_meters, for one *)
(* tenant and one registered feature, statement by statement as PostgreSQL *)
(* runs concurrent requests at READ COMMITTED.                             *)
(*                                                                         *)
(* A request is about a subject: no feature, an unregistered one, a        *)
(* feature that may not run as asked, or one fingerprint (version) of the  *)
(* registered feature.  "No feature" is stored as the feature_id           *)
(* "unmapped_feature", which a client may also send itself: such a request *)
(* names its feature, and then neither misses one nor is looked up.        *)
(* FeatureVersions holds the lifecycle of a version in full; here the      *)
(* decisions of an administrator are one action.  Of the risk engine only  *)
(* "the pre-check is high" matters to control.                             *)
(***************************************************************************)
EXTENDS Naturals, Sequences, FiniteSets, SequencesExt, FiniteSetsExt

CONSTANTS
    Slots,                  \* request threads
    KeyOf,                  \* slot |-> the API key its requests carry
    Unmapped,               \* the feature_id "unmapped_feature"
    Unregistered,           \* feature ids that are not registered
    Suspended,              \* requests refused for status, provider or model
    Versions,               \* fingerprints of the registered feature
    FeatureIdEnforcement,
    CandidateVersionPolicy,
    PreCheckLevels,         \* the risk levels a pre-check may report
    MaxTransactions         \* bound on the transactions begun by requests

ASSUME SubjectsAreDistinct ==
    /\ Unmapped \notin Unregistered \cup Suspended \cup Versions
    /\ Unregistered \cap (Suspended \cup Versions) = {}
    /\ Suspended \cap Versions = {}
ASSUME PoliciesAreKnown ==
    /\ FeatureIdEnforcement \in {"warn", "quarantine", "block"}
    /\ CandidateVersionPolicy \in {"allow_with_warning", "quarantine", "block"}
    /\ PreCheckLevels \subseteq {"low", "medium", "high"}

Subjects == {Unmapped} \cup Unregistered \cup Suspended \cup Versions

VARIABLES
    status,     \* feature_versions: version |-> status, "unrecorded" without a row
    tasks,      \* review_tasks, in commit order
    evidence,   \* evidence_logs, in commit order
    meters,     \* usage_meters: the counts of the tenant's "governed_call" rows
    failures,   \* history: when the evidence of a failed provider call was to be written
    clock,      \* transactions begun so far
    tx          \* per slot: the request in progress

tables == <<status, tasks, evidence, meters, failures>>
vars == <<tables, clock, tx>>

\* pc: "auth" -> "govern" -> ("insert" ->) {"find" -> "record" ->} ("provider" ->) "log"
\*     -> ("usage" ->) "commit"; a provider failure starts over at "log".
NoTx == [pc |-> "idle", created |-> 0, alone |-> TRUE,
         subject |-> Unmapped, named |-> FALSE, risk |-> "none", known |-> {}, fresh |-> FALSE,
         todo |-> <<>>, seen |-> 0, count |-> 0, retry |-> FALSE, writes |-> {},
         event |-> "none", prev |-> 0, meter |-> 0]

At(s, pc) == tx[s].pc = pc
Step(s, t) == tx' = [tx EXCEPT ![s] = t]

Recorded == {v \in Versions : status[v] # "unrecorded"}
FreshStatus(known) == IF known = {} THEN "approved" ELSE "candidate"

-----------------------------------------------------------------------------
\* The decisions of the pipeline.

\* `named`: the client sent the feature_id.
Standing(subject, named, versionStatus) ==
    CASE subject = Unmapped /\ ~named -> "missing"
      [] subject = Unmapped /\ named -> "unmapped"
      [] subject \in Unregistered -> "unregistered"
      [] subject \in Suspended -> "suspended"
      [] OTHER -> versionStatus

CandidateReasons == <<"feature_fingerprint_changed", "candidate_version_requires_review">>
\* The review tasks that governance raises, in the order it raises them.
GovernanceReasons(standing) ==
    CASE standing = "missing" -> <<"missing_feature_id">>
      [] standing = "unregistered" -> <<"feature_not_registered">>
      [] standing = "suspended" -> <<"feature_not_active">>
      [] standing = "candidate" -> CandidateReasons
      [] standing = "rejected" -> <<"version_rejected">>
      [] standing = "superseded" -> <<"version_superseded">>
      [] OTHER -> <<>>

\* The event that ends the request before its risk is looked at, or "none".
GovernanceEvent(standing) ==
    CASE standing = "missing" /\ FeatureIdEnforcement = "block" ->
             "request_blocked_missing_feature"
      [] standing = "missing" /\ FeatureIdEnforcement = "quarantine" -> "request_quarantined"
      [] standing = "candidate" /\ CandidateVersionPolicy = "block" ->
             "request_blocked_candidate_version"
      [] standing = "candidate" /\ CandidateVersionPolicy = "quarantine" ->
             "request_quarantined_candidate_version"
      [] \/ standing \in {"suspended", "rejected", "superseded"}
         \/ standing = "unregistered" /\ FeatureIdEnforcement # "warn" ->
             "request_blocked_feature_policy"
      [] OTHER -> "none"

\* Where a request goes when the reasons still to record are t.todo.
Proceed(s, t) ==
    Step(s, [t EXCEPT !.pc = IF t.todo # <<>> THEN "find"
                             ELSE IF t.event = "none" THEN "provider" ELSE "log"])

Route(s, t, standing) ==
    LET verdict == GovernanceEvent(standing)
        stopped == t.risk = "high" /\ verdict = "none"
    IN  Proceed(s, [t EXCEPT
            !.todo = GovernanceReasons(standing) \o
                         (IF stopped THEN <<"high_risk_pre_check">> ELSE <<>>),
            !.event = IF stopped THEN "request_blocked_pre_check" ELSE verdict])

-----------------------------------------------------------------------------
\* Locks.  last_used_at is flushed at authentication: the key's row stays locked until
\* the request commits or rolls back.

\* Fault: a request claims its key before it has obtained it.
QueuesForKey(s) == ~At(s, "idle")
\* Fault: last_used_at is not flushed, so nothing is locked.
NeverHeld(s) == FALSE
HoldsKey(s) == ~At(s, "idle") /\ ~At(s, "auth") /\ tx[s].event # "provider_error"
KeyFree(k) == \A s \in Slots : KeyOf[s] = k => ~HoldsKey(s)

\* Another request has an uncommitted version of the feature: the unique indexes on
\* number and fingerprint make the INSERT wait.
VersionPending(s) ==
    \E o \in Slots \ {s} : tx[o].fresh /\ tx[o].event # "provider_error"
\* Fault: no unique index covers open tasks.
NoIndexOnOpenTasks(s, subject, reason) == FALSE
\* An uncommitted open task with the same key blocks the INSERT of a second one.
TaskPending(s, subject, reason) ==
    \E o \in Slots \ {s} :
        tx[o].subject = subject /\ \E w \in tx[o].writes : w.task = 0 /\ w.reason = reason
RowLocked(s, i) == \E o \in Slots \ {s} : \E w \in tx[o].writes : w.task = i

OpenTasks(subject, reason) ==
    {i \in DOMAIN tasks : /\ tasks[i].open
                          /\ tasks[i].subject = subject /\ tasks[i].reason = reason}

\* Rolled back and answered 500.
Fail(s) ==
    /\ Step(s, NoTx)
    /\ UNCHANGED <<tables, clock>>

-----------------------------------------------------------------------------
\* The permission check reads the key: the transaction, and with it the created_at of
\* whatever it inserts, begins before the key is locked.
Begin(s, subject, named, risk) ==
    /\ At(s, "idle")
    /\ named \/ subject = Unmapped
    /\ clock < MaxTransactions
    /\ clock' = clock + 1
    /\ tx' = [o \in Slots |->
                 IF o = s
                 THEN [NoTx EXCEPT !.pc = "auth", !.created = clock + 1,
                         !.alone = \A p \in Slots \ {s} : At(p, "idle"),
                         !.subject = subject, !.named = named, !.risk = risk]
                 ELSE IF At(o, "idle") THEN NoTx ELSE [tx[o] EXCEPT !.alone = FALSE]]
    /\ UNCHANGED tables

Authenticate(s) ==
    /\ At(s, "auth")
    /\ KeyFree(KeyOf[s])
    /\ Step(s, [tx[s] EXCEPT !.pc = "govern"])
    /\ UNCHANGED <<tables, clock>>

\* validate_registered_feature, up to the look-up of the fingerprint.
Govern(s) ==
    /\ At(s, "govern")
    /\ IF tx[s].subject \in Versions \ Recorded
       THEN Step(s, [tx[s] EXCEPT !.pc = "insert", !.known = Recorded])
       ELSE Route(s, tx[s], Standing(tx[s].subject, tx[s].named,
                       IF tx[s].subject \in Versions THEN status[tx[s].subject] ELSE "none"))
    /\ UNCHANGED <<tables, clock>>

\* The number read is taken if any version was recorded since.
InsertVersion(s) ==
    /\ At(s, "insert") /\ ~VersionPending(s)
    /\ Recorded = tx[s].known
    /\ Route(s, [tx[s] EXCEPT !.fresh = TRUE], FreshStatus(tx[s].known))
    /\ UNCHANGED <<tables, clock>>

InsertFails(s) ==
    /\ At(s, "insert") /\ ~VersionPending(s)
    /\ Recorded # tx[s].known
    /\ Fail(s)

\* get_or_create_open_review_task: look for the open task ...
FindTask(s) ==
    /\ At(s, "find")
    /\ LET open == OpenTasks(tx[s].subject, Head(tx[s].todo)) IN
       \/ \E i \in open :
              Step(s, [tx[s] EXCEPT !.pc = "record", !.seen = i, !.count = tasks[i].count])
       \/ open = {} /\ ~tx[s].retry /\ Step(s, [tx[s] EXCEPT !.pc = "record"])
    /\ UNCHANGED <<tables, clock>>

\* (the task that made the INSERT fail was closed before it was read again)
FindFails(s) ==
    /\ At(s, "find") /\ tx[s].retry
    /\ OpenTasks(tx[s].subject, Head(tx[s].todo)) = {}
    /\ Fail(s)

\* Fault: the row starts from zero.
UncountedSighting(reason) == [task |-> 0, reason |-> reason, count |-> 0]
FirstSighting(reason) == [task |-> 0, reason |-> reason, count |-> 1]

Sighted(s, w) ==
    Proceed(s, [tx[s] EXCEPT !.writes = @ \cup {w}, !.todo = Tail(@),
                  !.seen = 0, !.count = 0, !.retry = FALSE])

\* ... and add one to the count read, or insert it in a savepoint; if that fails, look
\* again.
RecordTask(s) ==
    LET t == tx[s]  reason == Head(t.todo) IN
    /\ At(s, "record")
    /\ \/ /\ t.seen # 0 /\ ~RowLocked(s, t.seen)
          /\ Sighted(s, [task |-> t.seen, reason |-> reason, count |-> t.count + 1])
       \/ /\ t.seen = 0 /\ ~TaskPending(s, t.subject, reason)
          /\ IF OpenTasks(t.subject, reason) = {}
             THEN Sighted(s, FirstSighting(reason))
             ELSE Step(s, [t EXCEPT !.pc = "find", !.retry = TRUE])
    /\ UNCHANGED <<tables, clock>>

ProviderAnswers(s) ==
    /\ At(s, "provider")
    /\ Step(s, [tx[s] EXCEPT !.pc = "log", !.event = "ai_request_completed"])
    /\ UNCHANGED <<tables, clock>>

\* The main transaction is rolled back; a session of its own begins for the evidence.
ProviderFails(s) ==
    /\ At(s, "provider")
    /\ clock' = clock + 1
    /\ Step(s, [tx[s] EXCEPT !.pc = "log", !.event = "provider_error", !.writes = {},
                  !.created = clock + 1])
    /\ UNCHANGED tables

\* Fault: get_last_event_hash orders by created_at ascending.
OldestEvent == {i \in DOMAIN evidence : \A j \in DOMAIN evidence :
                    evidence[i].created <= evidence[j].created}
\* order_by(created_at.desc()).first()
LastEvent == {i \in DOMAIN evidence : \A j \in DOMAIN evidence :
                  evidence[j].created <= evidence[i].created}

\* Fault: every governed request is counted, whatever became of it.
AlwaysBilled(event) == TRUE
Billed(event) == event = "ai_request_completed"

\* write_evidence_log up to the flush, and the reading half of record_usage: count holds
\* the count read.
LogEvent(s) ==
    /\ At(s, "log")
    /\ \E p \in IF LastEvent = {} THEN {0} ELSE LastEvent,
          m \in IF Billed(tx[s].event) /\ meters # <<>> THEN DOMAIN meters ELSE {0} :
           Step(s, [tx[s] EXCEPT !.pc = "commit", !.prev = p, !.meter = m,
                      !.count = IF m = 0 THEN 0 ELSE meters[m]])
    /\ UNCHANGED <<tables, clock>>

\* An UPDATE sends the new count only: a task closed meanwhile stays closed.
WithWrites(ts, subject, writes) ==
    LET updated == [i \in DOMAIN ts |->
                       IF \E w \in writes : w.task = i
                       THEN [ts[i] EXCEPT !.count = (CHOOSE w \in writes : w.task = i).count]
                       ELSE ts[i]]
        inserted == {[subject |-> subject, reason |-> w.reason, open |-> TRUE, count |-> w.count] :
                        w \in {x \in writes : x.task = 0}}
    IN  updated \o SetToSeq(inserted)

Commit(s) ==
    LET t == tx[s] IN
    /\ At(s, "commit")
    /\ t.event = "provider_error" => ~t.fresh
    /\ evidence' = Append(evidence,
           [event |-> t.event, subject |-> t.subject,
            reasons |-> {w.reason : w \in t.writes},
            prev |-> t.prev, created |-> t.created, alone |-> t.alone])
    /\ tasks' = WithWrites(tasks, t.subject, t.writes)
    /\ status' = IF t.fresh THEN [status EXCEPT ![t.subject] = FreshStatus(t.known)]
                 ELSE status
    /\ meters' = IF ~Billed(t.event) THEN meters
                 ELSE IF t.meter = 0 THEN Append(meters, 1)
                 ELSE [meters EXCEPT ![t.meter] = t.count + 1]
    /\ failures' = IF t.event = "provider_error" THEN failures \cup {t.created} ELSE failures
    /\ Step(s, NoTx)
    /\ UNCHANGED clock

\* The version the evidence refers to went with the rollback: its foreign key is violated
\* and the request is answered 500.
FailureUnrecorded(s) ==
    /\ At(s, "commit")
    /\ tx[s].event = "provider_error" /\ tx[s].fresh
    /\ failures' = failures \cup {tx[s].created}
    /\ Step(s, NoTx)
    /\ UNCHANGED <<status, tasks, evidence, meters, clock>>

-----------------------------------------------------------------------------
(* The administrator's requests, each in one step: an API key must be free for them. *)

SomeKeyFree == \E s \in Slots : At(s, "idle") /\ KeyFree(KeyOf[s])

ApproveVersion(v) ==
    /\ SomeKeyFree /\ v \in Recorded
    /\ status' = [w \in Versions |-> IF w = v THEN "approved"
                                     ELSE IF status[w] = "approved" THEN "superseded"
                                     ELSE status[w]]
    /\ UNCHANGED <<tasks, evidence, meters, failures, clock, tx>>

\* The approved version is the current one and has no replacement: 409.
RejectVersion(v) ==
    /\ SomeKeyFree /\ v \in Recorded
    /\ status[v] # "approved"
    /\ status' = [status EXCEPT ![v] = "rejected"]
    /\ UNCHANGED <<tasks, evidence, meters, failures, clock, tx>>

\* A closed task may be closed again; the UPDATE waits for a request that counts on it.
CloseReviewTask(i) ==
    /\ SomeKeyFree
    /\ \A s \in Slots : \A w \in tx[s].writes : w.task # i
    /\ tasks' = [tasks EXCEPT ![i].open = FALSE]
    /\ UNCHANGED <<status, evidence, meters, failures, clock, tx>>

-----------------------------------------------------------------------------
Init ==
    /\ status = [v \in Versions |-> "unrecorded"]
    /\ tasks = <<>> /\ evidence = <<>> /\ meters = <<>> /\ failures = {}
    /\ clock = 0
    /\ tx = [s \in Slots |-> NoTx]

Continue(s) ==
    \/ Authenticate(s) \/ Govern(s) \/ InsertVersion(s) \/ InsertFails(s)
    \/ FindTask(s) \/ FindFails(s) \/ RecordTask(s)
    \/ ProviderAnswers(s) \/ ProviderFails(s)
    \/ LogEvent(s) \/ Commit(s) \/ FailureUnrecorded(s)

Administer ==
    \/ \E v \in Versions : ApproveVersion(v) \/ RejectVersion(v)
    \/ \E i \in DOMAIN tasks : CloseReviewTask(i)

Next ==
    \/ \E s \in Slots :
           \/ \E subject \in Subjects, named \in BOOLEAN, risk \in PreCheckLevels :
                  Begin(s, subject, named, risk)
           \/ Continue(s)
    \/ Administer

\* A thread runs on, the provider call has a timeout, and whoever waits for a row lock is
\* queued for it: strong fairness for each request.
Spec == Init /\ [][Next]_vars /\ \A s \in Slots : SF_vars(Continue(s))

-----------------------------------------------------------------------------
Reasons == {"missing_feature_id", "feature_not_registered", "feature_not_active",
            "feature_fingerprint_changed", "candidate_version_requires_review",
            "version_rejected", "version_superseded", "high_risk_pre_check"}

TypeOK ==
    /\ status \in [Versions -> {"unrecorded", "candidate", "approved", "superseded", "rejected"}]
    /\ \A i \in DOMAIN tasks :
           tasks[i] \in [subject : Subjects, reason : Reasons, open : BOOLEAN, count : Nat \ {0}]
    /\ \A i \in DOMAIN evidence :
           evidence[i].subject \in Subjects /\ evidence[i].reasons \subseteq Reasons
    /\ \A m \in DOMAIN meters : meters[m] \in Nat \ {0}
    /\ clock \in Nat
    /\ DOMAIN tx = Slots

\* Counts add up to the number of single units <<row, 1>>, <<row, 2>>, ... in them.
Units(count) == UNION {{i} \X (1..count[i]) : i \in DOMAIN count}

Completed == {i \in DOMAIN evidence : evidence[i].event = "ai_request_completed"}
Usage == Cardinality(Units(meters))

Counts(subject, reason) ==
    [i \in {j \in DOMAIN tasks : tasks[j].subject = subject /\ tasks[j].reason = reason} |->
        tasks[i].count]
MetBy(subject, reason) ==
    {i \in DOMAIN evidence : evidence[i].subject = subject /\ reason \in evidence[i].reasons}

\* Under one API key no sighting is lost or invented: over the open and closed tasks of a
\* reason, the occurrence counts add up to the requests that met it.
SightingsCounted ==
    \A subject \in Subjects, reason \in Reasons :
        Cardinality(Units(Counts(subject, reason))) = Cardinality(MetBy(subject, reason))

\* Under one API key the tenant's usage is one meter row, and it reads exactly the number
\* of completed calls.
UsageMatchesCompleted ==
    meters = IF Completed = {} THEN <<>> ELSE <<Cardinality(Completed)>>

\* With any keys a tenant is never charged for more calls than were completed.
UsageNeverOvercounts == Usage <= Cardinality(Completed)

\* With any keys a subject has one open task per reason.
OneOpenTask ==
    \A subject \in Subjects, reason \in Reasons :
        Cardinality(OpenTasks(subject, reason)) <= 1

\* A completed call that no approved version covers leaves its subject under review: the
\* reviewer finds the task open, even if it was closed while requests kept coming.  Of a
\* call that names "unmapped_feature" itself nothing is promised: the code asks for nothing.
UngovernedRunLeavesOpenTask ==
    [][\A s \in Slots :
          LET subject == tx[s].subject
              open(reason) == \E i \in DOMAIN tasks' :
                  tasks'[i].open /\ tasks'[i].subject = subject /\ tasks'[i].reason = reason
          IN  At(s, "commit") /\ tx[s].event = "ai_request_completed" /\ tx'[s] = NoTx =>
                  /\ subject = Unmapped /\ ~tx[s].named => open("missing_feature_id")
                  /\ subject \in Unregistered => open("feature_not_registered")
                  /\ subject \in Versions =>
                         \/ status'[subject] = "approved"
                         \/ open("candidate_version_requires_review")]_vars

\* The chain of evidence forks only around requests that overlapped another one.
ForkNeedsOverlap ==
    \A i, j \in DOMAIN evidence :
        i # j /\ evidence[i].prev = evidence[j].prev => ~(evidence[i].alone /\ evidence[j].alone)

\* Every request is answered: no two requests wait for each other's rows or keys.
RequestsAnswered == \A s \in Slots : []<>At(s, "idle")

\* "Provider-error evidence is written independently so it survives rollback."
ProviderFailureEvidenced ==
    \A n \in failures : \E i \in DOMAIN evidence :
        evidence[i].created = n /\ evidence[i].event = "provider_error"
=============================================================================
