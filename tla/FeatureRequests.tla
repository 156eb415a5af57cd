--------------------------- MODULE FeatureRequests ---------------------------
(***************************************************************************)
(* The same tables under concurrent requests, statement by statement, as   *)
(* PostgreSQL runs them at READ COMMITTED.  A request                      *)
(*   - authenticates first: authenticate_api_key flushes last_used_at, so  *)
(*     the api_keys row stays locked until the request commits or rolls    *)
(*     back, and requests with the same key run one after the other;       *)
(*   - keeps the rows it loads in its session (autoflush=False, identity   *)
(*     map) and later decides on them, however old they are;               *)
(*   - sends only the columns it changed (the unit of work).               *)
(* Only an INSERT is held open across other requests' steps, because the   *)
(* provider call follows it; the UPDATEs of a decision are flushed and     *)
(* committed with nothing in between, hence in one step.                   *)
(***************************************************************************)
EXTENDS FeatureVersions

CONSTANTS
    Slots,   \* request threads of the two gunicorn workers
    KeyOf    \* slot |-> the API key its requests carry

VARIABLE tx     \* per slot: where its request is and what its session holds

rcVars == <<feature, version, decision, tx>>

Ops == {"execute", "approve", "reject"}

\* pc: "idle", then by operation
\*   execute: "find" -> ("insert" ->) "provider" -> "idle"
\*   approve, reject: "load" -> ("others" ->) "write" -> "idle"
\* The session's ai_features row counts only for its fingerprint (execute: `loaded`) or
\* for pointing at the version decided on (approve, reject: `wasCurrent`).
NoTx == [pc |-> "idle", op |-> "none", fp |-> NoFingerprint, loaded |-> NoFingerprint,
         target |-> NoVersion, number |-> 0, wasCurrent |-> FALSE,
         seenRow |-> NoRow, others |-> <<>>]

At(s, pc) == tx[s].pc = pc
Step(s, t) == tx' = [tx EXCEPT ![s] = t]
Finish(s) == tx' = [tx EXCEPT ![s] = NoTx]

\* A row inserted and not yet committed, seen by no one else but by the unique indexes.
Pending(s) == At(s, "provider") /\ tx[s].number # 0
PendingRow(s) == NewRow(tx[s].loaded, tx[s].fp, tx[s].number)
\* Fault: every new version becomes the current one.
EveryInsertHoldsFeature(s) == Pending(s)
\* The first version's request also holds the ai_features row.
HoldsFeature(s) == Pending(s) /\ tx[s].loaded = NoFingerprint

\* Fault: the table has no unique (tenant, feature, version number).
NumbersMayRepeat(row, other) == row.fingerprint = other.fingerprint
\* uq_feature_version_number, uq_feature_version_fingerprint and the partial index
Conflicts(row, other) ==
    \/ row.number = other.number
    \/ row.fingerprint = other.fingerprint
    \/ PartialIndex /\ row.status = "approved" /\ other.status = "approved"

\* The UPDATE of a row loaded as `seen` and left as `new`: an attribute set to the value
\* it was loaded with is not sent.
Overwrite(row, seen, new) ==
    [row EXCEPT !.status = IF new.status = seen.status THEN @ ELSE new.status,
                !.stamps = (@ \ (seen.stamps \ new.stamps)) \cup new.stamps]

-----------------------------------------------------------------------------
\* Fault: last_used_at is not flushed, so requests with one key overlap.
NeverLocked(k) == FALSE
KeyLocked(k) == \E s \in Slots : KeyOf[s] = k /\ ~At(s, "idle")

\* authenticate_api_key, then get_feature.
Authenticate(s, op) ==
    /\ At(s, "idle")
    /\ ~KeyLocked(KeyOf[s])
    /\ IF op = "execute"
       THEN \E fp \in Fingerprints :
                Step(s, [NoTx EXCEPT !.op = op, !.pc = "find", !.fp = fp,
                           !.loaded = feature.fingerprint])
       ELSE \E v \in Recorded :
                Step(s, [NoTx EXCEPT !.op = op, !.pc = "load", !.target = v,
                           !.wasCurrent = (feature.version = v)])
    /\ UNCHANGED vars

\* The fingerprint is recorded: a rejected or superseded version is refused, any other
\* one goes on to the provider.
FindRecorded(s) ==
    /\ At(s, "find")
    /\ \E v \in Recorded :
           /\ version[v].fingerprint = tx[s].fp
           /\ IF version[v].status \in {"rejected", "superseded"}
              THEN Finish(s)
              ELSE Step(s, [NoTx EXCEPT !.op = "execute", !.pc = "provider", !.target = v])
    /\ UNCHANGED vars

\* It is not: read the latest version number.
FindNone(s) ==
    /\ At(s, "find")
    /\ \A v \in Recorded : version[v].fingerprint # tx[s].fp
    /\ \E n \in NextNumbers : Step(s, [tx[s] EXCEPT !.pc = "insert", !.number = n])
    /\ UNCHANGED vars

\* A unique index makes an INSERT wait for the uncommitted row it conflicts with ...
InsertWaits(s) ==
    \E o \in Slots \ {s} :
        Pending(o) /\ (Conflicts(PendingRow(s), PendingRow(o)) \/ HoldsFeature(o))

\* ... and fail on a committed one.
InsertFails(s) ==
    /\ At(s, "insert") /\ ~InsertWaits(s)
    /\ \E w \in Recorded : Conflicts(PendingRow(s), version[w])
    /\ Finish(s)
    /\ UNCHANGED vars

InsertVersion(s) ==
    /\ At(s, "insert") /\ ~InsertWaits(s)
    /\ \A w \in Recorded : ~Conflicts(PendingRow(s), version[w])
    /\ \E v \in VersionIds \ Recorded :
           /\ \A o \in Slots : Pending(o) => tx[o].target # v
           /\ Step(s, [tx[s] EXCEPT !.pc = "provider", !.target = v])
    /\ UNCHANGED vars

\* The answer (or a block or quarantine) is recorded and the transaction commits.
CommitExecution(s) ==
    /\ At(s, "provider")
    /\ IF Pending(s)
       THEN /\ version' = [version EXCEPT ![tx[s].target] = PendingRow(s)]
            /\ feature' = IF HoldsFeature(s) THEN PointAt(tx[s].fp, tx[s].target) ELSE feature
       ELSE UNCHANGED <<feature, version>>
    /\ Finish(s)
    /\ UNCHANGED decision

\* The provider raises: run_chat_pipeline rolls everything back.
ProviderFails(s) ==
    /\ At(s, "provider")
    /\ Finish(s)
    /\ UNCHANGED vars
-----------------------------------------------------------------------------
LoadTarget(s) ==
    /\ At(s, "load")
    /\ LET t == tx[s] IN
       Step(s, [t EXCEPT !.seenRow = version[t.target],
                  !.pc = IF t.op = "approve"
                            \/ RejectingCurrentApproved(t.wasCurrent, version[t.target])
                         THEN "others" ELSE "write"])
    /\ UNCHANGED vars

\* The other approved versions: to supersede, or, for a rejection, to replace the current
\* one with; a rejection without one is answered 409.
LoadOthers(s) ==
    /\ At(s, "others")
    /\ LET others == Approved \ {tx[s].target}
           load(ids) == Step(s, [tx[s] EXCEPT !.pc = "write",
                                   !.others = [w \in ids |-> version[w]]])
       IN  \/ tx[s].op = "approve" /\ load(others)
           \/ tx[s].op = "reject" /\ \E w \in others : load({w})
           \/ tx[s].op = "reject" /\ others = {} /\ Finish(s)
    /\ UNCHANGED vars

WriteWaits(s) == \E o \in Slots \ {s} : HoldsFeature(o)

\* Fault: the migration never created the partial index.
NoPromotionConflict(s) == FALSE
\* In key order, the promotion comes after the supersessions of smaller keys only.
PromotionConflicts(s) ==
    /\ PartialIndex
    /\ tx[s].seenRow.status # "approved"
    /\ \E w \in Approved \ {tx[s].target} :
           ~(w \in DOMAIN tx[s].others /\ w < tx[s].target)

WriteApproval(s) ==
    LET t == tx[s] IN
    /\ At(s, "write") /\ t.op = "approve" /\ ~WriteWaits(s)
    /\ ~PromotionConflicts(s)
    /\ version' = [w \in VersionIds |->
                       IF w = t.target
                       THEN Overwrite(version[w], t.seenRow, AsApproved(t.seenRow))
                       ELSE IF w \in DOMAIN t.others
                       THEN Overwrite(version[w], t.others[w], AsSuperseded(t.others[w]))
                       ELSE version[w]]
    /\ feature' = IF t.wasCurrent THEN feature
                   ELSE PointAt(t.seenRow.fingerprint, t.target)
    /\ decision' = [decision EXCEPT ![t.target] = "approve"]
    /\ Finish(s)

ApprovalFails(s) ==
    /\ At(s, "write") /\ tx[s].op = "approve" /\ ~WriteWaits(s)
    /\ PromotionConflicts(s)
    /\ Finish(s)
    /\ UNCHANGED vars

WriteRejection(s) ==
    LET t == tx[s] IN
    /\ At(s, "write") /\ t.op = "reject"
    /\ version' = [version EXCEPT ![t.target] = Overwrite(@, t.seenRow, AsRejected(t.seenRow))]
    /\ IF DOMAIN t.others = {}
       THEN UNCHANGED feature
       ELSE /\ ~WriteWaits(s)
            /\ \E w \in DOMAIN t.others : feature' = PointAt(t.others[w].fingerprint, w)
    /\ decision' = [decision EXCEPT ![t.target] = "reject"]
    /\ Finish(s)
-----------------------------------------------------------------------------
RCInit == Init /\ tx = [s \in Slots |-> NoTx]

Continue(s) ==
    \/ FindRecorded(s) \/ FindNone(s)
    \/ InsertVersion(s) \/ InsertFails(s)
    \/ CommitExecution(s) \/ ProviderFails(s)
    \/ LoadTarget(s) \/ LoadOthers(s)
    \/ WriteApproval(s) \/ ApprovalFails(s) \/ WriteRejection(s)

RCNext ==
    \E s \in Slots :
        \/ \E op \in Ops : Authenticate(s, op)
        \/ Continue(s)

RCSpec == RCInit /\ [][RCNext]_rcVars

-----------------------------------------------------------------------------
\* A version that is being executed stays executable until its request commits: the
\* status read before the provider call still holds after it.
ExecutableUntilCommit ==
    \A s \in Slots :
        At(s, "provider") /\ tx[s].target \in Recorded =>
            version[tx[s].target].status \notin {"rejected", "superseded"}

\* "assert versions[1].status == candidate": a changed version is approved by nothing but a
\* decision on that version.
ApprovedWasReviewed ==
    \A v \in Approved : version[v].number = 1 \/ decision[v] # "none"
=============================================================================
