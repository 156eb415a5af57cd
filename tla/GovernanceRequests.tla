-------------------------- MODULE GovernanceRequests -------------------------
(***************************************************************************)
(* The governance endpoints (routes/obligations.py, routes/features.py)    *)
(* and the runtime gate (routes/runtime.py), statement by statement.  A    *)
(* request authenticates, which locks the row of its API key until the     *)
(* transaction ends, asks for the tenant's entitlement, loads the record,  *)
(* decides on the loaded row, and sends the columns it changed together    *)
(* with its evidence event.  Requests with different keys interleave       *)
(* between any two statements.  Reading endpoints (lists, FRIA export,     *)
(* usage) change nothing and are left out, and so are requests for records *)
(* that never existed (404) and features that are registered again (409).  *)
(***************************************************************************)
EXTENDS GovernanceRecords

CONSTANTS
    Slots,            \* request threads of the dashboard
    Clients,          \* SDK clients of the gate, one request thread each
    KeyOf,            \* slot or client |-> the API key its requests carry
    Switched,         \* bound: the entitlements granted and revoked while requests run
    MaxRecords,       \* bound on the records created, features apart
    MaxSubmissions    \* bound on the submissions of a FRIA

ASSUME SlotsAreNoClients == Slots \cap Clients = {}
ASSUME SwitchedAreKeys == Switched \subseteq Entitlements

VARIABLES
    rows,             \* fria_records, incident_records, oversight_assignments
    log,              \* evidence_logs, per record
    verdict,          \* client |-> the newest row of runtime_policy_checks, by its decision
    entitled,         \* entitlements: the enabled feature keys
    tx                \* per slot and client: where its request is and what its session holds

vars == <<rows, log, verdict, entitled, tx>>

NoTx == [pc |-> "idle", op |-> "none", id |-> "none", row |-> Absent]
NoCheck == [pc |-> "idle", clean |-> TRUE, feature |-> NoFeature, system |-> NoSystem,
            decision |-> "none"]

At(s, pc) == tx[s].pc = pc
Step(s, t) == tx' = [tx EXCEPT ![s] = t]
Goto(s, pc) == Step(s, [tx[s] EXCEPT !.pc = pc])
Finish(s) == tx' = [tx EXCEPT ![s] = NoTx]

\* An UPDATE carries the columns whose value differs from the one loaded.
Merge(current, loaded, assigned) ==
    [c \in DOMAIN current |-> IF assigned[c] = loaded[c] THEN current[c] ELSE assigned[c]]

\* Fault: last_used_at is not flushed, so requests with one key overlap.
NeverLocked(k) == FALSE
KeyLocked(k) == \E s \in Slots \cup Clients : KeyOf[s] = k /\ tx[s].pc # "idle"

Created == {r \in Ids \ Features : rows[r] # Absent}

Init ==
    /\ rows = [r \in Ids |-> Absent]
    /\ log = [r \in Ids |-> NewLog]
    /\ verdict = [c \in Clients |-> "none"]
    /\ entitled \in {Entitlements, Entitlements \ Switched}
    /\ tx = [s \in Slots \cup Clients |-> IF s \in Slots THEN NoTx ELSE NoCheck]

-----------------------------------------------------------------------------
\* grant_entitlement and revoke_entitlement, which no endpoint calls.
GrantEntitlement(key) ==
    /\ entitled' = entitled \cup {key}
    /\ UNCHANGED <<rows, log, verdict, tx>>

RevokeEntitlement(key) ==
    /\ entitled' = entitled \ {key}
    /\ UNCHANGED <<rows, log, verdict, tx>>

-----------------------------------------------------------------------------
\* A request on a record.
Authenticate(s, op, r) ==
    /\ At(s, "idle") /\ ~KeyLocked(KeyOf[s])
    /\ IF op = "create"
       THEN rows[r] = Absent /\ (r \in Features \/ Cardinality(Created) < MaxRecords)
       ELSE rows[r] # Absent
    /\ op = "submit" => log[r].submitted < MaxSubmissions
    /\ Step(s, [NoTx EXCEPT !.pc = "entitle", !.op = op, !.id = r])
    /\ UNCHANGED <<rows, log, verdict, entitled>>

\* 403 without the entitlement.  The systems are there: nothing deletes one.
CheckEntitlement(s) ==
    /\ At(s, "entitle")
    /\ IF tx[s].id \notin Features /\ EntitlementFor(tx[s].id) \notin entitled THEN Finish(s)
       ELSE Goto(s, IF tx[s].op = "create" THEN "write" ELSE "load")
    /\ UNCHANGED <<rows, log, verdict, entitled>>

\* 404 for a deleted record.
Load(s) ==
    /\ At(s, "load")
    /\ LET row == rows[tx[s].id] IN
           IF Kept(row) THEN Step(s, [tx[s] EXCEPT !.pc = "write", !.row = row])
           ELSE Finish(s)
    /\ UNCHANGED <<rows, log, verdict, entitled>>

\* 409 on the row as loaded; for a feature, a system that is not the tenant's (404, 403) or
\* a null for a column that must not be null, which the database refuses.
Refuse(s) ==
    /\ At(s, "write") /\ (tx[s].id \in Features \/ ~Permits(tx[s].op, tx[s].row))
    /\ Finish(s)
    /\ UNCHANGED <<rows, log, verdict, entitled>>

\* The row that an INSERT, a DELETE or an UPDATE leaves behind.
Written(op, current, loaded, new) ==
    IF op \in {"create", "delete"} THEN new ELSE Merge(current, loaded, new)

\* Flush and commit of the change with its evidence event; a record that was deleted
\* meanwhile matches no UPDATE, and everything is rolled back.
Write(s) ==
    LET t == tx[s] r == t.id IN
    /\ At(s, "write") /\ Permits(t.op, t.row)
    /\ IF t.op # "create" /\ ~Kept(rows[r]) THEN UNCHANGED <<rows, log>>
       ELSE \E new \in Results(t.op, r, t.row, log[r].submitted + 1) :
                /\ rows' = [rows EXCEPT ![r] = Written(t.op, @, t.row, new)]
                /\ log' = [log EXCEPT ![r] = Logged(r, t.op, @, new)]
    /\ Finish(s)
    /\ UNCHANGED <<verdict, entitled>>

-----------------------------------------------------------------------------
\* A policy check.
Ask(c) ==
    /\ At(c, "idle") /\ ~KeyLocked(KeyOf[c])
    /\ verdict' = [verdict EXCEPT ![c] = "none"]
    /\ \E clean \in BOOLEAN, f \in Asked :
           Step(c, [NoCheck EXCEPT !.pc = "feature", !.clean = clean, !.feature = f])
    /\ UNCHANGED <<rows, log, entitled>>

ReadFeature(c) ==
    LET t == tx[c] decision == FeatureGate(t.clean, t.feature, rows) IN
    /\ At(c, "feature")
    /\ IF decision = "fria"
       THEN Step(c, [NoCheck EXCEPT !.pc = "fria", !.system = rows[t.feature].system])
       ELSE Step(c, [NoCheck EXCEPT !.pc = "record", !.decision = decision])
    /\ UNCHANGED <<rows, log, verdict, entitled>>

\* By the system of the feature as it was loaded.
ReadFria(c) ==
    /\ At(c, "fria")
    /\ Step(c, [NoCheck EXCEPT !.pc = "record", !.decision = FriaGate(tx[c].system, rows)])
    /\ UNCHANGED <<rows, log, verdict, entitled>>

RecordCheck(c) ==
    /\ At(c, "record")
    /\ verdict' = [verdict EXCEPT ![c] = tx[c].decision]
    /\ tx' = [tx EXCEPT ![c] = NoCheck]
    /\ UNCHANGED <<rows, log, entitled>>

-----------------------------------------------------------------------------
Next ==
    \/ \E key \in Switched : GrantEntitlement(key) \/ RevokeEntitlement(key)
    \/ \E s \in Slots, r \in Ids : \E op \in OpsOn(r) : Authenticate(s, op, r)
    \/ \E s \in Slots : CheckEntitlement(s) \/ Load(s) \/ Refuse(s) \/ Write(s)
    \/ \E c \in Clients : Ask(c) \/ ReadFeature(c) \/ ReadFria(c) \/ RecordCheck(c)

Spec == Init /\ [][Next]_vars

-----------------------------------------------------------------------------
TypeOK ==
    /\ rows \in [Ids -> Row \cup {Absent, Deleted}]
    /\ log \in [Ids -> LogEntry]
    /\ verdict \in [Clients -> Decisions \cup {"none"}]
    /\ entitled \subseteq Entitlements
    /\ \A s \in Slots \cup Clients : tx[s].pc = "idle" => tx[s] \in {NoTx, NoCheck}

\* The columns that the code derives say what they are derived from, after any sequence of
\* edits: a FRIA's completion counts its filled sections, an incident's deadline fits its type.
DerivedColumnsFit ==
    /\ \A r \in Frias : Kept(rows[r]) => rows[r].completion = Completion(rows[r].sections)
    /\ \A r \in Incidents : Kept(rows[r]) => rows[r].deadline = Deadline(rows[r].type)

\* The approval record of a FRIA tells the same as the evidence log: which submission was
\* decided on, and how, whatever a PATCH made of the status.
ApprovalMirrorsLog ==
    \A r \in Frias : Kept(rows[r]) =>
        rows[r].approval = [submission |-> log[r].submitted,
                            outcome |-> IF log[r].newest \in Outcomes THEN log[r].newest ELSE "none"]

\* The gate has answered a client once the decision is taken, before it is recorded.
Verdict == [c \in Clients |-> IF tx[c].pc = "record" THEN tx[c].decision ELSE verdict[c]]
Needed == [c \in Clients |-> IF tx[c].pc = "fria" THEN tx[c].system ELSE NoSystem]
Register == INSTANCE GovernanceRegister WITH verdict <- Verdict, needed <- Needed

\* Requests keep the promise of GovernanceRegister: each changes a record as if in one step,
\* and the gate answers by a feature and by the FRIAs of the system which that feature had.
KeepsRegister == Register!Spec
=============================================================================
