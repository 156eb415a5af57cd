------------------------------ MODULE Workspace ------------------------------
(***************************************************************************)
(* The compliance workspace of one tenant: AI systems and their reviews,   *)
(* intakes, controls, evidence items and artifacts, website scans, their   *)
(* conversion, and reports.  Requests run in gunicorn workers.  A plain    *)
(* endpoint runs in a thread; the two async endpoints, website scan and    *)
(* artifact upload, run in their worker's event loop and call the database *)
(* from it.  A request authenticates, which locks the row of its API key   *)
(* until its transaction ends, reads what it needs, and commits once.      *)
(* Reading endpoints change nothing and are left out.                      *)
(***************************************************************************)
EXTENDS SiteScan, EvidenceVault

CONSTANTS
    Slots,            \* concurrent requests
    KeyOf,            \* slot |-> the API key of its requests
    WorkerOf,         \* slot |-> the worker process that serves them
    Workers,
    Backends,         \* where artifacts are stored, by GCS_BUCKET: "gcs" or "database"
    StartUrls,        \* pages that a scan is asked for
    CompliancePaths,  \* the pages that a scan tries on every site
    AiPages,          \* pages with "ai" in their address
    Web,              \* page |-> the answers a fetch may get, Unreadable or a page
    Unreadable,
    RenderedAs,       \* page |-> what a browser makes of it
    MaxPages,         \* max_pages of a scan
    Questionnaires,   \* bound: the answers of intakes made by hand
    OwnKeys,          \* bound: the keys of controls made by hand
    OpsOf,            \* bound: slot |-> the operations it serves
    InitialDb,        \* the databases to start from
    MaxRequests       \* bound on the requests served

VARIABLES
    db,               \* the committed tables
    bucket,           \* the objects stored in GCS
    tx,               \* slot |-> where its request is and what it has read
    served            \* the number of requests begun

vars == <<db, bucket, tx, served>>

AsyncOps == {"scan", "upload"}
SystemOps == {"create_system", "update_system", "review_system"}
ControlOps == {"control_plan", "create_control", "apply_templates", "seed_baseline",
               "update_control", "review_control"}
ItemOps == {"create_item", "update_item", "attach_item", "upload"}
ScanOps == {"scan", "convert", "scan_report"}
Ops == SystemOps \cup ControlOps \cup ItemOps \cup ScanOps \cup {"create_intake", "report"}

ASSUME InputsAreKnown ==
    /\ Questionnaires \subseteq SUBSET Questions
    /\ \A s \in Slots : OpsOf[s] \subseteq Ops

NoTx == [pc |-> "idle", op |-> "none", read |-> None, data |-> None]
At(s, pc) == tx[s].pc = pc
Writing(s, op) == At(s, "write") /\ tx[s].op = op
Read(s) == tx[s].read
Step(s, t) == tx' = [tx EXCEPT ![s] = t]

\* Flush and commit.
Commit(s, tables) ==
    /\ db' = tables
    /\ Step(s, NoTx)
    /\ UNCHANGED <<bucket, served>>

\* An UPDATE carries the columns whose value differs from the one loaded.
Merge(current, loaded, assigned) ==
    [c \in DOMAIN current |-> IF assigned[c] = loaded[c] THEN current[c] ELSE assigned[c]]

\* Fault: last_used_at is not flushed, so requests with one key overlap.
NeverLocked(k) == FALSE
KeyLocked(k) == \E s \in Slots : KeyOf[s] = k /\ tx[s].pc \notin {"idle", "blocked"}

\* An async endpoint occupies the event loop of its worker except while it awaits.
LoopBusy(w) == \E s \in Slots : /\ WorkerOf[s] = w
                                /\ tx[s].op \in AsyncOps
                                /\ tx[s].pc \in {"blocked", "store", "write"}
LoopFree(s) == ~LoopBusy(WorkerOf[s])

ChangesNoRow == UNCHANGED <<db, bucket, served>>

Init ==
    /\ db \in InitialDb
    /\ bucket = {}
    /\ tx = [s \in Slots |-> NoTx]
    /\ served = 0

-----------------------------------------------------------------------------
\* How a request begins and ends.  The event loop dispatches it; a thread waits for the
\* key's lock and goes on to its SELECTs, an async endpoint waits with its event loop.
Begun(op) ==
    CASE op = "scan" -> [NoTx EXCEPT !.pc = "start", !.op = op]
      [] op = "upload" -> [NoTx EXCEPT !.pc = "receive", !.op = op]
      [] OTHER -> [NoTx EXCEPT !.pc = "write", !.op = op, !.read = db]

Authenticate(s, op) ==
    /\ At(s, "idle") /\ served < MaxRequests /\ LoopFree(s)
    /\ ~KeyLocked(KeyOf[s])
    /\ Step(s, Begun(op))
    /\ served' = served + 1
    /\ UNCHANGED <<db, bucket>>

BlockLoop(s, op) ==
    /\ At(s, "idle") /\ served < MaxRequests /\ LoopFree(s)
    /\ op \in AsyncOps /\ KeyLocked(KeyOf[s])
    /\ Step(s, [NoTx EXCEPT !.pc = "blocked", !.op = op])
    /\ served' = served + 1
    /\ UNCHANGED <<db, bucket>>

Unblock(s) ==
    /\ At(s, "blocked") /\ ~KeyLocked(KeyOf[s])
    /\ Step(s, Begun(tx[s].op))
    /\ ChangesNoRow

\* An error at any statement, the checks that end in 4xx among them.  get_db closes the
\* session, which rolls back and releases the key, when the event loop comes to it.
Fail(s) ==
    /\ tx[s].pc \notin {"idle", "blocked", "failed"}
    /\ Step(s, [NoTx EXCEPT !.pc = "failed"])
    /\ ChangesNoRow

\* Fault: the session of a failed request is left open.
LeaveOpen(s) == At(s, "failed") /\ UNCHANGED vars
CloseSession(s) ==
    /\ At(s, "failed") /\ LoopFree(s)
    /\ Step(s, NoTx)
    /\ ChangesNoRow

\* gunicorn kills a worker whose event loop did not report for 120 seconds.
KillWorker(w) ==
    /\ LoopBusy(w)
    /\ tx' = [s \in Slots |-> IF WorkerOf[s] = w THEN NoTx ELSE tx[s]]
    /\ ChangesNoRow

-----------------------------------------------------------------------------
\* AI systems and intakes.
System(review) == [review |-> review, reviewed |-> FALSE]
ReviewStatuses == {"not_started", "scheduled", "in_review", "completed", "overdue"}
SystemIds(tables) == DOMAIN tables.systems
LinkableSystems(tables) == SystemIds(tables) \cup {None}
NewSystemId(tables) == Len(tables.systems) + 1
WithSystem(tables, system) == [tables EXCEPT !.systems = Append(@, system)]

\* With the default review status.
CreateAiSystem(s) ==
    /\ Writing(s, "create_system")
    /\ Commit(s, WithSystem(db, System("not_started")))

UpdateAiSystem(s) ==
    /\ Writing(s, "update_system")
    /\ \E i \in SystemIds(Read(s)), review \in {"scheduled", "completed"} :
           LET row == Read(s).systems[i] IN
           Commit(s, [db EXCEPT !.systems[i] = Merge(@, row, [row EXCEPT !.review = review])])

\* record_ai_system_review with at most one follow-up action.  An action links a control or
\* an item of the same system or of none, or has a placeholder created (bound: the reviews
\* with an action are those that need follow-up).
AfterReview(system, status) ==
    [review |-> CASE status = "needs_follow_up" -> "in_review" [] OTHER -> status,
     reviewed |-> system.reviewed \/ status \in {"completed", "needs_follow_up"}]

Review(system, control, item) == [system |-> system, control |-> control, item |-> item]

Reviewed(s, i, status, tables, review) ==
    Commit(s, [tables EXCEPT !.reviews = Append(@, review),
                             !.systems[i] = Merge(@, Read(s).systems[i],
                                                  AfterReview(Read(s).systems[i], status))])

FollowUpFits(linked, i) == linked \in {None, i}

\* Of the seeded controls of a system any one stands for all: they differ in their keys.
Representatives(register) ==
    {CHOOSE other \in DOMAIN register : /\ other.system = id.system
                                       /\ register[other].details.source = register[id].details.source :
        id \in DOMAIN register}

RecordAiSystemReview(s) ==
    /\ Writing(s, "review_system")
    /\ \E i \in SystemIds(Read(s)) :
           \/ \E status \in {"completed", "needs_follow_up", "scheduled"} :
                  Reviewed(s, i, status, db, Review(i, None, None))
           \/ \E control \in Representatives(Read(s).controls) :
                  /\ FollowUpFits(SystemOf(control), i)
                  /\ Reviewed(s, i, "needs_follow_up", db, Review(i, control, None))
           \/ \E item \in DOMAIN Read(s).items :
                  /\ FollowUpFits(Read(s).items[item].system, i)
                  /\ Reviewed(s, i, "needs_follow_up", db, Review(i, None, item))

FollowUpKey(tables) == Key("review_follow_up", "", Len(tables.reviews) + 1)

RecordReviewWithPlaceholder(s) ==
    /\ Writing(s, "review_system")
    /\ \E i \in SystemIds(Read(s)) :
           \/ LET id == ControlId(i, FollowUpKey(db), 0)
                  new == Control("not_started", "follow_up", "medium", None)
              IN  Reviewed(s, i, "needs_follow_up", [db EXCEPT !.controls = Inserted(@, id, new)],
                           Review(i, id, None))
           \/ \E control \in Representatives(Read(s).controls) \cup {None} :
                  /\ FollowUpFits(SystemOf(control), i)
                  /\ Reviewed(s, i, "needs_follow_up",
                        [db EXCEPT !.items = Append(@, Item(i, control, "placeholder", NoMetadata))],
                        Review(i, control, Len(db.items) + 1))

\* The answers of a converted scan name the role that was selected for it.
Intake(answers, selected) ==
    [answers |-> answers, selected |-> selected, result |-> Classified(answers)]
NewIntakeId(tables) == Len(tables.intakes) + 1

CreateIntake(s) ==
    /\ Writing(s, "create_intake")
    /\ \E answers \in Questionnaires :
           Commit(s, [db EXCEPT !.intakes = Append(@, Intake(answers, "none"))])

-----------------------------------------------------------------------------
\* Controls.
Seed(s, system, seeds) ==
    LET missing == Missing(Read(s).controls, system, seeds) IN
    /\ CanInsert(db.controls, missing)
    /\ Commit(s, [db EXCEPT !.controls = Seeded(@, missing, seeds)])

MaterializeControlPlan(s) ==
    /\ Writing(s, "control_plan")
    /\ \E n \in DOMAIN Read(s).intakes, system \in LinkableSystems(Read(s)) :
           Seed(s, system, SeedFromObligationGraph(Read(s).intakes[n].result.graph, n))

ApplyControlTemplates(s) ==
    /\ Writing(s, "apply_templates")
    /\ \E system \in LinkableSystems(Read(s)) :
           Seed(s, system, ApplyTemplates({"bias_testing_performed"}))

SeedBaselineControls(s) ==
    /\ Writing(s, "seed_baseline")
    /\ \E system \in LinkableSystems(Read(s)) : Seed(s, system, SeedBaseline)

CreateControl(s) ==
    /\ Writing(s, "create_control")
    /\ \E system \in LinkableSystems(Read(s)), key \in OwnKeys,
          status \in {"not_started"} \cup ClientStatuses, severity \in ClientSeverities :
           LET id == NewId(db.controls, system, key) IN
           /\ CanInsert(db.controls, {id})
           /\ Commit(s, [db EXCEPT !.controls =
                             Inserted(@, id, Control(status, "client", severity, None))])

EditControl(s, id, new) ==
    Commit(s, [db EXCEPT !.controls[id] = Merge(@, Read(s).controls[id], new)])

UpdateControl(s) ==
    /\ Writing(s, "update_control")
    /\ \E id \in Representatives(Read(s).controls) :
       \E new \in UpdatedControls(Read(s).controls[id]) : EditControl(s, id, new)

RecordControlReview(s) ==
    /\ Writing(s, "review_control")
    /\ \E id \in Representatives(Read(s).controls) :
       \E new \in ReviewedControls(Read(s).controls[id]) : EditControl(s, id, new)

-----------------------------------------------------------------------------
\* Evidence.
CreateItem(s) ==
    /\ Writing(s, "create_item")
    /\ \E system \in LinkableSystems(Read(s)), control \in Representatives(Read(s).controls) \cup {None},
          metadata \in ClientMetadata(DOMAIN Read(s).artifacts) :
           /\ Agree(system, control)
           /\ Commit(s, [db EXCEPT !.items = Append(@, NewItem(system, control, metadata))])

EditItem(s, i, new) ==
    Commit(s, [db EXCEPT !.items[i] = Merge(@, Read(s).items[i], new)])

UpdateItem(s) ==
    /\ Writing(s, "update_item")
    /\ \E i \in DOMAIN Read(s).items :
       LET row == Read(s).items[i] IN
       \E system \in LinkableSystems(Read(s)),
          control \in Representatives(Read(s).controls) \cup {None, row.control},
          metadata \in {row.metadata} \cup ClientMetadata(DOMAIN Read(s).artifacts) :
           /\ Agree(system, control)
           /\ EditItem(s, i, Patched(row, system, control, "edited", metadata))

AttachItemToControl(s) ==
    /\ Writing(s, "attach_item")
    /\ \E i \in DOMAIN Read(s).items, control \in Representatives(Read(s).controls) :
           /\ Agree(Read(s).items[i].system, control)
           /\ EditItem(s, i, Attached(Read(s).items[i], control))

\* An upload: the file is awaited chunk by chunk, the item is read, the object is stored,
\* and the rows follow.
ReceiveFile(s) ==
    /\ At(s, "receive") /\ LoopFree(s)
    /\ Step(s, [tx[s] EXCEPT !.pc = "store", !.read = db])
    /\ ChangesNoRow

\* Fault: an upload to the bucket that fails is not noticed.
StoreUnchecked(s) ==
    /\ At(s, "store")
    /\ \E backend \in Backends, stored \in BOOLEAN :
           LET object == Cardinality(bucket) + 1 IN
           /\ bucket' = IF backend = "gcs" /\ stored THEN bucket \cup {object} ELSE bucket
           /\ \E i \in DOMAIN Read(s).items :
                  Step(s, [tx[s] EXCEPT !.pc = "write", !.data = Artifact(i, backend, object)])
    /\ UNCHANGED <<db, served>>
StoreObject(s) ==
    /\ At(s, "store")
    /\ \E backend \in Backends, i \in DOMAIN Read(s).items :
           LET object == Cardinality(bucket) + 1 IN
           /\ bucket' = IF backend = "gcs" THEN bucket \cup {object} ELSE bucket
           /\ Step(s, [tx[s] EXCEPT !.pc = "write", !.data = Artifact(i, backend, object)])
    /\ UNCHANGED <<db, served>>

AttachArtifact(s) ==
    /\ Writing(s, "upload")
    /\ LET i == tx[s].data.item
           id == Len(db.artifacts) + 1
           row == Read(s).items[i]
       IN  Commit(s, [db EXCEPT !.artifacts = Append(@, tx[s].data),
                                !.items[i] = Merge(@, row, WithArtifact(row, id))])

-----------------------------------------------------------------------------
\* A website scan.  A host that does not resolve, or to a private address, leaves no page.
Crawl(queue) == [queue |-> queue, seen |-> {}, found |-> NothingFound, page |-> None]
StartScan(s) ==
    /\ At(s, "start") /\ LoopFree(s)
    /\ \E url \in StartUrls, public \in BOOLEAN :
           Step(s, [tx[s] EXCEPT !.pc = "crawl",
                       !.data = Crawl(IF public THEN <<url>> \o CompliancePaths ELSE <<>>)])
    /\ ChangesNoRow

CrawlDone(crawl) == crawl.queue = <<>> \/ crawl.found.pages >= MaxPages

Skipped(crawl) ==
    [crawl EXCEPT !.queue = Tail(@), !.seen = @ \cup {Head(crawl.queue)}]

\* The page is taken in, and of its links those that are neither read nor to be read.
TakenIn(crawl, page) ==
    LET url == Head(crawl.queue)
        known == crawl.seen \cup {crawl.queue[i] : i \in DOMAIN crawl.queue}
    IN  [queue |-> Tail(crawl.queue) \o SelectSeq(page.links, LAMBDA link : link \notin known),
         seen |-> crawl.seen \cup {url},
         found |-> Including(crawl.found, page, url \in AiPages),
         page |-> None]

Continue(s, pc, crawl) == Step(s, [tx[s] EXCEPT !.pc = pc, !.data = crawl])

FetchPage(s) ==
    LET crawl == tx[s].data IN
    /\ At(s, "crawl") /\ LoopFree(s) /\ ~CrawlDone(crawl)
    /\ LET url == Head(crawl.queue) IN
           IF url \in crawl.seen THEN Continue(s, "crawl", [crawl EXCEPT !.queue = Tail(@)])
           ELSE \E page \in Web[url] :
                    IF page = Unreadable THEN Continue(s, "crawl", Skipped(crawl))
                    ELSE IF page.appShell THEN Continue(s, "render", [crawl EXCEPT !.page = page])
                    ELSE Continue(s, "crawl", TakenIn(crawl, page))
    /\ ChangesNoRow

\* An app shell is rendered: the richer page is kept, and a browser that fails is noted.
RenderPage(s) ==
    LET crawl == tx[s].data IN
    /\ At(s, "render") /\ LoopFree(s)
    /\ \/ Continue(s, "crawl", TakenIn(crawl, RenderedAs[Head(crawl.queue)]))
       \/ Continue(s, "crawl", TakenIn(crawl, crawl.page))
       \/ Continue(s, "crawl", TakenIn([crawl EXCEPT !.found.failures = @ + 1], crawl.page))
    /\ ChangesNoRow

Scan(result) == [result |-> result, system |-> None, intake |-> None, role |-> "none"]
ScanResults(found) == IF found.pages = 0 THEN {Failed} ELSE Analyses(found)

EndScan(s) ==
    /\ At(s, "crawl") /\ LoopFree(s) /\ CrawlDone(tx[s].data)
    /\ \E result \in ScanResults(tx[s].data.found) :
           Commit(s, [db EXCEPT !.scans = Append(@, Scan(result))])

-----------------------------------------------------------------------------
\* The conversion of a scan into a system with its intake, controls and evidence event.
IsConverted(scan) == scan.system # None /\ scan.intake # None

RoleAgrees(tables, scan, role) ==
    IsConverted(scan) => role \in {"none", tables.intakes[scan.intake].result.role}
Convertible(tables, scan, role) == scan.result.status = "completed" /\ RoleAgrees(tables, scan, role)

SelectedRole(role) == IF role = "none" THEN "Provider" ELSE role

\* A new system and intake, linked by the scan.
Linked(tables, read, n, role) ==
    LET scan == read.scans[n]
        selected == SelectedRole(role)
        intake == Intake(AnswersForActorRole(scan.result.answers, selected), selected)
        link == [scan EXCEPT !.system = NewSystemId(tables), !.intake = NewIntakeId(tables),
                             !.role = intake.result.role]
    IN  IF IsConverted(scan) THEN tables
        ELSE [tables EXCEPT !.systems = Append(@, System("not_started")),
                            !.intakes = Append(@, intake),
                            !.scans[n] = Merge(@, scan, link)]

Event(n, system) == [scan |-> n, system |-> system]
HasEvent(tables, n, system) == \E i \in DOMAIN tables.events : tables.events[i] = Event(n, system)
EnsureConversionEvidence(tables, n, system) ==
    IF HasEvent(tables, n, system) THEN tables
    ELSE [tables EXCEPT !.events = Append(@, Event(n, system))]

Converted(tables, read, n, role) ==
    LET linked == Linked(tables, read, n, role)
        scan == linked.scans[n]
        seeds == SeedFromObligationGraph(linked.intakes[scan.intake].result.graph, scan.intake)
        missing == Missing(linked.controls, scan.system, seeds)
    IN  EnsureConversionEvidence(
            [linked EXCEPT !.controls = Seeded(@, missing, seeds)], n, scan.system)

ConvertScan(s) ==
    /\ Writing(s, "convert")
    /\ \E n \in DOMAIN Read(s).scans, role \in Roles \cup {"none"} :
           /\ Convertible(Read(s), Read(s).scans[n], role)
           /\ Commit(s, Converted(db, Read(s), n, role))

-----------------------------------------------------------------------------
\* Reports.  What the tables of other modules say is an input: whether every FRIA of the
\* scope is completed and there are any, whether there is oversight, whether each incident
\* is resolved.  The factsheet is left out: it fails before anything is written.  "origin"
\* tells how a report came by its scans: a scan's own report, the system's, or the client's.
Report(origin, system, readiness, scans) ==
    [origin |-> origin, system |-> system, readiness |-> readiness, scans |-> scans]
ScansOf(tables, system) == {n \in DOMAIN tables.scans : system # None /\ tables.scans[n].system = system}

GapsFound(tables, scans) ==
    \E n \in scans : \E gap \in tables.scans[n].result.gaps : gap.severity \in {"high", "medium"}

Readiness(tables, system, scans, frias, oversight) ==
    LET scope == InScope(tables.controls, system)
        ready == /\ frias = "completed" /\ oversight
                 /\ scope # {} /\ AllCompleted(tables.controls, scope)
    IN  IF ready THEN IF GapsFound(tables, scans) THEN "needs_attention" ELSE "ready"
        ELSE IF frias # "none" \/ oversight \/ scope # {} THEN "partially_ready"
        ELSE "needs_attention"

ReadinessReports(tables, origin, system, scans) ==
    {Report(origin, system, Readiness(tables, system, scans, frias, oversight), scans) :
        frias \in {"none", "pending", "completed"}, oversight \in BOOLEAN}

\* incident_summary, and the summaries that gather nothing.
OtherReports(system) ==
    {Report("system", system, readiness, {}) : readiness \in {"ready", "needs_attention"}}

WithReport(tables, report) == [tables EXCEPT !.reports = @ \cup {report}]

GenerateReport(s) ==
    /\ Writing(s, "report")
    /\ \E system \in LinkableSystems(Read(s)) :
       \E report \in ReadinessReports(Read(s), "system", system, ScansOf(Read(s), system))
                     \cup OtherReports(system)
                     \cup UNION {ReadinessReports(Read(s), "client", system, {n}) : n \in DOMAIN Read(s).scans} :
           Commit(s, WithReport(db, report))

\* The report of a scan converts it in the same transaction.
GenerateScanReport(s) ==
    /\ Writing(s, "scan_report")
    /\ \E n \in DOMAIN Read(s).scans, role \in Roles \cup {"none"} :
           /\ Convertible(Read(s), Read(s).scans[n], role)
           /\ LET tables == Converted(db, Read(s), n, role) IN
              \E report \in ReadinessReports(tables, "scan", tables.scans[n].system, {n}) :
                  Commit(s, WithReport(tables, report))

-----------------------------------------------------------------------------
Edit(s) ==
    \/ CreateAiSystem(s) \/ UpdateAiSystem(s)
    \/ RecordAiSystemReview(s) \/ RecordReviewWithPlaceholder(s)
    \/ CreateIntake(s) \/ MaterializeControlPlan(s)
    \/ ApplyControlTemplates(s) \/ SeedBaselineControls(s) \/ CreateControl(s)
    \/ UpdateControl(s) \/ RecordControlReview(s)
    \/ CreateItem(s) \/ UpdateItem(s) \/ AttachItemToControl(s)
    \/ ConvertScan(s) \/ GenerateReport(s) \/ GenerateScanReport(s)

Upload(s) == ReceiveFile(s) \/ StoreObject(s) \/ AttachArtifact(s)
ScanSite(s) == StartScan(s) \/ FetchPage(s) \/ RenderPage(s) \/ EndScan(s)

Serve(s) ==
    \/ Unblock(s) \/ Fail(s) \/ CloseSession(s)
    \/ Edit(s) \/ Upload(s) \/ ScanSite(s)

Next ==
    \/ \E s \in Slots : \E op \in OpsOf[s] : Authenticate(s, op) \/ BlockLoop(s, op)
    \/ \E s \in Slots : Serve(s)
    \/ \E w \in Workers : KillWorker(w)

\* A request proceeds or fails, each fetch and rendering has a timeout, and gunicorn
\* replaces a worker whose event loop stays busy.
Fairness ==
    /\ \A s \in Slots : WF_vars(Serve(s))
    /\ \A w \in Workers : WF_vars(KillWorker(w))

Spec == Init /\ [][Next]_vars /\ Fairness

-----------------------------------------------------------------------------
SystemRow == [review : ReviewStatuses, reviewed : BOOLEAN]
ControlRow == [status : ControlStatuses,
               details : [source : Sources, severity : Severities \cup {"none"},
                          intake : {None} \cup DOMAIN db.intakes, reviews : Nat]]
ReportRow == [origin : {"scan", "system", "client"}, system : LinkableSystems(db),
              readiness : {"ready", "partially_ready", "needs_attention"}, scans : SUBSET DOMAIN db.scans]
Pcs == {"idle", "blocked", "start", "receive", "store", "write", "crawl", "render", "failed"}

\* Every row has columns that the code gives it, and its references name existing rows.
TypeOK ==
    /\ \A i \in DOMAIN db.systems : db.systems[i] \in SystemRow
    /\ \A i \in DOMAIN db.intakes : db.intakes[i].answers \subseteq Questions
    /\ \A id \in DOMAIN db.controls : id.system \in LinkableSystems(db) /\ db.controls[id] \in ControlRow
    /\ \A i \in DOMAIN db.items : /\ db.items[i].system \in LinkableSystems(db)
                                  /\ db.items[i].control \in DOMAIN db.controls \cup {None}
                                  /\ db.items[i].content \in Contents
    /\ \A n \in DOMAIN db.scans : db.scans[n].result.status \in ScanStatuses
    /\ db.reports \subseteq ReportRow
    /\ \A s \in Slots : tx[s].pc \in Pcs /\ tx[s].op \in Ops \cup {"none"}

\* What a scan was converted to is complete and agrees with it: system, intake, one evidence
\* event, and a control for each obligation; the intake is what the scan announced for the
\* selected role, and where the intake's explanation asks for a lawyer the scan did; no two
\* scans share a system or an intake; a report gathers the scans of its own system.
WholeConversion(n) ==
    LET scan == db.scans[n]
        events == {i \in DOMAIN db.events : db.events[i].scan = n}
    IN  IF ~IsConverted(scan) THEN scan.system = None /\ scan.intake = None /\ events = {}
        ELSE LET result == db.intakes[scan.intake].result IN
             /\ scan.result.status = "completed"
             /\ result.role = scan.role /\ result.role = db.intakes[scan.intake].selected
             /\ \E i \in events : events = {i} /\ db.events[i].system = scan.system
             /\ \E announced \in scan.result.scenarios :
                    /\ announced.role = result.role /\ announced.class = result.class
                    /\ announced.path = result.path
                    /\ announced.graph = result.graph
                    /\ ManualReviewRequired(result.graph) => announced.review
             /\ \A item \in result.graph : Existing(db.controls, scan.system, ObligationKey(item)) # {}

ConversionIsWhole ==
    /\ \A n \in DOMAIN db.scans : WholeConversion(n)
    /\ \A m, n \in DOMAIN db.scans : m # n /\ IsConverted(db.scans[m]) =>
           db.scans[m].system # db.scans[n].system /\ db.scans[m].intake # db.scans[n].intake
    /\ \A report \in db.reports : \A n \in report.scans :
           report.origin # "client" => db.scans[n].system = report.system
    /\ \A i \in DOMAIN db.events : db.events[i].scan \in DOMAIN db.scans

\* The seal of every item is that of its row, whatever edits and uploads it went through.
SealMatchesRow == \A i \in DOMAIN db.items : db.items[i].seal = Fingerprint(db.items[i])

\* Nothing of one system is linked to a control of another one.
LinksFit ==
    /\ \A i \in DOMAIN db.items : SystemOf(db.items[i].control) \in {None, db.items[i].system}
    /\ \A n \in DOMAIN db.reviews : SystemOf(db.reviews[n].control) \in {None, db.reviews[n].system}

\* Every artifact row in the bucket's name has its object: objects may be left over by
\* uploads that fail or are killed, never missing.
ArtifactsAreStored ==
    \A a \in DOMAIN db.artifacts :
        db.artifacts[a].backend = "gcs" => db.artifacts[a].object \in bucket

\* What an item lists grows by the artifact that an upload inserts in the same commit and is
\* otherwise replaced by a client, as a whole; no entry is lost to an upload or an attachment
\* that extends a list read earlier.
ListFollows(i) ==
    LET list == db.items[i].metadata.artifacts
        next == db'.items[i].metadata.artifacts
        new == {a \in DOMAIN db'.artifacts \ DOMAIN db.artifacts : db'.artifacts[a].item = i}
    IN  \/ new = {} /\ next = list
        \/ \E a \in new : new = {a} /\ next = <<a>> \o list
        \/ new = {} /\ \E s \in Slots : Writing(s, "update_item") /\ tx'[s].pc = "idle"
ListsFollowUploads == [][\A i \in DOMAIN db.items : ListFollows(i)]_vars

\* Every request ends, though an event loop may wait for a lock that only it could release.
RequestsEnd == \A s \in Slots : ~At(s, "idle") ~> At(s, "idle")
=============================================================================
