--------------------------- MODULE ConversionProofs ---------------------------
(***************************************************************************)
(* Proof that the conversion of a website scan is whole, for any site,     *)
(* number of scans, requests and workers, as long as all requests carry    *)
(* the key of the dashboard: what a scan was converted to is complete, is  *)
(* what the scan announced for the selected role, and is that of no other  *)
(* scan.  And that every row has columns that the code gives it, and       *)
(* references to rows that exist.                                          *)
(*                                                                         *)
(* The argument: WorkspaceProofs shows that a request commits to the       *)
(* tables it has read.  The invariant Conversions says of the tables what  *)
(* ConversionIsWhole says, and that what a scan is linked to exists, so    *)
(* that a conversion takes numbers that no scan has.  All commits but four *)
(* only let tables grow that a conversion refers to (Grows); the end of a  *)
(* scan adds a scan without links, a report names scans with links, and a  *)
(* conversion links one scan once.  RowsTyped says of the tables what      *)
(* TypeOK says; a request refers to rows that it has read, and a table     *)
(* that others refer to never loses a row (Wider).                         *)
(***************************************************************************)
EXTENDS WorkspaceProofs

IsScan(scan) ==
    /\ DOMAIN scan = {"result", "system", "intake", "role"}
    /\ scan = [c \in DOMAIN scan |-> scan[c]]
ResultFits(result) == result.status = "completed" => result.scenarios = RoleScenarios(result.answers)

\* The intake says what the scan announced for the role that was selected.
Announced(scenarios, result) ==
    \E announced \in scenarios :
        /\ announced.role = result.role /\ announced.class = result.class
        /\ announced.path = result.path
        /\ announced.graph = result.graph
        /\ ManualReviewRequired(result.graph) => announced.review

IntakeFits(scan, intake) ==
    /\ scan.result.status = "completed"
    /\ intake.result.role = scan.role /\ intake.result.role = intake.selected
    /\ Announced(scan.result.scenarios, intake.result)

Registered(controls, system, graph) ==
    \A item \in graph : Existing(controls, system, ObligationKey(item)) # {}

EventsOf(d, n) == {i \in DOMAIN d.events : d.events[i].scan = n}
OneEvent(d, n) == \E i \in EventsOf(d, n) : EventsOf(d, n) = {i} /\ d.events[i] = Event(n, d.scans[n].system)

LinksExist(d, n) ==
    /\ d.scans[n].system \in DOMAIN d.systems
    /\ d.scans[n].intake \in DOMAIN d.intakes
WholeScan(d, n) ==
    IF IsConverted(d.scans[n])
    THEN LET intake == d.intakes[d.scans[n].intake] IN
         /\ LinksExist(d, n)
         /\ IntakeFits(d.scans[n], intake)
         /\ OneEvent(d, n)
         /\ Registered(d.controls, d.scans[n].system, intake.result.graph)
    ELSE d.scans[n].system = None /\ d.scans[n].intake = None /\ EventsOf(d, n) = {}
ScanFits(d, n) == IsScan(d.scans[n]) /\ ResultFits(d.scans[n].result) /\ WholeScan(d, n)

OwnLinks(d) ==
    \A m, n \in DOMAIN d.scans : m # n /\ IsConverted(d.scans[m]) =>
        d.scans[m].system # d.scans[n].system /\ d.scans[m].intake # d.scans[n].intake
EventsFit(d) == \A i \in DOMAIN d.events : d.events[i].scan \in DOMAIN d.scans
ReportFits(d, report) ==
    \A n \in report.scans : report.origin # "client" =>
        /\ n \in DOMAIN d.scans /\ IsConverted(d.scans[n])
        /\ d.scans[n].system = report.system
ReportsFit(d) == \A report \in d.reports : ReportFits(d, report)

TablesGrow(d) == IsTable(d.systems) /\ IsTable(d.intakes) /\ IsTable(d.scans) /\ IsTable(d.events)
Conversions(d) ==
    /\ TablesGrow(d)
    /\ \A n \in DOMAIN d.scans : ScanFits(d, n)
    /\ OwnLinks(d)
    /\ EventsFit(d)
    /\ ReportsFit(d)

-----------------------------------------------------------------------------
(* The intake of a conversion, and what the scan announced. *)

\* The role selected is the role that the answers of the converted intake are classified as.
LEMMA SelectedAnswers ==
    ASSUME NEW answers, NEW role \in Roles
    PROVE  \E scenario \in {{"is_developer"}, {"is_deployer"}, {}} :
               /\ AnswersForActorRole(answers, role)
                      = (answers \ {"is_developer", "is_deployer"}) \cup scenario
               /\ ActorRole((answers \ {"is_developer", "is_deployer"}) \cup scenario) = role
<1> DEFINE rest == answers \ {"is_developer", "is_deployer"}
<1>1. "is_developer" \notin rest /\ "is_deployer" \notin rest
  OBVIOUS
<1>2. AnswersForActorRole(answers, role)
          = rest \cup (CASE role = "Provider" -> {"is_developer"}
                         [] role = "Deployer" -> {"is_deployer"}
                         [] OTHER -> {})
  BY DEF AnswersForActorRole
<1> HIDE DEF rest
<1>3. ActorRole(rest \cup {"is_developer"}) = "Provider"
  BY DEF ActorRole
<1>4. ActorRole(rest \cup {"is_deployer"}) = "Deployer"
  BY <1>1 DEF ActorRole
<1>5. ActorRole(rest \cup {}) = "Importer/Distributor"
  BY <1>1 DEF ActorRole
<1>6. CASE role = "Provider"
  <2>1. AnswersForActorRole(answers, role) = rest \cup {"is_developer"}
    BY <1>2, <1>6
  <2> QED
    BY <1>3, <1>6, <2>1 DEF rest
<1>7. CASE role = "Deployer"
  <2>1. AnswersForActorRole(answers, role) = rest \cup {"is_deployer"}
    BY <1>2, <1>7
  <2> QED
    BY <1>4, <1>7, <2>1 DEF rest
<1>8. CASE role = "Importer/Distributor"
  <2>1. AnswersForActorRole(answers, role) = rest \cup {}
    BY <1>2, <1>8
  <2> QED
    BY <1>5, <1>8, <2>1 DEF rest
<1> QED
  BY <1>6, <1>7, <1>8 DEF Roles

\* A FRIA is screened for high-risk systems only, which a lawyer has to look at anyway.
LEMMA FriaIsHighRisk ==
    ASSUME NEW role, NEW class, NEW answers,
           NEW item \in ObligationGraph(role, class, answers), item.key = "fria_screening"
    PROVE  class = "high-risk"
<1>1. PICK d \in ComplianceDimensions : Applies(d, role, class, answers) /\ d.id = "fria_screening"
  BY DEF ObligationGraph
<1>2. d.class = "high-risk"
  BY <1>1 DEF ComplianceDimensions, ClassificationDimensions, HighRiskDimensions, ModelDimensions, Dim
<1> QED
  BY <1>1, <1>2 DEF Applies

\* Where the explanation of an intake asks for a lawyer, the scan's scenario did.
LEMMA ReviewWasAnnounced ==
    ASSUME NEW answers, ManualReviewRequired(Classified(answers).graph)
    PROVE  RequiresManualReviewForRole(Classified(answers).class, Classified(answers).graph)
<1> DEFINE role == ActorRole(answers)
           class == SystemClassification(answers)
<1>1. Classified(answers).class = class
      /\ Classified(answers).graph = ObligationGraph(role, class, answers)
  BY DEF Classified
<1> HIDE DEF role, class
<1>2. PICK item \in ObligationGraph(role, class, answers) :
          item.status \in ToBeReviewed \/ item.key = "fria_screening"
  BY <1>1 DEF ManualReviewRequired
<1>3. CASE item.status \in ToBeReviewed
  BY <1>1, <1>3 DEF RequiresManualReviewForRole
<1>4. CASE item.key = "fria_screening"
  BY <1>1, <1>4, FriaIsHighRisk DEF RequiresManualReviewForRole
<1> QED
  BY <1>2, <1>3, <1>4

LEMMA ScenarioFits ==
    ASSUME NEW answers, NEW role \in Roles
    PROVE  /\ Classified(AnswersForActorRole(answers, role)).role = role
           /\ Announced(RoleScenarios(answers), Classified(AnswersForActorRole(answers, role)))
<1>1. PICK scenario \in {{"is_developer"}, {"is_deployer"}, {}} :
          /\ AnswersForActorRole(answers, role)
                 = (answers \ {"is_developer", "is_deployer"}) \cup scenario
          /\ ActorRole((answers \ {"is_developer", "is_deployer"}) \cup scenario) = role
  BY SelectedAnswers
<1> DEFINE chosen == (answers \ {"is_developer", "is_deployer"}) \cup scenario
           announced == RoleScenario(answers, scenario)
<1>2. announced \in RoleScenarios(answers)
  BY DEF RoleScenarios
<1>3. /\ announced.role = Classified(chosen).role /\ announced.class = Classified(chosen).class
      /\ announced.path = Classified(chosen).path /\ announced.graph = Classified(chosen).graph
      /\ announced.review = RequiresManualReviewForRole(Classified(chosen).class, Classified(chosen).graph)
  BY DEF RoleScenario
<1>4. Classified(chosen).role = role
  BY <1>1 DEF Classified
<1> HIDE DEF chosen, announced
<1>5. ManualReviewRequired(Classified(chosen).graph) => announced.review
  BY <1>3, ReviewWasAnnounced
<1>6. Announced(RoleScenarios(answers), Classified(chosen))
  BY <1>2, <1>3, <1>5 DEF Announced
<1> QED
  BY <1>1, <1>4, <1>6 DEF chosen

-----------------------------------------------------------------------------
(* Commits that leave scans, events and reports alone. *)

\* The tables that a conversion refers to.
Extended(d, e) ==
    /\ IsTable(e.systems) /\ DOMAIN d.systems \subseteq DOMAIN e.systems
    /\ IsTable(e.intakes) /\ DOMAIN d.intakes \subseteq DOMAIN e.intakes
    /\ \A i \in DOMAIN d.intakes : e.intakes[i] = d.intakes[i]
    /\ DOMAIN d.controls \subseteq DOMAIN e.controls
Grows(d, e) ==
    /\ Extended(d, e)
    /\ e.scans = d.scans /\ e.events = d.events /\ e.reports = d.reports

LEMMA RegisteredStays ==
    ASSUME NEW controls, NEW more, DOMAIN controls \subseteq DOMAIN more,
           NEW system, NEW graph, Registered(controls, system, graph)
    PROVE  Registered(more, system, graph)
  BY DEF Registered, Existing

\* A scan stays whole when its row and its events stay as they are.
LEMMA WholeStays ==
    ASSUME NEW d, NEW e, Extended(d, e), NEW n, e.scans[n] = d.scans[n],
           EventsOf(e, n) = EventsOf(d, n),
           \A i \in EventsOf(d, n) : e.events[i] = d.events[i],
           WholeScan(d, n)
    PROVE  WholeScan(e, n)
<1> DEFINE scan == d.scans[n]
           graph == d.intakes[scan.intake].result.graph
<1>1. CASE ~IsConverted(scan)
  BY <1>1 DEF WholeScan
<1>2. CASE IsConverted(scan)
  <2>1. LinksExist(d, n) /\ OneEvent(d, n) /\ IntakeFits(scan, d.intakes[scan.intake])
        /\ Registered(d.controls, scan.system, graph)
    BY <1>2 DEF WholeScan
  <2>2. LinksExist(e, n) /\ e.intakes[scan.intake] = d.intakes[scan.intake]
    BY <2>1 DEF Extended, LinksExist
  <2>3. OneEvent(e, n)
    BY <2>1 DEF OneEvent
  <2>4. Registered(e.controls, scan.system, graph)
    BY <2>1, RegisteredStays DEF Extended
  <2> QED
    BY <1>2, <2>1, <2>2, <2>3, <2>4 DEF WholeScan
<1> QED
  BY <1>1, <1>2

LEMMA GrowthKeeps ==
    ASSUME NEW d, NEW e, Conversions(d), Grows(d, e)
    PROVE  Conversions(e)
<1>1. e.scans = d.scans /\ e.events = d.events /\ e.reports = d.reports /\ Extended(d, e)
  BY DEF Grows
<1>2. TablesGrow(e)
  BY <1>1 DEF Conversions, TablesGrow, Extended
<1>3. ASSUME NEW n \in DOMAIN e.scans PROVE ScanFits(e, n)
  <2>1. n \in DOMAIN d.scans /\ e.scans[n] = d.scans[n] /\ ScanFits(d, n)
    BY <1>1, <1>3 DEF Conversions
  <2>2. EventsOf(e, n) = EventsOf(d, n) /\ \A i \in EventsOf(d, n) : e.events[i] = d.events[i]
    BY <1>1 DEF EventsOf
  <2>3. WholeScan(e, n)
    BY <1>1, <2>1, <2>2, WholeStays DEF ScanFits
  <2> QED
    BY <2>1, <2>3 DEF ScanFits
<1>4. OwnLinks(e) /\ EventsFit(e) /\ ReportsFit(e)
  BY <1>1 DEF Conversions, OwnLinks, EventsFit, ReportsFit, ReportFits
<1> QED
  BY <1>2, <1>3, <1>4 DEF Conversions

\* One table written anew.
LEMMA GrowingTables ==
    ASSUME NEW d, IsDatabase(d), Conversions(d)
    PROVE  /\ Grows(d, d)
           /\ \A x : Grows(d, [d EXCEPT !.items = x])
           /\ \A x : DOMAIN d.controls \subseteq DOMAIN x => Grows(d, [d EXCEPT !.controls = x])
           /\ \A x : IsTable(x) /\ DOMAIN d.systems \subseteq DOMAIN x
                         => Grows(d, [d EXCEPT !.systems = x])
           /\ \A x : IsTable(x) /\ DOMAIN d.intakes \subseteq DOMAIN x
                         /\ (\A i \in DOMAIN d.intakes : x[i] = d.intakes[i])
                         => Grows(d, [d EXCEPT !.intakes = x])
<1>1. IsTable(d.systems) /\ IsTable(d.intakes)
  BY DEF Conversions, TablesGrow
<1>2. Grows(d, d)
  BY <1>1 DEF Grows, Extended
<1>3. \A x : Grows(d, [d EXCEPT !.items = x])
  BY <1>1 DEF Grows, Extended, IsDatabase
<1>4. \A x : DOMAIN d.controls \subseteq DOMAIN x => Grows(d, [d EXCEPT !.controls = x])
  BY <1>1 DEF Grows, Extended, IsDatabase
<1>5. \A x : IsTable(x) /\ DOMAIN d.systems \subseteq DOMAIN x
                 => Grows(d, [d EXCEPT !.systems = x])
  BY <1>1 DEF Grows, Extended, IsDatabase
<1>6. \A x : IsTable(x) /\ DOMAIN d.intakes \subseteq DOMAIN x
                 /\ (\A i \in DOMAIN d.intakes : x[i] = d.intakes[i])
                 => Grows(d, [d EXCEPT !.intakes = x])
  BY <1>1 DEF Grows, Extended, IsDatabase
<1> QED
  BY <1>2, <1>3, <1>4, <1>5, <1>6

LEMMA SystemCommits ==
    ASSUME Inv, Conversions(db), NEW s \in Slots,
           CreateAiSystem(s) \/ UpdateAiSystem(s) \/ CreateIntake(s)
    PROVE  Conversions(db')
<1>1. IsDatabase(db) /\ IsTable(db.systems) /\ IsTable(db.intakes)
  BY DEF Inv, Fits, Conversions, TablesGrow
<1>2. CASE CreateAiSystem(s)
  <2>1. PICK row : db' = [db EXCEPT !.systems = Append(@, row)]
    BY <1>2 DEF CreateAiSystem, WithSystem, Commit
  <2>2. IsTable(Append(db.systems, row)) /\ DOMAIN db.systems \subseteq DOMAIN Append(db.systems, row)
    BY <1>1, AppendExtends
  <2> QED
    BY <1>1, <2>1, <2>2, GrowingTables, GrowthKeeps
<1>3. CASE UpdateAiSystem(s)
  <2>1. PICK i, row : db' = [db EXCEPT !.systems = [@ EXCEPT ![i] = row]]
    BY <1>3 DEF UpdateAiSystem, Commit
  <2>2. IsTable([db.systems EXCEPT ![i] = row]) /\ DOMAIN [db.systems EXCEPT ![i] = row] = DOMAIN db.systems
    BY <1>1, UpdatedTable
  <2> QED
    BY <1>1, <2>1, <2>2, GrowingTables, GrowthKeeps
<1>4. CASE CreateIntake(s)
  <2>1. PICK intake : db' = [db EXCEPT !.intakes = Append(@, intake)]
    BY <1>4 DEF CreateIntake, Commit
  <2>2. IsTable(Append(db.intakes, intake)) /\ DOMAIN db.intakes \subseteq DOMAIN Append(db.intakes, intake)
        /\ \A i \in DOMAIN db.intakes : Append(db.intakes, intake)[i] = db.intakes[i]
    BY <1>1, AppendExtends
  <2> QED
    BY <1>1, <2>1, <2>2, GrowingTables, GrowthKeeps
<1> QED
  BY <1>2, <1>3, <1>4

LEMMA ControlCommits ==
    ASSUME Inv, Conversions(db), NEW s \in Slots,
           \/ MaterializeControlPlan(s) \/ ApplyControlTemplates(s) \/ SeedBaselineControls(s)
           \/ CreateControl(s) \/ UpdateControl(s) \/ RecordControlReview(s)
    PROVE  Conversions(db')
<1>1. IsDatabase(db)
  BY DEF Inv, Fits
<1>2. PICK x : db' = [db EXCEPT !.controls = x] /\ DOMAIN db.controls \subseteq DOMAIN x
  <2>1. ASSUME NEW system, NEW seeds, Seed(s, system, seeds)
        PROVE  \E x : db' = [db EXCEPT !.controls = x] /\ DOMAIN db.controls \subseteq DOMAIN x
    <3> DEFINE missing == Missing(Read(s).controls, system, seeds)
    <3>1. db' = [db EXCEPT !.controls = Seeded(@, missing, seeds)]
      BY <2>1 DEF Seed, Commit
    <3>2. DOMAIN db.controls \subseteq DOMAIN Seeded(db.controls, missing, seeds)
      BY DEF Seeded
    <3> QED
      BY <3>1, <3>2
  <2>2. ASSUME NEW id, NEW new, EditControl(s, id, new)
        PROVE  \E x : db' = [db EXCEPT !.controls = x] /\ DOMAIN db.controls \subseteq DOMAIN x
    <3>1. PICK row : db' = [db EXCEPT !.controls = [@ EXCEPT ![id] = row]]
      BY <2>2 DEF EditControl, Commit
    <3> QED
      BY <3>1
  <2>3. CASE MaterializeControlPlan(s) \/ ApplyControlTemplates(s) \/ SeedBaselineControls(s)
    BY <2>1, <2>3 DEF MaterializeControlPlan, ApplyControlTemplates, SeedBaselineControls
  <2>4. CASE CreateControl(s)
    <3>1. PICK id, new : db' = [db EXCEPT !.controls = Inserted(@, id, new)]
      BY <2>4 DEF CreateControl, Commit
    <3>2. DOMAIN db.controls \subseteq DOMAIN Inserted(db.controls, id, new)
      BY DEF Inserted
    <3> QED
      BY <3>1, <3>2
  <2>5. CASE UpdateControl(s) \/ RecordControlReview(s)
    BY <2>2, <2>5 DEF UpdateControl, RecordControlReview
  <2> QED
    BY <2>3, <2>4, <2>5
<1> QED
  BY <1>1, <1>2, GrowingTables, GrowthKeeps

LEMMA EvidenceCommits ==
    ASSUME Inv, Conversions(db), NEW s \in Slots,
           CreateItem(s) \/ UpdateItem(s) \/ AttachItemToControl(s) \/ AttachArtifact(s)
    PROVE  Conversions(db')
<1>1. IsDatabase(db) /\ IsTable(db.systems) /\ IsTable(db.intakes)
  BY DEF Inv, Fits, Conversions, TablesGrow
<1>2. CASE CreateItem(s) \/ UpdateItem(s) \/ AttachItemToControl(s)
  <2>1. PICK x : db' = [db EXCEPT !.items = x]
    BY <1>2 DEF CreateItem, UpdateItem, AttachItemToControl, EditItem, Commit
  <2> QED
    BY <1>1, <2>1, GrowingTables, GrowthKeeps
<1>3. CASE AttachArtifact(s)
  <2>1. PICK x, y : db' = [db EXCEPT !.artifacts = x, !.items = y]
    BY <1>3 DEF AttachArtifact, Commit
  <2>2. Grows(db, [db EXCEPT !.artifacts = x, !.items = y])
    BY <1>1 DEF Grows, Extended, IsDatabase
  <2> QED
    BY <2>1, <2>2, GrowthKeeps
<1> QED
  BY <1>2, <1>3

\* A review, after its placeholder was written, if it has one.
LEMMA ReviewTables ==
    ASSUME NEW d, IsDatabase(d), Conversions(d), NEW x, NEW i, NEW row
    PROVE  Conversions([d EXCEPT !.reviews = x, !.systems = [@ EXCEPT ![i] = row]])
<1> DEFINE table == [d.systems EXCEPT ![i] = row]
           e == [d EXCEPT !.reviews = x, !.systems = table]
<1>1. IsTable(d.systems) /\ IsTable(d.intakes)
  BY DEF Conversions, TablesGrow
<1>2. IsTable(table) /\ DOMAIN table = DOMAIN d.systems
  BY <1>1, UpdatedTable
<1> HIDE DEF table
<1>3. /\ e.systems = table /\ e.intakes = d.intakes /\ e.controls = d.controls /\ e.scans = d.scans
      /\ e.events = d.events /\ e.reports = d.reports
  BY DEF IsDatabase
<1> HIDE DEF e
<1>4. Grows(d, e)
  BY <1>1, <1>2, <1>3 DEF Grows, Extended
<1>5. Conversions(e)
  BY <1>4, GrowthKeeps
<1> QED
  BY <1>5 DEF e, table

LEMMA SystemReviewCommits ==
    ASSUME Inv, Conversions(db), NEW s \in Slots,
           RecordAiSystemReview(s) \/ RecordReviewWithPlaceholder(s)
    PROVE  Conversions(db')
<1>1. IsDatabase(db)
  BY DEF Inv, Fits
<1>2. ASSUME NEW d, IsDatabase(d), Conversions(d), NEW i, NEW status, NEW review,
             Reviewed(s, i, status, d, review)
      PROVE  Conversions(db')
  <2>1. PICK x, row : db' = [d EXCEPT !.reviews = x, !.systems = [@ EXCEPT ![i] = row]]
    BY <1>2 DEF Reviewed, Commit
  <2> QED
    BY <1>2, <2>1, ReviewTables
<1>3. PICK d, i, status, review :
          IsDatabase(d) /\ Conversions(d) /\ Reviewed(s, i, status, d, review)
  <2>1. CASE RecordAiSystemReview(s)
    BY <1>1, <2>1 DEF RecordAiSystemReview
  <2>2. CASE \E id, new, i, status, review :
                 Reviewed(s, i, status, [db EXCEPT !.controls = Inserted(@, id, new)], review)
    <3>1. PICK id, new, i, status, review :
              Reviewed(s, i, status, [db EXCEPT !.controls = Inserted(@, id, new)], review)
      BY <2>2
    <3> DEFINE x == Inserted(db.controls, id, new)
    <3>2. DOMAIN db.controls \subseteq DOMAIN x
      BY DEF Inserted
    <3> HIDE DEF x
    <3>3. Conversions([db EXCEPT !.controls = x]) /\ IsDatabase([db EXCEPT !.controls = x])
      BY <1>1, <3>2, GrowingTables, GrowthKeeps DEF IsDatabase
    <3> QED
      BY <3>1, <3>3 DEF x
  <2>3. CASE \E x, i, status, review : Reviewed(s, i, status, [db EXCEPT !.items = x], review)
    <3>1. \A x : Conversions([db EXCEPT !.items = x]) /\ IsDatabase([db EXCEPT !.items = x])
      BY <1>1, GrowingTables, GrowthKeeps DEF IsDatabase
    <3> QED
      BY <2>3, <3>1
  <2> QED
    BY <2>1, <2>2, <2>3 DEF RecordReviewWithPlaceholder
<1> QED
  BY <1>2, <1>3

-----------------------------------------------------------------------------
(* Scans and reports. *)

\* A scan is written without links.
LEMMA ScanAdded ==
    ASSUME NEW d, IsDatabase(d), Conversions(d), NEW result, ResultFits(result)
    PROVE  Conversions([d EXCEPT !.scans = Append(@, Scan(result))])
<1> DEFINE new == Scan(result)
           table == Append(d.scans, new)
           e == [d EXCEPT !.scans = table]
           last == Len(d.scans) + 1
<1>1. IsTable(d.systems) /\ IsTable(d.intakes) /\ IsTable(d.scans) /\ IsTable(d.events)
  BY DEF Conversions, TablesGrow
<1>2. IsScan(new) /\ new.result = result /\ new.system = None /\ new.intake = None
  BY DEF Scan, IsScan
<1> HIDE DEF new
<1>3. /\ IsTable(table) /\ DOMAIN d.scans = 1..Len(d.scans) /\ Len(d.scans) \in Nat
      /\ DOMAIN table = 1..last /\ table[last] = new
      /\ \A n \in DOMAIN d.scans : table[n] = d.scans[n]
  BY <1>1, AppendExtends
<1> HIDE DEF table
<1>4. DOMAIN table = DOMAIN d.scans \cup {last} /\ last \notin DOMAIN d.scans
  BY <1>3
<1> HIDE DEF last
<1>5. /\ e.systems = d.systems /\ e.intakes = d.intakes /\ e.controls = d.controls
      /\ e.scans = table /\ e.events = d.events /\ e.reports = d.reports
  BY DEF IsDatabase
<1> HIDE DEF e
<1>6. Extended(d, e) /\ TablesGrow(e)
  BY <1>1, <1>3, <1>5 DEF Extended, TablesGrow
<1>7. \A n : EventsOf(e, n) = EventsOf(d, n) /\ \A i \in EventsOf(d, n) : e.events[i] = d.events[i]
  BY <1>5 DEF EventsOf
<1>8. ASSUME NEW n \in DOMAIN d.scans PROVE ScanFits(e, n)
  <2>1. e.scans[n] = d.scans[n] /\ ScanFits(d, n)
    BY <1>3, <1>5, <1>8 DEF Conversions
  <2>2. WholeScan(e, n)
    BY <1>6, <1>7, <2>1, WholeStays DEF ScanFits
  <2> QED
    BY <2>1, <2>2 DEF ScanFits
<1>9. ScanFits(e, last)
  <2>1. EventsOf(d, last) = {}
    BY <1>4 DEF EventsOf, Conversions, EventsFit
  <2>2. EventsOf(e, last) = {}
    BY <1>7, <2>1
  <2>3. e.scans[last] = new
    BY <1>3, <1>5
  <2>4. WholeScan(e, last)
    BY <1>2, <2>2, <2>3 DEF WholeScan, IsConverted
  <2> QED
    BY <1>2, <2>3, <2>4 DEF ScanFits
<1>10. OwnLinks(e)
  <2>1. \A n \in DOMAIN d.scans : IsConverted(d.scans[n]) => d.scans[n].system # None /\ d.scans[n].intake # None
    BY DEF IsConverted
  <2>2. ~IsConverted(new)
    BY <1>2 DEF IsConverted
  <2>3. OwnLinks(d)
    BY DEF Conversions
  <2>4. ASSUME NEW m \in DOMAIN table, NEW n \in DOMAIN table, m # n, IsConverted(table[m])
        PROVE  table[m].system # table[n].system /\ table[m].intake # table[n].intake
    <3>1. m \in DOMAIN d.scans /\ table[m] = d.scans[m]
      BY <1>3, <1>4, <2>2, <2>4
    <3>2. CASE n \in DOMAIN d.scans
      BY <1>3, <2>3, <2>4, <3>1, <3>2 DEF OwnLinks
    <3>3. CASE n = last
      BY <1>2, <1>3, <2>1, <2>4, <3>1, <3>3
    <3> QED
      BY <1>4, <3>2, <3>3
  <2> QED
    BY <1>5, <2>4 DEF OwnLinks
<1>11. EventsFit(e) /\ ReportsFit(e)
  BY <1>3, <1>4, <1>5 DEF Conversions, EventsFit, ReportsFit, ReportFits
<1>12. Conversions(e)
  BY <1>4, <1>5, <1>6, <1>8, <1>9, <1>10, <1>11 DEF Conversions
<1> QED
  BY <1>12 DEF e, table, new

LEMMA ReportAdded ==
    ASSUME NEW d, IsDatabase(d), Conversions(d), NEW report, ReportFits(d, report)
    PROVE  Conversions(WithReport(d, report))
<1> DEFINE e == WithReport(d, report)
<1>1. /\ e.systems = d.systems /\ e.intakes = d.intakes /\ e.controls = d.controls
      /\ e.scans = d.scans /\ e.events = d.events /\ e.reports = d.reports \cup {report}
  BY DEF IsDatabase, WithReport
<1> HIDE DEF e
<1>2. Extended(d, e) /\ TablesGrow(e)
  BY <1>1 DEF Conversions, TablesGrow, Extended
<1>3. \A n : EventsOf(e, n) = EventsOf(d, n) /\ \A i \in EventsOf(d, n) : e.events[i] = d.events[i]
  BY <1>1 DEF EventsOf
<1>4. ASSUME NEW n \in DOMAIN d.scans PROVE ScanFits(e, n)
  <2>1. e.scans[n] = d.scans[n] /\ ScanFits(d, n)
    BY <1>1 DEF Conversions
  <2>2. WholeScan(e, n)
    BY <1>2, <1>3, <2>1, WholeStays DEF ScanFits
  <2> QED
    BY <2>1, <2>2 DEF ScanFits
<1>5. OwnLinks(e) /\ EventsFit(e) /\ ReportsFit(e)
  BY <1>1 DEF Conversions, OwnLinks, EventsFit, ReportsFit, ReportFits
<1>6. Conversions(e)
  BY <1>1, <1>2, <1>4, <1>5 DEF Conversions
<1> QED
  BY <1>6 DEF e

-----------------------------------------------------------------------------
(* The conversion of a scan. *)

\* What the graph asks for is registered once its missing controls are seeded.
LEMMA SeedsRegister ==
    ASSUME NEW controls, NEW system, NEW graph, NEW intake
    PROVE  LET seeds == SeedFromObligationGraph(graph, intake)
               more == Seeded(controls, Missing(controls, system, seeds), seeds)
           IN  DOMAIN controls \subseteq DOMAIN more /\ Registered(more, system, graph)
<1> DEFINE seeds == SeedFromObligationGraph(graph, intake)
           missing == Missing(controls, system, seeds)
           more == Seeded(controls, missing, seeds)
<1>1. DOMAIN more = DOMAIN controls \cup missing
  BY DEF Seeded
<1>2. DOMAIN seeds = {ObligationKey(item) : item \in graph}
  BY DEF SeedFromObligationGraph
<1>3. missing = {ControlId(system, key, 0) : key \in {k \in DOMAIN seeds : Existing(controls, system, k) = {}}}
  BY DEF Missing
<1> HIDE DEF more, missing, seeds
<1>4. ASSUME NEW item \in graph PROVE Existing(more, system, ObligationKey(item)) # {}
  <2> DEFINE key == ObligationKey(item)
             id == ControlId(system, key, 0)
  <2>1. key \in DOMAIN seeds
    BY <1>2
  <2>2. id.system = system /\ id.key = key
    BY DEF ControlId
  <2> HIDE DEF key, id
  <2>3. CASE Existing(controls, system, key) = {}
    <3>1. id \in missing
      BY <1>3, <2>1, <2>3 DEF id
    <3> QED
      BY <1>1, <2>2, <3>1 DEF Existing, key
  <2>4. CASE Existing(controls, system, key) # {}
    BY <1>1, <2>4 DEF Existing, key
  <2> QED
    BY <2>3, <2>4
<1>5. DOMAIN controls \subseteq DOMAIN more /\ Registered(more, system, graph)
  BY <1>1, <1>4 DEF Registered
<1> QED
  BY <1>5 DEF more, missing, seeds

\* The link of a scan: an UPDATE of the columns that were NULL.
LEMMA LinkWritten ==
    ASSUME NEW scan, IsScan(scan), NEW link, IsScan(link)
    PROVE  Merge(scan, scan, link) = link
<1>1. Merge(scan, scan, link) = [c \in DOMAIN link |-> link[c]]
  BY DEF Merge, IsScan
<1> QED
  BY <1>1 DEF IsScan

\* The tables after the first conversion of a scan: a new system, a new intake for the
\* selected role, the controls it asks for, and one event.
FirstConversion(d, e, n, selected) ==
    LET system == Len(d.systems) + 1
        number == Len(d.intakes) + 1
        intake == Intake(AnswersForActorRole(d.scans[n].result.answers, selected), selected)
        link == [d.scans[n] EXCEPT !.system = system, !.intake = number, !.role = intake.result.role]
    IN  /\ \E row : e.systems = Append(d.systems, row)
        /\ e.intakes = Append(d.intakes, intake)
        /\ e.scans = [d.scans EXCEPT ![n] = link]
        /\ e.events = Append(d.events, Event(n, system))
        /\ DOMAIN d.controls \subseteq DOMAIN e.controls
        /\ Registered(e.controls, system, intake.result.graph)
        /\ e.reports = d.reports

LEMMA ConversionWrites ==
    ASSUME NEW d, IsDatabase(d), Conversions(d), NEW n \in DOMAIN d.scans,
           ~IsConverted(d.scans[n]), NEW role
    PROVE  FirstConversion(d, Converted(d, d, n, role), n, SelectedRole(role))
<1> DEFINE scan == d.scans[n]
           selected == SelectedRole(role)
           system == Len(d.systems) + 1
           number == Len(d.intakes) + 1
           intake == Intake(AnswersForActorRole(scan.result.answers, selected), selected)
           link == [scan EXCEPT !.system = system, !.intake = number, !.role = intake.result.role]
           linked == Linked(d, d, n, role)
<1>1. IsScan(scan) /\ EventsOf(d, n) = {}
  BY DEF Conversions, ScanFits, WholeScan
<1>2. IsScan(link) /\ link.system = system /\ link.intake = number
  BY <1>1 DEF IsScan
<1>3. Merge(scan, scan, link) = link
  BY <1>1, <1>2, LinkWritten
<1>4. linked = [d EXCEPT !.systems = Append(@, System("not_started")),
                         !.intakes = Append(@, intake), !.scans[n] = link]
  BY <1>3 DEF Linked, NewSystemId, NewIntakeId
<1>5. PICK row : linked = [d EXCEPT !.systems = Append(@, row),
                                    !.intakes = Append(@, intake), !.scans[n] = link]
  BY <1>4
<1> DEFINE systems == Append(d.systems, row)
           intakes == Append(d.intakes, intake)
           scans == [d.scans EXCEPT ![n] = link]
<1>6. linked = [d EXCEPT !.systems = systems, !.intakes = intakes, !.scans = scans]
  BY <1>5
<1>7. scans[n] = link
  OBVIOUS
<1>8. intakes[number] = intake
  BY AppendExtends DEF Conversions, TablesGrow
<1> HIDE DEF systems, intakes, scans, linked, link, intake, number, system
<1>9. /\ DOMAIN linked = DOMAIN d /\ linked.systems = systems /\ linked.intakes = intakes
      /\ linked.scans = scans /\ linked.controls = d.controls /\ linked.events = d.events
      /\ linked.reports = d.reports
  BY <1>6 DEF IsDatabase
<1> DEFINE graph == intake.result.graph
           seeds == SeedFromObligationGraph(graph, number)
           controls == Seeded(d.controls, Missing(d.controls, system, seeds), seeds)
           seeded == [linked EXCEPT !.controls = controls]
<1>10. Converted(d, d, n, role) = EnsureConversionEvidence(seeded, n, system)
  BY <1>2, <1>7, <1>8, <1>9 DEF Converted, linked
<1>11. DOMAIN d.controls \subseteq DOMAIN controls /\ Registered(controls, system, graph)
  BY SeedsRegister
<1> HIDE DEF controls, graph
<1>12. /\ DOMAIN seeded = DOMAIN d /\ seeded.systems = systems /\ seeded.intakes = intakes
       /\ seeded.scans = scans /\ seeded.controls = controls /\ seeded.events = d.events
       /\ seeded.reports = d.reports
  BY <1>9 DEF IsDatabase
<1> HIDE DEF seeded
<1>13. ~HasEvent(seeded, n, system)
  <2>1. Event(n, system).scan = n
    BY DEF Event
  <2> QED
    BY <1>1, <1>12, <2>1 DEF HasEvent, EventsOf
<1> DEFINE e == EnsureConversionEvidence(seeded, n, system)
<1>14. /\ e.systems = systems /\ e.intakes = intakes /\ e.scans = scans
       /\ e.events = Append(d.events, Event(n, system)) /\ e.controls = controls
       /\ e.reports = d.reports
  BY <1>12, <1>13 DEF EnsureConversionEvidence, IsDatabase
<1> HIDE DEF e
<1>15. FirstConversion(d, e, n, selected)
  BY <1>11, <1>14 DEF FirstConversion, systems, intakes, scans, link, intake, number, system, graph
<1> QED
  BY <1>10, <1>15 DEF e

LEMMA FirstConversionKeeps ==
    ASSUME NEW d, NEW e, Conversions(d), NEW n \in DOMAIN d.scans,
           ~IsConverted(d.scans[n]), d.scans[n].result.status = "completed",
           NEW selected \in Roles, FirstConversion(d, e, n, selected)
    PROVE  Conversions(e) /\ IsConverted(e.scans[n])
<1> DEFINE scan == d.scans[n]
           answers == AnswersForActorRole(scan.result.answers, selected)
           system == Len(d.systems) + 1
           number == Len(d.intakes) + 1
           intake == Intake(answers, selected)
           link == [scan EXCEPT !.system = system, !.intake = number, !.role = intake.result.role]
           last == Len(d.events) + 1
<1>1. /\ IsTable(d.systems) /\ IsTable(d.intakes) /\ IsTable(d.scans) /\ IsTable(d.events)
      /\ IsScan(scan) /\ ResultFits(scan.result) /\ EventsOf(d, n) = {}
  BY DEF Conversions, TablesGrow, ScanFits, WholeScan
<1>2. /\ IsScan(link) /\ link.result = scan.result
      /\ link.system = system /\ link.intake = number /\ link.role = intake.result.role
  BY <1>1 DEF IsScan
<1>3. intake.result = Classified(answers) /\ intake.selected = selected
  BY DEF Intake
<1>4. intake.result.role = selected /\ Announced(scan.result.scenarios, intake.result)
  BY <1>1, <1>3, ScenarioFits DEF ResultFits
<1>5. PICK row : e.systems = Append(d.systems, row)
  BY DEF FirstConversion
<1>6. /\ e.intakes = Append(d.intakes, intake) /\ e.scans = [d.scans EXCEPT ![n] = link]
      /\ e.events = Append(d.events, Event(n, system)) /\ e.reports = d.reports
      /\ DOMAIN d.controls \subseteq DOMAIN e.controls
      /\ Registered(e.controls, system, intake.result.graph)
  BY DEF FirstConversion
<1> HIDE DEF answers, intake, link
<1>7. /\ IsTable(e.systems) /\ DOMAIN e.systems = DOMAIN d.systems \cup {system}
      /\ system \in Nat /\ system \notin DOMAIN d.systems
  BY <1>1, <1>5, AppendExtends
<1>8. /\ IsTable(e.intakes) /\ DOMAIN e.intakes = DOMAIN d.intakes \cup {number}
      /\ number \in Nat /\ number \notin DOMAIN d.intakes /\ e.intakes[number] = intake
      /\ \A i \in DOMAIN d.intakes : e.intakes[i] = d.intakes[i]
  BY <1>1, <1>6, AppendExtends
<1>9. /\ IsTable(e.events) /\ DOMAIN e.events = DOMAIN d.events \cup {last}
      /\ last \notin DOMAIN d.events /\ e.events[last] = Event(n, system)
      /\ \A i \in DOMAIN d.events : e.events[i] = d.events[i]
  BY <1>1, <1>6, AppendExtends
<1>10. /\ IsTable(e.scans) /\ DOMAIN e.scans = DOMAIN d.scans /\ e.scans[n] = link
       /\ \A m \in DOMAIN d.scans \ {n} : e.scans[m] = d.scans[m]
  <2> DEFINE table == [d.scans EXCEPT ![n] = link]
  <2>1. /\ IsTable(table) /\ DOMAIN table = DOMAIN d.scans
        /\ \A m \in DOMAIN d.scans : table[m] = IF m = n THEN link ELSE d.scans[m]
    BY <1>1, UpdatedTable
  <2>2. e.scans = table
    BY <1>6
  <2> HIDE DEF table
  <2> QED
    BY <2>1, <2>2
<1> HIDE DEF system, number, last
<1>11. IsConverted(link)
  BY <1>2, <1>7, <1>8, NullIsNoId DEF IsConverted
<1>12. Extended(d, e) /\ TablesGrow(e)
  BY <1>6, <1>7, <1>8, <1>9, <1>10 DEF Extended, TablesGrow
<1>13. Event(n, system).scan = n
  BY DEF Event
<1>14. ASSUME NEW m \in DOMAIN d.scans, m # n PROVE ScanFits(e, m)
  <2>1. e.scans[m] = d.scans[m] /\ ScanFits(d, m)
    BY <1>10, <1>14 DEF Conversions
  <2>2. EventsOf(e, m) = EventsOf(d, m)
    BY <1>9, <1>13, <1>14 DEF EventsOf
  <2>3. \A i \in EventsOf(d, m) : e.events[i] = d.events[i]
    BY <1>9 DEF EventsOf
  <2>4. WholeScan(e, m)
    BY <1>12, <2>1, <2>2, <2>3, WholeStays DEF ScanFits
  <2> QED
    BY <2>1, <2>4 DEF ScanFits
<1>15. ScanFits(e, n)
  <2>1. EventsOf(e, n) = {last}
    BY <1>1, <1>9, <1>13 DEF EventsOf
  <2>2. OneEvent(e, n)
    BY <1>2, <1>9, <1>10, <2>1 DEF OneEvent
  <2>3. LinksExist(e, n)
    BY <1>2, <1>7, <1>8, <1>10 DEF LinksExist
  <2>4. IntakeFits(link, intake)
    BY <1>2, <1>3, <1>4 DEF IntakeFits
  <2>5. WholeScan(e, n)
    BY <1>2, <1>6, <1>8, <1>10, <1>11, <2>2, <2>3, <2>4 DEF WholeScan
  <2> QED
    BY <1>1, <1>2, <1>10, <2>5 DEF ScanFits
<1>16. OwnLinks(e)
  <2>1. ASSUME NEW m \in DOMAIN d.scans, m # n
        PROVE  d.scans[m].system # system /\ d.scans[m].intake # number
    <3>1. WholeScan(d, m)
      BY DEF Conversions, ScanFits
    <3>2. CASE IsConverted(d.scans[m])
      BY <1>7, <1>8, <3>1, <3>2 DEF WholeScan, LinksExist
    <3>3. CASE ~IsConverted(d.scans[m])
      BY <1>7, <1>8, <3>1, <3>3, NullIsNoId DEF WholeScan
    <3> QED
      BY <3>2, <3>3
  <2>2. ASSUME NEW k \in DOMAIN d.scans, NEW m \in DOMAIN d.scans, k # m, IsConverted(e.scans[k])
        PROVE  e.scans[k].system # e.scans[m].system /\ e.scans[k].intake # e.scans[m].intake
    <3>1. CASE k = n
      BY <1>2, <1>10, <2>1, <2>2, <3>1
    <3>2. CASE m = n
      BY <1>2, <1>10, <2>1, <2>2, <3>2
    <3>3. CASE k # n /\ m # n
      BY <1>10, <2>2, <3>3 DEF Conversions, OwnLinks
    <3> QED
      BY <3>1, <3>2, <3>3
  <2> QED
    BY <1>10, <2>2 DEF OwnLinks
<1>17. EventsFit(e)
  BY <1>9, <1>10, <1>13 DEF Conversions, EventsFit
<1>18. ReportsFit(e)
  BY <1>6, <1>10 DEF Conversions, ReportsFit, ReportFits
<1> QED
  BY <1>10, <1>11, <1>12, <1>14, <1>15, <1>16, <1>17, <1>18 DEF Conversions

\* A conversion that is repeated inserts the controls that are missing, and nothing else.
LEMMA RepeatedConversion ==
    ASSUME NEW d, IsDatabase(d), Conversions(d), NEW n \in DOMAIN d.scans,
           IsConverted(d.scans[n]), NEW role
    PROVE  Conversions(Converted(d, d, n, role)) /\ Converted(d, d, n, role).scans = d.scans
<1> DEFINE scan == d.scans[n]
           seeds == SeedFromObligationGraph(d.intakes[scan.intake].result.graph, scan.intake)
           controls == Seeded(d.controls, Missing(d.controls, scan.system, seeds), seeds)
           seeded == [d EXCEPT !.controls = controls]
<1>1. Linked(d, d, n, role) = d
  BY DEF Linked
<1>2. Converted(d, d, n, role) = EnsureConversionEvidence(seeded, n, scan.system)
  BY <1>1 DEF Converted
<1>3. DOMAIN d.controls \subseteq DOMAIN controls
  BY DEF Seeded
<1> HIDE DEF controls
<1>4. Conversions(seeded)
  BY <1>3, GrowingTables, GrowthKeeps
<1>5. seeded.events = d.events /\ seeded.scans = d.scans
  BY DEF IsDatabase
<1>6. OneEvent(d, n)
  BY DEF Conversions, ScanFits, WholeScan
<1>7. HasEvent(seeded, n, scan.system)
  BY <1>5, <1>6 DEF HasEvent, OneEvent, EventsOf
<1> QED
  BY <1>2, <1>4, <1>5, <1>7 DEF EnsureConversionEvidence

LEMMA ConversionKeeps ==
    ASSUME NEW d, IsDatabase(d), Conversions(d), NEW n \in DOMAIN d.scans,
           NEW role \in Roles \cup {"none"}, Convertible(d, d.scans[n], role)
    PROVE  LET e == Converted(d, d, n, role) IN
           Conversions(e) /\ n \in DOMAIN e.scans /\ IsConverted(e.scans[n])
<1>1. SelectedRole(role) \in Roles
  BY DEF SelectedRole, Roles
<1>2. CASE IsConverted(d.scans[n])
  BY <1>2, RepeatedConversion
<1>3. CASE ~IsConverted(d.scans[n])
  <2> DEFINE e == Converted(d, d, n, role)
  <2>1. FirstConversion(d, e, n, SelectedRole(role))
    BY <1>3, ConversionWrites
  <2> HIDE DEF e
  <2>2. d.scans[n].result.status = "completed"
    BY DEF Convertible
  <2>3. Conversions(e) /\ IsConverted(e.scans[n])
    BY <1>1, <1>3, <2>1, <2>2, FirstConversionKeeps
  <2>4. DOMAIN e.scans = DOMAIN d.scans
    BY <2>1 DEF FirstConversion
  <2> QED
    BY <2>3, <2>4 DEF e
<1> QED
  BY <1>2, <1>3

-----------------------------------------------------------------------------
(* The commits of scans and reports, and the invariant. *)

LEMMA ResultsFit ==
    ASSUME NEW found, NEW result \in ScanResults(found)
    PROVE  ResultFits(result)
<1>1. CASE result = Failed
  BY <1>1 DEF Failed, ResultFits
<1>2. ASSUME NEW area, result = Completed(found, area) PROVE ResultFits(result)
  BY <1>2 DEF Completed, ResultFits
<1> QED
  BY <1>1, <1>2 DEF ScanResults, Analyses

\* The scans of a system are converted: a scan without links has no system.
LEMMA GatheredScans ==
    ASSUME NEW d, Conversions(d), NEW system, NEW n \in ScansOf(d, system)
    PROVE  n \in DOMAIN d.scans /\ IsConverted(d.scans[n]) /\ d.scans[n].system = system
<1>1. n \in DOMAIN d.scans /\ system # None /\ d.scans[n].system = system
  BY DEF ScansOf
<1>2. WholeScan(d, n)
  BY <1>1 DEF Conversions, ScanFits
<1> QED
  BY <1>1, <1>2 DEF WholeScan

LEMMA ReadinessFits ==
    ASSUME NEW d, NEW tables, NEW origin, NEW system, NEW scans,
           \A n \in scans : origin # "client" =>
               n \in DOMAIN d.scans /\ IsConverted(d.scans[n]) /\ d.scans[n].system = system,
           NEW report \in ReadinessReports(tables, origin, system, scans)
    PROVE  ReportFits(d, report)
<1>1. report.origin = origin /\ report.system = system /\ report.scans = scans
  BY DEF ReadinessReports, Report
<1> QED
  BY <1>1 DEF ReportFits

LEMMA ReportCommits ==
    ASSUME Inv, Conversions(db), NEW s \in Slots, GenerateReport(s)
    PROVE  Conversions(db')
<1>1. IsDatabase(db) /\ Read(s) = db
  BY AtWrite DEF Inv, Fits, GenerateReport
<1>2. PICK system, report :
          /\ report \in ReadinessReports(db, "system", system, ScansOf(db, system))
                 \cup OtherReports(system)
                 \cup UNION {ReadinessReports(db, "client", system, {n}) : n \in DOMAIN db.scans}
          /\ Commit(s, WithReport(db, report))
  BY <1>1 DEF GenerateReport
<1>3. db' = WithReport(db, report)
  BY <1>2 DEF Commit
<1> DEFINE own == ReadinessReports(db, "system", system, ScansOf(db, system))
           clients == UNION {ReadinessReports(db, "client", system, {n}) : n \in DOMAIN db.scans}
           others == OtherReports(system)
<1>4. report \in own => ReportFits(db, report)
  BY GatheredScans, ReadinessFits
<1>5. report \in clients => ReportFits(db, report)
  <2> SUFFICES ASSUME report \in clients PROVE ReportFits(db, report)
    OBVIOUS
  <2>1. PICK n : report \in ReadinessReports(db, "client", system, {n})
    OBVIOUS
  <2>2. report.origin = "client"
    BY <2>1 DEF ReadinessReports, Report
  <2> QED
    BY <2>2 DEF ReportFits
<1>6. report \in others => ReportFits(db, report)
  BY DEF OtherReports, Report, ReportFits
<1>7. report \in own \cup others \cup clients
  BY <1>2
<1> HIDE DEF own, clients, others
<1>8. ReportFits(db, report)
  BY <1>4, <1>5, <1>6, <1>7
<1> QED
  BY <1>1, <1>3, <1>8, ReportAdded

LEMMA ConversionCommits ==
    ASSUME Inv, Conversions(db), NEW s \in Slots, ConvertScan(s) \/ GenerateScanReport(s)
    PROVE  Conversions(db')
<1>1. IsDatabase(db) /\ Fits(db) /\ Read(s) = db
  BY AtWrite DEF Inv, Fits, ConvertScan, GenerateScanReport
<1>2. CASE ConvertScan(s)
  <2>1. PICK n \in DOMAIN db.scans, role \in Roles \cup {"none"} :
            Convertible(db, db.scans[n], role) /\ db' = Converted(db, db, n, role)
    BY <1>1, <1>2 DEF ConvertScan, Commit
  <2> QED
    BY <1>1, <2>1, ConversionKeeps
<1>3. CASE GenerateScanReport(s)
  <2>1. PICK n \in DOMAIN db.scans, role \in Roles \cup {"none"} :
            /\ Convertible(db, db.scans[n], role)
            /\ LET tables == Converted(db, db, n, role) IN
               \E report \in ReadinessReports(tables, "scan", tables.scans[n].system, {n}) :
                   db' = WithReport(tables, report)
    BY <1>1, <1>3 DEF GenerateScanReport, Commit
  <2> DEFINE tables == Converted(db, db, n, role)
  <2>2. Conversions(tables) /\ n \in DOMAIN tables.scans /\ IsConverted(tables.scans[n])
    BY <1>1, <2>1, ConversionKeeps
  <2>3. IsDatabase(tables)
    BY <1>1, ConvertedFits DEF Fits
  <2>4. PICK report \in ReadinessReports(tables, "scan", tables.scans[n].system, {n}) :
            db' = WithReport(tables, report)
    BY <2>1
  <2> HIDE DEF tables
  <2>5. ReportFits(tables, report)
    BY <2>2, <2>4, ReadinessFits
  <2> QED
    BY <2>2, <2>3, <2>4, <2>5, ReportAdded
<1> QED
  BY <1>2, <1>3

LEMMA ScanCommits ==
    ASSUME Inv, Conversions(db), NEW s \in Slots, EndScan(s)
    PROVE  Conversions(db')
<1>1. PICK result \in ScanResults(tx[s].data.found) :
          db' = [db EXCEPT !.scans = Append(@, Scan(result))]
  BY DEF EndScan, Commit
<1>2. ResultFits(result)
  BY <1>1, ResultsFit
<1> QED
  BY <1>1, <1>2, ScanAdded DEF Inv, Fits

LEMMA ConversionSteps ==
    ASSUME Inv, Conversions(db), Next
    PROVE  Conversions(db')
<1>1. ASSUME NEW s \in Slots, NEW op, Authenticate(s, op) \/ BlockLoop(s, op)
      PROVE  db' = db
  BY <1>1 DEF Authenticate, BlockLoop
<1>2. ASSUME NEW s \in Slots, Serve(s)
      PROVE  Conversions(db')
  <2>1. CASE Unblock(s) \/ Fail(s) \/ CloseSession(s)
    <3>1. db' = db
      BY <2>1 DEF Unblock, Fail, CloseSession, ChangesNoRow
    <3> QED
      BY <3>1
  <2>2. CASE Edit(s)
    BY <2>2, SystemCommits, SystemReviewCommits, ControlCommits, EvidenceCommits,
       ConversionCommits, ReportCommits DEF Edit
  <2>3. CASE Upload(s)
    <3>1. CASE ReceiveFile(s) \/ StoreObject(s)
      <4>1. db' = db
        BY <3>1 DEF ReceiveFile, StoreObject, ChangesNoRow
      <4> QED
        BY <4>1
    <3> QED
      BY <2>3, <3>1, EvidenceCommits DEF Upload
  <2>4. CASE ScanSite(s)
    <3>1. CASE StartScan(s) \/ FetchPage(s) \/ RenderPage(s)
      <4>1. db' = db
        BY <3>1 DEF StartScan, FetchPage, RenderPage, ChangesNoRow
      <4> QED
        BY <4>1
    <3> QED
      BY <2>4, <3>1, ScanCommits DEF ScanSite
  <2> QED
    BY <1>2, <2>1, <2>2, <2>3, <2>4 DEF Serve
<1>3. ASSUME NEW w \in Workers, KillWorker(w)
      PROVE  db' = db
  BY <1>3 DEF KillWorker, ChangesNoRow
<1> QED
  BY <1>1, <1>2, <1>3 DEF Next

LEMMA ConversionsAreWhole ==
    ASSUME Conversions(db)
    PROVE  ConversionIsWhole
<1>1. ASSUME NEW n \in DOMAIN db.scans PROVE WholeConversion(n)
  <2> DEFINE scan == db.scans[n]
             result == db.intakes[scan.intake].result
             events == {i \in DOMAIN db.events : db.events[i].scan = n}
  <2>1. WholeScan(db, n) /\ events = EventsOf(db, n)
    BY DEF Conversions, ScanFits, EventsOf
  <2>2. CASE ~IsConverted(scan)
    BY <2>1, <2>2 DEF WholeScan, WholeConversion
  <2>3. CASE IsConverted(scan)
    <3>1. /\ IntakeFits(scan, db.intakes[scan.intake]) /\ OneEvent(db, n)
          /\ Registered(db.controls, scan.system, result.graph)
      BY <2>1, <2>3 DEF WholeScan
    <3>2. scan.result.status = "completed"
          /\ result.role = scan.role /\ result.role = db.intakes[scan.intake].selected
      BY <3>1 DEF IntakeFits
    <3>3. \E i \in events : events = {i} /\ db.events[i].system = scan.system
      BY <2>1, <3>1 DEF OneEvent, Event
    <3>4. \E announced \in scan.result.scenarios :
              /\ announced.role = result.role /\ announced.class = result.class
              /\ announced.path = result.path
              /\ announced.graph = result.graph
              /\ ManualReviewRequired(result.graph) => announced.review
      BY <3>1 DEF IntakeFits, Announced
    <3>5. \A item \in result.graph : Existing(db.controls, scan.system, ObligationKey(item)) # {}
      BY <3>1 DEF Registered
    <3> QED
      BY <2>3, <3>2, <3>3, <3>4, <3>5 DEF WholeConversion
  <2> QED
    BY <2>2, <2>3
<1> QED
  BY <1>1 DEF Conversions, OwnLinks, EventsFit, ReportsFit, ReportFits, ConversionIsWhole

LEMMA ConversionsStay ==
    ASSUME OneKey, \A d \in InitialDb : Fits(d) /\ Conversions(d)
    PROVE  Spec => []Conversions(db)
<1> DEFINE Whole == Conversions(db)
<1>1. Init => Whole
  BY DEF Init
<1>2. Inv /\ Whole /\ [Next]_vars => Whole'
  <2>1. ASSUME Whole, UNCHANGED vars PROVE Whole'
    <3>1. db' = db
      BY <2>1 DEF vars
    <3> QED
      BY <2>1, <3>1
  <2> QED
    BY <2>1, ConversionSteps
<1>3. Spec => []Inv
  BY EvidenceFits
<1>4. Spec => []Whole
  <2> HIDE DEF Whole
  <2> QED
    BY <1>1, <1>2, <1>3, PTL DEF Spec
<1> QED
  BY <1>4

\* Whatever requests do before, between and after, a converted scan has its system, the intake
\* that it announced for the selected role, every control that this intake asks for, and one
\* evidence event; no two scans share a system or an intake, and a report gathers the scans of
\* its own system.  convert_scan commits all of this at once, over the rows it has read.
THEOREM ConversionStaysWhole ==
    ASSUME OneKey, \A d \in InitialDb : Fits(d) /\ Conversions(d)
    PROVE  Spec => []ConversionIsWhole
<1>1. Conversions(db) => ConversionIsWhole
  BY ConversionsAreWhole
<1>2. Spec => []Conversions(db)
  BY ConversionsStay
<1> QED
  BY <1>1, <1>2, PTL

-----------------------------------------------------------------------------
(* The types of the rows.  A table is written with rows of its type while the tables that *)
(* they refer to grow; references are to rows that exist when they are written.           *)

ControlRowIn(d) ==
    [status : ControlStatuses,
     details : [source : Sources, severity : Severities \cup {"none"},
                intake : {None} \cup DOMAIN d.intakes, reviews : Nat]]
ReportRowIn(d) ==
    [origin : {"scan", "system", "client"}, system : LinkableSystems(d),
     readiness : {"ready", "partially_ready", "needs_attention"}, scans : SUBSET DOMAIN d.scans]
ItemTyped(d, item) ==
    /\ item.system \in LinkableSystems(d)
    /\ item.control \in DOMAIN d.controls \cup {None}
    /\ item.content \in Contents
ScanTyped(scan) == scan.result.status \in ScanStatuses /\ scan.result.answers \subseteq Questions

SystemsTyped(x) == IsTable(x) /\ \A i \in DOMAIN x : x[i] \in SystemRow
IntakesTyped(x) == IsTable(x) /\ \A i \in DOMAIN x : x[i].answers \subseteq Questions
ControlsTyped(d, x) ==
    \A id \in DOMAIN x : id.system \in LinkableSystems(d) /\ x[id] \in ControlRowIn(d)
ItemsTyped(d, x) == IsTable(x) /\ \A i \in DOMAIN x : ItemTyped(d, x[i])
ScansTyped(x) == IsTable(x) /\ \A n \in DOMAIN x : ScanTyped(x[n])
RowsTyped(d) ==
    /\ IsDatabase(d)
    /\ SystemsTyped(d.systems) /\ IntakesTyped(d.intakes)
    /\ ControlsTyped(d, d.controls) /\ ItemsTyped(d, d.items)
    /\ ScansTyped(d.scans) /\ d.reports \subseteq ReportRowIn(d)

\* References stay good while the tables grow.
Wider(d, e) ==
    /\ DOMAIN d.systems \subseteq DOMAIN e.systems
    /\ DOMAIN d.intakes \subseteq DOMAIN e.intakes
    /\ DOMAIN d.controls \subseteq DOMAIN e.controls
    /\ DOMAIN d.scans \subseteq DOMAIN e.scans

LEMMA TypesWiden ==
    ASSUME NEW d, NEW e, Wider(d, e)
    PROVE  /\ LinkableSystems(d) \subseteq LinkableSystems(e)
           /\ ControlRowIn(d) \subseteq ControlRowIn(e)
           /\ ReportRowIn(d) \subseteq ReportRowIn(e)
           /\ \A x : ControlsTyped(d, x) => ControlsTyped(e, x)
           /\ \A x : ItemsTyped(d, x) => ItemsTyped(e, x)
<1>1. LinkableSystems(d) \subseteq LinkableSystems(e)
  BY DEF Wider, LinkableSystems, SystemIds
<1>2. ControlRowIn(d) \subseteq ControlRowIn(e)
  BY DEF Wider, ControlRowIn
<1>3. ReportRowIn(d) \subseteq ReportRowIn(e)
  BY <1>1 DEF Wider, ReportRowIn
<1>4. \A x : ControlsTyped(d, x) => ControlsTyped(e, x)
  BY <1>1, <1>2 DEF ControlsTyped
<1>5. \A x : ItemsTyped(d, x) => ItemsTyped(e, x)
  BY <1>1 DEF ItemsTyped, ItemTyped, Wider
<1> QED
  BY <1>1, <1>2, <1>3, <1>4, <1>5

LEMMA WrittenTyped ==
    ASSUME NEW d, RowsTyped(d), NEW x
    PROVE  /\ SystemsTyped(x) /\ DOMAIN d.systems \subseteq DOMAIN x => RowsTyped([d EXCEPT !.systems = x])
           /\ IntakesTyped(x) /\ DOMAIN d.intakes \subseteq DOMAIN x => RowsTyped([d EXCEPT !.intakes = x])
           /\ ControlsTyped(d, x) /\ DOMAIN d.controls \subseteq DOMAIN x
                  => RowsTyped([d EXCEPT !.controls = x])
           /\ ItemsTyped(d, x) => RowsTyped([d EXCEPT !.items = x])
           /\ ScansTyped(x) /\ DOMAIN d.scans \subseteq DOMAIN x => RowsTyped([d EXCEPT !.scans = x])
           /\ x \subseteq ReportRowIn(d) => RowsTyped([d EXCEPT !.reports = x])
<1>1. IsDatabase(d)
  BY DEF RowsTyped
<1>2. ASSUME SystemsTyped(x), DOMAIN d.systems \subseteq DOMAIN x
      PROVE  RowsTyped([d EXCEPT !.systems = x])
  <2> DEFINE e == [d EXCEPT !.systems = x]
  <2>1. /\ IsDatabase(e) /\ e.systems = x /\ e.intakes = d.intakes /\ e.controls = d.controls
        /\ e.items = d.items /\ e.scans = d.scans /\ e.reports = d.reports
    BY <1>1 DEF IsDatabase
  <2> HIDE DEF e
  <2>2. Wider(d, e)
    BY <1>2, <2>1 DEF Wider
  <2>3. RowsTyped(e)
    BY <1>2, <2>1, <2>2, TypesWiden DEF RowsTyped
  <2> QED
    BY <2>3 DEF e
<1>3. ASSUME IntakesTyped(x), DOMAIN d.intakes \subseteq DOMAIN x
      PROVE  RowsTyped([d EXCEPT !.intakes = x])
  <2> DEFINE e == [d EXCEPT !.intakes = x]
  <2>1. /\ IsDatabase(e) /\ e.systems = d.systems /\ e.intakes = x /\ e.controls = d.controls
        /\ e.items = d.items /\ e.scans = d.scans /\ e.reports = d.reports
    BY <1>1 DEF IsDatabase
  <2> HIDE DEF e
  <2>2. Wider(d, e)
    BY <1>3, <2>1 DEF Wider
  <2>3. RowsTyped(e)
    BY <1>3, <2>1, <2>2, TypesWiden DEF RowsTyped
  <2> QED
    BY <2>3 DEF e
<1>4. ASSUME ControlsTyped(d, x), DOMAIN d.controls \subseteq DOMAIN x
      PROVE  RowsTyped([d EXCEPT !.controls = x])
  <2> DEFINE e == [d EXCEPT !.controls = x]
  <2>1. /\ IsDatabase(e) /\ e.systems = d.systems /\ e.intakes = d.intakes /\ e.controls = x
        /\ e.items = d.items /\ e.scans = d.scans /\ e.reports = d.reports
    BY <1>1 DEF IsDatabase
  <2> HIDE DEF e
  <2>2. Wider(d, e)
    BY <1>4, <2>1 DEF Wider
  <2>3. RowsTyped(e)
    BY <1>4, <2>1, <2>2, TypesWiden DEF RowsTyped
  <2> QED
    BY <2>3 DEF e
<1>5. ASSUME ItemsTyped(d, x)
      PROVE  RowsTyped([d EXCEPT !.items = x])
  <2> DEFINE e == [d EXCEPT !.items = x]
  <2>1. /\ IsDatabase(e) /\ e.systems = d.systems /\ e.intakes = d.intakes /\ e.controls = d.controls
        /\ e.items = x /\ e.scans = d.scans /\ e.reports = d.reports
    BY <1>1 DEF IsDatabase
  <2> HIDE DEF e
  <2>2. Wider(d, e)
    BY <2>1 DEF Wider
  <2>3. RowsTyped(e)
    BY <1>5, <2>1, <2>2, TypesWiden DEF RowsTyped
  <2> QED
    BY <2>3 DEF e
<1>6. ASSUME ScansTyped(x), DOMAIN d.scans \subseteq DOMAIN x
      PROVE  RowsTyped([d EXCEPT !.scans = x])
  <2> DEFINE e == [d EXCEPT !.scans = x]
  <2>1. /\ IsDatabase(e) /\ e.systems = d.systems /\ e.intakes = d.intakes /\ e.controls = d.controls
        /\ e.items = d.items /\ e.scans = x /\ e.reports = d.reports
    BY <1>1 DEF IsDatabase
  <2> HIDE DEF e
  <2>2. Wider(d, e)
    BY <1>6, <2>1 DEF Wider
  <2>3. RowsTyped(e)
    BY <1>6, <2>1, <2>2, TypesWiden DEF RowsTyped
  <2> QED
    BY <2>3 DEF e
<1>7. ASSUME x \subseteq ReportRowIn(d)
      PROVE  RowsTyped([d EXCEPT !.reports = x])
  <2> DEFINE e == [d EXCEPT !.reports = x]
  <2>1. /\ IsDatabase(e) /\ e.systems = d.systems /\ e.intakes = d.intakes /\ e.controls = d.controls
        /\ e.items = d.items /\ e.scans = d.scans /\ e.reports = x
    BY <1>1 DEF IsDatabase
  <2> HIDE DEF e
  <2>2. Wider(d, e)
    BY <2>1 DEF Wider
  <2>3. RowsTyped(e)
    BY <1>7, <2>1, <2>2, TypesWiden DEF RowsTyped
  <2> QED
    BY <2>3 DEF e
<1> QED
  BY <1>2, <1>3, <1>4, <1>5, <1>6, <1>7

LEMMA OthersTyped ==
    ASSUME NEW d, RowsTyped(d), NEW x
    PROVE  /\ RowsTyped([d EXCEPT !.artifacts = x])
           /\ RowsTyped([d EXCEPT !.events = x])
           /\ RowsTyped([d EXCEPT !.reviews = x])
<1>1. IsDatabase(d)
  BY DEF RowsTyped
<1>2. ASSUME NEW e, IsDatabase(e), e.systems = d.systems, e.intakes = d.intakes, e.controls = d.controls,
             e.items = d.items, e.scans = d.scans, e.reports = d.reports
      PROVE  RowsTyped(e)
  <2>1. Wider(d, e)
    BY <1>2 DEF Wider
  <2> QED
    BY <1>2, <2>1, TypesWiden DEF RowsTyped
<1>3. \A c \in {"artifacts", "events", "reviews"} : LET e == [d EXCEPT ![c] = x] IN
          /\ IsDatabase(e) /\ e.systems = d.systems /\ e.intakes = d.intakes /\ e.controls = d.controls
          /\ e.items = d.items /\ e.scans = d.scans /\ e.reports = d.reports
  BY <1>1 DEF IsDatabase
<1> QED
  BY <1>2, <1>3

\* An UPDATE over the row it was computed from writes a row of the type.
LEMMA SystemMerged ==
    ASSUME NEW row \in SystemRow, NEW new \in SystemRow
    PROVE  Merge(row, row, new) \in SystemRow
<1>1. Merge(row, row, new) = new
  <2>1. Merge(row, row, new) = [c \in DOMAIN row |-> new[c]]
    BY DEF Merge
  <2> QED
    BY <2>1 DEF SystemRow
<1> QED
  BY <1>1

LEMMA ControlMerged ==
    ASSUME NEW d, NEW row \in ControlRowIn(d), NEW new \in ControlRowIn(d)
    PROVE  Merge(row, row, new) \in ControlRowIn(d)
<1>1. Merge(row, row, new) = new
  <2>1. Merge(row, row, new) = [c \in DOMAIN row |-> new[c]]
    BY DEF Merge
  <2> QED
    BY <2>1 DEF ControlRowIn
<1> QED
  BY <1>1

LEMMA SystemUpdated ==
    ASSUME NEW x, SystemsTyped(x), NEW i \in DOMAIN x, NEW new \in SystemRow
    PROVE  SystemsTyped([x EXCEPT ![i] = Merge(@, x[i], new)])
           /\ DOMAIN [x EXCEPT ![i] = Merge(@, x[i], new)] = DOMAIN x
<1> DEFINE row == Merge(x[i], x[i], new)
<1>1. row \in SystemRow
  BY SystemMerged DEF SystemsTyped
<1> HIDE DEF row
<1>2. SystemsTyped([x EXCEPT ![i] = row]) /\ DOMAIN [x EXCEPT ![i] = row] = DOMAIN x
  BY <1>1, UpdatedTable DEF SystemsTyped
<1> QED
  BY <1>2 DEF row

LEMMA SystemRowsKept ==
    ASSUME Inv, RowsTyped(db), NEW s \in Slots,
           CreateAiSystem(s) \/ UpdateAiSystem(s) \/ CreateIntake(s)
    PROVE  RowsTyped(db')
<1>1. SystemsTyped(db.systems) /\ IntakesTyped(db.intakes)
  BY DEF RowsTyped
<1>2. CASE CreateAiSystem(s)
  <2> DEFINE new == System("not_started")
             x == Append(db.systems, new)
  <2>1. db' = [db EXCEPT !.systems = x]
    BY <1>2 DEF CreateAiSystem, WithSystem, Commit
  <2>2. new \in SystemRow
    BY DEF System, SystemRow, ReviewStatuses
  <2> HIDE DEF new
  <2>3. SystemsTyped(x) /\ DOMAIN db.systems \subseteq DOMAIN x
    BY <1>1, <2>2, AppendedTable, AppendExtends DEF SystemsTyped
  <2> HIDE DEF x
  <2> QED
    BY <2>1, <2>3, WrittenTyped
<1>3. CASE UpdateAiSystem(s)
  <2>1. PICK i \in DOMAIN db.systems, review \in {"scheduled", "completed"} :
            db' = [db EXCEPT !.systems[i] =
                       Merge(@, db.systems[i], [db.systems[i] EXCEPT !.review = review])]
    BY <1>3, AtWrite DEF UpdateAiSystem, SystemIds, Commit
  <2> DEFINE new == [db.systems[i] EXCEPT !.review = review]
             x == [db.systems EXCEPT ![i] = Merge(@, db.systems[i], new)]
  <2>2. db' = [db EXCEPT !.systems = x]
    BY <2>1
  <2>3. db.systems[i] \in SystemRow
    BY <1>1 DEF SystemsTyped
  <2>4. new \in SystemRow
    BY <2>3 DEF SystemRow, ReviewStatuses
  <2> HIDE DEF new
  <2>5. SystemsTyped(x) /\ DOMAIN x = DOMAIN db.systems
    BY <1>1, <2>4, SystemUpdated
  <2> HIDE DEF x
  <2> QED
    BY <2>2, <2>5, WrittenTyped
<1>4. CASE CreateIntake(s)
  <2>1. PICK answers \in Questionnaires :
            db' = [db EXCEPT !.intakes = Append(@, Intake(answers, "none"))]
    BY <1>4 DEF CreateIntake, Commit
  <2> DEFINE new == Intake(answers, "none")
             x == Append(db.intakes, new)
  <2>2. new.answers \subseteq Questions
    BY InputsAreKnown DEF Intake
  <2>3. db' = [db EXCEPT !.intakes = x]
    BY <2>1
  <2> HIDE DEF new
  <2>4. IntakesTyped(x) /\ DOMAIN db.intakes \subseteq DOMAIN x
    BY <1>1, <2>2, AppendedTable, AppendExtends DEF IntakesTyped
  <2> HIDE DEF x
  <2> QED
    BY <2>3, <2>4, WrittenTyped
<1> QED
  BY <1>2, <1>3, <1>4

LEMMA NewControl ==
    ASSUME NEW d, NEW status \in ControlStatuses, NEW source \in Sources,
           NEW severity \in Severities \cup {"none"}, NEW intake \in {None} \cup DOMAIN d.intakes
    PROVE  Control(status, source, severity, intake) \in ControlRowIn(d)
  BY DEF Control, ControlRowIn

SeedsTyped(d, seeds) == \A key \in DOMAIN seeds : seeds[key] \in ControlRowIn(d)

LEMMA GraphSeeds ==
    ASSUME NEW d, NEW graph, NEW intake \in DOMAIN d.intakes
    PROVE  SeedsTyped(d, SeedFromObligationGraph(graph, intake))
<1>1. \A item : StatusFromObligation(item) \in ControlStatuses
  BY DEF StatusFromObligation, ControlStatuses
<1>2. \A item : SeverityFromObligation(item) \in Severities \cup {"none"}
  BY DEF SeverityFromObligation, Severities
<1>3. "intake" \in Sources
  BY DEF Sources
<1>4. \A item : Control(StatusFromObligation(item), "intake", SeverityFromObligation(item), intake)
          \in ControlRowIn(d)
  BY <1>1, <1>2, <1>3, NewControl
<1> QED
  BY <1>4 DEF SeedsTyped, SeedFromObligationGraph

LEMMA ListedSeeds ==
    ASSUME NEW d
    PROVE  /\ SeedsTyped(d, SeedBaseline)
           /\ SeedsTyped(d, ApplyTemplates({"bias_testing_performed"}))
<1>1. "not_started" \in ControlStatuses /\ "baseline" \in Sources /\ "template" \in Sources
  BY DEF ControlStatuses, Sources
<1>2. \A name \in DOMAIN Baseline : Baseline[name] \in Severities
  BY DEF Baseline, Severities
<1>3. Templates["bias_testing_performed"] \in Severities
  BY DEF Templates, Severities
<1>4. \A name : Key("", name, 0).name = name
  BY DEF Key
<1>5. SeedsTyped(d, SeedBaseline)
  <2>1. ASSUME NEW name \in DOMAIN Baseline
        PROVE  Control("not_started", "baseline", Baseline[name], None) \in ControlRowIn(d)
    BY <1>1, <1>2, NewControl
  <2> QED
    BY <1>4, <2>1 DEF SeedsTyped, SeedBaseline
<1>6. SeedsTyped(d, ApplyTemplates({"bias_testing_performed"}))
  <2>1. Control("not_started", "template", Templates["bias_testing_performed"], None) \in ControlRowIn(d)
    BY <1>1, <1>3, NewControl
  <2> QED
    BY <1>4, <2>1 DEF SeedsTyped, ApplyTemplates
<1> QED
  BY <1>5, <1>6

LEMMA SeededTyped ==
    ASSUME NEW d, NEW controls, ControlsTyped(d, controls), NEW system \in LinkableSystems(d),
           NEW seeds, SeedsTyped(d, seeds), NEW register
    PROVE  LET x == Seeded(controls, Missing(register, system, seeds), seeds) IN
           ControlsTyped(d, x) /\ DOMAIN controls \subseteq DOMAIN x
<1> DEFINE missing == Missing(register, system, seeds)
<1>1. \A id \in missing : id.system = system /\ id.key \in DOMAIN seeds
  BY DEF Missing, ControlId
<1> HIDE DEF missing
<1>2. ControlsTyped(d, Seeded(controls, missing, seeds))
  BY <1>1 DEF ControlsTyped, Seeded, SeedsTyped
<1>3. DOMAIN controls \subseteq DOMAIN Seeded(controls, missing, seeds)
  BY DEF Seeded
<1> QED
  BY <1>2, <1>3 DEF missing

LEMMA InsertedTyped ==
    ASSUME NEW d, NEW controls, ControlsTyped(d, controls), NEW id, id.system \in LinkableSystems(d),
           NEW new \in ControlRowIn(d)
    PROVE  ControlsTyped(d, Inserted(controls, id, new))
           /\ DOMAIN controls \subseteq DOMAIN Inserted(controls, id, new)
           /\ id \in DOMAIN Inserted(controls, id, new)
  BY DEF ControlsTyped, Inserted

LEMMA Represented ==
    ASSUME NEW register, NEW id \in Representatives(register)
    PROVE  id \in DOMAIN register
<1>1. PICK any \in DOMAIN register :
          id = CHOOSE other \in DOMAIN register :
                   /\ other.system = any.system
                   /\ register[other].details.source = register[any].details.source
  BY DEF Representatives
<1> QED
  BY <1>1

LEMMA ControlEdited ==
    ASSUME NEW d, NEW row \in ControlRowIn(d), NEW new \in UpdatedControls(row) \cup ReviewedControls(row)
    PROVE  new \in ControlRowIn(d)
<1>1. /\ row = [status |-> row.status, details |-> row.details] /\ row.status \in ControlStatuses
      /\ row.details \in [source : Sources, severity : Severities \cup {"none"},
                          intake : {None} \cup DOMAIN d.intakes, reviews : Nat]
  BY DEF ControlRowIn
<1>2. ClientDetails \in [source : Sources, severity : Severities \cup {"none"},
                         intake : {None} \cup DOMAIN d.intakes, reviews : Nat]
  BY DEF ClientDetails, Sources
<1>3. /\ {row.status} \cup ClientStatuses \subseteq ControlStatuses
      /\ {row.details.severity, "none"} \cup ClientSeverities \subseteq Severities \cup {"none"}
  BY <1>1, ClientsWrite
<1>4. CASE new \in UpdatedControls(row)
  <2>1. PICK status, details, severity :
            /\ status \in {row.status} \cup ClientStatuses /\ details \in {row.details, ClientDetails}
            /\ severity \in {row.details.severity, "none"} \cup ClientSeverities
            /\ new = [status |-> status, details |-> [details EXCEPT !.severity = severity]]
    BY <1>4 DEF UpdatedControls
  <2>2. [details EXCEPT !.severity = severity]
            \in [source : Sources, severity : Severities \cup {"none"},
                 intake : {None} \cup DOMAIN d.intakes, reviews : Nat]
    BY <1>1, <1>2, <1>3, <2>1
  <2> QED
    BY <1>3, <2>1, <2>2 DEF ControlRowIn
<1>5. ASSUME NEW severity \in Severities \cup {"none"}
      PROVE  ReviewedDetails(row, severity)
                 \in [source : Sources, severity : Severities \cup {"none"},
                      intake : {None} \cup DOMAIN d.intakes, reviews : Nat]
  <2>1. PICK count \in Nat :
            ReviewedDetails(row, severity) = [row.details EXCEPT !.severity = severity, !.reviews = count]
    <3> DEFINE count == IF row.details.reviews = 25 THEN 25 ELSE row.details.reviews + 1
    <3>1. row.details.reviews \in Nat
      BY <1>1
    <3>2. count \in Nat
      BY <3>1
    <3>3. ReviewedDetails(row, severity) = [row.details EXCEPT !.severity = severity, !.reviews = count]
      BY DEF ReviewedDetails
    <3> QED
      BY <3>2, <3>3
  <2> QED
    BY <1>1, <1>5, <2>1
<1>6. CASE new \in ReviewedControls(row)
  <2>1. PICK status, severity :
            /\ status \in {row.status} \cup ClientStatuses
            /\ severity \in {row.details.severity} \cup ClientSeverities
            /\ new = [status |-> status, details |-> ReviewedDetails(row, severity)]
    BY <1>6 DEF ReviewedControls
  <2> QED
    BY <1>3, <1>5, <2>1 DEF ControlRowIn
<1> QED
  BY <1>4, <1>6

LEMMA ControlRowsKept ==
    ASSUME Inv, RowsTyped(db), NEW s \in Slots,
           \/ MaterializeControlPlan(s) \/ ApplyControlTemplates(s) \/ SeedBaselineControls(s)
           \/ CreateControl(s) \/ UpdateControl(s) \/ RecordControlReview(s)
    PROVE  RowsTyped(db')
<1>1. Read(s) = db /\ ControlsTyped(db, db.controls)
  BY AtWrite DEF RowsTyped, MaterializeControlPlan, ApplyControlTemplates, SeedBaselineControls,
                 CreateControl, UpdateControl, RecordControlReview
<1>2. PICK x : /\ db' = [db EXCEPT !.controls = x]
               /\ ControlsTyped(db, x) /\ DOMAIN db.controls \subseteq DOMAIN x
  <2>1. ASSUME NEW system \in LinkableSystems(db), NEW seeds, SeedsTyped(db, seeds), Seed(s, system, seeds)
        PROVE  \E x : /\ db' = [db EXCEPT !.controls = x]
                      /\ ControlsTyped(db, x) /\ DOMAIN db.controls \subseteq DOMAIN x
    <3> DEFINE x == Seeded(db.controls, Missing(db.controls, system, seeds), seeds)
    <3>1. db' = [db EXCEPT !.controls = x]
      BY <1>1, <2>1 DEF Seed, Commit
    <3>2. ControlsTyped(db, x) /\ DOMAIN db.controls \subseteq DOMAIN x
      BY <1>1, <2>1, SeededTyped
    <3> HIDE DEF x
    <3> QED
      BY <3>1, <3>2
  <2>2. CASE MaterializeControlPlan(s)
    <3>1. PICK n \in DOMAIN db.intakes, system \in LinkableSystems(db) :
              Seed(s, system, SeedFromObligationGraph(db.intakes[n].result.graph, n))
      BY <1>1, <2>2 DEF MaterializeControlPlan
    <3> QED
      BY <2>1, <3>1, GraphSeeds
  <2>3. CASE ApplyControlTemplates(s) \/ SeedBaselineControls(s)
    BY <1>1, <2>1, <2>3, ListedSeeds DEF ApplyControlTemplates, SeedBaselineControls
  <2>4. CASE CreateControl(s)
    <3>1. PICK system \in LinkableSystems(db), key \in OwnKeys,
               status \in {"not_started"} \cup ClientStatuses, severity \in ClientSeverities :
              Commit(s, [db EXCEPT !.controls = Inserted(@, NewId(db.controls, system, key),
                                                         Control(status, "client", severity, None))])
      BY <1>1, <2>4 DEF CreateControl
    <3> DEFINE new == Control(status, "client", severity, None)
    <3>2. new \in ControlRowIn(db)
      <4>1. status \in ControlStatuses /\ "client" \in Sources /\ severity \in Severities \cup {"none"}
        BY <3>1, ClientsWrite DEF ControlStatuses, Sources
      <4> QED
        BY <4>1, NewControl
    <3>3. NewId(db.controls, system, key).system = system
      BY DEF NewId, ControlId
    <3> DEFINE x == Inserted(db.controls, NewId(db.controls, system, key), new)
    <3> HIDE DEF new
    <3>4. ControlsTyped(db, x) /\ DOMAIN db.controls \subseteq DOMAIN x
      BY <1>1, <3>1, <3>2, <3>3, InsertedTyped
    <3>5. db' = [db EXCEPT !.controls = x]
      BY <3>1 DEF new, Commit
    <3> HIDE DEF x
    <3> QED
      BY <3>4, <3>5
  <2>5. CASE UpdateControl(s) \/ RecordControlReview(s)
    <3>1. PICK id, new :
              /\ id \in Representatives(db.controls)
              /\ new \in UpdatedControls(db.controls[id]) \cup ReviewedControls(db.controls[id])
              /\ EditControl(s, id, new)
      BY <1>1, <2>5 DEF UpdateControl, RecordControlReview
    <3> DEFINE row == Merge(db.controls[id], db.controls[id], new)
               x == [db.controls EXCEPT ![id] = row]
    <3>2. db' = [db EXCEPT !.controls = x]
      BY <1>1, <3>1 DEF EditControl, Commit
    <3>3. id \in DOMAIN db.controls /\ db.controls[id] \in ControlRowIn(db)
      BY <1>1, <3>1, Represented DEF ControlsTyped
    <3>4. row \in ControlRowIn(db)
      BY <3>1, <3>3, ControlEdited, ControlMerged
    <3> HIDE DEF row
    <3>5. ControlsTyped(db, x) /\ DOMAIN db.controls = DOMAIN x
      BY <1>1, <3>3, <3>4 DEF ControlsTyped
    <3> HIDE DEF x
    <3> QED
      BY <3>2, <3>5
  <2> QED
    BY <2>2, <2>3, <2>4, <2>5
<1> QED
  BY <1>2, WrittenTyped

LEMMA LinkedSystem ==
    ASSUME NEW d, RowsTyped(d), NEW system \in LinkableSystems(d),
           NEW control \in DOMAIN d.controls \cup {None}
    PROVE  ResolvedSystem(system, control) \in LinkableSystems(d)
<1>1. SystemOf(control) \in LinkableSystems(d)
  BY DEF SystemOf, RowsTyped, ControlsTyped, LinkableSystems
<1> QED
  BY <1>1 DEF ResolvedSystem

LEMMA InsertedItem ==
    ASSUME NEW d, NEW system \in LinkableSystems(d), NEW control \in DOMAIN d.controls \cup {None},
           NEW content \in Contents, NEW metadata
    PROVE  ItemTyped(d, Item(system, control, content, metadata))
<1>1. LET item == Item(system, control, content, metadata) IN
      item.system = system /\ item.control = control /\ item.content = content
  BY DEF Item, Sealed
<1> QED
  BY <1>1 DEF ItemTyped

LEMMA ItemAppended ==
    ASSUME NEW d, RowsTyped(d), NEW item, ItemTyped(d, item)
    PROVE  RowsTyped([d EXCEPT !.items = Append(@, item)])
<1> DEFINE x == Append(d.items, item)
<1>1. ItemsTyped(d, x)
  BY AppendedTable DEF RowsTyped, ItemsTyped
<1> HIDE DEF x
<1>2. RowsTyped([d EXCEPT !.items = x])
  BY <1>1, WrittenTyped
<1> QED
  BY <1>2 DEF x

LEMMA ItemEditTyped ==
    ASSUME NEW d, RowsTyped(d), NEW i, NEW item, i \in DOMAIN d.items => ItemTyped(d, item)
    PROVE  RowsTyped([d EXCEPT !.items = [@ EXCEPT ![i] = item]])
<1> DEFINE x == [d.items EXCEPT ![i] = item]
<1>1. ItemsTyped(d, x)
  BY UpdatedTable DEF RowsTyped, ItemsTyped
<1> HIDE DEF x
<1>2. RowsTyped([d EXCEPT !.items = x])
  BY <1>1, WrittenTyped
<1> QED
  BY <1>2 DEF x

LEMMA ItemEditKept ==
    ASSUME Inv, RowsTyped(db), NEW s \in Slots, Read(s) = db, NEW i \in DOMAIN db.items, NEW new,
           ItemFits(new), ItemTyped(db, new), EditItem(s, i, new)
    PROVE  RowsTyped(db')
<1>1. Merge(db.items[i], db.items[i], new) = new
  BY MergeIsNew DEF Inv, Fits, ItemsFit
<1>2. db' = [db EXCEPT !.items = [@ EXCEPT ![i] = new]]
  BY <1>1 DEF EditItem, Commit
<1> QED
  BY <1>2, ItemEditTyped

LEMMA ItemRowsKept ==
    ASSUME Inv, RowsTyped(db), NEW s \in Slots,
           CreateItem(s) \/ UpdateItem(s) \/ AttachItemToControl(s) \/ AttachArtifact(s)
    PROVE  RowsTyped(db')
<1>1. Read(s) = db /\ IsDatabase(db)
  BY AtWrite DEF RowsTyped, CreateItem, UpdateItem, AttachItemToControl, AttachArtifact
<1>2. \A i \in DOMAIN db.items : ItemFits(db.items[i]) /\ ItemTyped(db, db.items[i])
  BY DEF Inv, Fits, ItemsFit, RowsTyped, ItemsTyped
<1>3. \A control \in Representatives(db.controls) \cup {None} : control \in DOMAIN db.controls \cup {None}
  BY Represented
<1>4. "given" \in Contents /\ "edited" \in Contents
  BY DEF Contents
<1>5. CASE CreateItem(s)
  <2>1. PICK system \in LinkableSystems(db), control \in Representatives(db.controls) \cup {None},
             metadata \in ClientMetadata(DOMAIN db.artifacts) :
            Commit(s, [db EXCEPT !.items = Append(@, NewItem(system, control, metadata))])
    BY <1>1, <1>5 DEF CreateItem
  <2>2. ItemTyped(db, NewItem(system, control, metadata))
    BY <1>3, <1>4, <2>1, LinkedSystem, InsertedItem DEF NewItem
  <2> QED
    BY <2>1, <2>2, ItemAppended DEF Commit
<1>6. CASE UpdateItem(s)
  <2>1. PICK i, system, control, metadata :
            /\ i \in DOMAIN db.items /\ system \in LinkableSystems(db)
            /\ control \in Representatives(db.controls) \cup {None, db.items[i].control}
            /\ Agree(system, control)
            /\ EditItem(s, i, Patched(db.items[i], system, control, "edited", metadata))
    BY <1>1, <1>6 DEF UpdateItem
  <2> DEFINE new == Patched(db.items[i], system, control, "edited", metadata)
  <2>2. ItemFits(new)
    BY <1>2, <2>1, PatchedFits
  <2>3. control \in DOMAIN db.controls \cup {None}
    BY <1>2, <1>3, <2>1 DEF ItemTyped
  <2>4. new.system = ResolvedSystem(system, control) /\ new.control = control /\ new.content = "edited"
    BY <1>2, <2>1 DEF ItemFits, IsItem, Patched, Sealed
  <2> HIDE DEF new
  <2>5. ItemTyped(db, new)
    BY <1>4, <2>1, <2>3, <2>4, LinkedSystem DEF ItemTyped
  <2> QED
    BY <1>1, <2>1, <2>2, <2>5, ItemEditKept DEF new
<1>7. CASE AttachItemToControl(s)
  <2>1. PICK i, control :
            /\ i \in DOMAIN db.items /\ control \in Representatives(db.controls)
            /\ Agree(db.items[i].system, control)
            /\ EditItem(s, i, Attached(db.items[i], control))
    BY <1>1, <1>7 DEF AttachItemToControl
  <2> DEFINE row == db.items[i]
             new == Attached(row, control)
  <2>2. ItemFits(new)
    BY <1>2, <2>1, AttachedFits
  <2>3. /\ new.system = ResolvedSystem(row.system, control) /\ new.control = control
        /\ new.content = row.content
    BY <1>2, <2>1 DEF ItemFits, IsItem, Attached, Sealed
  <2>4. control \in DOMAIN db.controls \cup {None} /\ ItemTyped(db, row)
    BY <1>2, <1>3, <2>1
  <2> HIDE DEF new
  <2>5. ItemTyped(db, new)
    BY <2>3, <2>4, LinkedSystem DEF ItemTyped
  <2> QED
    BY <1>1, <2>1, <2>2, <2>5, ItemEditKept DEF new
<1>8. CASE AttachArtifact(s)
  <2> DEFINE i == tx[s].data.item
             row == db.items[i]
             new == Merge(row, row, WithArtifact(row, Len(db.artifacts) + 1))
             rows == Append(db.artifacts, tx[s].data)
  <2>1. db' = [db EXCEPT !.artifacts = rows, !.items = [@ EXCEPT ![i] = new]]
    BY <1>1, <1>8 DEF AttachArtifact, Commit
  <2>2. ASSUME i \in DOMAIN db.items PROVE ItemTyped(db, new)
    <3> DEFINE written == WithArtifact(row, Len(db.artifacts) + 1)
    <3>1. ItemFits(row) /\ ItemTyped(db, row)
      BY <1>2, <2>2
    <3>2. new = written
      BY <3>1, ArtifactFits, MergeIsNew
    <3>3. written.system = row.system /\ written.control = row.control /\ written.content = row.content
      BY <3>1 DEF ItemFits, IsItem, WithArtifact, Sealed
    <3> HIDE DEF written, new
    <3> QED
      BY <3>1, <3>2, <3>3 DEF ItemTyped
  <2> HIDE DEF new, rows, i
  <2> DEFINE e == [db EXCEPT !.artifacts = rows]
  <2>3. RowsTyped(e) /\ e.items = db.items /\ (ItemTyped(db, new) => ItemTyped(e, new))
    BY <1>1, OthersTyped DEF IsDatabase, ItemTyped, LinkableSystems, SystemIds
  <2>4. db' = [e EXCEPT !.items = [@ EXCEPT ![i] = new]]
    BY <2>1
  <2> HIDE DEF e
  <2> QED
    BY <2>2, <2>3, <2>4, ItemEditTyped
<1> QED
  BY <1>5, <1>6, <1>7, <1>8

LEMMA ReviewedTyped ==
    ASSUME NEW s \in Slots, Read(s) = db, NEW d, RowsTyped(d), d.systems = db.systems,
           NEW i \in DOMAIN db.systems, NEW status \in {"completed", "needs_follow_up", "scheduled"},
           NEW review, Reviewed(s, i, status, d, review)
    PROVE  RowsTyped(db')
<1> DEFINE new == AfterReview(d.systems[i], status)
           x == [d.systems EXCEPT ![i] = Merge(@, d.systems[i], new)]
           reviews == Append(d.reviews, review)
<1>1. db' = [d EXCEPT !.reviews = reviews, !.systems = x]
  BY DEF Reviewed, Commit
<1>2. new \in SystemRow
  <2>1. d.systems[i] \in SystemRow
    BY DEF RowsTyped, SystemsTyped
  <2> QED
    BY <2>1 DEF AfterReview, SystemRow, ReviewStatuses
<1> HIDE DEF new
<1>3. SystemsTyped(x) /\ DOMAIN x = DOMAIN d.systems
  BY <1>2, SystemUpdated DEF RowsTyped
<1> HIDE DEF x, reviews
<1> DEFINE e == [d EXCEPT !.reviews = reviews]
<1>4. RowsTyped(e)
  BY OthersTyped
<1>5. e.systems = d.systems /\ db' = [e EXCEPT !.systems = x]
  BY <1>1 DEF RowsTyped, IsDatabase
<1> HIDE DEF e
<1> QED
  BY <1>3, <1>4, <1>5, WrittenTyped

LEMMA ReviewRowsKept ==
    ASSUME Inv, RowsTyped(db), NEW s \in Slots,
           RecordAiSystemReview(s) \/ RecordReviewWithPlaceholder(s)
    PROVE  RowsTyped(db')
<1>1. Read(s) = db /\ IsDatabase(db) /\ ControlsTyped(db, db.controls)
  BY AtWrite DEF RowsTyped, RecordAiSystemReview, RecordReviewWithPlaceholder
<1>2. CASE RecordAiSystemReview(s)
  <2>1. PICK i, status, review :
            /\ i \in DOMAIN db.systems /\ status \in {"completed", "needs_follow_up", "scheduled"}
            /\ Reviewed(s, i, status, db, review)
    BY <1>1, <1>2 DEF RecordAiSystemReview, SystemIds
  <2> QED
    BY <1>1, <2>1, ReviewedTyped
<1>3. CASE RecordReviewWithPlaceholder(s)
  <2>1. PICK i \in DOMAIN db.systems :
           \/ \E key : LET id == ControlId(i, key, 0)
                           new == Control("not_started", "follow_up", "medium", None)
                       IN  Reviewed(s, i, "needs_follow_up", [db EXCEPT !.controls = Inserted(@, id, new)],
                                    Review(i, id, None))
           \/ \E control \in Representatives(db.controls) \cup {None} : \E x :
                  Reviewed(s, i, "needs_follow_up",
                           [db EXCEPT !.items = Append(@, Item(i, control, "placeholder", NoMetadata))], x)
    BY <1>1, <1>3 DEF RecordReviewWithPlaceholder, SystemIds
  <2>2. i \in LinkableSystems(db)
    BY DEF LinkableSystems, SystemIds
  <2>3. ASSUME NEW key,
               LET id == ControlId(i, key, 0)
                   new == Control("not_started", "follow_up", "medium", None)
               IN  Reviewed(s, i, "needs_follow_up", [db EXCEPT !.controls = Inserted(@, id, new)],
                            Review(i, id, None))
        PROVE  RowsTyped(db')
    <3> DEFINE id == ControlId(i, key, 0)
               new == Control("not_started", "follow_up", "medium", None)
               x == Inserted(db.controls, id, new)
               d == [db EXCEPT !.controls = x]
    <3>1. Reviewed(s, i, "needs_follow_up", d, Review(i, id, None))
      BY <2>3
    <3>2. new \in ControlRowIn(db)
      BY NewControl DEF ControlStatuses, Sources, Severities
    <3>3. id.system \in LinkableSystems(db)
      BY <2>2 DEF ControlId
    <3> HIDE DEF id, new
    <3>4. ControlsTyped(db, x) /\ DOMAIN db.controls \subseteq DOMAIN x
      BY <1>1, <3>2, <3>3, InsertedTyped
    <3> HIDE DEF x
    <3>5. RowsTyped(d)
      BY <3>4, WrittenTyped
    <3>6. d.systems = db.systems
      BY <1>1 DEF IsDatabase
    <3> HIDE DEF d
    <3> QED
      BY <1>1, <3>1, <3>5, <3>6, ReviewedTyped
  <2>4. ASSUME NEW control \in Representatives(db.controls) \cup {None}, NEW x,
               Reviewed(s, i, "needs_follow_up",
                        [db EXCEPT !.items = Append(@, Item(i, control, "placeholder", NoMetadata))], x)
        PROVE  RowsTyped(db')
    <3> DEFINE item == Item(i, control, "placeholder", NoMetadata)
               d == [db EXCEPT !.items = Append(@, item)]
    <3>1. Reviewed(s, i, "needs_follow_up", d, x)
      BY <2>4
    <3>2. ItemTyped(db, item)
      BY <2>2, <2>4, Represented, InsertedItem DEF Contents
    <3> HIDE DEF item
    <3>3. RowsTyped(d)
      BY <3>2, ItemAppended
    <3>4. d.systems = db.systems
      BY <1>1 DEF IsDatabase
    <3> HIDE DEF d
    <3> QED
      BY <1>1, <3>1, <3>3, <3>4, ReviewedTyped
  <2> QED
    BY <2>1, <2>3, <2>4
<1> QED
  BY <1>2, <1>3

LEMMA ResultsTyped ==
    ASSUME NEW found, NEW result \in ScanResults(found)
    PROVE  ScanTyped(Scan(result))
<1>1. Scan(result).result = result
  BY DEF Scan
<1>2. CASE result = Failed
  BY <1>1, <1>2 DEF Failed, ScanTyped, ScanStatuses
<1>3. ASSUME NEW area, result = Completed(found, area) PROVE ScanTyped(Scan(result))
  <2>1. DOMAIN AnsweredBy \subseteq Questions
    BY DEF AnsweredBy, Questions
  <2>2. IntakeAnswers(found, area) \subseteq Questions
    BY <2>1 DEF IntakeAnswers, Questions, FriaTriggers
  <2>3. result.status = "completed" /\ result.answers = IntakeAnswers(found, area)
    BY <1>3 DEF Completed
  <2> QED
    BY <1>1, <2>2, <2>3 DEF ScanTyped, ScanStatuses
<1> QED
  BY <1>2, <1>3 DEF ScanResults, Analyses

LEMMA SelectedTyped ==
    ASSUME NEW answers, answers \subseteq Questions, NEW role \in Roles
    PROVE  AnswersForActorRole(answers, role) \subseteq Questions
<1>1. PICK scenario \in {{"is_developer"}, {"is_deployer"}, {}} :
          AnswersForActorRole(answers, role) = (answers \ {"is_developer", "is_deployer"}) \cup scenario
  BY SelectedAnswers
<1>2. scenario \subseteq Questions
  BY DEF Questions
<1> QED
  BY <1>1, <1>2

\* The system, intake and link of a conversion; a scan that is linked already stays as it is.
LEMMA LinkedTyped ==
    ASSUME NEW d, RowsTyped(d), Conversions(d), NEW n \in DOMAIN d.scans, NEW role \in Roles \cup {"none"}
    PROVE  LET e == Linked(d, d, n, role) IN
           /\ RowsTyped(e)
           /\ e.scans[n].system \in DOMAIN e.systems /\ e.scans[n].intake \in DOMAIN e.intakes
<1> DEFINE scan == d.scans[n]
           selected == SelectedRole(role)
           intake == Intake(AnswersForActorRole(scan.result.answers, selected), selected)
           system == Len(d.systems) + 1
           number == Len(d.intakes) + 1
           link == [scan EXCEPT !.system = system, !.intake = number, !.role = intake.result.role]
           e == Linked(d, d, n, role)
<1>1. IsDatabase(d) /\ IsScan(scan) /\ ScanTyped(scan) /\ WholeScan(d, n)
  BY DEF RowsTyped, ScansTyped, Conversions, ScanFits
<1>2. CASE IsConverted(scan)
  <2>1. e = d
    BY <1>2 DEF Linked
  <2>2. LinksExist(d, n)
    BY <1>1, <1>2 DEF WholeScan
  <2> QED
    BY <2>1, <2>2 DEF LinksExist
<1>3. CASE ~IsConverted(scan)
  <2> DEFINE new == System("not_started")
             systems == Append(d.systems, new)
             intakes == Append(d.intakes, intake)
             scans == [d.scans EXCEPT ![n] = link]
  <2>1. /\ IsScan(link) /\ link.result = scan.result
        /\ link.system = system /\ link.intake = number
    BY <1>1 DEF IsScan
  <2>2. Merge(scan, scan, link) = link
    BY <1>1, <2>1, LinkWritten
  <2>3. e = [d EXCEPT !.systems = systems, !.intakes = intakes, !.scans = scans]
    BY <1>3, <2>2 DEF Linked, WithSystem, NewSystemId, NewIntakeId
  <2>4. SystemsTyped(systems) /\ DOMAIN d.systems \subseteq DOMAIN systems /\ system \in DOMAIN systems
    <3>1. new \in SystemRow
      BY DEF System, SystemRow, ReviewStatuses
    <3>2. SystemsTyped(d.systems)
      BY DEF RowsTyped
    <3> HIDE DEF new
    <3> QED
      BY <3>1, <3>2, AppendedTable, AppendExtends DEF SystemsTyped
  <2>5. IntakesTyped(intakes) /\ DOMAIN d.intakes \subseteq DOMAIN intakes /\ number \in DOMAIN intakes
    <3>1. selected \in Roles
      BY DEF SelectedRole, Roles
    <3>2. intake.answers \subseteq Questions
      BY <1>1, <3>1, SelectedTyped DEF Intake, ScanTyped
    <3>3. IntakesTyped(d.intakes)
      BY DEF RowsTyped
    <3> HIDE DEF intake
    <3> QED
      BY <3>2, <3>3, AppendedTable, AppendExtends DEF IntakesTyped
  <2>6. ScansTyped(scans) /\ DOMAIN scans = DOMAIN d.scans /\ scans[n] = link
    <3>1. ScanTyped(link)
      BY <1>1, <2>1 DEF ScanTyped
    <3>2. ScansTyped(d.scans)
      BY DEF RowsTyped
    <3> HIDE DEF link
    <3> QED
      BY <3>1, <3>2, UpdatedTable DEF ScansTyped
  <2> HIDE DEF systems, intakes, scans, link, system, number
  <2> DEFINE a == [d EXCEPT !.systems = systems]
             b == [a EXCEPT !.intakes = intakes]
  <2>7. RowsTyped(a) /\ a.intakes = d.intakes /\ a.scans = d.scans
    BY <1>1, <2>4, WrittenTyped DEF IsDatabase
  <2> HIDE DEF a
  <2>8. RowsTyped(b) /\ b.scans = d.scans
    BY <2>5, <2>7, WrittenTyped DEF RowsTyped, IsDatabase
  <2> HIDE DEF b
  <2>9. RowsTyped([b EXCEPT !.scans = scans])
    BY <2>6, <2>8, WrittenTyped
  <2>10. e = [b EXCEPT !.scans = scans]
    BY <2>3 DEF a, b
  <2>11. e.scans = scans /\ e.systems = systems /\ e.intakes = intakes
    BY <1>1, <2>3 DEF IsDatabase
  <2> HIDE DEF e
  <2> QED
    BY <2>1, <2>4, <2>5, <2>6, <2>9, <2>10, <2>11 DEF e
<1> QED
  BY <1>2, <1>3

LEMMA ConvertedTyped ==
    ASSUME NEW d, RowsTyped(d), Conversions(d), NEW n \in DOMAIN d.scans, NEW role \in Roles \cup {"none"}
    PROVE  LET e == Converted(d, d, n, role) IN
           RowsTyped(e) /\ e.scans[n].system \in LinkableSystems(e)
<1> DEFINE linked == Linked(d, d, n, role)
           scan == linked.scans[n]
           seeds == SeedFromObligationGraph(linked.intakes[scan.intake].result.graph, scan.intake)
           controls == Seeded(linked.controls, Missing(linked.controls, scan.system, seeds), seeds)
           seeded == [linked EXCEPT !.controls = controls]
           e == EnsureConversionEvidence(seeded, n, scan.system)
<1>1. /\ RowsTyped(linked)
      /\ scan.system \in DOMAIN linked.systems /\ scan.intake \in DOMAIN linked.intakes
  BY LinkedTyped
<1>2. Converted(d, d, n, role) = e
  BY DEF Converted
<1> HIDE DEF linked
<1>3. ControlsTyped(linked, controls) /\ DOMAIN linked.controls \subseteq DOMAIN controls
  <2>1. scan.system \in LinkableSystems(linked) /\ ControlsTyped(linked, linked.controls)
    BY <1>1 DEF LinkableSystems, SystemIds, RowsTyped
  <2>2. SeedsTyped(linked, seeds)
    BY <1>1, GraphSeeds
  <2> HIDE DEF seeds
  <2> QED
    BY <2>1, <2>2, SeededTyped
<1> HIDE DEF controls
<1>4. RowsTyped(seeded)
  BY <1>1, <1>3, WrittenTyped
<1>5. seeded.scans = linked.scans /\ seeded.systems = linked.systems
  BY <1>1 DEF RowsTyped, IsDatabase
<1> HIDE DEF seeded
<1>6. RowsTyped(e) /\ e.scans = linked.scans /\ e.systems = linked.systems
  <2>1. CASE HasEvent(seeded, n, scan.system)
    BY <1>4, <1>5, <2>1 DEF EnsureConversionEvidence
  <2>2. CASE ~HasEvent(seeded, n, scan.system)
    <3> DEFINE x == Append(seeded.events, Event(n, scan.system))
    <3>1. e = [seeded EXCEPT !.events = x]
      BY <2>2 DEF EnsureConversionEvidence
    <3> HIDE DEF x
    <3>2. RowsTyped([seeded EXCEPT !.events = x])
      BY <1>4, OthersTyped
    <3>3. [seeded EXCEPT !.events = x].scans = seeded.scans
          /\ [seeded EXCEPT !.events = x].systems = seeded.systems
      BY <1>4 DEF RowsTyped, IsDatabase
    <3> QED
      BY <1>5, <3>1, <3>2, <3>3
  <2> QED
    BY <2>1, <2>2
<1> HIDE DEF e
<1>7. e.scans[n].system \in LinkableSystems(e)
  BY <1>1, <1>6 DEF LinkableSystems, SystemIds
<1> QED
  BY <1>2, <1>6, <1>7

LEMMA ReadinessTyped ==
    ASSUME NEW d, NEW tables, NEW origin \in {"scan", "system", "client"},
           NEW system \in LinkableSystems(d), NEW scans, scans \subseteq DOMAIN d.scans
    PROVE  ReadinessReports(tables, origin, system, scans) \subseteq ReportRowIn(d)
<1>1. \A frias, oversight :
          Readiness(tables, system, scans, frias, oversight)
              \in {"ready", "partially_ready", "needs_attention"}
  BY DEF Readiness
<1> QED
  BY <1>1 DEF ReadinessReports, Report, ReportRowIn

LEMMA ReportTyped ==
    ASSUME NEW d, RowsTyped(d), NEW report \in ReportRowIn(d)
    PROVE  RowsTyped(WithReport(d, report))
<1> DEFINE x == d.reports \cup {report}
<1>1. x \subseteq ReportRowIn(d)
  BY DEF RowsTyped
<1> HIDE DEF x
<1>2. RowsTyped([d EXCEPT !.reports = x])
  BY <1>1, WrittenTyped
<1> QED
  BY <1>2 DEF WithReport, x

LEMMA ScanRowsKept ==
    ASSUME RowsTyped(db), NEW s \in Slots, EndScan(s)
    PROVE  RowsTyped(db')
<1>1. PICK result \in ScanResults(tx[s].data.found) :
          db' = [db EXCEPT !.scans = Append(@, Scan(result))]
  BY DEF EndScan, Commit
<1> DEFINE new == Scan(result)
           x == Append(db.scans, new)
<1>2. ScanTyped(new)
  BY <1>1, ResultsTyped
<1>3. ScansTyped(db.scans)
  BY DEF RowsTyped
<1>4. db' = [db EXCEPT !.scans = x]
  BY <1>1
<1> HIDE DEF new
<1>5. ScansTyped(x) /\ DOMAIN db.scans \subseteq DOMAIN x
  BY <1>2, <1>3, AppendedTable, AppendExtends DEF ScansTyped
<1> HIDE DEF x
<1> QED
  BY <1>4, <1>5, WrittenTyped

LEMMA ConversionRowsKept ==
    ASSUME Inv, Conversions(db), RowsTyped(db), NEW s \in Slots, ConvertScan(s) \/ GenerateScanReport(s)
    PROVE  RowsTyped(db')
<1>1. IsDatabase(db) /\ Fits(db) /\ Read(s) = db
  BY AtWrite DEF Inv, Fits, ConvertScan, GenerateScanReport
<1>2. CASE ConvertScan(s)
  <2>1. PICK n \in DOMAIN db.scans, role \in Roles \cup {"none"} : db' = Converted(db, db, n, role)
    BY <1>1, <1>2 DEF ConvertScan, Commit
  <2> QED
    BY <2>1, ConvertedTyped
<1>3. CASE GenerateScanReport(s)
  <2>1. PICK n \in DOMAIN db.scans, role \in Roles \cup {"none"} :
            /\ Convertible(db, db.scans[n], role)
            /\ LET tables == Converted(db, db, n, role) IN
               \E report \in ReadinessReports(tables, "scan", tables.scans[n].system, {n}) :
                   db' = WithReport(tables, report)
    BY <1>1, <1>3 DEF GenerateScanReport, Commit
  <2> DEFINE tables == Converted(db, db, n, role)
  <2>2. n \in DOMAIN tables.scans
    BY <1>1, <2>1, ConversionKeeps
  <2>3. RowsTyped(tables) /\ tables.scans[n].system \in LinkableSystems(tables)
    BY ConvertedTyped
  <2>4. PICK report \in ReadinessReports(tables, "scan", tables.scans[n].system, {n}) :
            db' = WithReport(tables, report)
    BY <2>1
  <2> HIDE DEF tables
  <2>5. report \in ReportRowIn(tables)
    BY <2>2, <2>3, <2>4, ReadinessTyped
  <2> QED
    BY <2>3, <2>4, <2>5, ReportTyped
<1> QED
  BY <1>2, <1>3

LEMMA ReportRowsKept ==
    ASSUME Inv, RowsTyped(db), NEW s \in Slots, GenerateReport(s)
    PROVE  RowsTyped(db')
<1>1. Read(s) = db
  BY AtWrite DEF GenerateReport
<1>2. PICK system, report :
          /\ system \in LinkableSystems(db)
          /\ report \in ReadinessReports(db, "system", system, ScansOf(db, system))
                 \cup OtherReports(system)
                 \cup UNION {ReadinessReports(db, "client", system, {n}) : n \in DOMAIN db.scans}
          /\ Commit(s, WithReport(db, report))
  BY <1>1 DEF GenerateReport
<1>3. db' = WithReport(db, report)
  BY <1>2 DEF Commit
<1> DEFINE own == ReadinessReports(db, "system", system, ScansOf(db, system))
           clients == UNION {ReadinessReports(db, "client", system, {n}) : n \in DOMAIN db.scans}
           others == OtherReports(system)
<1>4. own \subseteq ReportRowIn(db)
  <2>1. ScansOf(db, system) \subseteq DOMAIN db.scans
    BY DEF ScansOf
  <2> QED
    BY <1>2, <2>1, ReadinessTyped
<1>5. clients \subseteq ReportRowIn(db)
  <2>1. \A n \in DOMAIN db.scans : ReadinessReports(db, "client", system, {n}) \subseteq ReportRowIn(db)
    BY <1>2, ReadinessTyped
  <2> QED
    BY <2>1
<1>6. others \subseteq ReportRowIn(db)
  BY <1>2 DEF OtherReports, Report, ReportRowIn
<1>7. report \in own \cup others \cup clients
  BY <1>2
<1> HIDE DEF own, clients, others
<1> QED
  BY <1>3, <1>4, <1>5, <1>6, <1>7, ReportTyped

LEMMA RowSteps ==
    ASSUME Inv, Conversions(db), RowsTyped(db), Next
    PROVE  RowsTyped(db')
<1>1. ASSUME NEW s \in Slots, NEW op, Authenticate(s, op) \/ BlockLoop(s, op)
      PROVE  db' = db
  BY <1>1 DEF Authenticate, BlockLoop
<1>2. ASSUME NEW s \in Slots, Serve(s)
      PROVE  RowsTyped(db')
  <2>1. CASE Unblock(s) \/ Fail(s) \/ CloseSession(s)
    <3>1. db' = db
      BY <2>1 DEF Unblock, Fail, CloseSession, ChangesNoRow
    <3> QED
      BY <3>1
  <2>2. CASE Edit(s)
    BY <2>2, SystemRowsKept, ReviewRowsKept, ControlRowsKept, ItemRowsKept,
       ConversionRowsKept, ReportRowsKept DEF Edit
  <2>3. CASE Upload(s)
    <3>1. CASE ReceiveFile(s) \/ StoreObject(s)
      <4>1. db' = db
        BY <3>1 DEF ReceiveFile, StoreObject, ChangesNoRow
      <4> QED
        BY <4>1
    <3> QED
      BY <2>3, <3>1, ItemRowsKept DEF Upload
  <2>4. CASE ScanSite(s)
    <3>1. CASE StartScan(s) \/ FetchPage(s) \/ RenderPage(s)
      <4>1. db' = db
        BY <3>1 DEF StartScan, FetchPage, RenderPage, ChangesNoRow
      <4> QED
        BY <4>1
    <3> QED
      BY <2>4, <3>1, ScanRowsKept DEF ScanSite
  <2> QED
    BY <1>2, <2>1, <2>2, <2>3, <2>4 DEF Serve
<1>3. ASSUME NEW w \in Workers, KillWorker(w)
      PROVE  db' = db
  BY <1>3 DEF KillWorker, ChangesNoRow
<1> QED
  BY <1>1, <1>2, <1>3 DEF Next

-----------------------------------------------------------------------------
(* Where a request is. *)

IsTx(t) == t.pc \in Pcs /\ t.op \in Ops \cup {"none"}
TxTyped == \A s \in Slots : IsTx(tx[s])

LEMMA RequestMoves ==
    ASSUME TxRecords, TxTyped, NEW s \in Slots, NEW t, IsTx(t), Step(s, t)
    PROVE  TxTyped'
<1>1. tx'[s] = t /\ \A other \in Slots \ {s} : tx'[other] = tx[other]
  BY DEF TxRecords, Step
<1> QED
  BY <1>1 DEF TxTyped, IsTx

LEMMA BegunTyped ==
    ASSUME NEW op \in Ops \cup {"none"}
    PROVE  IsTx(Begun(op))
<1>1. CASE op = "scan"
  BY <1>1 DEF Begun, IsTx, NoTx, Pcs
<1>2. CASE op = "upload"
  BY <1>2 DEF Begun, IsTx, NoTx, Pcs
<1>3. CASE op \notin {"scan", "upload"}
  BY <1>3 DEF Begun, IsTx, NoTx, Pcs
<1> QED
  BY <1>1, <1>2, <1>3

LEMMA CommitsIdle ==
    ASSUME TxRecords, TxTyped, NEW s \in Slots, NEW tables, Commit(s, tables)
    PROVE  TxTyped'
<1>1. Step(s, NoTx) /\ IsTx(NoTx)
  BY DEF Commit, IsTx, NoTx, Pcs
<1> QED
  BY <1>1, RequestMoves

LEMMA EditsCommit ==
    ASSUME NEW s \in Slots, Edit(s) \/ AttachArtifact(s) \/ EndScan(s)
    PROVE  \E tables : Commit(s, tables)
<1>1. CASE CreateAiSystem(s) \/ UpdateAiSystem(s) \/ CreateIntake(s)
  BY <1>1 DEF CreateAiSystem, UpdateAiSystem, CreateIntake
<1>2. CASE RecordAiSystemReview(s) \/ RecordReviewWithPlaceholder(s)
  <2>1. ASSUME NEW i, NEW status, NEW tables, NEW review, Reviewed(s, i, status, tables, review)
        PROVE  \E e : Commit(s, e)
    BY <2>1 DEF Reviewed
  <2>2. CASE RecordAiSystemReview(s)
    BY <2>1, <2>2 DEF RecordAiSystemReview
  <2>3. CASE RecordReviewWithPlaceholder(s)
    BY <2>1, <2>3 DEF RecordReviewWithPlaceholder
  <2> QED
    BY <1>2, <2>2, <2>3
<1>3. CASE MaterializeControlPlan(s) \/ ApplyControlTemplates(s) \/ SeedBaselineControls(s)
  <2>1. ASSUME NEW system, NEW seeds, Seed(s, system, seeds)
        PROVE  \E e : Commit(s, e)
    BY <2>1 DEF Seed
  <2> QED
    BY <1>3, <2>1 DEF MaterializeControlPlan, ApplyControlTemplates, SeedBaselineControls
<1>4. CASE CreateControl(s)
  BY <1>4 DEF CreateControl
<1>5. CASE UpdateControl(s) \/ RecordControlReview(s)
  <2>1. ASSUME NEW id, NEW new, EditControl(s, id, new)
        PROVE  \E e : Commit(s, e)
    BY <2>1 DEF EditControl
  <2> QED
    BY <1>5, <2>1 DEF UpdateControl, RecordControlReview
<1>6. CASE CreateItem(s)
  BY <1>6 DEF CreateItem
<1>7. CASE UpdateItem(s) \/ AttachItemToControl(s)
  <2>1. ASSUME NEW i, NEW new, EditItem(s, i, new)
        PROVE  \E e : Commit(s, e)
    BY <2>1 DEF EditItem
  <2> QED
    BY <1>7, <2>1 DEF UpdateItem, AttachItemToControl
<1>8. CASE ConvertScan(s)
  BY <1>8 DEF ConvertScan
<1>9. CASE GenerateReport(s)
  BY <1>9 DEF GenerateReport
<1>10. CASE GenerateScanReport(s)
  BY <1>10 DEF GenerateScanReport
<1>11. CASE AttachArtifact(s)
  BY <1>11 DEF AttachArtifact
<1>12. CASE EndScan(s)
  BY <1>12 DEF EndScan
<1> QED
  BY <1>1, <1>2, <1>3, <1>4, <1>5, <1>6, <1>7, <1>8, <1>9, <1>10, <1>11, <1>12 DEF Edit

LEMMA RequestProceeds ==
    ASSUME TxRecords, TxTyped, NEW s \in Slots, NEW pc \in Pcs, NEW x,
           \/ Step(s, [tx[s] EXCEPT !.pc = pc, !.read = x])
           \/ Step(s, [tx[s] EXCEPT !.pc = pc, !.data = x])
    PROVE  TxTyped'
<1> DEFINE t == tx[s]
           read == [t EXCEPT !.pc = pc, !.read = x]
           data == [t EXCEPT !.pc = pc, !.data = x]
<1>1. IsRecord(t) /\ IsTx(t)
  BY DEF TxRecords, TxTyped
<1>2. Step(s, read) \/ Step(s, data)
  OBVIOUS
<1> HIDE DEF t
<1>3. read.pc = pc /\ read.op = t.op /\ data.pc = pc /\ data.op = t.op
  BY <1>1 DEF IsRecord
<1>4. IsTx(read) /\ IsTx(data)
  <2> HIDE DEF read, data
  <2> QED
    BY <1>1, <1>3 DEF IsTx
<1> HIDE DEF read, data
<1> QED
  BY <1>2, <1>4, RequestMoves

LEMMA FetchContinues ==
    ASSUME NEW s \in Slots, FetchPage(s)
    PROVE  \E pc \in {"crawl", "render"} : \E x : Step(s, [tx[s] EXCEPT !.pc = pc, !.data = x])
<1> DEFINE crawl == tx[s].data
           url == Head(crawl.queue)
<1>1. CASE url \in crawl.seen
  BY <1>1 DEF FetchPage, Continue
<1>2. CASE url \notin crawl.seen
  <2>1. PICK page \in Web[url] :
            IF page = Unreadable THEN Continue(s, "crawl", Skipped(crawl))
            ELSE IF page.appShell THEN Continue(s, "render", [crawl EXCEPT !.page = page])
            ELSE Continue(s, "crawl", TakenIn(crawl, page))
    BY <1>2 DEF FetchPage
  <2>2. \E pc \in {"crawl", "render"} : \E x : Continue(s, pc, x)
    <3> DEFINE a == Skipped(crawl)
               b == [crawl EXCEPT !.page = page]
               c == TakenIn(crawl, page)
    <3>1. Continue(s, "crawl", a) \/ Continue(s, "render", b) \/ Continue(s, "crawl", c)
      BY <2>1
    <3> HIDE DEF a, b, c
    <3> QED
      BY <3>1
  <2> QED
    BY <2>2 DEF Continue
<1> QED
  BY <1>1, <1>2

LEMMA RequestSteps ==
    ASSUME TxRecords, TxTyped, Next
    PROVE  TxTyped'
<1>1. \A s \in Slots : IsRecord(tx[s]) /\ IsTx(tx[s])
  BY DEF TxRecords, TxTyped
<1>2. \A s \in Slots : OpsOf[s] \subseteq Ops
  BY InputsAreKnown
<1>3. ASSUME NEW s \in Slots, NEW op \in OpsOf[s], Authenticate(s, op) \/ BlockLoop(s, op)
      PROVE  TxTyped'
  <2>1. op \in Ops \cup {"none"}
    BY <1>2
  <2>2. CASE Authenticate(s, op)
    BY <2>1, <2>2, BegunTyped, RequestMoves DEF Authenticate
  <2>3. CASE BlockLoop(s, op)
    <3>1. IsTx([NoTx EXCEPT !.pc = "blocked", !.op = op])
      BY <2>1 DEF IsTx, NoTx, Pcs
    <3> QED
      BY <2>3, <3>1, RequestMoves DEF BlockLoop
  <2> QED
    BY <1>3, <2>2, <2>3
<1>4. ASSUME NEW s \in Slots, Serve(s)
      PROVE  TxTyped'
  <2>2. CASE Edit(s) \/ AttachArtifact(s) \/ EndScan(s)
    BY <2>2, EditsCommit, CommitsIdle
  <2>3. CASE Unblock(s)
    BY <1>1, <2>3, BegunTyped, RequestMoves DEF Unblock, IsTx
  <2>4. CASE Fail(s) \/ CloseSession(s)
    <3>1. IsTx(NoTx) /\ IsTx([NoTx EXCEPT !.pc = "failed"])
      BY DEF IsTx, NoTx, Pcs
    <3> QED
      BY <2>4, <3>1, RequestMoves DEF Fail, CloseSession
  <2>5. CASE ReceiveFile(s)
    <3>1. Step(s, [tx[s] EXCEPT !.pc = "store", !.read = db]) /\ "store" \in Pcs
      BY <2>5 DEF ReceiveFile, Pcs
    <3> QED
      BY <3>1, RequestProceeds
  <2>6. CASE StoreObject(s) \/ StartScan(s) \/ FetchPage(s) \/ RenderPage(s)
    <3>1. \E pc \in {"write", "crawl", "render"} : \E x : Step(s, [tx[s] EXCEPT !.pc = pc, !.data = x])
      <4>1. CASE StoreObject(s)
        BY <4>1 DEF StoreObject
      <4>2. CASE StartScan(s)
        BY <4>2 DEF StartScan
      <4>3. CASE FetchPage(s)
        BY <4>3, FetchContinues
      <4>4. CASE RenderPage(s)
        BY <4>4 DEF RenderPage, Continue
      <4> QED
        BY <2>6, <4>1, <4>2, <4>3, <4>4
    <3>2. {"write", "crawl", "render"} \subseteq Pcs
      BY DEF Pcs
    <3> QED
      BY <3>1, <3>2, RequestProceeds
  <2> QED
    BY <1>4, <2>2, <2>3, <2>4, <2>5, <2>6 DEF Serve, Upload, ScanSite
<1>5. ASSUME NEW w \in Workers, KillWorker(w)
      PROVE  TxTyped'
  BY <1>1, <1>5 DEF KillWorker, TxTyped, IsTx, NoTx, Pcs
<1> QED
  BY <1>3, <1>4, <1>5 DEF Next

LEMMA RowsAreTyped ==
    ASSUME RowsTyped(db), TxTyped
    PROVE  TypeOK
<1>1. ControlRowIn(db) = ControlRow /\ ReportRowIn(db) = ReportRow
  BY DEF ControlRowIn, ControlRow, ReportRowIn, ReportRow
<1> QED
  BY <1>1 DEF RowsTyped, SystemsTyped, IntakesTyped, ControlsTyped, ItemsTyped, ItemTyped,
              ScansTyped, ScanTyped, TxTyped, IsTx, TypeOK

\* Every row has columns that the code gives it and its references name existing rows,
\* whatever is committed: a plan names its intake, a control its system, an item its system
\* and control, a report its system and scans; and a request is at one of its steps.
THEOREM RowsStayTyped ==
    ASSUME OneKey, \A d \in InitialDb : Fits(d) /\ Conversions(d) /\ RowsTyped(d)
    PROVE  Spec => []TypeOK
<1> DEFINE Typed == RowsTyped(db) /\ TxTyped
           Whole == Conversions(db)
<1>1. Init => Typed
  <2>1. IsTx(NoTx)
    BY DEF IsTx, NoTx, Pcs
  <2> QED
    BY <2>1 DEF Init, TxTyped
<1>2. Inv /\ Whole /\ Typed /\ [Next]_vars => Typed'
  <2>1. ASSUME Typed, UNCHANGED vars PROVE Typed'
    <3>1. db' = db /\ tx' = tx
      BY <2>1 DEF vars
    <3> QED
      BY <2>1, <3>1 DEF TxTyped, IsTx
  <2>2. ASSUME Inv, Whole, Typed, Next PROVE Typed'
    <3>1. RowsTyped(db')
      BY <2>2, RowSteps
    <3>2. TxTyped'
      BY <2>2, RequestSteps DEF Inv
    <3> QED
      BY <3>1, <3>2
  <2> QED
    BY <2>1, <2>2
<1>3. Typed => TypeOK
  BY RowsAreTyped
<1>4. Spec => []Inv
  BY EvidenceFits
<1>5. Spec => []Whole
  BY ConversionsStay
<1> HIDE DEF Typed, Whole
<1> QED
  BY <1>1, <1>2, <1>3, <1>4, <1>5, PTL DEF Spec
=============================================================================
