--------------------------- MODULE WorkspaceProofs ---------------------------
(***************************************************************************)
(* Proofs about evidence in the workspace, for any number of requests,     *)
(* workers, pages and rows, as long as all requests carry the key of the   *)
(* dashboard: the seal of an item covers its row, neither items nor        *)
(* reviews are linked to a control of another system, and no artifact of   *)
(* an item lacks its row or its object.                                    *)
(*                                                                         *)
(* The argument: the lock on the key's row lets one request at a time past *)
(* authentication (OneAtWork), so the tables that it has read are the      *)
(* tables that it writes to (LoadedIsCurrent), and an UPDATE of the        *)
(* changed columns writes the sealed row (MergeIsNew).                     *)
(***************************************************************************)
EXTENDS Workspace, SequenceTheorems, TLAPS

\* Every request carries the dashboard's one key.
OneKey == \A s, t \in Slots : KeyOf[s] = KeyOf[t]

Working(s) == tx[s].pc \notin {"idle", "blocked"}
OneAtWork == \A s, t \in Slots : Working(s) /\ Working(t) => s = t
LoadedIsCurrent == \A s \in Slots : tx[s].pc \in {"store", "write"} => tx[s].read = db

IsRecord(t) == DOMAIN t = {"pc", "op", "read", "data"}
TxRecords == DOMAIN tx = Slots /\ \A s \in Slots : IsRecord(tx[s])

\* A table whose rows are appended and updated in place.
IsTable(t) == t \in Seq({t[i] : i \in DOMAIN t})
IsItem(item) ==
    /\ DOMAIN item = {"system", "control", "content", "metadata", "seal"}
    /\ item = [c \in DOMAIN item |-> item[c]]
ItemFits(item) ==
    /\ IsItem(item)
    /\ item.seal = Fingerprint(item)
    /\ SystemOf(item.control) \in {None, item.system}
ReviewFits(review) == SystemOf(review.control) \in {None, review.system}

IsDatabase(d) ==
    DOMAIN d = {"systems", "intakes", "controls", "items", "artifacts", "scans", "events",
                "reviews", "reports"}
ItemsFit(t) == IsTable(t) /\ \A i \in DOMAIN t : ItemFits(t[i])
ReviewsFit(t) == IsTable(t) /\ \A n \in DOMAIN t : ReviewFits(t[n])
Fits(d) == IsDatabase(d) /\ ItemsFit(d.items) /\ ReviewsFit(d.reviews)

Inv == TxRecords /\ OneAtWork /\ LoadedIsCurrent /\ Fits(db)

-----------------------------------------------------------------------------
(* Tables and rows. *)

LEMMA AppendedTable ==
    ASSUME NEW t, IsTable(t), NEW row
    PROVE  /\ IsTable(Append(t, row))
           /\ \A i \in DOMAIN Append(t, row) :
                  Append(t, row)[i] = row \/ (i \in DOMAIN t /\ Append(t, row)[i] = t[i])
<1> DEFINE S == {t[i] : i \in DOMAIN t} \cup {row}
<1>1. t \in Seq(S) /\ DOMAIN t = 1..Len(t) /\ Len(t) \in Nat
  BY DEF IsTable
<1>2. /\ Append(t, row) \in Seq(S) /\ Len(Append(t, row)) = Len(t) + 1
      /\ \A i \in 1..Len(t) : Append(t, row)[i] = t[i]
      /\ Append(t, row)[Len(t) + 1] = row
  BY <1>1, AppendProperties
<1>3. DOMAIN Append(t, row) = 1..(Len(t) + 1)
  BY <1>2
<1>4. \A i \in 1..(Len(t) + 1) : i \in 1..Len(t) \/ i = Len(t) + 1
  BY <1>1
<1>5. Append(t, row) \in Seq({Append(t, row)[i] : i \in DOMAIN Append(t, row)})
  BY <1>2, <1>3
<1> QED
  BY <1>1, <1>2, <1>3, <1>4, <1>5 DEF IsTable

\* A row appended to a table leaves the others where they are.
LEMMA AppendExtends ==
    ASSUME NEW t, IsTable(t), NEW row
    PROVE  /\ IsTable(Append(t, row))
           /\ Len(t) \in Nat /\ DOMAIN t = 1..Len(t)
           /\ DOMAIN Append(t, row) = 1..(Len(t) + 1)
           /\ \A i \in DOMAIN t : Append(t, row)[i] = t[i]
           /\ Append(t, row)[Len(t) + 1] = row
<1> DEFINE S == {t[i] : i \in DOMAIN t} \cup {row}
<1>1. t \in Seq(S) /\ DOMAIN t = 1..Len(t) /\ Len(t) \in Nat
  BY DEF IsTable
<1>2. /\ Append(t, row) \in Seq(S) /\ Len(Append(t, row)) = Len(t) + 1
      /\ \A i \in 1..Len(t) : Append(t, row)[i] = t[i]
      /\ Append(t, row)[Len(t) + 1] = row
  BY <1>1, AppendProperties
<1>3. DOMAIN Append(t, row) = 1..(Len(t) + 1)
  BY <1>2
<1> QED
  BY <1>1, <1>2, <1>3, AppendedTable

LEMMA UpdatedTable ==
    ASSUME NEW t, IsTable(t), NEW i, NEW row
    PROVE  /\ IsTable([t EXCEPT ![i] = row])
           /\ DOMAIN [t EXCEPT ![i] = row] = DOMAIN t
           /\ \A j \in DOMAIN t : [t EXCEPT ![i] = row][j] = IF j = i THEN row ELSE t[j]
<1> DEFINE u == [t EXCEPT ![i] = row]
<1>1. DOMAIN t = 1..Len(t) /\ Len(t) \in Nat
  BY DEF IsTable
<1>2. DOMAIN u = DOMAIN t /\ \A j \in DOMAIN t : u[j] = IF j = i THEN row ELSE t[j]
  OBVIOUS
<1>3. u \in [1..Len(t) -> {u[j] : j \in DOMAIN u}]
  BY <1>1, <1>2
<1>4. u \in Seq({u[j] : j \in DOMAIN u})
  <2> HIDE DEF u
  <2> QED
    BY <1>1, <1>3
<1> QED
  BY <1>2, <1>4 DEF IsTable

\* The changed columns written over the row they were computed from are the new row.
LEMMA MergeIsNew ==
    ASSUME NEW row, ItemFits(row), NEW new, ItemFits(new)
    PROVE  Merge(row, row, new) = new
<1>1. IsItem(row) /\ IsItem(new)
  BY DEF ItemFits
<1>2. Merge(row, row, new) = [c \in DOMAIN new |-> new[c]]
  BY <1>1 DEF Merge, IsItem
<1> QED
  BY <1>1, <1>2 DEF IsItem

LEMMA SealedFits ==
    ASSUME NEW item, IsItem(item), SystemOf(item.control) \in {None, item.system}
    PROVE  ItemFits(Sealed(item))
<1> DEFINE new == [item EXCEPT !.seal = Fingerprint(item)]
<1>1. /\ new.system = item.system /\ new.control = item.control /\ new.content = item.content
      /\ new.metadata = item.metadata /\ new.seal = Fingerprint(item)
      /\ IsItem(new)
  BY DEF IsItem
<1> HIDE DEF new
<1>2. Fingerprint(new) = Fingerprint(item)
  BY <1>1 DEF Fingerprint
<1>3. ItemFits(new)
  BY <1>1, <1>2 DEF ItemFits
<1> QED
  BY <1>3 DEF Sealed, new

LEMMA ResolvedFits ==
    ASSUME NEW system, NEW control, Agree(system, control)
    PROVE  SystemOf(control) \in {None, ResolvedSystem(system, control)}
  BY DEF Agree, ResolvedSystem

LEMMA ItemAdded ==
    ASSUME NEW t, ItemsFit(t), NEW item, ItemFits(item)
    PROVE  ItemsFit(Append(t, item))
  BY AppendedTable DEF ItemsFit

LEMMA ItemChanged ==
    ASSUME NEW t, ItemsFit(t), NEW i, NEW new, i \in DOMAIN t => ItemFits(new)
    PROVE  ItemsFit([t EXCEPT ![i] = new])
  BY UpdatedTable DEF ItemsFit

LEMMA ReviewAdded ==
    ASSUME NEW t, ReviewsFit(t), NEW review, ReviewFits(review)
    PROVE  ReviewsFit(Append(t, review))
  BY AppendedTable DEF ReviewsFit

\* The tables that say nothing of items and reviews.
LEMMA OtherTables ==
    ASSUME NEW d, Fits(d), NEW x
    PROVE  /\ Fits([d EXCEPT !.systems = x])
           /\ Fits([d EXCEPT !.intakes = x])
           /\ Fits([d EXCEPT !.controls = x])
           /\ Fits([d EXCEPT !.artifacts = x])
           /\ Fits([d EXCEPT !.scans = x])
           /\ Fits([d EXCEPT !.events = x])
           /\ Fits([d EXCEPT !.reports = x])
  BY DEF Fits, IsDatabase

LEMMA NewItems ==
    ASSUME NEW d, Fits(d), NEW x, ItemsFit(x)
    PROVE  Fits([d EXCEPT !.items = x])
  BY DEF Fits, IsDatabase

LEMMA NewReviews ==
    ASSUME NEW d, Fits(d), NEW x, ReviewsFit(x)
    PROVE  Fits([d EXCEPT !.reviews = x])
  BY DEF Fits, IsDatabase

-----------------------------------------------------------------------------
(* Steps of requests. *)

LEMMA Committed ==
    ASSUME Inv, NEW s \in Slots, Working(s), NEW tables, Fits(tables), Commit(s, tables)
    PROVE  Inv'
<1>1. /\ db' = tables /\ DOMAIN tx' = Slots /\ tx'[s] = NoTx
      /\ \A t \in Slots \ {s} : tx'[t] = tx[t]
  BY DEF Inv, TxRecords, Commit, Step
<1>2. \A t \in Slots : Working(t)' => Working(t) /\ t # s
  BY <1>1 DEF Working, NoTx
<1>3. \A t \in Slots : ~Working(t)'
  BY <1>2 DEF Inv, OneAtWork
<1>4. OneAtWork' /\ LoadedIsCurrent'
  BY <1>3 DEF OneAtWork, LoadedIsCurrent, Working
<1>5. TxRecords'
  BY <1>1 DEF Inv, TxRecords, IsRecord, NoTx
<1> QED
  BY <1>1, <1>4, <1>5 DEF Inv

LEMMA Advanced ==
    ASSUME Inv, NEW s \in Slots, NEW t, IsRecord(t), Step(s, t), db' = db,
           t.pc \in {"store", "write"} => t.read = db,
           \A other \in Slots : Working(other) => other = s \/ t.pc \in {"idle", "blocked"}
    PROVE  Inv'
<1>1. /\ DOMAIN tx' = Slots /\ tx'[s] = t
      /\ \A other \in Slots \ {s} : tx'[other] = tx[other]
  BY DEF Inv, TxRecords, Step
<1>2. OneAtWork'
  BY <1>1 DEF Inv, OneAtWork, Working
<1>3. LoadedIsCurrent'
  BY <1>1 DEF Inv, LoadedIsCurrent
<1>4. TxRecords'
  BY <1>1 DEF Inv, TxRecords, IsRecord
<1> QED
  BY <1>2, <1>3, <1>4 DEF Inv

\* A request passes authentication only when no other one holds the key.
LEMMA KeyIsFree ==
    ASSUME OneKey, NEW s \in Slots, ~KeyLocked(KeyOf[s])
    PROVE  \A other \in Slots : ~Working(other)
  BY DEF OneKey, KeyLocked, Working

LEMMA Begins ==
    ASSUME Inv, OneKey, NEW s \in Slots, NEW op,
           Authenticate(s, op) \/ BlockLoop(s, op) \/ Unblock(s)
    PROVE  Inv'
<1>1. \A o : IsRecord(Begun(o)) /\ (Begun(o).pc \in {"store", "write"} => Begun(o).read = db)
  BY DEF Begun, IsRecord, NoTx
<1>2. CASE Authenticate(s, op)
  BY <1>1, <1>2, KeyIsFree, Advanced DEF Authenticate
<1>3. CASE BlockLoop(s, op)
  <2>1. IsRecord([NoTx EXCEPT !.pc = "blocked", !.op = op])
    BY DEF IsRecord, NoTx
  <2>2. [NoTx EXCEPT !.pc = "blocked", !.op = op].pc = "blocked"
    BY DEF NoTx
  <2> QED
    BY <1>3, <2>1, <2>2, Advanced DEF BlockLoop
<1>4. CASE Unblock(s)
  BY <1>1, <1>4, KeyIsFree, Advanced DEF Unblock, ChangesNoRow
<1> QED
  BY <1>2, <1>3, <1>4

LEMMA Ends ==
    ASSUME Inv, NEW s \in Slots, Fail(s) \/ CloseSession(s)
    PROVE  Inv'
<1>1. \A other \in Slots : Working(other) => other = s
  BY DEF Inv, OneAtWork, Working, Fail, CloseSession, At
<1>2. CASE Fail(s)
  <2> DEFINE t == [NoTx EXCEPT !.pc = "failed"]
  <2>1. IsRecord(t) /\ t.pc = "failed" /\ Step(s, t) /\ db' = db
    BY <1>2 DEF Fail, IsRecord, NoTx, ChangesNoRow
  <2> HIDE DEF t
  <2> QED
    BY <1>1, <2>1, Advanced
<1>3. CASE CloseSession(s)
  <2>1. IsRecord(NoTx) /\ NoTx.pc = "idle"
    BY DEF IsRecord, NoTx
  <2> QED
    BY <1>1, <1>3, <2>1, Advanced DEF CloseSession, ChangesNoRow
<1> QED
  BY <1>2, <1>3

LEMMA Killed ==
    ASSUME Inv, NEW w, KillWorker(w)
    PROVE  Inv'
<1>1. /\ db' = db
      /\ tx' = [s \in Slots |-> IF WorkerOf[s] = w THEN NoTx ELSE tx[s]]
  BY DEF KillWorker, ChangesNoRow
<1>2. \A s \in Slots : tx'[s] = NoTx \/ tx'[s] = tx[s]
  BY <1>1
<1>3. IsRecord(NoTx) /\ NoTx.pc = "idle"
  BY DEF IsRecord, NoTx
<1>4. DOMAIN tx' = Slots
  BY <1>1
<1>5. TxRecords'
  BY <1>2, <1>3, <1>4 DEF Inv, TxRecords, IsRecord
<1>6. OneAtWork'
  BY <1>2, <1>3 DEF Inv, OneAtWork, Working
<1>7. LoadedIsCurrent'
  BY <1>1, <1>2, <1>3 DEF Inv, LoadedIsCurrent
<1> QED
  BY <1>1, <1>5, <1>6, <1>7 DEF Inv

\* The steps of a scan and of an upload before they commit.
LEMMA Proceeds ==
    ASSUME Inv, NEW s \in Slots,
           StartScan(s) \/ FetchPage(s) \/ RenderPage(s) \/ ReceiveFile(s) \/ StoreObject(s)
    PROVE  Inv'
<1> USE DEF At
<1>1. Working(s)
  BY DEF Working, StartScan, FetchPage, RenderPage, ReceiveFile, StoreObject
<1>2. \A other \in Slots : Working(other) => other = s
  BY <1>1 DEF Inv, OneAtWork
<1>3. IsRecord(tx[s])
  BY DEF Inv, TxRecords
<1>4. \A pc, x : /\ IsRecord([tx[s] EXCEPT !.pc = pc, !.data = x])
                 /\ [tx[s] EXCEPT !.pc = pc, !.data = x].pc = pc
                 /\ [tx[s] EXCEPT !.pc = pc, !.data = x].read = tx[s].read
  BY <1>3 DEF IsRecord
<1>5. CASE StartScan(s)
  <2>1. PICK x : Step(s, [tx[s] EXCEPT !.pc = "crawl", !.data = x]) /\ db' = db
    BY <1>5 DEF StartScan, ChangesNoRow
  <2> DEFINE t == [tx[s] EXCEPT !.pc = "crawl", !.data = x]
  <2>2. IsRecord(t) /\ t.pc = "crawl" /\ Step(s, t)
    BY <1>4, <2>1
  <2> HIDE DEF t
  <2> QED
    BY <1>2, <2>1, <2>2, Advanced
<1>6. CASE FetchPage(s) \/ RenderPage(s)
  <2>1. \E x : Continue(s, "crawl", x) \/ Continue(s, "render", x)
    BY <1>6 DEF FetchPage, RenderPage
  <2>2. PICK pc, x : Continue(s, pc, x) /\ (pc = "crawl" \/ pc = "render")
    BY <2>1
  <2> DEFINE t == [tx[s] EXCEPT !.pc = pc, !.data = x]
  <2>3. IsRecord(t) /\ t.pc \in {"crawl", "render"} /\ Step(s, t) /\ db' = db
    BY <1>4, <1>6, <2>2 DEF Continue, FetchPage, RenderPage, ChangesNoRow
  <2> HIDE DEF t
  <2> QED
    BY <1>2, <2>3, Advanced
<1>7. CASE ReceiveFile(s)
  <2> DEFINE t == [tx[s] EXCEPT !.pc = "store", !.read = db]
  <2>1. IsRecord(t) /\ t.read = db /\ t.pc = "store" /\ Step(s, t) /\ db' = db
    BY <1>3, <1>7 DEF IsRecord, ReceiveFile, ChangesNoRow
  <2> HIDE DEF t
  <2> QED
    BY <1>2, <2>1, Advanced
<1>8. CASE StoreObject(s)
  <2>1. PICK x : Step(s, [tx[s] EXCEPT !.pc = "write", !.data = x]) /\ db' = db
    BY <1>8 DEF StoreObject
  <2>2. tx[s].read = db
    BY <1>8 DEF StoreObject, Inv, LoadedIsCurrent
  <2> DEFINE t == [tx[s] EXCEPT !.pc = "write", !.data = x]
  <2>3. IsRecord(t) /\ t.read = db /\ Step(s, t)
    BY <1>4, <2>1, <2>2
  <2> HIDE DEF t
  <2> QED
    BY <1>2, <2>1, <2>3, Advanced
<1> QED
  BY <1>5, <1>6, <1>7, <1>8

-----------------------------------------------------------------------------
(* The commits that leave items and reviews alone. *)

LEMMA AtWrite ==
    ASSUME Inv, NEW s \in Slots, NEW op, Writing(s, op)
    PROVE  Working(s) /\ Read(s) = db
  BY DEF Inv, LoadedIsCurrent, Writing, At, Working, Read

LEMMA SystemsAndIntakes ==
    ASSUME Inv, NEW s \in Slots, CreateAiSystem(s) \/ UpdateAiSystem(s) \/ CreateIntake(s)
    PROVE  Inv'
<1>1. Working(s)
  BY AtWrite DEF CreateAiSystem, UpdateAiSystem, CreateIntake
<1>2. CASE CreateAiSystem(s)
  <2>1. PICK x : Commit(s, [db EXCEPT !.systems = x])
    BY <1>2 DEF CreateAiSystem, WithSystem
  <2> QED
    BY <1>1, <2>1, OtherTables, Committed DEF Inv
<1>3. CASE UpdateAiSystem(s)
  <2>1. PICK x : Commit(s, [db EXCEPT !.systems = x])
    BY <1>3 DEF UpdateAiSystem
  <2> QED
    BY <1>1, <2>1, OtherTables, Committed DEF Inv
<1>4. CASE CreateIntake(s)
  <2>1. PICK x : Commit(s, [db EXCEPT !.intakes = x])
    BY <1>4 DEF CreateIntake
  <2> QED
    BY <1>1, <2>1, OtherTables, Committed DEF Inv
<1> QED
  BY <1>2, <1>3, <1>4

LEMMA Controls ==
    ASSUME Inv, NEW s \in Slots,
           \/ MaterializeControlPlan(s) \/ ApplyControlTemplates(s) \/ SeedBaselineControls(s)
           \/ CreateControl(s) \/ UpdateControl(s) \/ RecordControlReview(s)
    PROVE  Inv'
<1>1. Working(s)
  BY AtWrite DEF MaterializeControlPlan, ApplyControlTemplates, SeedBaselineControls,
                 CreateControl, UpdateControl, RecordControlReview
<1>2. ASSUME NEW system, NEW seeds, Seed(s, system, seeds)
      PROVE  \E x : Commit(s, [db EXCEPT !.controls = x])
  BY <1>2 DEF Seed
<1>3. ASSUME NEW id, NEW new, EditControl(s, id, new)
      PROVE  \E x : Commit(s, [db EXCEPT !.controls = x])
  BY <1>3 DEF EditControl
<1>4. PICK x : Commit(s, [db EXCEPT !.controls = x])
  <2>1. CASE MaterializeControlPlan(s) \/ ApplyControlTemplates(s) \/ SeedBaselineControls(s)
    BY <1>2, <2>1 DEF MaterializeControlPlan, ApplyControlTemplates, SeedBaselineControls
  <2>2. CASE CreateControl(s)
    BY <2>2 DEF CreateControl
  <2>3. CASE UpdateControl(s) \/ RecordControlReview(s)
    BY <1>3, <2>3 DEF UpdateControl, RecordControlReview
  <2> QED
    BY <2>1, <2>2, <2>3
<1> QED
  BY <1>1, <1>4, OtherTables, Committed DEF Inv

LEMMA ConvertedFits ==
    ASSUME NEW d, Fits(d), NEW read, NEW n, NEW role
    PROVE  Fits(Converted(d, read, n, role))
<1>1. Fits(Linked(d, read, n, role))
  <2>1. ASSUME NEW x, NEW y, NEW z
        PROVE  Fits([d EXCEPT !.systems = x, !.intakes = y, !.scans = z])
    BY DEF Fits, IsDatabase
  <2>2. \/ Linked(d, read, n, role) = d
        \/ \E x, y, z : Linked(d, read, n, role) = [d EXCEPT !.systems = x, !.intakes = y, !.scans = z]
    BY DEF Linked
  <2>3. ASSUME NEW x, NEW y, NEW z,
               Linked(d, read, n, role) = [d EXCEPT !.systems = x, !.intakes = y, !.scans = z]
        PROVE  Fits(Linked(d, read, n, role))
    <3>1. Fits([d EXCEPT !.systems = x, !.intakes = y, !.scans = z])
      BY <2>1
    <3> QED
      BY <2>3, <3>1
  <2> QED
    BY <2>2, <2>3
<1>2. ASSUME NEW e, Fits(e), NEW system
      PROVE  Fits(EnsureConversionEvidence(e, n, system))
  <2>1. \/ EnsureConversionEvidence(e, n, system) = e
        \/ \E x : EnsureConversionEvidence(e, n, system) = [e EXCEPT !.events = x]
    BY DEF EnsureConversionEvidence
  <2>2. ASSUME NEW x, EnsureConversionEvidence(e, n, system) = [e EXCEPT !.events = x]
        PROVE  Fits(EnsureConversionEvidence(e, n, system))
    <3>1. Fits([e EXCEPT !.events = x])
      BY <1>2, OtherTables
    <3> QED
      BY <2>2, <3>1
  <2> QED
    BY <1>2, <2>1, <2>2
<1>3. \E x, system : Converted(d, read, n, role)
          = EnsureConversionEvidence([Linked(d, read, n, role) EXCEPT !.controls = x], n, system)
  BY DEF Converted
<1> QED
  BY <1>1, <1>2, <1>3, OtherTables

LEMMA ScansAndReports ==
    ASSUME Inv, NEW s \in Slots,
           EndScan(s) \/ ConvertScan(s) \/ GenerateReport(s) \/ GenerateScanReport(s)
    PROVE  Inv'
<1>1. Working(s) /\ Fits(db)
  BY AtWrite DEF Inv, Working, At, EndScan, ConvertScan, GenerateReport, GenerateScanReport
<1>2. \A d, report : Fits(d) => Fits(WithReport(d, report))
  BY OtherTables DEF WithReport
<1>3. PICK tables : Commit(s, tables) /\ Fits(tables)
  <2>1. CASE EndScan(s)
    <3>1. PICK x : Commit(s, [db EXCEPT !.scans = x])
      BY <2>1 DEF EndScan
    <3> QED
      BY <1>1, <3>1, OtherTables
  <2>2. CASE ConvertScan(s)
    BY <1>1, <2>2, ConvertedFits DEF ConvertScan
  <2>3. CASE GenerateReport(s)
    BY <1>1, <1>2, <2>3 DEF GenerateReport
  <2>4. CASE GenerateScanReport(s)
    BY <1>1, <1>2, <2>4, ConvertedFits DEF GenerateScanReport
  <2> QED
    BY <2>1, <2>2, <2>3, <2>4
<1> QED
  BY <1>1, <1>3, Committed

-----------------------------------------------------------------------------
(* The commits that write items and reviews. *)

\* UPDATE of an item that was loaded before: its new row is the one that was sealed.
LEMMA EditFits ==
    ASSUME Inv, NEW s \in Slots, Working(s), Read(s) = db,
           NEW i \in DOMAIN db.items, NEW new, ItemFits(new), EditItem(s, i, new)
    PROVE  Inv'
<1> DEFINE table == [db.items EXCEPT ![i] = new]
<1>1. ItemFits(db.items[i]) /\ Fits(db)
  BY DEF Inv, Fits, ItemsFit
<1>2. Merge(db.items[i], Read(s).items[i], new) = new
  BY <1>1, MergeIsNew
<1>3. Commit(s, [db EXCEPT !.items = table])
  BY <1>2 DEF EditItem
<1>4. ItemsFit(table)
  BY <1>1, ItemChanged DEF Fits
<1> HIDE DEF table
<1>5. Fits([db EXCEPT !.items = table])
  BY <1>1, <1>4, NewItems
<1> QED
  BY <1>3, <1>5, Committed

LEMMA PatchedFits ==
    ASSUME NEW row, ItemFits(row), NEW system, NEW control, Agree(system, control),
           NEW content, NEW metadata
    PROVE  ItemFits(Patched(row, system, control, content, metadata))
<1> DEFINE new == [row EXCEPT !.system = ResolvedSystem(system, control), !.control = control,
                              !.content = content, !.metadata = metadata]
<1>1. IsItem(new) /\ new.system = ResolvedSystem(system, control) /\ new.control = control
  BY DEF ItemFits, IsItem
<1> HIDE DEF new
<1>2. ItemFits(Sealed(new))
  BY <1>1, ResolvedFits, SealedFits
<1> QED
  BY <1>2 DEF Patched, new

LEMMA AttachedFits ==
    ASSUME NEW row, ItemFits(row), NEW control, Agree(row.system, control)
    PROVE  ItemFits(Attached(row, control))
<1> DEFINE new == [row EXCEPT !.system = ResolvedSystem(@, control), !.control = control,
                              !.metadata = WithAttachment(@, control)]
<1>1. IsItem(new) /\ new.system = ResolvedSystem(row.system, control) /\ new.control = control
  BY DEF ItemFits, IsItem
<1> HIDE DEF new
<1>2. ItemFits(Sealed(new))
  BY <1>1, ResolvedFits, SealedFits
<1> QED
  BY <1>2 DEF Attached, new

LEMMA ArtifactFits ==
    ASSUME NEW row, ItemFits(row), NEW artifact
    PROVE  ItemFits(WithArtifact(row, artifact))
<1> DEFINE new == [row EXCEPT !.metadata.artifacts = <<artifact>> \o @]
<1>1. IsItem(new) /\ new.system = row.system /\ new.control = row.control
  BY DEF ItemFits, IsItem
<1> HIDE DEF new
<1>2. ItemFits(Sealed(new))
  BY <1>1, SealedFits DEF ItemFits
<1> QED
  BY <1>2 DEF WithArtifact, new

LEMMA InsertedFits ==
    ASSUME NEW system, NEW control, NEW content, NEW metadata, SystemOf(control) \in {None, system}
    PROVE  ItemFits(Item(system, control, content, metadata))
<1> DEFINE new == [system |-> system, control |-> control, content |-> content,
                   metadata |-> metadata, seal |-> None]
<1>1. IsItem(new) /\ new.system = system /\ new.control = control
  BY DEF IsItem
<1> HIDE DEF new
<1>2. ItemFits(Sealed(new))
  BY <1>1, SealedFits
<1> QED
  BY <1>2 DEF Item, new

LEMMA Items ==
    ASSUME Inv, NEW s \in Slots,
           CreateItem(s) \/ UpdateItem(s) \/ AttachItemToControl(s) \/ AttachArtifact(s)
    PROVE  Inv'
<1>1. Working(s) /\ Read(s) = db
  BY AtWrite DEF CreateItem, UpdateItem, AttachItemToControl, AttachArtifact
<1>2. Fits(db) /\ ItemsFit(db.items)
  BY DEF Inv, Fits
<1>3. CASE CreateItem(s)
  <2>1. PICK system, control, metadata :
            /\ Agree(system, control)
            /\ Commit(s, [db EXCEPT !.items = Append(@, NewItem(system, control, metadata))])
    BY <1>3 DEF CreateItem
  <2>2. ItemFits(NewItem(system, control, metadata))
    BY <2>1, ResolvedFits, InsertedFits DEF NewItem
  <2>3. Fits([db EXCEPT !.items = Append(@, NewItem(system, control, metadata))])
    BY <1>2, <2>2, ItemAdded, NewItems
  <2> QED
    BY <1>1, <2>1, <2>3, Committed
<1>4. CASE UpdateItem(s)
  <2>1. PICK i, system, control, metadata :
            /\ i \in DOMAIN db.items
            /\ Agree(system, control)
            /\ EditItem(s, i, Patched(db.items[i], system, control, "edited", metadata))
    BY <1>1, <1>4 DEF UpdateItem
  <2>2. ItemFits(Patched(db.items[i], system, control, "edited", metadata))
    BY <1>2, <2>1, PatchedFits DEF ItemsFit
  <2> QED
    BY <1>1, <2>1, <2>2, EditFits
<1>5. CASE AttachItemToControl(s)
  <2>1. PICK i, control :
            /\ i \in DOMAIN db.items
            /\ Agree(db.items[i].system, control)
            /\ EditItem(s, i, Attached(db.items[i], control))
    BY <1>1, <1>5 DEF AttachItemToControl
  <2>2. ItemFits(Attached(db.items[i], control))
    BY <1>2, <2>1, AttachedFits DEF ItemsFit
  <2> QED
    BY <1>1, <2>1, <2>2, EditFits
<1>6. CASE AttachArtifact(s)
  <2> DEFINE i == tx[s].data.item
             new == WithArtifact(db.items[i], Len(db.artifacts) + 1)
             table == [db.items EXCEPT ![i] = Merge(@, db.items[i], new)]
             rows == Append(db.artifacts, tx[s].data)
  <2>1. Commit(s, [db EXCEPT !.artifacts = rows, !.items = table])
    BY <1>1, <1>6 DEF AttachArtifact
  <2>2. i \in DOMAIN db.items => ItemFits(Merge(db.items[i], db.items[i], new))
    BY <1>2, ArtifactFits, MergeIsNew DEF ItemsFit
  <2>3. ItemsFit(table)
    BY <1>2, <2>2, ItemChanged
  <2> HIDE DEF rows, table
  <2>4. [db EXCEPT !.artifacts = rows, !.items = table]
            = [[db EXCEPT !.artifacts = rows] EXCEPT !.items = table]
    OBVIOUS
  <2>5. Fits([db EXCEPT !.artifacts = rows, !.items = table])
    BY <1>2, <2>3, <2>4, OtherTables, NewItems
  <2> QED
    BY <1>1, <2>1, <2>5, Committed
<1> QED
  BY <1>3, <1>4, <1>5, <1>6

LEMMA ReviewedCommits ==
    ASSUME Inv, NEW s \in Slots, Working(s), NEW i, NEW status, NEW tables, Fits(tables),
           NEW review, ReviewFits(review), Reviewed(s, i, status, tables, review)
    PROVE  Inv'
<1>1. PICK x : Commit(s, [tables EXCEPT !.reviews = Append(@, review), !.systems = x])
  BY DEF Reviewed
<1>2. ReviewsFit(Append(tables.reviews, review))
  BY ReviewAdded DEF Fits
<1> DEFINE reviews == Append(tables.reviews, review)
<1> HIDE DEF reviews
<1>3. Fits([[tables EXCEPT !.reviews = reviews] EXCEPT !.systems = x])
  BY <1>2, NewReviews, OtherTables DEF reviews
<1>4. [tables EXCEPT !.reviews = reviews, !.systems = x]
          = [[tables EXCEPT !.reviews = reviews] EXCEPT !.systems = x]
  OBVIOUS
<1> QED
  BY <1>1, <1>3, <1>4, Committed DEF reviews

LEMMA Reviews ==
    ASSUME Inv, NEW s \in Slots, RecordAiSystemReview(s) \/ RecordReviewWithPlaceholder(s)
    PROVE  Inv'
<1>1. Working(s) /\ Fits(db) /\ ItemsFit(db.items)
  BY AtWrite DEF Inv, Fits, RecordAiSystemReview, RecordReviewWithPlaceholder
<1>2. \A i, control, item : FollowUpFits(SystemOf(control), i) => ReviewFits(Review(i, control, item))
  BY DEF FollowUpFits, ReviewFits, Review
<1>3. \A i : FollowUpFits(SystemOf(None), i)
  BY DEF FollowUpFits, SystemOf
<1>4. CASE RecordAiSystemReview(s)
  <2>1. PICK i, status, control, item :
            /\ FollowUpFits(SystemOf(control), i)
            /\ Reviewed(s, i, status, db, Review(i, control, item))
    BY <1>3, <1>4 DEF RecordAiSystemReview
  <2> QED
    BY <1>1, <1>2, <2>1, ReviewedCommits
<1>5. CASE RecordReviewWithPlaceholder(s)
  <2>1. CASE \E i, key, x :
               LET id == ControlId(i, key, 0) IN
               Reviewed(s, i, "needs_follow_up", [db EXCEPT !.controls = x], Review(i, id, None))
    <3>1. PICK i, key, x :
              Reviewed(s, i, "needs_follow_up", [db EXCEPT !.controls = x],
                       Review(i, ControlId(i, key, 0), None))
      BY <2>1
    <3>2. FollowUpFits(SystemOf(ControlId(i, key, 0)), i)
      BY DEF FollowUpFits, SystemOf, ControlId
    <3> QED
      BY <1>1, <1>2, <3>1, <3>2, OtherTables, ReviewedCommits
  <2>2. CASE \E i, control, x :
               /\ FollowUpFits(SystemOf(control), i)
               /\ Reviewed(s, i, "needs_follow_up",
                           [db EXCEPT !.items = Append(@, Item(i, control, "placeholder", NoMetadata))],
                           Review(i, control, x))
    <3>1. PICK i, control, x :
               /\ FollowUpFits(SystemOf(control), i)
               /\ Reviewed(s, i, "needs_follow_up",
                           [db EXCEPT !.items = Append(@, Item(i, control, "placeholder", NoMetadata))],
                           Review(i, control, x))
      BY <2>2
    <3>2. ItemFits(Item(i, control, "placeholder", NoMetadata))
      BY <3>1, InsertedFits DEF FollowUpFits
    <3>3. Fits([db EXCEPT !.items = Append(@, Item(i, control, "placeholder", NoMetadata))])
      BY <1>1, <3>2, ItemAdded, NewItems
    <3> QED
      BY <1>2, <1>1, <3>1, <3>3, ReviewedCommits
  <2> QED
    BY <1>5, <2>1, <2>2 DEF RecordReviewWithPlaceholder
<1> QED
  BY <1>4, <1>5

-----------------------------------------------------------------------------
(* The invariant, and what follows from it. *)

LEMMA Steps ==
    ASSUME Inv, OneKey, Next
    PROVE  Inv'
<1>1. ASSUME NEW s \in Slots, NEW op, Authenticate(s, op) \/ BlockLoop(s, op)
      PROVE  Inv'
  BY <1>1, Begins
<1>2. ASSUME NEW s \in Slots, Serve(s)
      PROVE  Inv'
  <2>1. CASE Unblock(s) \/ Fail(s) \/ CloseSession(s)
    BY <2>1, Begins, Ends
  <2>2. CASE Edit(s)
    BY <2>2, SystemsAndIntakes, Reviews, Controls, Items, ScansAndReports DEF Edit
  <2>3. CASE Upload(s)
    BY <2>3, Proceeds, Items DEF Upload
  <2>4. CASE ScanSite(s)
    BY <2>4, Proceeds, ScansAndReports DEF ScanSite
  <2> QED
    BY <1>2, <2>1, <2>2, <2>3, <2>4 DEF Serve
<1>3. ASSUME NEW w \in Workers, KillWorker(w)
      PROVE  Inv'
  BY <1>3, Killed
<1> QED
  BY <1>1, <1>2, <1>3 DEF Next

\* Seals and links fit their rows in every reachable state, if they do so to start from and
\* all requests carry one key.
THEOREM EvidenceFits ==
    ASSUME OneKey, \A d \in InitialDb : Fits(d)
    PROVE  Spec => []Inv
<1>1. Init => Inv
  <2> SUFFICES ASSUME Init PROVE Inv
    OBVIOUS
  <2>1. \A s \in Slots : tx[s] = NoTx
    BY DEF Init
  <2>2. TxRecords
    BY <2>1 DEF Init, TxRecords, IsRecord, NoTx
  <2>3. \A s \in Slots : tx[s].pc = "idle"
    BY <2>1 DEF NoTx
  <2> QED
    BY <2>2, <2>3 DEF Init, Inv, OneAtWork, LoadedIsCurrent, Working
<1>2. Inv /\ [Next]_vars => Inv'
  <2>1. ASSUME Inv, UNCHANGED vars PROVE Inv'
    BY <2>1 DEF vars, Inv, TxRecords, OneAtWork, LoadedIsCurrent, Working
  <2> QED
    BY <2>1, Steps
<1> QED
  BY <1>1, <1>2, PTL DEF Spec

\* The seal of every item is the one of its row, whatever edits, attachments and uploads it
\* went through: EvidenceVault seals the row as loaded and writes only what changed.
THEOREM SealsMatchRows ==
    ASSUME OneKey, \A d \in InitialDb : Fits(d)
    PROVE  Spec => []SealMatchesRow
<1>1. Inv => SealMatchesRow
  BY DEF Inv, Fits, ItemsFit, ItemFits, SealMatchesRow
<1> QED
  BY <1>1, EvidenceFits, PTL

\* No item and no review is linked to a control of another system, also after a chain of
\* updates and attachments that each resolve the item's system anew.
THEOREM LinksStayInSystem ==
    ASSUME OneKey, \A d \in InitialDb : Fits(d)
    PROVE  Spec => []LinksFit
<1>1. Inv => LinksFit
  BY DEF Inv, Fits, ItemsFit, ItemFits, ReviewsFit, ReviewFits, LinksFit
<1> QED
  BY <1>1, EvidenceFits, PTL

-----------------------------------------------------------------------------
(* Artifacts.  "Stored" holds of the committed tables and of the object that a request has *)
(* put into the bucket and not yet inserted.  "ListsFollow" is what each step does to the  *)
(* lists of the items.                                                                     *)

ArtifactStored(artifact, objects) == artifact.backend = "gcs" => artifact.object \in objects
MetadataFits(metadata) == "artifacts" \in DOMAIN metadata
ArtifactsFit(d) ==
    /\ IsTable(d.artifacts)
    /\ \A i \in DOMAIN d.items : MetadataFits(d.items[i].metadata)
Pending(t, objects) == t.pc = "write" /\ t.op = "upload" => ArtifactStored(t.data, objects)
Stored ==
    /\ ArtifactsFit(db)
    /\ \A a \in DOMAIN db.artifacts : ArtifactStored(db.artifacts[a], bucket)
    /\ \A s \in Slots : Pending(tx[s], bucket)

ListsFollow == \A i \in DOMAIN db.items : ListFollows(i)
ListsKept(d) ==
    \A i \in DOMAIN db.items : d.items[i].metadata.artifacts = db.items[i].metadata.artifacts

\* Steps that add no artifact and take nothing from the bucket.
LEMMA StoredKept ==
    ASSUME Stored, ArtifactsFit(db'), db'.artifacts = db.artifacts, bucket \subseteq bucket',
           \A s \in Slots : tx'[s] = tx[s] \/ Pending(tx'[s], bucket')
    PROVE  Stored'
  BY DEF Stored, ArtifactStored, Pending

LEMMA ListsUntouched ==
    ASSUME db'.artifacts = db.artifacts, ListsKept(db')
    PROVE  ListsFollow
  BY DEF ListsFollow, ListFollows, ListsKept

LEMMA CommitKeepsStored ==
    ASSUME Inv, Stored, NEW s \in Slots, NEW tables, Commit(s, tables), ArtifactsFit(tables),
           tables.artifacts = db.artifacts, ListsKept(tables) \/ Writing(s, "update_item")
    PROVE  Stored' /\ ListsFollow
<1>1. db' = tables /\ bucket' = bucket
  BY DEF Commit
<1>2. \A other \in Slots : tx'[other] = tx[other] \/ tx'[other] = NoTx
  BY DEF Commit, Step, Inv, TxRecords
<1>3. Pending(NoTx, bucket)
  BY DEF Pending, NoTx
<1>4. Stored'
  BY <1>1, <1>2, <1>3, StoredKept
<1>5. ASSUME Writing(s, "update_item") PROVE ListsFollow
  <2>1. tx'[s].pc = "idle"
    BY DEF Commit, Step, Inv, TxRecords, NoTx
  <2> QED
    BY <1>1, <1>5, <2>1 DEF ListsFollow, ListFollows
<1> QED
  BY <1>1, <1>4, <1>5, ListsUntouched

LEMMA StepKeepsStored ==
    ASSUME Inv, Stored, NEW s \in Slots, NEW t, Step(s, t), db' = db, bucket \subseteq bucket',
           Pending(t, bucket')
    PROVE  Stored' /\ ListsFollow
<1>1. \A other \in Slots : tx'[other] = tx[other] \/ tx'[other] = t
  BY DEF Step, Inv, TxRecords
<1>2. ListsKept(db')
  BY DEF ListsKept
<1> QED
  BY <1>1, <1>2, StoredKept, ListsUntouched DEF Stored

\* What a commit that leaves the evidence alone writes.
SameEvidence(d, e) == IsDatabase(e) /\ e.items = d.items /\ e.artifacts = d.artifacts

LEMMA OtherTablesKeepEvidence ==
    ASSUME NEW d, NEW e, SameEvidence(d, e), NEW x
    PROVE  /\ SameEvidence(d, [e EXCEPT !.systems = x])
           /\ SameEvidence(d, [e EXCEPT !.intakes = x])
           /\ SameEvidence(d, [e EXCEPT !.controls = x])
           /\ SameEvidence(d, [e EXCEPT !.scans = x])
           /\ SameEvidence(d, [e EXCEPT !.events = x])
           /\ SameEvidence(d, [e EXCEPT !.reviews = x])
           /\ SameEvidence(d, [e EXCEPT !.reports = x])
  BY DEF SameEvidence, IsDatabase

LEMMA ConversionKeepsEvidence ==
    ASSUME NEW d, IsDatabase(d), NEW read, NEW n, NEW role
    PROVE  SameEvidence(d, Converted(d, read, n, role))
<1>1. SameEvidence(d, d)
  BY DEF SameEvidence
<1>2. SameEvidence(d, Linked(d, read, n, role))
  <2>1. ASSUME NEW x, NEW y, NEW z
        PROVE  SameEvidence(d, [d EXCEPT !.systems = x, !.intakes = y, !.scans = z])
    BY DEF SameEvidence, IsDatabase
  <2>2. \/ Linked(d, read, n, role) = d
        \/ \E x, y, z : Linked(d, read, n, role) = [d EXCEPT !.systems = x, !.intakes = y, !.scans = z]
    BY DEF Linked
  <2>3. ASSUME NEW x, NEW y, NEW z,
               Linked(d, read, n, role) = [d EXCEPT !.systems = x, !.intakes = y, !.scans = z]
        PROVE  SameEvidence(d, Linked(d, read, n, role))
    <3>1. SameEvidence(d, [d EXCEPT !.systems = x, !.intakes = y, !.scans = z])
      BY <2>1
    <3> QED
      BY <2>3, <3>1
  <2> QED
    BY <1>1, <2>2, <2>3
<1>3. ASSUME NEW e, SameEvidence(d, e), NEW system
      PROVE  SameEvidence(d, EnsureConversionEvidence(e, n, system))
  <2>1. \/ EnsureConversionEvidence(e, n, system) = e
        \/ \E x : EnsureConversionEvidence(e, n, system) = [e EXCEPT !.events = x]
    BY DEF EnsureConversionEvidence
  <2>2. ASSUME NEW x, EnsureConversionEvidence(e, n, system) = [e EXCEPT !.events = x]
        PROVE  SameEvidence(d, EnsureConversionEvidence(e, n, system))
    <3>1. SameEvidence(d, [e EXCEPT !.events = x])
      BY <1>3, OtherTablesKeepEvidence
    <3> QED
      BY <2>2, <3>1
  <2> QED
    BY <1>3, <2>1, <2>2
<1>4. \E x, system : Converted(d, read, n, role)
          = EnsureConversionEvidence([Linked(d, read, n, role) EXCEPT !.controls = x], n, system)
  BY DEF Converted
<1> QED
  BY <1>2, <1>3, <1>4, OtherTablesKeepEvidence

LEMMA OtherCommits ==
    ASSUME Inv, Stored, NEW s \in Slots,
           \/ CreateAiSystem(s) \/ UpdateAiSystem(s) \/ CreateIntake(s)
           \/ MaterializeControlPlan(s) \/ ApplyControlTemplates(s) \/ SeedBaselineControls(s)
           \/ CreateControl(s) \/ UpdateControl(s) \/ RecordControlReview(s)
           \/ EndScan(s) \/ ConvertScan(s) \/ GenerateReport(s) \/ GenerateScanReport(s)
    PROVE  Stored' /\ ListsFollow
<1>1. IsDatabase(db) /\ SameEvidence(db, db)
  BY DEF Inv, Fits, SameEvidence
<1>2. PICK tables : Commit(s, tables) /\ SameEvidence(db, tables)
  <2>1. CASE CreateAiSystem(s) \/ UpdateAiSystem(s)
    <3>1. PICK x : Commit(s, [db EXCEPT !.systems = x])
      BY <2>1 DEF CreateAiSystem, UpdateAiSystem, WithSystem
    <3> QED
      BY <1>1, <3>1, OtherTablesKeepEvidence
  <2>2. CASE CreateIntake(s)
    <3>1. PICK x : Commit(s, [db EXCEPT !.intakes = x])
      BY <2>2 DEF CreateIntake
    <3> QED
      BY <1>1, <3>1, OtherTablesKeepEvidence
  <2>3. CASE \/ MaterializeControlPlan(s) \/ ApplyControlTemplates(s) \/ SeedBaselineControls(s)
             \/ CreateControl(s) \/ UpdateControl(s) \/ RecordControlReview(s)
    <3>1. PICK x : Commit(s, [db EXCEPT !.controls = x])
      <4>1. CASE MaterializeControlPlan(s) \/ ApplyControlTemplates(s) \/ SeedBaselineControls(s)
        BY <4>1 DEF MaterializeControlPlan, ApplyControlTemplates, SeedBaselineControls, Seed
      <4>2. CASE CreateControl(s)
        BY <4>2 DEF CreateControl
      <4>3. CASE UpdateControl(s) \/ RecordControlReview(s)
        BY <4>3 DEF UpdateControl, RecordControlReview, EditControl
      <4> QED
        BY <2>3, <4>1, <4>2, <4>3
    <3> QED
      BY <1>1, <3>1, OtherTablesKeepEvidence
  <2>4. CASE EndScan(s)
    <3>1. PICK x : Commit(s, [db EXCEPT !.scans = x])
      BY <2>4 DEF EndScan
    <3> QED
      BY <1>1, <3>1, OtherTablesKeepEvidence
  <2>5. CASE ConvertScan(s)
    BY <1>1, <2>5, ConversionKeepsEvidence DEF ConvertScan
  <2>6. CASE GenerateReport(s)
    BY <1>1, <2>6, OtherTablesKeepEvidence DEF GenerateReport, WithReport
  <2>7. CASE GenerateScanReport(s)
    BY <1>1, <2>7, OtherTablesKeepEvidence, ConversionKeepsEvidence DEF GenerateScanReport, WithReport
  <2> QED
    BY <2>1, <2>2, <2>3, <2>4, <2>5, <2>6, <2>7
<1>3. ArtifactsFit(tables) /\ ListsKept(tables)
  BY <1>2 DEF Stored, ArtifactsFit, SameEvidence, ListsKept
<1> QED
  BY <1>2, <1>3, CommitKeepsStored DEF SameEvidence

\* The commits that write items.
LEMMA WrittenMetadataFits ==
    /\ MetadataFits(NoMetadata)
    /\ \A artifacts : \A metadata \in ClientMetadata(artifacts) : MetadataFits(metadata)
  BY DEF MetadataFits, NoMetadata, ClientMetadata

LEMMA ItemAddedKeeps ==
    ASSUME Fits(db), ArtifactsFit(db), NEW item, MetadataFits(item.metadata)
    PROVE  /\ ArtifactsFit([db EXCEPT !.items = Append(@, item)])
           /\ [db EXCEPT !.items = Append(@, item)].artifacts = db.artifacts
           /\ ListsKept([db EXCEPT !.items = Append(@, item)])
<1> DEFINE table == Append(db.items, item)
           e == [db EXCEPT !.items = table]
<1>1. /\ \A i \in DOMAIN table : table[i] = item \/ (i \in DOMAIN db.items /\ table[i] = db.items[i])
      /\ \A i \in DOMAIN db.items : table[i] = db.items[i]
  BY AppendedTable, AppendExtends DEF Fits, ItemsFit
<1> HIDE DEF table
<1>2. e.items = table /\ e.artifacts = db.artifacts
  BY DEF Fits, IsDatabase
<1> HIDE DEF e
<1>3. ArtifactsFit(e) /\ ListsKept(e)
  BY <1>1, <1>2 DEF ArtifactsFit, ListsKept
<1> QED
  BY <1>2, <1>3 DEF e, table

LEMMA ItemEditedKeeps ==
    ASSUME Fits(db), ArtifactsFit(db), NEW i \in DOMAIN db.items, NEW new, MetadataFits(new.metadata)
    PROVE  /\ ArtifactsFit([db EXCEPT !.items[i] = new])
           /\ [db EXCEPT !.items[i] = new].artifacts = db.artifacts
           /\ new.metadata.artifacts = db.items[i].metadata.artifacts => ListsKept([db EXCEPT !.items[i] = new])
<1> DEFINE table == [db.items EXCEPT ![i] = new]
           e == [db EXCEPT !.items = table]
<1>1. /\ DOMAIN table = DOMAIN db.items
      /\ \A j \in DOMAIN db.items : table[j] = IF j = i THEN new ELSE db.items[j]
  OBVIOUS
<1> HIDE DEF table
<1>2. e.items = table /\ e.artifacts = db.artifacts
  BY DEF Fits, IsDatabase
<1> HIDE DEF e
<1>3. ArtifactsFit(e)
  BY <1>1, <1>2 DEF ArtifactsFit
<1>4. new.metadata.artifacts = db.items[i].metadata.artifacts => ListsKept(e)
  BY <1>1, <1>2 DEF ListsKept
<1> QED
  BY <1>2, <1>3, <1>4 DEF e, table

LEMMA EditKeepsStored ==
    ASSUME Inv, Stored, NEW s \in Slots, Read(s) = db, NEW i \in DOMAIN db.items, NEW new,
           ItemFits(new), MetadataFits(new.metadata), EditItem(s, i, new),
           \/ new.metadata.artifacts = db.items[i].metadata.artifacts
           \/ Writing(s, "update_item")
    PROVE  Stored' /\ ListsFollow
<1>1. Merge(db.items[i], db.items[i], new) = new
  BY MergeIsNew DEF Inv, Fits, ItemsFit
<1>2. Commit(s, [db EXCEPT !.items[i] = new])
  BY <1>1 DEF EditItem
<1>3. Fits(db) /\ ArtifactsFit(db)
  BY DEF Inv, Stored
<1> QED
  BY <1>2, <1>3, ItemEditedKeeps, CommitKeepsStored

LEMMA ItemCommits ==
    ASSUME Inv, Stored, NEW s \in Slots,
           CreateItem(s) \/ UpdateItem(s) \/ AttachItemToControl(s)
    PROVE  Stored' /\ ListsFollow
<1>1. Read(s) = db
  BY AtWrite DEF CreateItem, UpdateItem, AttachItemToControl
<1>2. Fits(db) /\ ItemsFit(db.items) /\ ArtifactsFit(db)
  BY DEF Inv, Fits, Stored
<1>3. CASE CreateItem(s)
  <2>1. PICK system, control, metadata :
            /\ MetadataFits(metadata)
            /\ Commit(s, [db EXCEPT !.items = Append(@, NewItem(system, control, metadata))])
    BY <1>3, WrittenMetadataFits DEF CreateItem
  <2>2. NewItem(system, control, metadata).metadata = metadata
    BY DEF NewItem, Item, Sealed
  <2> QED
    BY <1>2, <2>1, <2>2, ItemAddedKeeps, CommitKeepsStored
<1>4. CASE UpdateItem(s)
  <2>1. PICK i, system, control, metadata :
            /\ i \in DOMAIN db.items
            /\ metadata = db.items[i].metadata \/ MetadataFits(metadata)
            /\ Agree(system, control)
            /\ EditItem(s, i, Patched(db.items[i], system, control, "edited", metadata))
    BY <1>1, <1>4, WrittenMetadataFits DEF UpdateItem
  <2> DEFINE new == Patched(db.items[i], system, control, "edited", metadata)
  <2>2. ItemFits(db.items[i]) /\ ItemFits(new)
    BY <1>2, <2>1, PatchedFits DEF ItemsFit
  <2>3. new.metadata = metadata
    BY <2>2 DEF Patched, Sealed, ItemFits, IsItem
  <2>4. MetadataFits(metadata)
    BY <1>2, <2>1 DEF ArtifactsFit
  <2>5. Writing(s, "update_item")
    BY <1>4 DEF UpdateItem
  <2> QED
    BY <1>1, <2>1, <2>2, <2>3, <2>4, <2>5, EditKeepsStored
<1>5. CASE AttachItemToControl(s)
  <2>1. PICK i, control :
            /\ i \in DOMAIN db.items
            /\ Agree(db.items[i].system, control)
            /\ EditItem(s, i, Attached(db.items[i], control))
    BY <1>1, <1>5 DEF AttachItemToControl
  <2> DEFINE row == db.items[i]
             new == Attached(row, control)
  <2>2. ItemFits(row) /\ ItemFits(new)
    BY <1>2, <2>1, AttachedFits DEF ItemsFit
  <2>3. new.metadata = WithAttachment(row.metadata, control)
    BY <2>2 DEF Attached, Sealed, ItemFits, IsItem
  <2>4. MetadataFits(row.metadata)
    BY <1>2, <2>1 DEF ArtifactsFit
  <2>5. /\ MetadataFits(WithAttachment(row.metadata, control))
        /\ WithAttachment(row.metadata, control).artifacts = row.metadata.artifacts
    BY <2>4 DEF WithAttachment, MetadataFits
  <2> QED
    BY <1>1, <2>1, <2>2, <2>3, <2>5, EditKeepsStored
<1> QED
  BY <1>3, <1>4, <1>5

\* The row that an upload writes next to its object, and the item that lists it.
LEMMA UploadCommits ==
    ASSUME Inv, Stored, NEW s \in Slots, AttachArtifact(s)
    PROVE  Stored' /\ ListsFollow
<1> DEFINE data == tx[s].data
           i == data.item
           id == Len(db.artifacts) + 1
           rows == Append(db.artifacts, data)
           new == WithArtifact(db.items[i], id)
           items == [db.items EXCEPT ![i] = Merge(@, db.items[i], new)]
<1>1. Read(s) = db /\ Fits(db) /\ ItemsFit(db.items) /\ ArtifactsFit(db)
  BY AtWrite DEF AttachArtifact, Inv, Fits, Stored
<1>2. /\ db' = [db EXCEPT !.artifacts = rows, !.items = items] /\ bucket' = bucket
      /\ Step(s, NoTx)
  BY <1>1 DEF AttachArtifact, Commit
<1>3. db'.artifacts = rows /\ db'.items = items
  <2> HIDE DEF rows, items
  <2> QED
    BY <1>1, <1>2 DEF Fits, IsDatabase
<1>4. ArtifactStored(data, bucket)
  BY DEF Stored, Pending, AttachArtifact, Writing, At
<1>5. /\ IsTable(rows)
      /\ \A a \in DOMAIN rows : rows[a] = data \/ (a \in DOMAIN db.artifacts /\ rows[a] = db.artifacts[a])
      /\ \A a \in DOMAIN db.artifacts : a \in DOMAIN rows /\ rows[a] = db.artifacts[a]
      /\ id \in DOMAIN rows /\ rows[id] = data
  <2>1. db.artifacts \in Seq({db.artifacts[a] : a \in DOMAIN db.artifacts} \cup {data})
    BY <1>1 DEF ArtifactsFit, IsTable
  <2>2. /\ Len(rows) = Len(db.artifacts) + 1 /\ Len(db.artifacts) \in Nat
        /\ \A a \in 1..Len(db.artifacts) : rows[a] = db.artifacts[a]
        /\ rows[Len(db.artifacts) + 1] = data
        /\ DOMAIN rows = 1..(Len(db.artifacts) + 1)
        /\ DOMAIN db.artifacts = 1..Len(db.artifacts)
    BY <2>1, AppendProperties
  <2> QED
    BY <1>1, <2>2, AppendedTable DEF ArtifactsFit
<1>6. DOMAIN rows \ DOMAIN db.artifacts = {id}
  <2>1. DOMAIN db.artifacts = 1..Len(db.artifacts) /\ DOMAIN rows = 1..(Len(db.artifacts) + 1)
        /\ Len(db.artifacts) \in Nat
    BY <1>1, AppendExtends DEF ArtifactsFit
  <2> QED
    BY <2>1
<1> HIDE DEF rows, id
<1>7. i \in DOMAIN db.items => /\ MetadataFits(new.metadata)
                              /\ new.metadata.artifacts = <<id>> \o db.items[i].metadata.artifacts
  <2> SUFFICES ASSUME i \in DOMAIN db.items
               PROVE  /\ MetadataFits(new.metadata)
                      /\ new.metadata.artifacts = <<id>> \o db.items[i].metadata.artifacts
    OBVIOUS
  <2> DEFINE md == db.items[i].metadata
             list == <<id>> \o md.artifacts
  <2>1. ItemFits(db.items[i]) /\ MetadataFits(md)
    BY <1>1 DEF ItemsFit, ArtifactsFit
  <2>2. new.metadata = [md EXCEPT !.artifacts = list]
    BY <2>1 DEF ItemFits, IsItem, WithArtifact, Sealed
  <2> HIDE DEF list
  <2>3. new.metadata.artifacts = list /\ "artifacts" \in DOMAIN new.metadata
    BY <2>1, <2>2 DEF MetadataFits
  <2> QED
    BY <2>3 DEF MetadataFits, list
<1>8. /\ DOMAIN items = DOMAIN db.items
      /\ \A j \in DOMAIN db.items : items[j] = IF j = i THEN new ELSE db.items[j]
  <2>1. i \in DOMAIN db.items => Merge(db.items[i], db.items[i], new) = new
    BY <1>1, ArtifactFits, MergeIsNew DEF ItemsFit
  <2> HIDE DEF new
  <2> QED
    BY <2>1
<1> HIDE DEF items, new
<1>9. ArtifactsFit(db')
  BY <1>1, <1>3, <1>5, <1>7, <1>8 DEF ArtifactsFit
<1>10. \A a \in DOMAIN rows : ArtifactStored(rows[a], bucket)
  BY <1>4, <1>5 DEF Stored
<1>11. \A other \in Slots : Pending(tx'[other], bucket)
  <2>1. \A other \in Slots : tx'[other] = tx[other] \/ tx'[other] = NoTx
    BY <1>2 DEF Step, Inv, TxRecords
  <2> QED
    BY <2>1 DEF Stored, Pending, NoTx
<1>12. ASSUME NEW j \in DOMAIN db.items
       PROVE  ListFollows(j)
  <2> DEFINE added == {a \in DOMAIN db'.artifacts \ DOMAIN db.artifacts : db'.artifacts[a].item = j}
  <2>1. added = IF j = i THEN {id} ELSE {}
    BY <1>3, <1>5, <1>6
  <2>2. CASE j = i
    <3>1. added = {id} /\ db'.items[j].metadata.artifacts = <<id>> \o db.items[j].metadata.artifacts
      BY <1>3, <1>7, <1>8, <2>1, <2>2
    <3> QED
      BY <3>1 DEF ListFollows
  <2>3. CASE j # i
    <3>1. added = {} /\ db'.items[j].metadata.artifacts = db.items[j].metadata.artifacts
      BY <1>3, <1>8, <2>1, <2>3
    <3> QED
      BY <3>1 DEF ListFollows
  <2> QED
    BY <2>2, <2>3
<1> QED
  BY <1>2, <1>3, <1>9, <1>10, <1>11, <1>12 DEF Stored, ListsFollow

LEMMA ReviewCommits ==
    ASSUME Inv, Stored, NEW s \in Slots, RecordAiSystemReview(s) \/ RecordReviewWithPlaceholder(s)
    PROVE  Stored' /\ ListsFollow
<1>1. Fits(db) /\ ArtifactsFit(db)
  BY DEF Inv, Stored
<1>2. ASSUME NEW i, NEW status, NEW review, NEW tables, Reviewed(s, i, status, tables, review),
             IsDatabase(tables), ArtifactsFit(tables), tables.artifacts = db.artifacts,
             ListsKept(tables)
      PROVE  Stored' /\ ListsFollow
  <2>1. PICK x, y : Commit(s, [tables EXCEPT !.reviews = x, !.systems = y])
    BY <1>2 DEF Reviewed
  <2>2. SameEvidence(tables, [tables EXCEPT !.reviews = x, !.systems = y])
    BY <1>2 DEF SameEvidence, IsDatabase
  <2> DEFINE written == [tables EXCEPT !.reviews = x, !.systems = y]
  <2> HIDE DEF written
  <2>3. Commit(s, written) /\ SameEvidence(tables, written)
    BY <2>1, <2>2 DEF written
  <2> QED
    BY <1>2, <2>3, CommitKeepsStored DEF SameEvidence, ArtifactsFit, ListsKept
<1>3. CASE RecordAiSystemReview(s)
  <2>1. PICK i, status, review : Reviewed(s, i, status, db, review)
    BY <1>3 DEF RecordAiSystemReview
  <2> QED
    BY <1>1, <1>2, <2>1 DEF Fits, ListsKept
<1>4. CASE RecordReviewWithPlaceholder(s)
  <2>1. ASSUME NEW x, NEW i, NEW status, NEW review,
               Reviewed(s, i, status, [db EXCEPT !.controls = x], review)
        PROVE  Stored' /\ ListsFollow
    <3>1. SameEvidence(db, [db EXCEPT !.controls = x])
      BY <1>1 DEF Fits, SameEvidence, IsDatabase
    <3> DEFINE tables == [db EXCEPT !.controls = x]
    <3> HIDE DEF tables
    <3> QED
      BY <1>1, <1>2, <2>1, <3>1 DEF SameEvidence, ArtifactsFit, ListsKept, tables
  <2>2. ASSUME NEW control, NEW i, NEW review, NEW status,
               Reviewed(s, i, status, [db EXCEPT !.items = Append(@, Item(i, control, "placeholder", NoMetadata))],
                        review)
        PROVE  Stored' /\ ListsFollow
    <3>1. Item(i, control, "placeholder", NoMetadata).metadata = NoMetadata
      BY DEF Item, Sealed
    <3> DEFINE tables == [db EXCEPT !.items = Append(@, Item(i, control, "placeholder", NoMetadata))]
    <3>2. ArtifactsFit(tables) /\ tables.artifacts = db.artifacts /\ ListsKept(tables)
      BY <1>1, <3>1, ItemAddedKeeps, WrittenMetadataFits
    <3>3. IsDatabase(tables)
      BY <1>1 DEF Fits, IsDatabase
    <3> HIDE DEF tables
    <3>4. Reviewed(s, i, status, tables, review)
      BY <2>2 DEF tables
    <3> QED
      BY <1>2, <3>2, <3>3, <3>4
  <2> QED
    BY <1>4, <2>1, <2>2 DEF RecordReviewWithPlaceholder
<1> QED
  BY <1>3, <1>4

\* The steps that write no row.
LEMMA UncommittedSteps ==
    ASSUME Inv, Stored, NEW s \in Slots, NEW op,
           \/ Authenticate(s, op) \/ BlockLoop(s, op) \/ Unblock(s) \/ Fail(s) \/ CloseSession(s)
           \/ StartScan(s) \/ FetchPage(s) \/ RenderPage(s) \/ ReceiveFile(s) \/ StoreObject(s)
    PROVE  Stored' /\ ListsFollow
<1>1. CASE \/ Authenticate(s, op) \/ BlockLoop(s, op) \/ Unblock(s) \/ Fail(s) \/ CloseSession(s)
           \/ StartScan(s) \/ FetchPage(s) \/ RenderPage(s) \/ ReceiveFile(s)
  <2>1. \A o, objects : Pending(Begun(o), objects)
    BY DEF Pending, Begun, NoTx
  <2>2. ASSUME NEW pc, NEW o, pc # "write"
        PROVE  Pending([NoTx EXCEPT !.pc = pc], bucket) /\ Pending([NoTx EXCEPT !.pc = pc, !.op = o], bucket)
    BY <2>2 DEF Pending, NoTx
  <2>3. IsRecord(tx[s])
    BY DEF Inv, TxRecords
  <2>4. ASSUME NEW pc, pc # "write", NEW x
        PROVE  /\ Pending([tx[s] EXCEPT !.pc = pc, !.data = x], bucket)
               /\ Pending([tx[s] EXCEPT !.pc = pc, !.read = x], bucket)
    BY <2>3, <2>4 DEF Pending, IsRecord
  <2>5. PICK t : Step(s, t) /\ Pending(t, bucket)
    <3>1. CASE Authenticate(s, op) \/ BlockLoop(s, op) \/ Unblock(s)
      BY <2>1, <2>2, <3>1 DEF Authenticate, BlockLoop, Unblock
    <3>2. CASE Fail(s) \/ CloseSession(s)
      <4>1. Pending(NoTx, bucket)
        BY DEF Pending, NoTx
      <4> QED
        BY <2>2, <3>2, <4>1 DEF Fail, CloseSession
    <3>3. CASE StartScan(s) \/ FetchPage(s) \/ RenderPage(s)
      BY <2>4, <3>3 DEF StartScan, FetchPage, RenderPage, Continue
    <3>4. CASE ReceiveFile(s)
      BY <2>4, <3>4 DEF ReceiveFile
    <3> QED
      BY <1>1, <3>1, <3>2, <3>3, <3>4
  <2>6. db' = db /\ bucket' = bucket
    BY <1>1 DEF Authenticate, BlockLoop, Unblock, Fail, CloseSession, StartScan, FetchPage,
                RenderPage, ReceiveFile, ChangesNoRow
  <2> QED
    BY <2>5, <2>6, StepKeepsStored
<1>2. CASE StoreObject(s)
  <2>1. PICK backend, i :
            LET object == Cardinality(bucket) + 1 IN
            /\ bucket' = IF backend = "gcs" THEN bucket \cup {object} ELSE bucket
            /\ Step(s, [tx[s] EXCEPT !.pc = "write", !.data = Artifact(i, backend, object)])
    BY <1>2 DEF StoreObject
  <2> DEFINE artifact == Artifact(i, backend, Cardinality(bucket) + 1)
             t == [tx[s] EXCEPT !.pc = "write", !.data = artifact]
  <2>2. ArtifactStored(artifact, bucket') /\ bucket \subseteq bucket'
    BY <2>1 DEF ArtifactStored, Artifact
  <2>3. Step(s, t)
    BY <2>1
  <2> HIDE DEF artifact
  <2>4. t.data = artifact
    BY DEF Inv, TxRecords, IsRecord
  <2> HIDE DEF t
  <2>5. Pending(t, bucket')
    BY <2>2, <2>4 DEF Pending
  <2> QED
    BY <1>2, <2>2, <2>3, <2>5, StepKeepsStored DEF StoreObject
<1> QED
  BY <1>1, <1>2

LEMMA StoredSteps ==
    ASSUME Inv, Stored, Next
    PROVE  Stored' /\ ListsFollow
<1>1. ASSUME NEW s \in Slots, NEW op, Authenticate(s, op) \/ BlockLoop(s, op)
      PROVE  Stored' /\ ListsFollow
  BY <1>1, UncommittedSteps
<1>2. ASSUME NEW s \in Slots, Serve(s)
      PROVE  Stored' /\ ListsFollow
  <2>1. CASE Unblock(s) \/ Fail(s) \/ CloseSession(s)
    BY <2>1, UncommittedSteps
  <2>2. CASE Edit(s)
    BY <2>2, OtherCommits, ItemCommits, ReviewCommits DEF Edit
  <2>3. CASE Upload(s)
    BY <2>3, UncommittedSteps, UploadCommits DEF Upload
  <2>4. CASE ScanSite(s)
    BY <2>4, UncommittedSteps, OtherCommits DEF ScanSite
  <2> QED
    BY <1>2, <2>1, <2>2, <2>3, <2>4 DEF Serve
<1>3. ASSUME NEW w \in Workers, KillWorker(w)
      PROVE  Stored' /\ ListsFollow
  <2>1. db' = db /\ bucket' = bucket
    BY <1>3 DEF KillWorker, ChangesNoRow
  <2>2. \A s \in Slots : tx'[s] = tx[s] \/ tx'[s] = NoTx
    BY <1>3 DEF KillWorker
  <2>3. Pending(NoTx, bucket)
    BY DEF Pending, NoTx
  <2>4. ListsKept(db')
    BY <2>1 DEF ListsKept
  <2> QED
    BY <2>1, <2>2, <2>3, <2>4, StoredKept, ListsUntouched DEF Stored
<1> QED
  BY <1>1, <1>2, <1>3 DEF Next

LEMMA StoredAlways ==
    ASSUME OneKey,
           \A d \in InitialDb :
               /\ Fits(d) /\ ArtifactsFit(d)
               /\ \A a \in DOMAIN d.artifacts : d.artifacts[a].backend # "gcs"
    PROVE  Spec => []Stored /\ []Inv
<1>1. Init => Stored
  <2>1. \A t : t = NoTx => Pending(t, bucket)
    BY DEF Pending, NoTx
  <2> QED
    BY <2>1 DEF Init, Stored, ArtifactStored
<1>2. Inv /\ Stored /\ [Next]_vars => Stored'
  <2>1. ASSUME Stored, UNCHANGED vars PROVE Stored'
    BY <2>1 DEF vars, Stored, ArtifactsFit
  <2> QED
    BY <2>1, StoredSteps
<1>3. Spec => []Inv
  BY EvidenceFits
<1> QED
  BY <1>1, <1>2, <1>3, PTL DEF Spec

\* Every artifact row in the bucket's name has its object, whatever uploads failed between
\* the two and whatever workers were killed: upload_artifact stores the object before it
\* commits the row.
THEOREM ArtifactsStay ==
    ASSUME OneKey,
           \A d \in InitialDb :
               /\ Fits(d) /\ ArtifactsFit(d)
               /\ \A a \in DOMAIN d.artifacts : d.artifacts[a].backend # "gcs"
    PROVE  Spec => []ArtifactsAreStored
<1>1. Stored => ArtifactsAreStored
  BY DEF Stored, ArtifactStored, ArtifactsAreStored
<1> QED
  BY <1>1, StoredAlways, PTL

\* The list of an item takes in, before all that it holds, each artifact in the commit that
\* inserts it, and loses an entry to nothing but a client's PATCH of the metadata: the list
\* that attach_artifact and attach_item_to_control extend is the one they read before.
THEOREM UploadsAreListed ==
    ASSUME OneKey,
           \A d \in InitialDb :
               /\ Fits(d) /\ ArtifactsFit(d)
               /\ \A a \in DOMAIN d.artifacts : d.artifacts[a].backend # "gcs"
    PROVE  Spec => ListsFollowUploads
<1>1. Inv /\ Stored /\ [Next]_vars => [\A i \in DOMAIN db.items : ListFollows(i)]_vars
  BY StoredSteps DEF ListsFollow
<1> QED
  BY <1>1, StoredAlways, PTL DEF Spec, ListsFollowUploads
=============================================================================
