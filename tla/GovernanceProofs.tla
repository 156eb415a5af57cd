-------------------------- MODULE GovernanceProofs ---------------------------
(***************************************************************************)
(* Proofs that GovernanceRequests implements GovernanceRegister, for any   *)
(* records, slots, clients and features, as long as all requests of the    *)
(* dashboard carry one API key, and that the derived columns and approval  *)
(* records then agree with what they are derived from.                     *)
(*                                                                         *)
(* The argument: the lock on the row of the key lets one slot at a time    *)
(* past authentication (OneAtWork), so the row that a request has loaded   *)
(* is the row that is there when it writes (LoadedIsCurrent), and an       *)
(* UPDATE of the changed columns writes the row that the request decided   *)
(* on (MergeIsNew).  The write is then a step of the register, and every   *)
(* other step of a request leaves the register as it is.                   *)
(***************************************************************************)
EXTENDS GovernanceRequests, FiniteSetTheorems, TLAPS

\* Every request on the records carries the dashboard's one key.
OneDashboardKey == \A s, t \in Slots : KeyOf[s] = KeyOf[t]

SlotTx == [pc : {"idle", "entitle", "load", "write"}, op : Ops \cup {"none"},
           id : Ids \cup {"none"}, row : Row \cup {Absent, Deleted}]
CheckTx == [pc : {"idle", "feature", "fria", "record"}, clean : BOOLEAN, feature : Asked,
            system : Systems \cup {NoSystem}, decision : Decisions \cup {"none"}]

KindOf(r) == CASE r \in Frias -> Fria
               [] r \in Incidents -> Incident
               [] r \in Assignments -> Assignment
               [] r \in Features -> Feature

TxTypes ==
    /\ DOMAIN tx = Slots \cup Clients
    /\ tx = [s \in Slots \cup Clients |-> tx[s]]
    /\ \A s \in Slots : /\ tx[s] \in SlotTx
                        /\ tx[s].pc = "idle" => tx[s] = NoTx
                        /\ tx[s].pc # "idle" => tx[s].id \in Ids /\ tx[s].op \in OpsOn(tx[s].id)
    /\ \A c \in Clients : /\ tx[c] \in CheckTx
                          /\ tx[c].pc = "idle" => tx[c] = NoCheck

Tables ==
    /\ rows \in [Ids -> Row \cup {Absent, Deleted}]
    /\ \A r \in Ids : Kept(rows[r]) => rows[r] \in KindOf(r)
    /\ log \in [Ids -> LogEntry]
    /\ verdict \in [Clients -> Decisions \cup {"none"}]
    /\ entitled \subseteq Entitlements

OneAtWork == \A s, t \in Slots : tx[s].pc # "idle" /\ tx[t].pc # "idle" => s = t

LoadedIsCurrent ==
    \A s \in Slots :
        /\ tx[s].op = "create" => tx[s].pc # "load" /\ rows[tx[s].id] = Absent
        /\ tx[s].pc = "write" /\ tx[s].op # "create" =>
               tx[s].row = rows[tx[s].id] /\ Kept(tx[s].row)

GateOpen ==
    \A c \in Clients :
        /\ tx[c].pc \in {"feature", "fria"} => verdict[c] = "none"
        /\ tx[c].pc = "record" => verdict[c] = "none" /\ tx[c].decision \in Decisions
        /\ tx[c].pc = "fria" => tx[c].system \in Systems

\* What a row says about itself and about its entries in the evidence log.
Fits(r, row, entry) ==
    /\ r \in Frias => /\ row.completion = Completion(row.sections)
                      /\ row.approval = [submission |-> entry.submitted,
                              outcome |-> IF entry.newest \in Outcomes THEN entry.newest ELSE "none"]
    /\ r \in Incidents => row.deadline = Deadline(row.type)

RowsFit == \A r \in Ids : /\ rows[r] = Absent => log[r] = NewLog
                          /\ Kept(rows[r]) => Fits(r, rows[r], log[r])

Inv == TxTypes /\ Tables /\ OneAtWork /\ LoadedIsCurrent /\ GateOpen /\ RowsFit

USE KindsAreDisjoint, NamesAreDistinct, SlotsAreNoClients, SectionsAreFinite

-----------------------------------------------------------------------------
(* What the row operators return. *)

LEMMA AbsentIsNoRow ==
    /\ ~Kept(Absent) /\ ~Kept(Deleted)
    /\ Absent # Deleted
    /\ \A row \in Row : Kept(row)
  BY DEF Kept, Absent, Deleted, Row, Fria, Incident, Assignment, Feature

LEMMA CompletionIsNat == ASSUME NEW f \in [Sections -> Texts] PROVE Completion(f) \in Nat
  BY FS_CardinalityType, FS_Subset DEF Completion

LEMMA NewRowsAreRows ==
    ASSUME NEW r \in Ids, NEW new \in NewRows(r)
    PROVE  new \in KindOf(r)
<1>1. CASE r \in Frias
  <2>1. \A x \in NewFria : x \in Fria
    BY DEF NewFria, Fria, Approval, Texts
  <2> QED
    BY <1>1, <2>1 DEF NewRows, KindOf
<1>2. CASE r \in Incidents
  <2>1. \A x \in NewIncident : x \in Incident
    BY DEF NewIncident, Incident, Deadline, IncidentTypes
  <2> QED
    BY <1>2, <2>1 DEF NewRows, KindOf
<1>3. CASE r \in Assignments
  BY <1>3 DEF NewRows, KindOf, NewAssignment, Assignment
<1>4. CASE r \in Features
  BY <1>4 DEF NewRows, KindOf
<1> QED
  BY <1>1, <1>2, <1>3, <1>4 DEF Ids

LEMMA PatchedRowsAreRows ==
    ASSUME NEW r \in Ids, NEW row \in KindOf(r), NEW new \in Patched(r, row)
    PROVE  new \in KindOf(r)
<1>1. ASSUME row \in Fria PROVE \A f \in PatchedFria(row) : f \in Fria
  BY <1>1 DEF PatchedFria, FriaUpdate, Fria
<1>2. ASSUME row \in Incident PROVE \A i \in PatchedIncident(row) : i \in Incident
  <2>1. \A y \in IncidentTypes : Deadline(y) \in Nat
    BY DEF Deadline
  <2>2. ASSUME NEW p \in IncidentUpdate
        PROVE  [row EXCEPT !.type = p.type, !.deadline = Deadline(p.type), !.content = p.content] \in Incident
    <3>1. p.type \in IncidentTypes /\ p.content \in Contents
      BY DEF IncidentUpdate
    <3>2. Deadline(p.type) \in Nat
      BY <2>1, <3>1
    <3> QED
      BY <1>2, <3>1, <3>2 DEF Incident
  <2> QED
    BY <2>2 DEF PatchedIncident
<1>3. ASSUME row \in Assignment PROVE \A m \in PatchedAssignment(row) : m \in Assignment
  BY <1>3 DEF PatchedAssignment, Assignment
<1> QED
  BY <1>1, <1>2, <1>3 DEF Patched, KindOf, Ids

LEMMA WorkflowRowsAreRows ==
    ASSUME NEW row \in Fria, NEW n \in Nat
    PROVE  /\ \A new \in Edited(row) : new \in Fria
           /\ Submitted(row, n) \in Fria
           /\ \A new \in Reviewed(row) : new \in Fria
<1>1. ASSUME NEW new \in Edited(row) PROVE new \in Fria
  <2>1. PICK e \in [Sections -> Texts] :
            new = [row EXCEPT !.sections = e, !.completion = Completion(e)]
    BY <1>1 DEF Edited
  <2> QED
    BY <2>1, CompletionIsNat DEF Fria
<1>2. Submitted(row, n) \in Fria
  <2>1. [submission |-> n, outcome |-> "none"] \in Approval
    BY DEF Approval
  <2> QED
    BY <2>1 DEF Submitted, Fria, FriaStatuses
<1>3. ASSUME NEW new \in Reviewed(row) PROVE new \in Fria
  <2>1. PICK o \in Outcomes : new = [row EXCEPT !.status = o, !.approval.outcome = o]
    BY <1>3 DEF Reviewed
  <2>2. [row.approval EXCEPT !.outcome = o] \in Approval
    BY DEF Fria, Approval
  <2>3. new = [row EXCEPT !.status = o, !.approval = [row.approval EXCEPT !.outcome = o]]
    BY <2>1
  <2> QED
    BY <2>2, <2>3 DEF Fria, FriaStatuses
<1> QED
  BY <1>1, <1>2, <1>3

\* Whatever a request does to a record it found, it leaves a row of the same kind.
LEMMA ResultsAreRows ==
    ASSUME NEW r \in Ids, NEW op \in OpsOn(r), NEW row, NEW n \in Nat,
           op # "create" => row \in KindOf(r),
           NEW new \in Results(op, r, row, n)
    PROVE  IF op = "delete" THEN new = Deleted ELSE new \in KindOf(r)
<1>1. CASE op = "create"
  BY <1>1, NewRowsAreRows DEF Results
<1>2. CASE op = "patch"
  BY <1>2, PatchedRowsAreRows DEF Results
<1>3. CASE op = "delete"
  BY <1>3 DEF Results
<1>4. CASE op \in {"sections", "submit", "review"}
  <2>1. r \in Frias /\ row \in Fria /\ KindOf(r) = Fria
    BY <1>4 DEF OpsOn, KindOf
  <2> QED
    BY <1>4, <2>1, WorkflowRowsAreRows DEF Results
<1> QED
  BY <1>1, <1>2, <1>3, <1>4 DEF OpsOn, Ops

\* The changed columns written over the row they were computed from are the new row.
LEMMA MergeIsNew ==
    ASSUME NEW r \in Ids, NEW row \in KindOf(r), NEW new \in KindOf(r)
    PROVE  Merge(row, row, new) = new
<1>1. CASE r \in Frias
  BY <1>1 DEF KindOf, Merge, Fria
<1>2. CASE r \in Incidents
  BY <1>2 DEF KindOf, Merge, Incident
<1>3. CASE r \in Assignments
  BY <1>3 DEF KindOf, Merge, Assignment
<1>4. CASE r \in Features
  BY <1>4 DEF KindOf, Merge, Feature
<1> QED
  BY <1>1, <1>2, <1>3, <1>4 DEF Ids

\* A request leaves a row that fits the log with the request's own event in it.
LEMMA ResultsFit ==
    ASSUME NEW r \in Ids, NEW op \in OpsOn(r), NEW row, NEW entry \in LogEntry,
           op = "create" => entry = NewLog,
           op # "create" => row \in KindOf(r) /\ Fits(r, row, entry),
           op # "delete",
           NEW new \in Results(op, r, row, entry.submitted + 1)
    PROVE  Fits(r, new, Logged(r, op, entry, new))
<1>1. CASE op = "create" /\ r \in Frias
  <2>1. new \in NewFria
    BY <1>1 DEF Results, NewRows
  <2>2. new.sections = [c \in Sections |-> "blank"] /\ new.completion = 0
    BY <2>1 DEF NewFria
  <2>3. new.approval = [submission |-> 0, outcome |-> "none"]
    BY <2>1 DEF NewFria
  <2>4. Completion(new.sections) = 0
    <3>1. {c \in Sections : new.sections[c] = "written"} = {}
      BY <2>2
    <3> QED
      BY <3>1, FS_EmptySet DEF Completion
  <2>5. Logged(r, op, entry, new) = [submitted |-> 0, newest |-> "created"]
    BY <1>1 DEF Logged, NewLog
  <2> QED
    BY <1>1, <2>2, <2>3, <2>4, <2>5 DEF Fits, Outcomes
<1>2. CASE op = "create" /\ r \notin Frias
  <2>1. r \in Incidents => new \in NewIncident
    BY <1>2 DEF Results, NewRows
  <2> QED
    BY <1>2, <2>1 DEF Fits, NewIncident
<1>3. CASE op = "patch"
  <2>1. Logged(r, op, entry, new) = entry
    BY <1>3 DEF Logged
  <2>2. ASSUME r \in Frias
        PROVE  new.sections = row.sections /\ new.completion = row.completion
               /\ new.approval = row.approval
    <3>1. row \in Fria /\ new \in PatchedFria(row)
      BY <1>3, <2>2 DEF Results, Patched, KindOf
    <3> QED
      BY <3>1 DEF PatchedFria, Fria
  <2>3. ASSUME r \in Incidents
        PROVE  new.deadline = Deadline(new.type)
    <3>1. row \in Incident /\ new \in PatchedIncident(row)
      BY <1>3, <2>3 DEF Results, Patched, KindOf
    <3>2. PICK p \in IncidentUpdate :
              new = [row EXCEPT !.type = p.type, !.deadline = Deadline(p.type), !.content = p.content]
      BY <3>1 DEF PatchedIncident
    <3> QED
      BY <3>1, <3>2 DEF Incident
  <2> QED
    BY <1>3, <2>1, <2>2, <2>3 DEF Fits
<1>4. CASE op \in {"sections", "submit", "review"}
  <2>1. r \in Frias /\ r \notin Incidents /\ row \in Fria
    BY <1>4 DEF OpsOn, KindOf
  <2>2. CASE op = "sections"
    <3>1. PICK e \in [Sections -> Texts] :
              new = [row EXCEPT !.sections = e, !.completion = Completion(e)]
      BY <2>2 DEF Results, Edited
    <3>2. new.sections = e /\ new.completion = Completion(e) /\ new.approval = row.approval
      BY <2>1, <3>1 DEF Fria
    <3> QED
      BY <2>1, <2>2, <3>2 DEF Fits, Logged
  <2>3. CASE op = "submit"
    <3>1. new = Submitted(row, entry.submitted + 1)
      BY <2>3 DEF Results
    <3>2. /\ new.sections = row.sections /\ new.completion = row.completion
          /\ new.approval = [submission |-> entry.submitted + 1, outcome |-> "none"]
      BY <2>1, <3>1 DEF Submitted, Fria
    <3>3. Logged(r, op, entry, new) = [submitted |-> entry.submitted + 1, newest |-> "submitted"]
      BY <2>3 DEF Logged
    <3> QED
      BY <2>1, <2>3, <3>2, <3>3 DEF Fits, Outcomes
  <2>4. CASE op = "review"
    <3>1. PICK o \in Outcomes : new = [row EXCEPT !.status = o, !.approval.outcome = o]
      BY <2>4 DEF Results, Reviewed
    <3>2. /\ new.sections = row.sections /\ new.completion = row.completion
          /\ new.approval = [row.approval EXCEPT !.outcome = o] /\ new.status = o
      BY <2>1, <3>1 DEF Fria
    <3>3. Logged(r, op, entry, new) = [submitted |-> entry.submitted, newest |-> o]
      BY <2>4, <3>2 DEF Logged, LogEntry
    <3>4. new.approval = [submission |-> entry.submitted, outcome |-> o]
      BY <2>1, <2>4, <3>2 DEF Fits
    <3> QED
      BY <2>1, <2>4, <3>2, <3>3, <3>4 DEF Fits
  <2> QED
    BY <1>4, <2>2, <2>3, <2>4
<1> QED
  BY <1>1, <1>2, <1>3, <1>4 DEF OpsOn, Ops

LEMMA LoggedIsEntry ==
    ASSUME NEW r, NEW op, NEW entry \in LogEntry, NEW new, op = "review" => new.status \in Outcomes
    PROVE  Logged(r, op, entry, new) \in LogEntry
  BY DEF Logged, LogEntry

-----------------------------------------------------------------------------
(* The invariant. *)

LEMMA InitInv == Init => Inv
<1> SUFFICES ASSUME Init PROVE Inv
  OBVIOUS
<1>1. TxTypes
  BY DEF Init, TxTypes, NoTx, NoCheck, SlotTx, CheckTx, Asked
<1>2. Tables
  BY AbsentIsNoRow DEF Init, Tables, LogEntry, NewLog
<1>3. OneAtWork /\ LoadedIsCurrent /\ GateOpen
  BY DEF Init, OneAtWork, LoadedIsCurrent, GateOpen, NoTx, NoCheck
<1>4. RowsFit
  BY AbsentIsNoRow DEF Init, RowsFit
<1> QED
  BY <1>1, <1>2, <1>3, <1>4 DEF Inv

\* The part of the invariant that a step within a request on a record may disturb, when it
\* leaves the tables alone and takes slot s to the transaction t.
LEMMA SlotStep ==
    ASSUME Inv, NEW s \in Slots, NEW t \in SlotTx, Step(s, t),
           UNCHANGED <<rows, log, verdict, entitled>>,
           t.pc = "idle" => t = NoTx,
           t.pc # "idle" => t.id \in Ids /\ t.op \in OpsOn(t.id),
           t.op = "create" => t.pc # "load" /\ rows[t.id] = Absent,
           t.pc = "write" /\ t.op # "create" => t.row = rows[t.id] /\ Kept(t.row),
           t.pc # "idle" => \A u \in Slots \ {s} : tx[u].pc = "idle"
    PROVE  Inv'
<1>1. /\ tx'[s] = t
      /\ \A u \in (Slots \cup Clients) \ {s} : tx'[u] = tx[u]
      /\ DOMAIN tx' = Slots \cup Clients
      /\ tx' = [u \in Slots \cup Clients |-> tx'[u]]
  BY DEF Inv, TxTypes, Step
<1>2. TxTypes'
  BY <1>1 DEF Inv, TxTypes
<1>3. Tables' /\ RowsFit'
  BY DEF Inv, Tables, RowsFit
<1>4. OneAtWork'
  BY <1>1 DEF Inv, OneAtWork
<1>5. LoadedIsCurrent'
  BY <1>1 DEF Inv, LoadedIsCurrent
<1>6. GateOpen'
  BY <1>1 DEF Inv, GateOpen
<1> QED
  BY <1>2, <1>3, <1>4, <1>5, <1>6 DEF Inv

LEMMA NoTxIsSlotTx == NoTx \in SlotTx /\ NoTx.pc = "idle" /\ NoTx.op = "none"
  BY DEF NoTx, SlotTx

LEMMA AuthenticateInv ==
    ASSUME Inv, OneDashboardKey, NEW s \in Slots, NEW r \in Ids, NEW op \in OpsOn(r),
           Authenticate(s, op, r)
    PROVE  Inv'
<1> DEFINE t == [NoTx EXCEPT !.pc = "entitle", !.op = op, !.id = r]
<1>1. t \in SlotTx /\ t.pc = "entitle" /\ t.op = op /\ t.id = r
  BY DEF NoTx, SlotTx, OpsOn, Ops
<1>2. \A u \in Slots : tx[u].pc = "idle"
  BY DEF Authenticate, KeyLocked, OneDashboardKey
<1>3. op = "create" => rows[r] = Absent
  BY DEF Authenticate
<1>4. Step(s, t) /\ UNCHANGED <<rows, log, verdict, entitled>>
  BY DEF Authenticate
<1> HIDE DEF t
<1> QED
  BY <1>1, <1>2, <1>3, <1>4, SlotStep

LEMMA FinishInv ==
    ASSUME Inv, NEW s \in Slots, Finish(s), UNCHANGED <<rows, log, verdict, entitled>>
    PROVE  Inv'
  BY SlotStep, NoTxIsSlotTx DEF Finish, Step

LEMMA CheckEntitlementInv ==
    ASSUME Inv, NEW s \in Slots, CheckEntitlement(s)
    PROVE  Inv'
<1>1. CASE Finish(s)
  BY <1>1, FinishInv DEF CheckEntitlement
<1>2. CASE ~Finish(s)
  <2> DEFINE pc == IF tx[s].op = "create" THEN "write" ELSE "load"
             t == [tx[s] EXCEPT !.pc = pc]
  <2>1. Step(s, t) /\ UNCHANGED <<rows, log, verdict, entitled>>
    BY <1>2 DEF CheckEntitlement, Goto
  <2>2. tx[s].pc = "entitle" /\ tx[s] \in SlotTx /\ tx[s].id \in Ids /\ tx[s].op \in OpsOn(tx[s].id)
    BY DEF CheckEntitlement, At, Inv, TxTypes
  <2>3. t \in SlotTx /\ t.pc = pc /\ t.op = tx[s].op /\ t.id = tx[s].id /\ t.row = tx[s].row
    BY <2>2 DEF SlotTx
  <2>4. t.op = "create" => t.pc # "load" /\ rows[t.id] = Absent
    BY <2>2, <2>3 DEF Inv, LoadedIsCurrent
  <2>5. \A u \in Slots \ {s} : tx[u].pc = "idle"
    BY <2>2 DEF Inv, OneAtWork
  <2>6. ~(t.pc = "write" /\ t.op # "create") /\ t.pc # "idle"
    BY <2>3
  <2> HIDE DEF t, pc
  <2> QED
    BY <2>1, <2>2, <2>3, <2>4, <2>5, <2>6, SlotStep
<1> QED
  BY <1>1, <1>2

LEMMA LoadInv ==
    ASSUME Inv, NEW s \in Slots, Load(s)
    PROVE  Inv'
<1>1. CASE ~Kept(rows[tx[s].id])
  BY <1>1, FinishInv DEF Load
<1>2. CASE Kept(rows[tx[s].id])
  <2> DEFINE row == rows[tx[s].id]
             t == [tx[s] EXCEPT !.pc = "write", !.row = row]
  <2>1. Step(s, t) /\ UNCHANGED <<rows, log, verdict, entitled>>
    BY <1>2 DEF Load
  <2>2. tx[s].pc = "load" /\ tx[s] \in SlotTx /\ tx[s].id \in Ids /\ tx[s].op \in OpsOn(tx[s].id)
    BY DEF Load, At, Inv, TxTypes
  <2>3. row \in Row \cup {Absent, Deleted}
    BY <2>2 DEF Inv, Tables
  <2>4. t \in SlotTx /\ t.pc = "write" /\ t.op = tx[s].op /\ t.id = tx[s].id /\ t.row = row
    BY <2>2, <2>3 DEF SlotTx
  <2>5. t.op # "create"
    BY <2>2, <2>4 DEF Inv, LoadedIsCurrent
  <2>6. \A u \in Slots \ {s} : tx[u].pc = "idle"
    BY <2>2 DEF Inv, OneAtWork
  <2>7. t.row = rows[t.id] /\ Kept(t.row)
    BY <1>2, <2>4
  <2> HIDE DEF t, row
  <2> QED
    BY <2>1, <2>2, <2>4, <2>5, <2>6, <2>7, SlotStep
<1> QED
  BY <1>1, <1>2

\* Under one key a request writes what its operation makes of the record as it is.
LEMMA WriteIsAtomic ==
    ASSUME Inv, NEW s \in Slots, Write(s)
    PROVE  LET r == tx[s].id op == tx[s].op IN
           /\ r \in Ids /\ op \in OpsOn(r)
           /\ IF op = "create" THEN rows[r] = Absent ELSE Kept(rows[r])
           /\ Permits(op, rows[r])
           /\ \E new \in Results(op, r, rows[r], log[r].submitted + 1) :
                  /\ rows' = [rows EXCEPT ![r] = new]
                  /\ log' = [log EXCEPT ![r] = Logged(r, op, @, new)]
           /\ Finish(s) /\ UNCHANGED <<verdict, entitled>>
<1> DEFINE r == tx[s].id
           op == tx[s].op
           n == log[r].submitted + 1
<1>1. tx[s].pc = "write" /\ r \in Ids /\ op \in OpsOn(r)
  BY DEF Write, At, Inv, TxTypes
<1>2. n \in Nat
  BY <1>1 DEF Inv, Tables, LogEntry
<1>3. CASE op = "create"
  <2>1. rows[r] = Absent /\ Permits(op, rows[r])
    BY <1>3 DEF Inv, LoadedIsCurrent, Permits
  <2>2. Results(op, r, tx[s].row, n) = Results(op, r, rows[r], n)
    BY <1>3 DEF Results
  <2>3. PICK new \in Results(op, r, tx[s].row, n) :
            /\ rows' = [rows EXCEPT ![r] = new]
            /\ log' = [log EXCEPT ![r] = Logged(r, op, @, new)]
    BY <1>1, <1>3 DEF Write, Written
  <2> QED
    BY <1>1, <1>3, <2>1, <2>2, <2>3 DEF Write
<1>4. CASE op # "create"
  <2>1. tx[s].row = rows[r] /\ Kept(rows[r]) /\ Permits(op, rows[r])
    BY <1>1, <1>4 DEF Inv, LoadedIsCurrent, Write
  <2>2. PICK new \in Results(op, r, rows[r], n) :
            /\ rows' = [rows EXCEPT ![r] = Written(op, rows[r], rows[r], new)]
            /\ log' = [log EXCEPT ![r] = Logged(r, op, @, new)]
    BY <1>1, <1>4, <2>1 DEF Write, Inv, Tables
  <2>3. rows[r] \in KindOf(r)
    BY <1>1, <2>1 DEF Inv, Tables
  <2>4. Written(op, rows[r], rows[r], new) = new
    <3>1. CASE op = "delete"
      BY <3>1 DEF Written
    <3>2. CASE op # "delete"
      BY <1>1, <1>2, <1>4, <2>2, <2>3, <3>2, ResultsAreRows, MergeIsNew DEF Written
    <3> QED
      BY <3>1, <3>2
  <2> QED
    BY <1>1, <1>4, <2>1, <2>2, <2>4 DEF Write
<1> QED
  BY <1>3, <1>4

LEMMA WriteInv ==
    ASSUME Inv, NEW s \in Slots, Write(s)
    PROVE  Inv'
<1> DEFINE r == tx[s].id
           op == tx[s].op
<1>1. PICK new \in Results(op, r, rows[r], log[r].submitted + 1) :
          /\ rows' = [rows EXCEPT ![r] = new]
          /\ log' = [log EXCEPT ![r] = Logged(r, op, log[r], new)]
  BY WriteIsAtomic DEF Inv, Tables
<1>2. /\ r \in Ids /\ op \in OpsOn(r) /\ tx[s].pc = "write"
      /\ IF op = "create" THEN rows[r] = Absent ELSE Kept(rows[r])
      /\ Finish(s) /\ UNCHANGED <<verdict, entitled>>
  BY WriteIsAtomic DEF Write, At
<1>3. log[r] \in LogEntry /\ log[r].submitted + 1 \in Nat
  BY <1>2 DEF Inv, Tables, LogEntry
<1>4. /\ op = "create" => log[r] = NewLog
      /\ op # "create" => rows[r] \in KindOf(r) /\ Fits(r, rows[r], log[r])
  BY <1>2 DEF Inv, Tables, RowsFit
<1>5. IF op = "delete" THEN new = Deleted ELSE new \in KindOf(r)
  BY <1>1, <1>2, <1>3, <1>4, ResultsAreRows
<1>6. new \in Row \cup {Deleted} /\ new # Absent
  <2>1. KindOf(r) \subseteq Row
    BY <1>2 DEF KindOf, Row, Ids
  <2> QED
    BY <1>5, <2>1, AbsentIsNoRow DEF Kept
<1>7. op # "delete" => Fits(r, new, Logged(r, op, log[r], new))
  BY <1>1, <1>2, <1>3, <1>4, ResultsFit
<1>8. Logged(r, op, log[r], new) \in LogEntry
  <2>1. ASSUME op = "review" PROVE new.status \in Outcomes
    <3>1. r \in Frias /\ rows[r] \in Fria
      BY <1>2, <1>4, <2>1 DEF OpsOn, KindOf
    <3>2. new \in Reviewed(rows[r])
      BY <1>1, <2>1 DEF Results
    <3> QED
      BY <3>1, <3>2 DEF Reviewed, Fria
  <2> QED
    BY <1>3, <2>1, LoggedIsEntry
<1>9. /\ tx'[s] = NoTx
      /\ \A u \in (Slots \cup Clients) \ {s} : tx'[u] = tx[u]
      /\ DOMAIN tx' = Slots \cup Clients
      /\ tx' = [u \in Slots \cup Clients |-> tx'[u]]
  BY <1>2 DEF Inv, TxTypes, Finish
<1>10. TxTypes'
  BY <1>9, NoTxIsSlotTx DEF Inv, TxTypes
<1>11. Tables'
  <2>1. rows' \in [Ids -> Row \cup {Absent, Deleted}] /\ log' \in [Ids -> LogEntry]
    BY <1>1, <1>2, <1>6, <1>8 DEF Inv, Tables
  <2>2. \A q \in Ids : Kept(rows'[q]) => rows'[q] \in KindOf(q)
    BY <1>1, <1>2, <1>5, AbsentIsNoRow DEF Inv, Tables
  <2> QED
    BY <1>2, <2>1, <2>2 DEF Inv, Tables
<1>12. OneAtWork' /\ GateOpen'
  BY <1>2, <1>9, NoTxIsSlotTx DEF Inv, OneAtWork, GateOpen
<1>13. LoadedIsCurrent'
  <2>1. \A u \in Slots : tx'[u].pc = "idle" /\ tx'[u] = NoTx
    BY <1>2, <1>9, NoTxIsSlotTx DEF Inv, OneAtWork, TxTypes
  <2> QED
    BY <2>1, NoTxIsSlotTx DEF LoadedIsCurrent
<1>14. RowsFit'
  <2>1. \A q \in Ids : q # r => rows'[q] = rows[q] /\ log'[q] = log[q]
    BY <1>1 DEF Inv, Tables
  <2>2. rows'[r] = new /\ log'[r] = Logged(r, op, log[r], new)
    BY <1>1, <1>2 DEF Inv, Tables
  <2> QED
    BY <1>5, <1>6, <1>7, <2>1, <2>2, AbsentIsNoRow DEF Inv, RowsFit
<1> QED
  BY <1>10, <1>11, <1>12, <1>13, <1>14 DEF Inv

\* A step of the gate, which takes client c to the transaction t.
LEMMA GateStep ==
    ASSUME Inv, NEW c \in Clients, NEW t \in CheckTx, Step(c, t),
           UNCHANGED <<rows, log, entitled>>,
           verdict' \in [Clients -> Decisions \cup {"none"}],
           \A d \in Clients \ {c} : verdict'[d] = verdict[d],
           t.pc = "idle" => t = NoCheck,
           t.pc # "idle" => verdict'[c] = "none",
           t.pc = "record" => t.decision \in Decisions,
           t.pc = "fria" => t.system \in Systems
    PROVE  Inv'
<1>1. /\ tx'[c] = t
      /\ \A u \in (Slots \cup Clients) \ {c} : tx'[u] = tx[u]
      /\ DOMAIN tx' = Slots \cup Clients
      /\ tx' = [u \in Slots \cup Clients |-> tx'[u]]
  BY DEF Inv, TxTypes, Step
<1>2. TxTypes'
  BY <1>1 DEF Inv, TxTypes
<1>3. Tables' /\ RowsFit'
  BY DEF Inv, Tables, RowsFit
<1>4. OneAtWork'
  BY <1>1 DEF Inv, OneAtWork
<1>5. LoadedIsCurrent'
  BY <1>1 DEF Inv, LoadedIsCurrent
<1>6. GateOpen'
  BY <1>1 DEF Inv, GateOpen
<1> QED
  BY <1>2, <1>3, <1>4, <1>5, <1>6 DEF Inv

LEMMA AskInv ==
    ASSUME Inv, NEW c \in Clients, Ask(c)
    PROVE  Inv'
<1>1. PICK clean \in BOOLEAN, f \in Asked :
          Step(c, [NoCheck EXCEPT !.pc = "feature", !.clean = clean, !.feature = f])
  BY DEF Ask
<1> DEFINE t == [NoCheck EXCEPT !.pc = "feature", !.clean = clean, !.feature = f]
<1>2. t \in CheckTx /\ t.pc = "feature"
  BY DEF NoCheck, CheckTx
<1>3. Step(c, t) /\ UNCHANGED <<rows, log, entitled>>
  BY <1>1 DEF Ask
<1>4. /\ verdict' \in [Clients -> Decisions \cup {"none"}]
      /\ verdict'[c] = "none"
      /\ \A d \in Clients \ {c} : verdict'[d] = verdict[d]
  BY DEF Ask, Inv, Tables
<1> HIDE DEF t
<1> QED
  BY <1>2, <1>3, <1>4, GateStep

\* A feature that leaves the decision to a FRIA is of a system.
LEMMA FriaIsOfSystem ==
    ASSUME Tables, NEW clean \in BOOLEAN, NEW f \in Asked, FeatureGate(clean, f, rows) = "fria"
    PROVE  f \in Features /\ rows[f].system \in Systems
<1>1. ~Blocked(clean, f, rows) /\ f # NoFeature /\ rows[f].system # NoSystem
  BY DEF FeatureGate
<1>2. f \in Features /\ f \in Ids /\ rows[f].status \in ActiveStatuses
  BY <1>1 DEF Blocked, Asked, Ids
<1>3. Kept(rows[f])
  BY <1>2 DEF ActiveStatuses, Kept, Absent, Deleted
<1>4. rows[f] \in Feature
  <2>1. KindOf(f) = Feature
    BY <1>2 DEF KindOf
  <2> QED
    BY <1>2, <1>3, <2>1 DEF Tables
<1> QED
  BY <1>1, <1>2, <1>4 DEF Feature

LEMMA ReadFeatureInv ==
    ASSUME Inv, NEW c \in Clients, ReadFeature(c)
    PROVE  Inv'
<1> DEFINE f == tx[c].feature
           decision == FeatureGate(tx[c].clean, f, rows)
           toFria == [NoCheck EXCEPT !.pc = "fria", !.system = rows[f].system]
           decided == [NoCheck EXCEPT !.pc = "record", !.decision = decision]
<1>1. tx[c] \in CheckTx /\ tx[c].pc = "feature" /\ verdict[c] = "none"
  BY DEF ReadFeature, At, Inv, TxTypes, GateOpen
<1>2. UNCHANGED <<rows, log, verdict, entitled>>
  BY DEF ReadFeature
<1>3. verdict' \in [Clients -> Decisions \cup {"none"}]
  BY <1>2 DEF Inv, Tables
<1>4. CASE decision = "fria"
  <2>1. Step(c, toFria)
    BY <1>4 DEF ReadFeature
  <2>2. rows[f].system \in Systems
    BY <1>1, <1>4, FriaIsOfSystem DEF Inv, CheckTx
  <2>3. toFria \in CheckTx /\ toFria.pc = "fria" /\ toFria.system \in Systems
    BY <2>2 DEF NoCheck, CheckTx, Asked
  <2> HIDE DEF toFria
  <2> QED
    BY <1>1, <1>2, <1>3, <2>1, <2>3, GateStep
<1>5. CASE decision # "fria"
  <2>1. Step(c, decided)
    BY <1>5 DEF ReadFeature
  <2>2. decision \in Decisions
    BY <1>5 DEF FeatureGate, Decisions
  <2> HIDE DEF decision
  <2>3. decided \in CheckTx /\ decided.pc = "record" /\ decided.decision \in Decisions
    BY <2>2 DEF NoCheck, CheckTx, Asked
  <2> HIDE DEF decided
  <2> QED
    BY <1>1, <1>2, <1>3, <2>1, <2>3, GateStep
<1> QED
  BY <1>4, <1>5

LEMMA ReadFriaInv ==
    ASSUME Inv, NEW c \in Clients, ReadFria(c)
    PROVE  Inv'
<1> DEFINE decision == FriaGate(tx[c].system, rows)
           t == [NoCheck EXCEPT !.pc = "record", !.decision = decision]
<1>1. tx[c].pc = "fria" /\ verdict[c] = "none"
  BY DEF ReadFria, At, Inv, TxTypes, GateOpen
<1>2. Step(c, t) /\ UNCHANGED <<rows, log, verdict, entitled>>
  BY DEF ReadFria
<1>3. decision \in Decisions
  BY DEF FriaGate, Decisions
<1>4. verdict' \in [Clients -> Decisions \cup {"none"}]
  BY <1>2 DEF Inv, Tables
<1> HIDE DEF decision
<1>5. t \in CheckTx /\ t.pc = "record" /\ t.decision \in Decisions
  BY <1>3 DEF NoCheck, CheckTx, Asked
<1> HIDE DEF t
<1> QED
  BY <1>1, <1>2, <1>4, <1>5, GateStep

LEMMA RecordCheckInv ==
    ASSUME Inv, NEW c \in Clients, RecordCheck(c)
    PROVE  Inv'
<1>1. tx[c].pc = "record" /\ tx[c].decision \in Decisions
  BY DEF RecordCheck, At, Inv, GateOpen
<1>2. NoCheck \in CheckTx /\ NoCheck.pc = "idle"
  BY DEF NoCheck, CheckTx, Asked
<1>3. Step(c, NoCheck) /\ UNCHANGED <<rows, log, entitled>>
  BY DEF RecordCheck, Step
<1>4. /\ verdict' \in [Clients -> Decisions \cup {"none"}]
      /\ \A d \in Clients \ {c} : verdict'[d] = verdict[d]
  BY <1>1 DEF RecordCheck, Inv, Tables
<1> QED
  BY <1>2, <1>3, <1>4, GateStep

LEMMA NextInv ==
    ASSUME Inv, OneDashboardKey, [Next]_vars
    PROVE  Inv'
<1>1. CASE UNCHANGED vars
  BY <1>1 DEF vars, Inv, TxTypes, Tables, OneAtWork, LoadedIsCurrent, GateOpen, RowsFit
<1>2. ASSUME NEW key \in Switched, GrantEntitlement(key) \/ RevokeEntitlement(key)
      PROVE  Inv'
  BY <1>2, SwitchedAreKeys DEF GrantEntitlement, RevokeEntitlement, Inv, TxTypes, Tables, OneAtWork,
              LoadedIsCurrent, GateOpen, RowsFit
<1>3. ASSUME NEW s \in Slots, NEW r \in Ids, NEW op \in OpsOn(r), Authenticate(s, op, r)
      PROVE  Inv'
  BY <1>3, AuthenticateInv
<1>4. ASSUME NEW s \in Slots, CheckEntitlement(s) \/ Load(s) \/ Refuse(s) \/ Write(s)
      PROVE  Inv'
  <2>1. CASE Refuse(s)
    BY <2>1, FinishInv DEF Refuse
  <2> QED
    BY <1>4, <2>1, CheckEntitlementInv, LoadInv, WriteInv
<1>5. ASSUME NEW c \in Clients, Ask(c) \/ ReadFeature(c) \/ ReadFria(c) \/ RecordCheck(c)
      PROVE  Inv'
  BY <1>5, AskInv, ReadFeatureInv, ReadFriaInv, RecordCheckInv
<1> QED
  BY <1>1, <1>2, <1>3, <1>4, <1>5 DEF Next

LEMMA Invariant == ASSUME OneDashboardKey PROVE Spec => []Inv
  BY InitInv, NextInv, PTL DEF Spec

-----------------------------------------------------------------------------
(* What follows from it. *)

\* The tables hold rows of their kind, and an idle request holds nothing, for any number of
\* requests with the dashboard's key and of SDK clients.
THEOREM GovernanceTypesOK ==
    ASSUME OneDashboardKey PROVE Spec => []TypeOK
<1>1. Inv => TypeOK
  BY DEF Inv, TxTypes, Tables, TypeOK
<1> QED
  BY <1>1, Invariant, PTL

\* A FRIA's completion counts its filled sections and an incident's deadline fits its type,
\* after any sequence of edits by any number of requests with the dashboard's key.
THEOREM GovernanceDerivedColumnsFit ==
    ASSUME OneDashboardKey PROVE Spec => []DerivedColumnsFit
<1>1. Inv => DerivedColumnsFit
  BY DEF Inv, RowsFit, Fits, DerivedColumnsFit, Ids
<1> QED
  BY <1>1, Invariant, PTL

\* The approval record of a FRIA names the submission and the outcome that the evidence log
\* names last, although review_fria builds it from the row it has loaded.
THEOREM GovernanceApprovalMirrorsLog ==
    ASSUME OneDashboardKey PROVE Spec => []ApprovalMirrorsLog
<1>1. Inv => ApprovalMirrorsLog
  BY DEF Inv, RowsFit, Fits, ApprovalMirrorsLog, Ids
<1> QED
  BY <1>1, Invariant, PTL

-----------------------------------------------------------------------------
(* The requests implement the register. *)

\* The operators that GovernanceRegister takes from GovernanceRecords are the same there.
LEMMA SameOperators ==
    /\ Register!Ids = Ids /\ Register!Asked = Asked
    /\ \A r : Register!OpsOn(r) = OpsOn(r)
    /\ \A row : Register!Kept(row) = Kept(row)
    /\ \A op, row : Register!Permits(op, row) = Permits(op, row)
    /\ \A r, op, entry, new : Register!Logged(r, op, entry, new) = Logged(r, op, entry, new)
    /\ Register!Absent = Absent /\ Register!NewLog = NewLog
<1>1. Register!Ids = Ids /\ Register!Asked = Asked /\ Register!Absent = Absent /\ Register!NewLog = NewLog
  BY DEF Register!Ids, Ids, Register!Asked, Asked, Register!Absent, Absent, Register!NewLog, NewLog
<1>2. \A r : Register!OpsOn(r) = OpsOn(r)
  BY DEF Register!OpsOn, OpsOn, Register!Ops, Ops
<1>3. \A row : Register!Kept(row) = Kept(row)
  BY DEF Register!Kept, Kept, Register!Absent, Absent, Register!Deleted, Deleted
<1>4. \A op, row : Register!Permits(op, row) = Permits(op, row)
  BY DEF Register!Permits, Permits, Register!Editable, Editable
<1>5. \A r, op, entry, new : Register!Logged(r, op, entry, new) = Logged(r, op, entry, new)
  BY DEF Register!Logged, Logged
<1> QED
  BY <1>1, <1>2, <1>3, <1>4, <1>5

LEMMA SameDecision ==
    /\ \A clean, f : Register!FeatureGate(clean, f, rows) = FeatureGate(clean, f, rows)
    /\ \A system : Register!FriaGate(system, rows) = FriaGate(system, rows)
  BY DEF Register!FeatureGate, FeatureGate, Register!Blocked, Blocked,
         Register!ActiveStatuses, ActiveStatuses, Register!FriaGate, FriaGate

LEMMA SameResults ==
    ASSUME NEW op, NEW r, NEW row, NEW n
    PROVE  Register!Results(op, r, row, n) = Results(op, r, row, n)
<1>1. Register!NewRows(r) = NewRows(r)
  <2>1. Register!NewFria = NewFria
    BY DEF Register!NewFria, NewFria, Register!FriaStatuses, FriaStatuses, Register!Outcomes, Outcomes
  <2>2. Register!NewIncident = NewIncident
    BY DEF Register!NewIncident, NewIncident, Register!IncidentTypes, IncidentTypes,
           Register!Deadline, Deadline
  <2>3. Register!NewAssignment = NewAssignment
    BY DEF Register!NewAssignment, NewAssignment
  <2>4. Register!Feature = Feature
    BY DEF Register!Feature, Feature, Register!ActiveStatuses, ActiveStatuses
  <2> QED
    BY <2>1, <2>2, <2>3, <2>4 DEF Register!NewRows, NewRows
<1>2. Register!Patched(r, row) = Patched(r, row)
  BY DEF Register!Patched, Patched, Register!PatchedFria, PatchedFria, Register!FriaUpdate, FriaUpdate,
         Register!FriaStatuses, FriaStatuses, Register!Outcomes, Outcomes,
         Register!PatchedIncident, PatchedIncident, Register!IncidentUpdate, IncidentUpdate,
         Register!IncidentTypes, IncidentTypes, Register!Deadline, Deadline,
         Register!PatchedAssignment, PatchedAssignment,
         Register!Feature, Feature, Register!ActiveStatuses, ActiveStatuses
<1>3. Register!Edited(row) = Edited(row)
  <2>1. ASSUME NEW f PROVE Register!Completion(f) = Completion(f)
    BY Zenon DEF Register!Completion, Completion, Register!Cardinality, Cardinality
  <2>2. Register!Edited(row) =
            {[row EXCEPT !.sections = e, !.completion = Register!Completion(e)] : e \in [Sections -> Texts]}
    BY Zenon DEF Register!Edited, Register!Texts, Texts
  <2> QED
    BY <2>1, <2>2 DEF Edited
<1>4. Register!Submitted(row, n) = Submitted(row, n) /\ Register!Reviewed(row) = Reviewed(row)
  BY DEF Register!Submitted, Submitted, Register!Reviewed, Reviewed, Register!Outcomes, Outcomes
<1> QED
  BY <1>1, <1>2, <1>3, <1>4 DEF Register!Results, Results, Register!Deleted, Deleted

\* Every step of a request is a step of the register or leaves it as it is: a request on a
\* record takes effect when it writes, a policy check when it takes its decision.
LEMMA StepRefines ==
    ASSUME Inv, OneDashboardKey, [Next]_vars
    PROVE  [Register!Next]_(Register!regvars)
<1> USE SameOperators
<1>1. ASSUME NEW s \in Slots, Step(s, tx'[s]) \/ Finish(s), UNCHANGED verdict
      PROVE  UNCHANGED <<Verdict, Needed>>
  BY <1>1 DEF Inv, TxTypes, Step, Finish, Verdict, Needed
<1>2. CASE UNCHANGED vars
  BY <1>2 DEF vars, Verdict, Needed, Register!regvars
<1>3. ASSUME NEW key \in Switched, GrantEntitlement(key) \/ RevokeEntitlement(key)
      PROVE  UNCHANGED Register!regvars
  BY <1>3 DEF GrantEntitlement, RevokeEntitlement, Verdict, Needed, Register!regvars
<1>4. ASSUME NEW s \in Slots, NEW r \in Ids, NEW op \in OpsOn(r), Authenticate(s, op, r)
      PROVE  UNCHANGED Register!regvars
  <2>1. UNCHANGED <<rows, log, verdict>> /\ Step(s, tx'[s])
    BY <1>4 DEF Authenticate, Step, Inv, TxTypes
  <2> QED
    BY <1>1, <2>1 DEF Register!regvars
<1>5. ASSUME NEW s \in Slots, CheckEntitlement(s) \/ Load(s) \/ Refuse(s)
      PROVE  UNCHANGED Register!regvars
  <2>1. UNCHANGED <<rows, log, verdict>> /\ (Step(s, tx'[s]) \/ Finish(s))
    BY <1>5 DEF CheckEntitlement, Load, Refuse, Goto, Step, Inv, TxTypes
  <2> QED
    BY <1>1, <2>1 DEF Register!regvars
<1>6. ASSUME NEW s \in Slots, Write(s)
      PROVE  Register!Next
  <2> DEFINE r == tx[s].id
             op == tx[s].op
  <2>1. /\ r \in Ids /\ op \in OpsOn(r)
        /\ IF op = "create" THEN rows[r] = Absent ELSE Kept(rows[r])
        /\ Permits(op, rows[r])
        /\ Finish(s) /\ UNCHANGED verdict
    BY <1>6, WriteIsAtomic
  <2>2. PICK new \in Results(op, r, rows[r], log[r].submitted + 1) :
            /\ rows' = [rows EXCEPT ![r] = new]
            /\ log' = [log EXCEPT ![r] = Logged(r, op, @, new)]
    BY <1>6, WriteIsAtomic
  <2>3. UNCHANGED <<Verdict, Needed>>
    BY <1>1, <2>1
  <2>4. new \in Register!Results(op, r, rows[r], log[r].submitted + 1)
    BY <2>2, SameResults
  <2>5. log' = [log EXCEPT ![r] = Register!Logged(r, op, @, new)]
    BY <2>2
  <2>6. Register!Change(r)
    BY <2>1, <2>2, <2>3, <2>4, <2>5 DEF Register!Change
  <2> QED
    BY <2>1, <2>6 DEF Register!Next
<1>7. ASSUME NEW c \in Clients, Ask(c)
      PROVE  Register!Next
  <2>1. PICK clean \in BOOLEAN, f \in Asked :
            tx' = [tx EXCEPT ![c] = [NoCheck EXCEPT !.pc = "feature", !.clean = clean, !.feature = f]]
    BY <1>7 DEF Ask, Step
  <2>2. tx'[c].pc = "feature" /\ \A d \in Clients \ {c} : tx'[d] = tx[d]
    BY <2>1 DEF Inv, TxTypes, NoCheck
  <2>3. Verdict' = [Verdict EXCEPT ![c] = "none"]
    BY <1>7, <2>2 DEF Ask, Inv, Tables, Verdict
  <2>4. Needed[c] = NoSystem /\ Needed' = Needed
    BY <1>7, <2>2 DEF Ask, At, Needed
  <2>5. Register!Ask(c)
    BY <1>7, <2>3, <2>4 DEF Ask, Register!Ask
  <2> QED
    BY <2>5 DEF Register!Next
<1>8. ASSUME NEW c \in Clients, ReadFeature(c)
      PROVE  Register!Next
  <2> DEFINE t == tx[c]
             decision == FeatureGate(t.clean, t.feature, rows)
  <2>1. /\ t.pc = "feature" /\ t.clean \in BOOLEAN /\ t.feature \in Asked /\ verdict[c] = "none"
        /\ UNCHANGED <<rows, log, verdict>>
    BY <1>8 DEF ReadFeature, At, Inv, TxTypes, CheckTx, GateOpen
  <2>2. Verdict[c] = "none" /\ Needed[c] = NoSystem
    BY <2>1 DEF Verdict, Needed
  <2>3. \A d \in Clients \ {c} : tx'[d] = tx[d]
    BY <1>8 DEF ReadFeature, Step, Inv, TxTypes
  <2>4. CASE decision = "fria"
    <3>1. tx'[c] = [NoCheck EXCEPT !.pc = "fria", !.system = rows[t.feature].system]
      BY <1>8, <2>4 DEF ReadFeature, Step, Inv, TxTypes
    <3>2. tx'[c].pc = "fria" /\ tx'[c].system = rows[t.feature].system
      BY <3>1 DEF NoCheck
    <3>3. Verdict' = Verdict /\ Needed' = [Needed EXCEPT ![c] = rows[t.feature].system]
      BY <2>1, <2>3, <3>2 DEF Verdict, Needed
    <3> QED
      BY <2>1, <2>2, <2>4, <3>3, SameDecision DEF Register!Look, Register!Next
  <2>5. CASE decision # "fria"
    <3>1. tx'[c] = [NoCheck EXCEPT !.pc = "record", !.decision = decision]
      BY <1>8, <2>5 DEF ReadFeature, Step, Inv, TxTypes
    <3>2. tx'[c].pc = "record" /\ tx'[c].decision = decision
      BY <3>1 DEF NoCheck
    <3>3. Verdict' = [Verdict EXCEPT ![c] = decision] /\ Needed' = Needed
      BY <2>1, <2>3, <3>2 DEF Verdict, Needed
    <3> QED
      BY <2>1, <2>2, <2>5, <3>3, SameDecision DEF Register!Look, Register!Next
  <2> QED
    BY <2>4, <2>5
<1>9. ASSUME NEW c \in Clients, ReadFria(c)
      PROVE  Register!Next
  <2> DEFINE decision == FriaGate(tx[c].system, rows)
  <2>1. /\ tx[c].pc = "fria" /\ tx[c].system \in Systems
        /\ UNCHANGED <<rows, log, verdict>>
    BY <1>9 DEF ReadFria, At, Inv, GateOpen
  <2>2. Needed[c] = tx[c].system /\ Needed[c] # NoSystem
    BY <2>1 DEF Needed
  <2>3. \A d \in Clients \ {c} : tx'[d] = tx[d]
    BY <1>9 DEF ReadFria, Step, Inv, TxTypes
  <2>4. tx'[c] = [NoCheck EXCEPT !.pc = "record", !.decision = decision]
    BY <1>9 DEF ReadFria, Step, Inv, TxTypes
  <2>5. tx'[c].pc = "record" /\ tx'[c].decision = decision
    BY <2>4 DEF NoCheck
  <2>6. Verdict' = [Verdict EXCEPT ![c] = decision] /\ Needed' = [Needed EXCEPT ![c] = NoSystem]
    BY <2>1, <2>3, <2>5 DEF Verdict, Needed
  <2> QED
    BY <2>1, <2>2, <2>6, SameDecision DEF Register!Answer, Register!Next
<1>10. ASSUME NEW c \in Clients, RecordCheck(c)
      PROVE  UNCHANGED Register!regvars
  <2>1. Verdict' = Verdict /\ Needed' = Needed
    BY <1>10 DEF RecordCheck, At, Inv, TxTypes, Tables, NoCheck, Verdict, Needed
  <2> QED
    BY <1>10, <2>1 DEF RecordCheck, Register!regvars
<1> QED
  BY <1>2, <1>3, <1>4, <1>5, <1>6, <1>7, <1>8, <1>9, <1>10 DEF Next

\* The governance endpoints and the runtime gate implement the register of GovernanceRegister:
\* no interleaving of requests with one dashboard key shows.
THEOREM GovernanceKeepsRegister ==
    ASSUME OneDashboardKey PROVE Spec => KeepsRegister
<1>1. Init => Register!Init
  BY SameOperators DEF Init, Register!Init, Verdict, Needed, NoCheck
<1> QED
  BY <1>1, Invariant, StepRefines, PTL DEF Spec, Register!Spec, KeepsRegister
=============================================================================
