------------------------- MODULE FeatureRequestsProofs -------------------------
(***************************************************************************)
(* Proofs about concurrent requests on the versions of a feature, for any  *)
(* number of requests, versions and fingerprints.                          *)
(*                                                                         *)
(* Whatever keys the requests carry (first half): no column that a request *)
(* may have read ever changes but status and stamps (Keeps), so what it    *)
(* read of numbers and fingerprints stays true (Read); and the row that it *)
(* inserted and not yet committed conflicts with no other (Reserved),      *)
(* because an approval waits for the first version's request.              *)
(*                                                                         *)
(* With one key (second half): one request is past authentication at a     *)
(* time, all it has read is as it was (Fresh), and its write is the step   *)
(* that FeatureVersions takes at once.                                     *)
(***************************************************************************)
EXTENDS FeatureRequests, FeatureVersionsProofs

Copies == UNION {[ids -> VersionRow] : ids \in SUBSET VersionIds}
Loaded == Copies \cup {<<>>}
Tx == [pc : {"idle", "find", "insert", "provider", "load", "others", "write"},
       op : Ops \cup {"none"}, fp : Fingerprints \cup {NoFingerprint},
       loaded : Fingerprints \cup {NoFingerprint}, target : VersionIds \cup {NoVersion},
       number : Nat, wasCurrent : BOOLEAN, seenRow : VersionRow \cup {NoRow},
       others : Loaded]

\* A fingerprint that a feature runs or ran under belongs to a recorded version.
Known(fp) == fp # NoFingerprint => \E v \in Recorded : version[v].fingerprint = fp

\* The row of a version, as a request loaded it, may differ in status and stamps only.
CopyOf(row, v) ==
    v \in Recorded /\ row \in VersionRow /\ row.fingerprint = version[v].fingerprint

Inserts(t) == t.pc = "provider" /\ t.number # 0
RowOf(t) == NewRow(t.loaded, t.fp, t.number)

\* What a request has read and may rely on, whoever else writes.
Read(t) ==
    /\ t.pc = "idle" => t = NoTx
    /\ t.pc \in {"find", "insert"} \/ Inserts(t) => t.fp \in Fingerprints /\ Known(t.loaded)
    /\ t.pc = "insert" \/ Inserts(t) =>
           t.number \in 1..(Cardinality(Recorded) + 1) /\ t.fp # t.loaded
    /\ t.pc \in {"load", "others", "write"} => t.op \in {"approve", "reject"} /\ t.target \in Recorded
    /\ t.pc \in {"load", "others"} => DOMAIN t.others = {}
    /\ t.pc \in {"others", "write"} => CopyOf(t.seenRow, t.target)
    /\ t.pc = "write" =>
           \A w \in DOMAIN t.others : CopyOf(t.others[w], w) /\ t.others[w].status = "approved"

\* The unique indexes cover what is inserted and not committed.
Reserved ==
    \A s \in Slots : Inserts(tx[s]) =>
        /\ tx[s].target \in VersionIds \ Recorded
        /\ \A w \in Recorded : ~Conflicts(RowOf(tx[s]), version[w])
        /\ \A o \in Slots \ {s} : Inserts(tx[o]) =>
               tx[o].target # tx[s].target /\ ~Conflicts(RowOf(tx[s]), RowOf(tx[o]))

Tables ==
    /\ TypeOK /\ NumberingInv /\ Known(feature.fingerprint)
    /\ PartialIndex => OneApproved
Requests == tx \in [Slots -> Tx] /\ \A s \in Slots : Read(tx[s])
Inv == Tables /\ Requests /\ Reserved

\* With one key.
SharedKey == \A s, t \in Slots : KeyOf[s] = KeyOf[t]
Working(s) == tx[s].pc # "idle"
OneAtWork == \A s, t \in Slots : Working(s) /\ Working(t) => s = t

\* All that a request has read is as it was.
Fresh(t) ==
    /\ t.pc \in {"find", "insert"} \/ Inserts(t) => t.loaded = feature.fingerprint
    /\ t.pc = "insert" \/ Inserts(t) => t.number \in NextNumbers
    /\ t.pc = "provider" /\ t.number = 0 =>
           t.target \in Recorded /\ version[t.target].status \notin {"rejected", "superseded"}
    /\ t.pc \in {"load", "others", "write"} => t.wasCurrent = (feature.version = t.target)
    /\ t.pc \in {"others", "write"} => t.seenRow = version[t.target]
    /\ t.pc = "others" /\ t.op = "reject" => RejectingCurrentApproved(t.wasCurrent, t.seenRow)
    /\ t.pc = "write" => \A w \in DOMAIN t.others : t.others[w] = version[w]
    /\ t.pc = "write" /\ t.op = "approve" => DOMAIN t.others = Approved \ {t.target}
    /\ t.pc = "write" /\ t.op = "reject" =>
           IF RejectingCurrentApproved(t.wasCurrent, t.seenRow)
           THEN \E w \in Approved \ {t.target} : DOMAIN t.others = {w}
           ELSE DOMAIN t.others = {}

SerialInv == Inv /\ CoreInv /\ OneAtWork /\ \A s \in Slots : Fresh(tx[s])

-----------------------------------------------------------------------------
(* What no step changes. *)

Keeps ==
    /\ Recorded \subseteq Recorded' /\ IsFiniteSet(Recorded')
    /\ \A v \in Recorded : /\ version'[v].fingerprint = version[v].fingerprint
                          /\ version'[v].number = version[v].number

LEMMA NoTxRests == NoTx \in Tx /\ NoTx.pc = "idle" /\ Read(NoTx)
<1>1. <<>> \in Loaded
  BY DEF Loaded
<1>2. NoTx \in Tx /\ NoTx.pc = "idle"
  BY <1>1 DEF NoTx, Tx, Ops
<1> QED
  BY <1>2 DEF Read, Inserts

LEMMA RowOfRequest ==
    ASSUME NEW t \in Tx, t.fp \in Fingerprints, t.number # 0
    PROVE  /\ RowOf(t) \in VersionRow /\ RowOf(t) # NoRow
           /\ RowOf(t).fingerprint = t.fp /\ RowOf(t).number = t.number
           /\ RowOf(t).status = IF Changed(t.loaded, t.fp) THEN "candidate" ELSE "approved"
<1>1. t.number \in Nat \ {0} /\ t.loaded \in Fingerprints \cup {NoFingerprint}
  BY DEF Tx
<1> QED
  BY <1>1, NewRowIsARow, NoRowIsNotARow DEF RowOf

LEMMA ReadStays ==
    ASSUME IsFiniteSet(Recorded), Keeps, NEW t, Read(t)
    PROVE  Read(t)'
<1>1. Cardinality(Recorded) \in Nat /\ Cardinality(Recorded') \in Nat
  BY FS_CardinalityType DEF Keeps
<1>2. Cardinality(Recorded) <= Cardinality(Recorded')
  BY FS_Subset DEF Keeps
<1>3. \A fp : Known(fp) => Known(fp)'
  BY DEF Known, Keeps
<1>4. \A row, v : CopyOf(row, v) => CopyOf(row, v)'
  BY DEF CopyOf, Keeps
<1>5. t.number \in 1..(Cardinality(Recorded) + 1) => t.number \in 1..(Cardinality(Recorded') + 1)
  BY <1>1, <1>2
<1> QED
  BY <1>3, <1>4, <1>5 DEF Read, Keeps, Inserts

LEMMA TablesStand ==
    ASSUME Inv, UNCHANGED vars
    PROVE  Keeps /\ Tables'
<1>1. Recorded' = Recorded /\ Approved' = Approved /\ UNCHANGED <<version, feature, decision>>
  BY DEF vars, Recorded, Approved
<1>2. Keeps
  BY <1>1 DEF Keeps, Inv, Tables, NumberingInv
<1>3. NumberingInv'
  BY <1>1 DEF Inv, Tables, NumberingInv, VersionsNumbered
<1>4. TypeOK' /\ Known(feature.fingerprint)' /\ (PartialIndex => OneApproved)'
  BY <1>1 DEF Inv, Tables, TypeOK, Known, OneApproved
<1> QED
  BY <1>2, <1>3, <1>4 DEF Tables

\* A request takes a step, the others stay where they are.
LEMMA RequestMoves ==
    ASSUME Inv, Keeps, NEW s \in Slots, NEW t \in Tx, Step(s, t), Read(t) \/ Read(t)'
    PROVE  /\ Requests' /\ tx'[s] = t
           /\ \A o \in Slots \ {s} : tx'[o] = tx[o]
<1>1. /\ tx' \in [Slots -> Tx] /\ tx'[s] = t
      /\ \A o \in Slots \ {s} : tx'[o] = tx[o]
  BY DEF Inv, Requests, Step
<1>2. \A o \in Slots \ {s} : Read(tx[o])'
  <2>1. SUFFICES ASSUME NEW o \in Slots \ {s} PROVE Read(tx[o])'
    OBVIOUS
  <2>2. PICK q : q = tx[o] /\ q = tx'[o] /\ Read(q)
    BY <1>1 DEF Inv, Requests
  <2>3. Read(q)'
    BY <2>2, ReadStays DEF Inv, Tables, NumberingInv
  <2> QED
    BY <2>2, <2>3 DEF Read
<1>3. Read(t)'
  BY ReadStays DEF Inv, Tables, NumberingInv
<1>4. Read(tx[s])'
  BY <1>1, <1>3 DEF Read
<1> QED
  BY <1>1, <1>2, <1>4 DEF Requests

\* A step that leaves the tables alone and inserts nothing.
LEMMA Reads ==
    ASSUME Inv, UNCHANGED vars, NEW s \in Slots, NEW t \in Tx, Step(s, t), Read(t), ~Inserts(t)
    PROVE  Inv'
<1>1. Keeps /\ Tables'
  BY TablesStand
<1>2. Requests' /\ tx'[s] = t /\ \A o \in Slots \ {s} : tx'[o] = tx[o]
  BY <1>1, RequestMoves
<1>3. Reserved'
  BY <1>2 DEF Inv, Reserved, vars, Recorded, Inserts, RowOf
<1> QED
  BY <1>1, <1>2, <1>3 DEF Inv

LEMMA Finishes ==
    ASSUME Inv, UNCHANGED vars, NEW s \in Slots, Finish(s)
    PROVE  Inv'
<1>1. Step(s, NoTx) /\ ~Inserts(NoTx)
  BY NoTxRests DEF Finish, Step, Inserts
<1> QED
  BY <1>1, NoTxRests, Reads

-----------------------------------------------------------------------------
(* Steps that write nothing. *)

LEMMA OfSlot ==
    ASSUME Inv, NEW s \in Slots
    PROVE  /\ tx[s] \in Tx /\ Read(tx[s]) /\ TypeOK
           /\ \A v \in Recorded : v \in VersionIds /\ version[v] \in VersionRow
           /\ Approved \subseteq Recorded
           /\ Pending(s) <=> Inserts(tx[s])
           /\ PendingRow(s) = RowOf(tx[s])
           /\ HoldsFeature(s) <=> Inserts(tx[s]) /\ tx[s].loaded = NoFingerprint
  BY RecordedRows
  DEF Inv, Tables, Requests, Pending, PendingRow, HoldsFeature, At, Inserts, RowOf

LEMMA AuthenticateKeeps ==
    ASSUME Inv, NEW s \in Slots, NEW op \in Ops, Authenticate(s, op)
    PROVE  Inv'
<1>1. UNCHANGED vars /\ NoTx \in Tx /\ TypeOK /\ Known(feature.fingerprint)
  BY NoTxRests DEF Authenticate, Inv, Tables
<1>2. CASE op = "execute"
  <2>1. PICK fp \in Fingerprints :
            Step(s, [NoTx EXCEPT !.op = op, !.pc = "find", !.fp = fp,
                       !.loaded = feature.fingerprint])
    BY <1>2 DEF Authenticate
  <2> DEFINE t == [NoTx EXCEPT !.op = op, !.pc = "find", !.fp = fp, !.loaded = feature.fingerprint]
  <2>2. t \in Tx
    BY <1>1 DEF Tx, TypeOK, FeatureRow
  <2>3. t.pc = "find" /\ t.fp = fp /\ t.loaded = feature.fingerprint
    BY <1>1 DEF Tx
  <2>4. Step(s, t)
    BY <2>1
  <2> HIDE DEF t
  <2>5. Read(t) /\ ~Inserts(t)
    BY <1>1, <2>3 DEF Read, Inserts
  <2> QED
    BY <1>1, <2>2, <2>4, <2>5, Reads
<1>3. CASE op # "execute"
  <2>1. PICK v \in Recorded :
            Step(s, [NoTx EXCEPT !.op = op, !.pc = "load", !.target = v,
                       !.wasCurrent = (feature.version = v)])
    BY <1>3 DEF Authenticate
  <2> DEFINE t == [NoTx EXCEPT !.op = op, !.pc = "load", !.target = v,
                     !.wasCurrent = (feature.version = v)]
  <2>2. v \in VersionIds
    BY DEF Recorded
  <2>3. t \in Tx
    BY <1>1, <2>2 DEF Tx
  <2>4. t.pc = "load" /\ t.op = op /\ t.target = v /\ DOMAIN t.others = {}
    BY <1>1 DEF Tx, NoTx
  <2>5. Step(s, t)
    BY <2>1
  <2> HIDE DEF t
  <2>6. Read(t) /\ ~Inserts(t)
    BY <1>3, <2>4 DEF Read, Inserts, Ops
  <2> QED
    BY <1>1, <2>3, <2>5, <2>6, Reads
<1> QED
  BY <1>2, <1>3

LEMMA FindRecordedKeeps ==
    ASSUME Inv, NEW s \in Slots, FindRecorded(s)
    PROVE  Inv'
<1>1. UNCHANGED vars /\ NoTx \in Tx
  BY NoTxRests DEF FindRecorded
<1>2. CASE Finish(s)
  BY <1>1, <1>2, Finishes
<1>3. CASE \E v \in Recorded :
               Step(s, [NoTx EXCEPT !.op = "execute", !.pc = "provider", !.target = v])
  <2>1. PICK v \in Recorded :
            Step(s, [NoTx EXCEPT !.op = "execute", !.pc = "provider", !.target = v])
    BY <1>3
  <2> DEFINE t == [NoTx EXCEPT !.op = "execute", !.pc = "provider", !.target = v]
  <2>2. t \in Tx
    BY <1>1 DEF Tx, Recorded, Ops
  <2>3. t.pc = "provider" /\ t.number = 0
    BY <1>1 DEF Tx, NoTx
  <2>4. Step(s, t)
    BY <2>1
  <2> HIDE DEF t
  <2>5. Read(t) /\ ~Inserts(t)
    BY <2>3 DEF Read, Inserts
  <2> QED
    BY <1>1, <2>2, <2>4, <2>5, Reads
<1> QED
  BY <1>2, <1>3 DEF FindRecorded

LEMMA NumbersFollow ==
    ASSUME TypeOK, NumberingInv, NEW n \in NextNumbers
    PROVE  n \in 1..(Cardinality(Recorded) + 1)
<1>1. Cardinality(Recorded) \in Nat
  BY FS_CardinalityType DEF NumberingInv
<1>2. CASE Recorded = {}
  BY <1>1, <1>2 DEF NextNumbers
<1>3. CASE Recorded # {}
  <2>1. PICK v \in Latest : n = version[v].number + 1
    BY <1>3 DEF NextNumbers
  <2>2. version[v].number \in Nat /\ version[v].number <= Cardinality(Recorded)
    BY RecordedRows DEF Latest, VersionRow, NumberingInv, VersionsNumbered
  <2> QED
    BY <1>1, <2>1, <2>2
<1> QED
  BY <1>2, <1>3

LEMMA FindNoneKeeps ==
    ASSUME Inv, NEW s \in Slots, FindNone(s)
    PROVE  Inv'
<1>1. /\ UNCHANGED vars /\ tx[s].pc = "find"
      /\ \A v \in Recorded : version[v].fingerprint # tx[s].fp
  BY DEF FindNone, At
<1>2. PICK n \in NextNumbers : Step(s, [tx[s] EXCEPT !.pc = "insert", !.number = n])
  BY DEF FindNone
<1>3. n \in 1..(Cardinality(Recorded) + 1) /\ n \in Nat
  BY NumbersFollow, NextNumbersArePositive DEF Inv, Tables
<1>4. tx[s].fp \in Fingerprints /\ Known(tx[s].loaded) /\ tx[s] \in Tx
  BY <1>1, OfSlot DEF Read
<1>5. tx[s].fp # tx[s].loaded
  <2>1. tx[s].fp # NoFingerprint
    BY <1>4, NoFingerprintIsNull
  <2> QED
    BY <1>1, <1>4, <2>1 DEF Known
<1> DEFINE t == [tx[s] EXCEPT !.pc = "insert", !.number = n]
<1>6. t \in Tx
  BY <1>3, <1>4 DEF Tx
<1>7. t.pc = "insert" /\ t.number = n /\ t.fp = tx[s].fp /\ t.loaded = tx[s].loaded
  BY <1>4 DEF Tx
<1>8. Step(s, t)
  BY <1>2
<1> HIDE DEF t
<1>9. Read(t) /\ ~Inserts(t)
  BY <1>3, <1>4, <1>5, <1>7 DEF Read, Inserts
<1> QED
  BY <1>1, <1>6, <1>8, <1>9, Reads

LEMMA ConflictsMutual == \A row, other : Conflicts(row, other) => Conflicts(other, row)
  BY DEF Conflicts

LEMMA InsertVersionKeeps ==
    ASSUME Inv, NEW s \in Slots, InsertVersion(s)
    PROVE  Inv'
<1>1. /\ UNCHANGED vars /\ tx[s].pc = "insert" /\ ~InsertWaits(s)
      /\ \A w \in Recorded : ~Conflicts(RowOf(tx[s]), version[w])
  BY OfSlot DEF InsertVersion, At
<1>2. PICK v \in VersionIds \ Recorded :
          /\ \A o \in Slots : Pending(o) => tx[o].target # v
          /\ Step(s, [tx[s] EXCEPT !.pc = "provider", !.target = v])
  BY DEF InsertVersion
<1>3. tx[s] \in Tx /\ Read(tx[s])
  BY OfSlot
<1> DEFINE t == [tx[s] EXCEPT !.pc = "provider", !.target = v]
<1>4. t \in Tx
  BY <1>3 DEF Tx
<1>5. /\ t.pc = "provider" /\ t.target = v
      /\ t.number = tx[s].number /\ t.fp = tx[s].fp /\ t.loaded = tx[s].loaded
  BY <1>3 DEF Tx
<1>6. Step(s, t)
  BY <1>2
<1> HIDE DEF t
<1>7. Read(t) /\ Inserts(t) /\ RowOf(t) = RowOf(tx[s])
  BY <1>1, <1>3, <1>5 DEF Read, Inserts, RowOf
<1>8. Keeps /\ Tables'
  BY <1>1, TablesStand
<1>9. Requests' /\ tx'[s] = t /\ \A o \in Slots \ {s} : tx'[o] = tx[o]
  BY <1>4, <1>6, <1>7, <1>8, RequestMoves
<1>10. \A o \in Slots \ {s} : Inserts(tx[o]) =>
           /\ tx[o].target # v
           /\ ~Conflicts(RowOf(t), RowOf(tx[o])) /\ ~Conflicts(RowOf(tx[o]), RowOf(t))
  BY <1>1, <1>2, <1>7, OfSlot, ConflictsMutual DEF InsertWaits
<1>11. Recorded' = Recorded /\ version' = version
  BY <1>1 DEF vars, Recorded
<1>12. Reserved'
  <2>1. SUFFICES ASSUME NEW r \in Slots, Inserts(tx'[r])
                 PROVE  /\ tx'[r].target \in VersionIds \ Recorded
                        /\ \A w \in Recorded : ~Conflicts(RowOf(tx'[r]), version[w])
                        /\ \A o \in Slots \ {r} : Inserts(tx'[o]) =>
                               /\ tx'[o].target # tx'[r].target
                               /\ ~Conflicts(RowOf(tx'[r]), RowOf(tx'[o]))
    BY <1>11 DEF Reserved
  <2>2. CASE r = s
    BY <1>1, <1>2, <1>5, <1>7, <1>9, <1>10, <2>2
  <2>3. CASE r # s
    <3>1. tx'[r] = tx[r] /\ Inserts(tx[r])
      BY <1>9, <2>1, <2>3
    <3> QED
      BY <1>5, <1>9, <1>10, <2>3, <3>1 DEF Inv, Reserved
  <2> QED
    BY <2>2, <2>3
<1> QED
  BY <1>8, <1>9, <1>12 DEF Inv

LEMMA LoadTargetKeeps ==
    ASSUME Inv, NEW s \in Slots, LoadTarget(s)
    PROVE  Inv'
<1>1. tx[s] \in Tx /\ Read(tx[s]) /\ tx[s].pc = "load" /\ UNCHANGED vars
  BY OfSlot DEF LoadTarget, At
<1>2. PICK pc \in {"others", "write"} :
          Step(s, [tx[s] EXCEPT !.seenRow = version[tx[s].target], !.pc = pc])
  BY DEF LoadTarget
<1>3. tx[s].target \in Recorded /\ version[tx[s].target] \in VersionRow
  BY <1>1, OfSlot DEF Read
<1> DEFINE t == [tx[s] EXCEPT !.seenRow = version[tx[s].target], !.pc = pc]
<1>4. t \in Tx
  BY <1>1, <1>3 DEF Tx
<1>5. /\ t.pc = pc /\ t.seenRow = version[t.target] /\ t.target = tx[s].target
      /\ t.op = tx[s].op /\ t.others = tx[s].others
  BY <1>1 DEF Tx
<1>6. Step(s, t)
  BY <1>2
<1> HIDE DEF t
<1>7. Read(t) /\ ~Inserts(t)
  BY <1>1, <1>3, <1>5 DEF Read, Inserts, CopyOf
<1> QED
  BY <1>1, <1>4, <1>6, <1>7, Reads

LEMMA LoadOthersKeeps ==
    ASSUME Inv, NEW s \in Slots, LoadOthers(s)
    PROVE  Inv'
<1>1. tx[s] \in Tx /\ Read(tx[s]) /\ tx[s].pc = "others" /\ UNCHANGED vars
  BY OfSlot DEF LoadOthers, At
<1>2. CASE Finish(s)
  BY <1>1, <1>2, Finishes
<1>3. ASSUME NEW ids \in SUBSET Approved,
             Step(s, [tx[s] EXCEPT !.pc = "write", !.others = [w \in ids |-> version[w]]])
      PROVE  Inv'
  <2> DEFINE seen == [w \in ids |-> version[w]]
             t == [tx[s] EXCEPT !.pc = "write", !.others = seen]
  <2>1. ids \in SUBSET VersionIds /\ \A w \in ids : version[w] \in VersionRow /\ w \in Recorded
    BY OfSlot DEF Recorded
  <2>2. seen \in [ids -> VersionRow]
    BY <2>1
  <2>3. seen \in Loaded
    BY <2>1, <2>2 DEF Loaded, Copies
  <2>4. DOMAIN seen = ids /\ \A w \in ids : seen[w] = version[w]
    OBVIOUS
  <2>5. Step(s, t)
    BY <1>3
  <2> HIDE DEF seen
  <2>6. t \in Tx
    BY <1>1, <2>3 DEF Tx
  <2>7. /\ t.pc = "write" /\ t.seenRow = tx[s].seenRow /\ t.target = tx[s].target
        /\ t.op = tx[s].op /\ t.others = seen
    BY <1>1 DEF Tx
  <2> HIDE DEF t
  <2>8. \A w \in ids : version[w].status = "approved"
    BY DEF Approved
  <2>9. Read(t) /\ ~Inserts(t)
    BY <1>1, <2>1, <2>4, <2>7, <2>8 DEF Read, Inserts, CopyOf
  <2> QED
    BY <1>1, <2>5, <2>6, <2>9, Reads
<1> DEFINE load(ids) == Step(s, [tx[s] EXCEPT !.pc = "write", !.others = [w \in ids |-> version[w]]])
<1>4. \/ Finish(s)
      \/ load(Approved \ {tx[s].target})
      \/ \E w \in Approved \ {tx[s].target} : load({w})
  BY DEF LoadOthers
<1>5. \A ids \in SUBSET Approved : load(ids) => Inv'
  BY <1>3
<1> HIDE DEF load
<1>6. /\ Approved \ {tx[s].target} \in SUBSET Approved
      /\ \A w \in Approved \ {tx[s].target} : {w} \in SUBSET Approved
  OBVIOUS
<1> QED
  BY <1>2, <1>4, <1>5, <1>6

-----------------------------------------------------------------------------
(* The commit of an inserted version. *)

LEMMA CommitEffect ==
    ASSUME Inv, NEW s \in Slots, CommitExecution(s), NEW t, t = tx[s], Inserts(t)
    PROVE  /\ t \in Tx /\ t.fp \in Fingerprints /\ t.target \in VersionIds \ Recorded
           /\ version'[t.target] = RowOf(t)
           /\ \A w \in VersionIds \ {t.target} : version'[w] = version[w]
           /\ Recorded' = Recorded \cup {t.target}
           /\ Approved' = IF RowOf(t).status = "approved" THEN Approved \cup {t.target} ELSE Approved
           /\ TypeOK' /\ Keeps
           /\ feature' = IF t.loaded = NoFingerprint THEN PointAt(t.fp, t.target) ELSE feature
<1>1. /\ t \in Tx /\ t.fp \in Fingerprints /\ t.target \in VersionIds \ Recorded
      /\ TypeOK /\ IsFiniteSet(Recorded)
  BY OfSlot DEF Read, Inv, Reserved, Tables, NumberingInv
<1>2. /\ version' = [version EXCEPT ![t.target] = RowOf(t)]
      /\ feature' = IF t.loaded = NoFingerprint THEN PointAt(t.fp, t.target) ELSE feature
      /\ decision' = decision
  BY OfSlot DEF CommitExecution
<1>3. RowOf(t) \in VersionRow /\ RowOf(t) # NoRow
  BY <1>1, RowOfRequest DEF Inserts
<1>4. /\ version'[t.target] = RowOf(t)
      /\ \A w \in VersionIds \ {t.target} : version'[w] = version[w]
      /\ version' \in [VersionIds -> VersionRow \cup {NoRow}]
  BY <1>1, <1>2, <1>3 DEF TypeOK
<1>5. Recorded' = Recorded \cup {t.target}
  BY <1>1, <1>3, <1>4 DEF Recorded
<1>6. Approved' = IF RowOf(t).status = "approved" THEN Approved \cup {t.target} ELSE Approved
  <2>1. t.target \notin Approved
    BY <1>1, RecordedRows
  <2> QED
    BY <1>1, <1>4, <2>1 DEF Approved
<1>7. TypeOK'
  BY <1>1, <1>2, <1>4 DEF TypeOK, FeatureRow, PointAt
<1>8. Keeps
  <2>1. \A v \in Recorded : version'[v] = version[v]
    BY <1>1, <1>4 DEF Recorded
  <2> QED
    BY <1>1, <1>5, <2>1, FS_AddElement DEF Keeps
<1> QED
  BY <1>1, <1>2, <1>4, <1>5, <1>6, <1>7, <1>8

LEMMA CommitNumbers ==
    ASSUME Inv, NEW s \in Slots, CommitExecution(s), NEW t, t = tx[s], Inserts(t)
    PROVE  NumberingInv'
<1>1. /\ t \in Tx /\ t.fp \in Fingerprints /\ t.target \in VersionIds \ Recorded
      /\ version'[t.target] = RowOf(t)
      /\ \A w \in VersionIds \ {t.target} : version'[w] = version[w]
      /\ Recorded' = Recorded \cup {t.target}
  BY CommitEffect
<1>2. \A w \in Recorded : /\ version'[w] = version[w] /\ version[w].number \in Nat
                          /\ version[w].number <= Cardinality(Recorded)
  BY <1>1, OfSlot DEF VersionRow, Inv, Tables, NumberingInv, VersionsNumbered
<1>3. \A w \in Recorded : RowOf(t).number # version[w].number /\ RowOf(t).fingerprint # version[w].fingerprint
  BY DEF Inv, Reserved, Conflicts
<1>4. RowOf(t).number = t.number /\ t.number \in 1..(Cardinality(Recorded) + 1)
  BY <1>1, OfSlot, RowOfRequest DEF Read, Inserts
<1>5. /\ IsFiniteSet(Recorded') /\ Cardinality(Recorded) \in Nat
      /\ Cardinality(Recorded') = Cardinality(Recorded) + 1
  BY <1>1, FS_AddElement, FS_CardinalityType DEF Inv, Tables, NumberingInv
<1>6. ASSUME NEW v \in Recorded', NEW w \in Recorded',
             \/ version'[v].number = version'[w].number
             \/ version'[v].fingerprint = version'[w].fingerprint
      PROVE  v = w
  <2>1. CASE v \in Recorded /\ w \in Recorded
    BY <1>2, <1>6, <2>1 DEF Inv, Tables, NumberingInv, VersionsNumbered
  <2>2. CASE v = t.target /\ w \in Recorded
    BY <1>1, <1>2, <1>3, <1>6, <2>2
  <2>3. CASE w = t.target /\ v \in Recorded
    BY <1>1, <1>2, <1>3, <1>6, <2>3
  <2> QED
    BY <1>1, <2>1, <2>2, <2>3
<1>7. \A v \in Recorded' : version'[v].number <= Cardinality(Recorded')
  BY <1>1, <1>2, <1>4, <1>5
<1> QED
  BY <1>5, <1>6, <1>7 DEF NumberingInv, VersionsNumbered

LEMMA CommitKeeps ==
    ASSUME Inv, NEW s \in Slots, CommitExecution(s)
    PROVE  Inv'
<1>1. PICK t : t = tx[s] /\ Step(s, NoTx)
  BY DEF CommitExecution, Finish, Step
<1>2. CASE ~Inserts(t)
  <2>1. UNCHANGED vars /\ Finish(s)
    BY <1>1, <1>2, OfSlot DEF CommitExecution, vars
  <2> QED
    BY <2>1, Finishes
<1>3. CASE Inserts(t)
  <2>1. /\ t \in Tx /\ t.fp \in Fingerprints /\ t.target \in VersionIds \ Recorded
        /\ version'[t.target] = RowOf(t)
        /\ \A w \in VersionIds \ {t.target} : version'[w] = version[w]
        /\ Recorded' = Recorded \cup {t.target}
        /\ Approved' = IF RowOf(t).status = "approved" THEN Approved \cup {t.target} ELSE Approved
        /\ TypeOK' /\ Keeps
        /\ feature' = IF t.loaded = NoFingerprint THEN PointAt(t.fp, t.target) ELSE feature
    BY <1>1, <1>3, CommitEffect
  <2>2. NumberingInv'
    BY <1>1, <1>3, CommitNumbers
  <2>3. Known(feature.fingerprint)'
    <3>1. CASE t.loaded = NoFingerprint
      <4>1. version'[t.target].fingerprint = t.fp /\ feature'.fingerprint = t.fp
        BY <1>3, <2>1, <3>1, RowOfRequest DEF Inserts, PointAt
      <4> QED
        BY <2>1, <4>1 DEF Known
    <3>2. CASE t.loaded # NoFingerprint
      <4>1. feature' = feature /\ Known(feature.fingerprint)
        BY <2>1, <3>2 DEF Inv, Tables
      <4> QED
        BY <2>1, <4>1 DEF Known, Keeps
    <3> QED
      BY <3>1, <3>2
  <2>4. PartialIndex => OneApproved'
    <3>1. PartialIndex /\ RowOf(t).status = "approved" => Approved = {}
      <4>1. \A w \in Recorded : ~Conflicts(RowOf(t), version[w])
        BY <1>1, <1>3 DEF Inv, Reserved
      <4> QED
        BY <4>1, OfSlot DEF Conflicts, Approved
    <3> QED
      BY <2>1, <3>1 DEF OneApproved, Inv, Tables
  <2>5. Requests' /\ tx'[s] = NoTx /\ \A o \in Slots \ {s} : tx'[o] = tx[o]
    BY <1>1, <2>1, NoTxRests, RequestMoves
  <2>6. Reserved'
    <3>1. SUFFICES ASSUME NEW r \in Slots, Inserts(tx'[r])
                   PROVE  /\ tx'[r].target \in VersionIds \ Recorded'
                          /\ \A w \in Recorded' : ~Conflicts(RowOf(tx'[r]), version'[w])
                          /\ \A o \in Slots \ {r} : Inserts(tx'[o]) =>
                                 /\ tx'[o].target # tx'[r].target
                                 /\ ~Conflicts(RowOf(tx'[r]), RowOf(tx'[o]))
      BY DEF Reserved
    <3>2. r # s /\ tx'[r] = tx[r] /\ Inserts(tx[r])
      BY <2>5, <3>1, NoTxRests DEF Inserts
    <3>3. /\ tx[r].target \in VersionIds \ Recorded
          /\ \A w \in Recorded : ~Conflicts(RowOf(tx[r]), version[w])
          /\ \A o \in Slots \ {r} : Inserts(tx[o]) =>
                 tx[o].target # tx[r].target /\ ~Conflicts(RowOf(tx[r]), RowOf(tx[o]))
      BY <3>2 DEF Inv, Reserved
    <3>4. tx[r].target # t.target /\ ~Conflicts(RowOf(tx[r]), RowOf(t))
      BY <1>1, <1>3, <3>2, <3>3
    <3>5. \A w \in Recorded : version'[w] = version[w]
      BY <2>1 DEF Recorded
    <3>6. \A o \in Slots \ {r} : Inserts(tx'[o]) => tx'[o] = tx[o]
      BY <2>5, NoTxRests DEF Inserts
    <3> QED
      BY <2>1, <3>2, <3>3, <3>4, <3>5, <3>6
  <2> QED
    BY <2>1, <2>2, <2>3, <2>4, <2>5, <2>6 DEF Inv, Tables
<1> QED
  BY <1>2, <1>3

-----------------------------------------------------------------------------
(* The UPDATEs of a decision. *)

LEMMA OverwriteKeepsRow ==
    ASSUME NEW row \in VersionRow, NEW seen \in VersionRow, NEW new \in VersionRow
    PROVE  /\ Overwrite(row, seen, new) \in VersionRow
           /\ Overwrite(row, seen, new).number = row.number
           /\ Overwrite(row, seen, new).fingerprint = row.fingerprint
           /\ Overwrite(row, seen, new).status =
                  IF new.status = seen.status THEN row.status ELSE new.status
<1> DEFINE status == IF new.status = seen.status THEN row.status ELSE new.status
           stamps == (row.stamps \ (seen.stamps \ new.stamps)) \cup new.stamps
<1>1. status \in Statuses /\ stamps \in SUBSET Stamps
  BY DEF VersionRow
<1>2. Overwrite(row, seen, new) = [row EXCEPT !.status = status, !.stamps = stamps]
  BY DEF Overwrite, VersionRow
<1> HIDE DEF status, stamps
<1>3. /\ Overwrite(row, seen, new) \in VersionRow
      /\ Overwrite(row, seen, new).number = row.number
      /\ Overwrite(row, seen, new).fingerprint = row.fingerprint
      /\ Overwrite(row, seen, new).status = status
  BY <1>1, <1>2 DEF VersionRow
<1> QED
  BY <1>3 DEF status

\* Versions are updated, none is inserted.
LEMMA UpdatesKeepTables ==
    ASSUME Inv, TypeOK',
           \A v \in Recorded : /\ version'[v] \in VersionRow
                               /\ version'[v].number = version[v].number
                               /\ version'[v].fingerprint = version[v].fingerprint,
           \A v \in VersionIds \ Recorded : version'[v] = version[v],
           \/ feature' = feature
           \/ \E v \in Recorded : feature'.fingerprint = version[v].fingerprint,
           PartialIndex => OneApproved'
    PROVE  Keeps /\ Tables' /\ Recorded' = Recorded
<1>1. Recorded' = Recorded
  BY OfSlot, RecordedRows, NoRowIsNotARow DEF Recorded
<1>2. Keeps
  BY <1>1 DEF Keeps, Inv, Tables, NumberingInv
<1>3. NumberingInv'
  BY <1>1, SameRowsSameNumbering DEF NumberingInv, Inv, Tables
<1>4. Known(feature.fingerprint)'
  <2>1. CASE feature' = feature
    BY <1>1, <2>1 DEF Inv, Tables, Known
  <2>2. CASE \E v \in Recorded : feature'.fingerprint = version[v].fingerprint
    BY <1>1, <2>2 DEF Known
  <2> QED
    BY <2>1, <2>2
<1> QED
  BY <1>1, <1>2, <1>3, <1>4 DEF Tables

LEMMA UpdatesKeepReserved ==
    ASSUME Inv, NEW s \in Slots, tx'[s] = NoTx,
           \A o \in Slots \ {s} : tx'[o] = tx[o],
           Recorded' = Recorded, Keeps,
           \A r \in Slots \ {s} : Inserts(tx[r]) =>
               \/ RowOf(tx[r]).status = "candidate"
               \/ \A w \in Recorded :
                      version'[w].status = "approved" => version[w].status = "approved"
    PROVE  Reserved'
<1>1. SUFFICES ASSUME NEW r \in Slots, Inserts(tx'[r])
               PROVE  /\ tx'[r].target \in VersionIds \ Recorded
                      /\ \A w \in Recorded : ~Conflicts(RowOf(tx'[r]), version'[w])
                      /\ \A o \in Slots \ {r} : Inserts(tx'[o]) =>
                             /\ tx'[o].target # tx'[r].target
                             /\ ~Conflicts(RowOf(tx'[r]), RowOf(tx'[o]))
  BY DEF Reserved
<1>2. r # s /\ tx'[r] = tx[r] /\ Inserts(tx[r])
  BY <1>1, NoTxRests DEF Inserts
<1>3. /\ tx[r].target \in VersionIds \ Recorded
      /\ \A w \in Recorded : ~Conflicts(RowOf(tx[r]), version[w])
      /\ \A o \in Slots \ {r} : Inserts(tx[o]) =>
             tx[o].target # tx[r].target /\ ~Conflicts(RowOf(tx[r]), RowOf(tx[o]))
  BY <1>2 DEF Inv, Reserved
<1>4. \A w \in Recorded : ~Conflicts(RowOf(tx[r]), version'[w])
  BY <1>2, <1>3 DEF Conflicts, Keeps
<1>5. \A o \in Slots \ {r} : Inserts(tx'[o]) => tx'[o] = tx[o]
  BY NoTxRests DEF Inserts
<1> QED
  BY <1>2, <1>3, <1>4, <1>5

\* What a decision has read when it writes.
LEMMA ReadToWrite ==
    ASSUME Inv, NEW s \in Slots, NEW t, t = tx[s], t.pc = "write"
    PROVE  /\ t.target \in Recorded /\ t.seenRow \in VersionRow
           /\ t.seenRow.fingerprint = version[t.target].fingerprint
           /\ \A w \in DOMAIN t.others :
                  /\ w \in Recorded /\ t.others[w] \in VersionRow
                  /\ t.others[w].status = "approved"
                  /\ t.others[w].fingerprint = version[w].fingerprint
  BY OfSlot DEF Read, CopyOf

LEMMA ApprovalEffect ==
    ASSUME Inv, NEW s \in Slots, WriteApproval(s), NEW t, t = tx[s]
    PROVE  /\ TypeOK'
           /\ \A v \in Recorded : /\ version'[v] \in VersionRow
                                  /\ version'[v].number = version[v].number
                                  /\ version'[v].fingerprint = version[v].fingerprint
           /\ \A v \in VersionIds \ Recorded : version'[v] = version[v]
           /\ \A w \in DOMAIN t.others : w # t.target => version'[w].status = "superseded"
           /\ \A w \in Recorded \ {t.target} :
                  version'[w].status = "approved" => version[w].status = "approved"
           /\ t.seenRow.status = "approved" =>
                  version'[t.target].status = version[t.target].status
<1>1. /\ t.pc = "write" /\ t.target \in Recorded /\ t.seenRow \in VersionRow
      /\ t.seenRow.fingerprint = version[t.target].fingerprint
      /\ \A w \in DOMAIN t.others :
             w \in Recorded /\ t.others[w] \in VersionRow /\ t.others[w].status = "approved"
  BY ReadToWrite DEF WriteApproval, At
<1>2. /\ version' = [w \in VersionIds |->
                        IF w = t.target
                        THEN Overwrite(version[w], t.seenRow, AsApproved(t.seenRow))
                        ELSE IF w \in DOMAIN t.others
                        THEN Overwrite(version[w], t.others[w], AsSuperseded(t.others[w]))
                        ELSE version[w]]
      /\ feature' = IF t.wasCurrent THEN feature ELSE PointAt(t.seenRow.fingerprint, t.target)
      /\ decision' = [decision EXCEPT ![t.target] = "approve"]
  BY DEF WriteApproval
<1>3. TypeOK /\ \A v \in Recorded : v \in VersionIds /\ version[v] \in VersionRow
  BY OfSlot
<1>4. /\ version'[t.target] \in VersionRow
      /\ version'[t.target].number = version[t.target].number
      /\ version'[t.target].fingerprint = version[t.target].fingerprint
      /\ t.seenRow.status = "approved" =>
             version'[t.target].status = version[t.target].status
  <2>1. version'[t.target] = Overwrite(version[t.target], t.seenRow, AsApproved(t.seenRow))
    BY <1>1, <1>2, <1>3
  <2>2. AsApproved(t.seenRow) \in VersionRow /\ AsApproved(t.seenRow).status = "approved"
    BY <1>1, WritersKeepRows
  <2> QED
    BY <1>1, <1>3, <2>1, <2>2, OverwriteKeepsRow
<1>5. ASSUME NEW w \in DOMAIN t.others, w # t.target
      PROVE  /\ version'[w] \in VersionRow
             /\ version'[w].number = version[w].number
             /\ version'[w].fingerprint = version[w].fingerprint
             /\ version'[w].status = "superseded"
  <2>1. version'[w] = Overwrite(version[w], t.others[w], AsSuperseded(t.others[w]))
    BY <1>1, <1>2, <1>3, <1>5
  <2>2. AsSuperseded(t.others[w]) \in VersionRow /\ AsSuperseded(t.others[w]).status = "superseded"
    BY <1>1, WritersKeepRows
  <2> QED
    BY <1>1, <1>3, <2>1, <2>2, OverwriteKeepsRow
<1>6. \A w \in VersionIds : w # t.target /\ w \notin DOMAIN t.others => version'[w] = version[w]
  BY <1>2
<1>7. /\ \A v \in Recorded : /\ version'[v] \in VersionRow
                             /\ version'[v].number = version[v].number
                             /\ version'[v].fingerprint = version[v].fingerprint
      /\ \A v \in VersionIds \ Recorded : version'[v] = version[v]
  BY <1>1, <1>3, <1>4, <1>5, <1>6
<1>8. TypeOK'
  <2>1. version' \in [VersionIds -> VersionRow \cup {NoRow}]
    BY <1>2, <1>3, <1>7, RecordedRows
  <2>2. feature' \in FeatureRow
    BY <1>1, <1>2, <1>3 DEF TypeOK, FeatureRow, PointAt, VersionRow
  <2> QED
    BY <1>2, <1>3, <2>1, <2>2 DEF TypeOK
<1>9. \A w \in Recorded \ {t.target} :
          version'[w].status = "approved" => version[w].status = "approved"
  BY <1>3, <1>5, <1>6
<1> QED
  BY <1>4, <1>5, <1>7, <1>8, <1>9

LEMMA WriteApprovalKeeps ==
    ASSUME Inv, NEW s \in Slots, WriteApproval(s)
    PROVE  Inv'
<1>1. PICK t : /\ t = tx[s] /\ t.pc = "write" /\ Step(s, NoTx)
               /\ ~WriteWaits(s) /\ ~PromotionConflicts(s)
               /\ feature' = IF t.wasCurrent THEN feature
                             ELSE PointAt(t.seenRow.fingerprint, t.target)
  BY DEF WriteApproval, Finish, Step, At
<1>2. /\ TypeOK'
      /\ \A v \in Recorded : /\ version'[v] \in VersionRow
                             /\ version'[v].number = version[v].number
                             /\ version'[v].fingerprint = version[v].fingerprint
      /\ \A v \in VersionIds \ Recorded : version'[v] = version[v]
      /\ \A w \in DOMAIN t.others : w # t.target => version'[w].status = "superseded"
      /\ \A w \in Recorded \ {t.target} :
             version'[w].status = "approved" => version[w].status = "approved"
      /\ t.seenRow.status = "approved" =>
             version'[t.target].status = version[t.target].status
  BY <1>1, ApprovalEffect
<1>3. \/ feature' = feature
      \/ \E v \in Recorded : feature'.fingerprint = version[v].fingerprint
  BY <1>1, ReadToWrite DEF PointAt
<1>4. ASSUME PartialIndex PROVE OneApproved'
  <2>1. \A w \in Approved' : w \in Recorded
    BY <1>2, RecordedRows DEF Approved, Inv, Tables
  <2>2. CASE t.seenRow.status = "approved"
    <3>1. \A w \in Approved' : w \in Approved
      BY <1>2, <2>1, <2>2, OfSlot DEF Approved
    <3> QED
      BY <1>4, <3>1 DEF Inv, Tables, OneApproved
  <2>3. CASE t.seenRow.status # "approved"
    <3>1. \A w \in Approved \ {t.target} : w \in DOMAIN t.others
      BY <1>1, <1>4, <2>3 DEF PromotionConflicts
    <3>2. \A w \in Approved' : w = t.target
      BY <1>2, <2>1, <3>1, OfSlot DEF Approved
    <3> QED
      BY <3>2 DEF OneApproved
  <2> QED
    BY <2>2, <2>3
<1>5. Keeps /\ Tables' /\ Recorded' = Recorded
  BY <1>2, <1>3, <1>4, UpdatesKeepTables
<1>6. Requests' /\ tx'[s] = NoTx /\ \A o \in Slots \ {s} : tx'[o] = tx[o]
  BY <1>1, <1>5, NoTxRests, RequestMoves
<1>7. \A r \in Slots \ {s} : Inserts(tx[r]) => RowOf(tx[r]).status = "candidate"
  <2>1. SUFFICES ASSUME NEW r \in Slots \ {s}, Inserts(tx[r])
                 PROVE  RowOf(tx[r]).status = "candidate"
    OBVIOUS
  <2>2. tx[r].loaded # NoFingerprint
    BY <1>1, <2>1, OfSlot DEF WriteWaits
  <2>3. tx[r] \in Tx /\ tx[r].fp \in Fingerprints /\ tx[r].fp # tx[r].loaded
    BY <2>1, OfSlot DEF Read
  <2> QED
    BY <2>1, <2>2, <2>3, RowOfRequest DEF Changed, Inserts
<1>8. Reserved'
  BY <1>5, <1>6, <1>7, UpdatesKeepReserved
<1> QED
  BY <1>5, <1>6, <1>8 DEF Inv

LEMMA RejectionEffect ==
    ASSUME Inv, NEW s \in Slots, WriteRejection(s), NEW t, t = tx[s]
    PROVE  /\ TypeOK'
           /\ \A v \in Recorded : /\ version'[v] \in VersionRow
                                  /\ version'[v].number = version[v].number
                                  /\ version'[v].fingerprint = version[v].fingerprint
                                  /\ version'[v].status = "approved" => version[v].status = "approved"
           /\ \A v \in VersionIds \ Recorded : version'[v] = version[v]
           /\ \/ feature' = feature
              \/ \E v \in Recorded : feature'.fingerprint = version[v].fingerprint
<1>1. /\ t.target \in Recorded /\ t.seenRow \in VersionRow
      /\ \A w \in DOMAIN t.others :
             /\ w \in Recorded /\ t.others[w] \in VersionRow
             /\ t.others[w].fingerprint = version[w].fingerprint
  BY ReadToWrite DEF WriteRejection, At
<1>2. /\ version' = [version EXCEPT ![t.target] =
                        Overwrite(version[t.target], t.seenRow, AsRejected(t.seenRow))]
      /\ \/ feature' = feature
         \/ \E w \in DOMAIN t.others : feature' = PointAt(t.others[w].fingerprint, w)
      /\ decision' = [decision EXCEPT ![t.target] = "reject"]
  BY DEF WriteRejection
<1>3. TypeOK /\ \A v \in Recorded : v \in VersionIds /\ version[v] \in VersionRow
  BY OfSlot
<1>4. AsRejected(t.seenRow) \in VersionRow /\ AsRejected(t.seenRow).status = "rejected"
  BY <1>1, WritersKeepRows
<1>5. /\ version'[t.target] = Overwrite(version[t.target], t.seenRow, AsRejected(t.seenRow))
      /\ \A w \in VersionIds \ {t.target} : version'[w] = version[w]
      /\ DOMAIN version' = VersionIds
  BY <1>1, <1>2, <1>3 DEF TypeOK
<1>6. /\ version'[t.target] \in VersionRow
      /\ version'[t.target].number = version[t.target].number
      /\ version'[t.target].fingerprint = version[t.target].fingerprint
      /\ version'[t.target].status = "approved" => version[t.target].status = "approved"
  BY <1>1, <1>3, <1>4, <1>5, OverwriteKeepsRow
<1>7. version' \in [VersionIds -> VersionRow \cup {NoRow}]
  BY <1>1, <1>2, <1>3, <1>5, <1>6 DEF TypeOK
<1>8. /\ feature' \in FeatureRow
      /\ \/ feature' = feature
         \/ \E v \in Recorded : feature'.fingerprint = version[v].fingerprint
  <2>1. CASE feature' = feature
    BY <1>3, <2>1 DEF TypeOK
  <2>2. CASE \E w \in DOMAIN t.others : feature' = PointAt(t.others[w].fingerprint, w)
    <3>1. PICK w \in DOMAIN t.others : feature' = PointAt(t.others[w].fingerprint, w)
      BY <2>2
    <3>2. w \in VersionIds /\ t.others[w].fingerprint \in Fingerprints
      BY <1>1, <1>3 DEF VersionRow
    <3> QED
      BY <1>1, <3>1, <3>2 DEF FeatureRow, PointAt
  <2> QED
    BY <1>2, <2>1, <2>2
<1>9. TypeOK'
  BY <1>2, <1>3, <1>7, <1>8 DEF TypeOK
<1>10. /\ \A v \in Recorded \ {t.target} : version'[v] = version[v] /\ version'[v] \in VersionRow
       /\ \A v \in VersionIds \ Recorded : version'[v] = version[v]
  BY <1>1, <1>3, <1>5
<1> QED
  BY <1>6, <1>8, <1>9, <1>10

LEMMA WriteRejectionKeeps ==
    ASSUME Inv, NEW s \in Slots, WriteRejection(s)
    PROVE  Inv'
<1>1. PICK t : t = tx[s] /\ Step(s, NoTx)
  BY DEF WriteRejection, Finish, Step
<1>2. /\ TypeOK'
      /\ \A v \in Recorded : /\ version'[v] \in VersionRow
                             /\ version'[v].number = version[v].number
                             /\ version'[v].fingerprint = version[v].fingerprint
                             /\ version'[v].status = "approved" => version[v].status = "approved"
      /\ \A v \in VersionIds \ Recorded : version'[v] = version[v]
      /\ \/ feature' = feature
         \/ \E v \in Recorded : feature'.fingerprint = version[v].fingerprint
  BY <1>1, RejectionEffect
<1>3. PartialIndex => OneApproved'
  <2>1. \A w \in Approved' : w \in Approved
    BY <1>2, RecordedRows DEF Approved, Inv, Tables
  <2> QED
    BY <2>1 DEF Inv, Tables, OneApproved
<1>4. Keeps /\ Tables' /\ Recorded' = Recorded
  BY <1>2, <1>3, UpdatesKeepTables
<1>5. Requests' /\ tx'[s] = NoTx /\ \A o \in Slots \ {s} : tx'[o] = tx[o]
  BY <1>1, <1>4, NoTxRests, RequestMoves
<1>6. Reserved'
  BY <1>2, <1>4, <1>5, UpdatesKeepReserved
<1> QED
  BY <1>4, <1>5, <1>6 DEF Inv

-----------------------------------------------------------------------------
(* Requests with any keys. *)

LEMMA InitInv == RCInit => Inv
<1> SUFFICES ASSUME RCInit PROVE Inv
  OBVIOUS
<1>1. CoreInv /\ Recorded = {} /\ feature.fingerprint = NoFingerprint
  BY InitCore DEF RCInit, Init, Recorded, PointAt
<1>2. Tables
  BY <1>1, FS_EmptySet DEF CoreInv, Tables, NumberingInv, VersionsNumbered, Known
<1>3. Requests
  BY NoTxRests DEF RCInit, Requests
<1>4. Reserved
  BY NoTxRests DEF RCInit, Reserved, Inserts
<1> QED
  BY <1>2, <1>3, <1>4 DEF Inv

LEMMA InvStays == Inv /\ UNCHANGED rcVars => Inv'
<1> SUFFICES ASSUME Inv, UNCHANGED rcVars PROVE Inv'
  OBVIOUS
<1>1. UNCHANGED vars /\ tx' = tx /\ Recorded' = Recorded /\ version' = version
  BY DEF rcVars, vars, Recorded
<1>2. Tables'
  BY <1>1, TablesStand
<1>3. Requests' /\ Reserved'
  BY <1>1 DEF Inv, Requests, Reserved, Read, Known, CopyOf
<1> QED
  BY <1>2, <1>3 DEF Inv

LEMMA NextKeepsInv == Inv /\ [RCNext]_rcVars => Inv'
<1> SUFFICES ASSUME Inv, RCNext PROVE Inv'
  BY InvStays
<1>1. PICK s \in Slots : (\E op \in Ops : Authenticate(s, op)) \/ Continue(s)
  BY DEF RCNext
<1>2. CASE \E op \in Ops : Authenticate(s, op)
  BY <1>2, AuthenticateKeeps
<1>3. CASE InsertFails(s) \/ ProviderFails(s) \/ ApprovalFails(s)
  BY <1>3, Finishes DEF InsertFails, ProviderFails, ApprovalFails
<1>4. CASE FindRecorded(s) \/ FindNone(s) \/ InsertVersion(s) \/ CommitExecution(s)
  BY <1>4, FindRecordedKeeps, FindNoneKeeps, InsertVersionKeeps, CommitKeeps
<1>5. CASE LoadTarget(s) \/ LoadOthers(s) \/ WriteApproval(s) \/ WriteRejection(s)
  BY <1>5, LoadTargetKeeps, LoadOthersKeeps, WriteApprovalKeeps, WriteRejectionKeeps
<1> QED
  BY <1>1, <1>2, <1>3, <1>4, <1>5 DEF Continue

LEMMA Invariance == RCSpec => []Inv
  BY InitInv, NextKeepsInv, PTL DEF RCSpec

\* However requests overlap, the columns they write separately add up to rows of the table.
THEOREM ConcurrentTypes == RCSpec => []TypeOK
  BY Invariance, PTL DEF Inv, Tables

\* However requests overlap, the unique constraints and the numbering from the latest version
\* give each version a number and a fingerprint of its own, without gaps: a failed insert
\* leaves none behind.
THEOREM ConcurrentNumbering == RCSpec => []VersionsNumbered
  BY Invariance, PTL DEF Inv, Tables, NumberingInv

\* With the partial index, no overlap of requests leaves two versions approved.
THEOREM IndexKeepsOneApproved ==
    ASSUME PartialIndex PROVE RCSpec => []OneApproved
<1>1. Inv => OneApproved
  BY DEF Inv, Tables
<1> QED
  BY <1>1, Invariance, PTL

-----------------------------------------------------------------------------
(* Requests with one key, each step as FeatureVersions takes it. *)

LEMMA OverwriteFresh ==
    ASSUME NEW row \in VersionRow
    PROVE  /\ Overwrite(row, row, AsApproved(row)) = AsApproved(row)
           /\ Overwrite(row, row, AsSuperseded(row)) = AsSuperseded(row)
           /\ Overwrite(row, row, AsRejected(row)) = AsRejected(row)
<1>1. ASSUME NEW status \in Statuses, NEW stamps \in SUBSET Stamps
      PROVE  LET new == [row EXCEPT !.status = status, !.stamps = stamps]
             IN  Overwrite(row, row, new) = new
  <2> DEFINE new == [row EXCEPT !.status = status, !.stamps = stamps]
  <2>1. new.status = status /\ new.stamps = stamps
    BY DEF VersionRow
  <2> HIDE DEF new
  <2>2. /\ (IF new.status = row.status THEN row.status ELSE new.status) = status
        /\ (row.stamps \ (row.stamps \ new.stamps)) \cup new.stamps = stamps
    BY <2>1
  <2>3. Overwrite(row, row, new) = [row EXCEPT !.status = status, !.stamps = stamps]
    BY <2>2 DEF Overwrite, VersionRow
  <2> QED
    BY <2>3 DEF new
<1>2. /\ {"approved", "superseded", "rejected"} \subseteq Statuses
      /\ {"approved_at"} \subseteq Stamps /\ {"superseded_at"} \subseteq Stamps
      /\ {"rejected_at"} \subseteq Stamps
  BY DEF Statuses, Stamps
<1> QED
  BY <1>1, <1>2 DEF AsApproved, AsSuperseded, AsRejected

LEMMA CommitCreates ==
    ASSUME SerialInv, NEW s \in Slots, CommitExecution(s)
    PROVE  [Next]_vars
<1>1. PICK t : t = tx[s]
  OBVIOUS
<1>2. CASE ~Inserts(t)
  BY <1>1, <1>2, OfSlot DEF CommitExecution, SerialInv, vars
<1>3. CASE Inserts(t)
  <2>1. /\ t \in Tx /\ t.fp \in Fingerprints /\ t.target \in VersionIds \ Recorded
        /\ \A w \in Recorded : ~Conflicts(RowOf(t), version[w])
    BY <1>1, <1>3, CommitEffect DEF SerialInv, Inv, Reserved
  <2>2. t.loaded = feature.fingerprint /\ t.number \in NextNumbers
    BY <1>1, <1>3 DEF SerialInv, Fresh
  <2>3. RowOf(t).status = IF Changed(t.loaded, t.fp) THEN "candidate" ELSE "approved"
    BY <1>3, <2>1, RowOfRequest DEF Inserts
  <2>4. PartialIndex /\ ~Changed(feature.fingerprint, t.fp) => Approved = {}
    BY <2>1, <2>2, <2>3, RecordedRows DEF Conflicts, Approved, SerialInv, CoreInv
  <2>5. \A w \in Recorded : version[w].fingerprint # t.fp
    BY <1>3, <2>1, RowOfRequest DEF Conflicts, Inserts
  <2>6. /\ version' = [version EXCEPT ![t.target] = NewRow(feature.fingerprint, t.fp, t.number)]
        /\ feature' = PointAtFirst(feature, t.fp, t.target)
        /\ decision' = decision
    BY <1>1, <1>3, <2>2, OfSlot DEF CommitExecution, RowOf, PointAtFirst, SerialInv
  <2>7. CreateVersion(t.target, t.fp)
    BY <2>1, <2>2, <2>4, <2>5, <2>6 DEF CreateVersion
  <2> QED
    BY <2>1, <2>7 DEF Next
<1> QED
  BY <1>2, <1>3

LEMMA WriteApprovalApproves ==
    ASSUME SerialInv, NEW s \in Slots, WriteApproval(s)
    PROVE  [Next]_vars
<1>1. PICK t : /\ t = tx[s] /\ t.pc = "write" /\ t.op = "approve"
               /\ ~PromotionConflicts(s)
  BY DEF WriteApproval, At
<1>2. /\ t.target \in Recorded /\ t.target \in VersionIds /\ TypeOK
      /\ t.seenRow = version[t.target] /\ DOMAIN t.others = Approved \ {t.target}
      /\ \A w \in Approved \ {t.target} : t.others[w] = version[w]
      /\ t.wasCurrent = (feature.version = t.target)
  BY <1>1, OfSlot DEF Read, SerialInv, Fresh
<1>3. ~PromotedTooEarly(t.target)
  <2>1. SUFFICES ASSUME PartialIndex, NEW w \in Approved \ {t.target}, t.target < w PROVE FALSE
    BY DEF PromotedTooEarly
  <2>2. version[t.target].status # "approved"
    BY <1>2, <2>1 DEF SerialInv, CoreInv, OneApproved, Approved
  <2>3. w \in Nat /\ t.target \in Nat
    BY <1>2, VersionIdsAreOrdered DEF Approved
  <2> QED
    BY <1>1, <1>2, <2>1, <2>2, <2>3 DEF PromotionConflicts
<1>4. version' = [w \in VersionIds |->
                      IF w = t.target THEN AsApproved(version[w])
                      ELSE IF w \in Approved THEN AsSuperseded(version[w])
                      ELSE version[w]]
  <2>1. version' = [w \in VersionIds |->
                        IF w = t.target
                        THEN Overwrite(version[w], t.seenRow, AsApproved(t.seenRow))
                        ELSE IF w \in DOMAIN t.others
                        THEN Overwrite(version[w], t.others[w], AsSuperseded(t.others[w]))
                        ELSE version[w]]
    BY <1>1 DEF WriteApproval
  <2>2. Overwrite(version[t.target], t.seenRow, AsApproved(t.seenRow)) = AsApproved(version[t.target])
    BY <1>2, OverwriteFresh, RecordedRows
  <2>3. \A w \in Approved \ {t.target} :
            Overwrite(version[w], t.others[w], AsSuperseded(t.others[w])) = AsSuperseded(version[w])
    BY <1>2, OverwriteFresh, RecordedRows
  <2> QED
    BY <1>2, <2>1, <2>2, <2>3
<1>5. feature' = PointAt(version[t.target].fingerprint, t.target)
  <2>1. feature' = IF t.wasCurrent THEN feature ELSE PointAt(t.seenRow.fingerprint, t.target)
    BY <1>1 DEF WriteApproval
  <2>2. CASE t.wasCurrent
    <3>1. /\ feature.version = t.target /\ t.target # NoVersion
          /\ feature.fingerprint = version[t.target].fingerprint
      BY <1>2, <2>2, VersionIdsAreOrdered DEF SerialInv, CoreInv, CurrentIsApproved
    <3>2. feature = PointAt(feature.fingerprint, feature.version)
      BY <1>2 DEF TypeOK, FeatureRow, PointAt
    <3> QED
      BY <2>1, <2>2, <3>1, <3>2
  <2> QED
    BY <1>2, <2>1, <2>2
<1>6. decision' = [decision EXCEPT ![t.target] = "approve"]
  BY <1>1 DEF WriteApproval
<1>7. ApproveFeatureVersion(t.target)
  BY <1>2, <1>3, <1>4, <1>5, <1>6 DEF ApproveFeatureVersion
<1> QED
  BY <1>2, <1>7 DEF Next

LEMMA WriteRejectionRejects ==
    ASSUME SerialInv, NEW s \in Slots, WriteRejection(s)
    PROVE  [Next]_vars
<1>1. PICK t : t = tx[s] /\ t.pc = "write" /\ t.op = "reject"
  BY DEF WriteRejection, At
<1>2. /\ t.target \in Recorded /\ t.target \in VersionIds
      /\ t.seenRow = version[t.target]
      /\ \A w \in DOMAIN t.others : t.others[w] = version[w]
      /\ t.wasCurrent = (feature.version = t.target)
      /\ IF RejectingCurrentApproved(feature.version = t.target, version[t.target])
         THEN \E w \in Approved \ {t.target} : DOMAIN t.others = {w}
         ELSE DOMAIN t.others = {}
  <2>1. t.target \in Recorded /\ t.target \in VersionIds
    BY <1>1, OfSlot DEF Read, SerialInv
  <2> QED
    BY <1>1, <2>1 DEF SerialInv, Fresh
<1>3. version' = [version EXCEPT ![t.target] = AsRejected(version[t.target])]
  <2>1. version' = [version EXCEPT ![t.target] =
                        Overwrite(version[t.target], t.seenRow, AsRejected(t.seenRow))]
    BY <1>1 DEF WriteRejection
  <2> QED
    BY <1>2, <2>1, OverwriteFresh, RecordedRows DEF SerialInv, CoreInv
<1>4. IF RejectingCurrentApproved(feature.version = t.target, version[t.target])
      THEN \E w \in Approved \ {t.target} : feature' = PointAt(version[w].fingerprint, w)
      ELSE UNCHANGED feature
  <2>1. IF DOMAIN t.others = {} THEN UNCHANGED feature
        ELSE \E w \in DOMAIN t.others : feature' = PointAt(t.others[w].fingerprint, w)
    BY <1>1 DEF WriteRejection
  <2>2. CASE RejectingCurrentApproved(feature.version = t.target, version[t.target])
    <3>1. PICK w \in Approved \ {t.target} : DOMAIN t.others = {w}
      BY <1>2, <2>2
    <3>2. feature' = PointAt(version[w].fingerprint, w)
      BY <1>2, <2>1, <3>1
    <3> QED
      BY <2>2, <3>2
  <2>3. CASE ~RejectingCurrentApproved(feature.version = t.target, version[t.target])
    BY <1>2, <2>1, <2>3
  <2> QED
    BY <2>2, <2>3
<1>5. decision' = [decision EXCEPT ![t.target] = "reject"]
  BY <1>1 DEF WriteRejection
<1>6. RejectFeatureVersion(t.target)
  BY <1>2, <1>3, <1>4, <1>5 DEF RejectFeatureVersion
<1> QED
  BY <1>2, <1>6 DEF Next

LEMMA StepRefines == SerialInv /\ [RCNext]_rcVars => [Next]_vars
<1> SUFFICES ASSUME SerialInv, RCNext, ~UNCHANGED vars PROVE [Next]_vars
  BY DEF rcVars, vars
<1>1. PICK s \in Slots : CommitExecution(s) \/ WriteApproval(s) \/ WriteRejection(s)
  BY DEF RCNext, Continue, Authenticate, FindRecorded, FindNone, InsertVersion,
     InsertFails, ProviderFails, LoadTarget, LoadOthers, ApprovalFails
<1> QED
  BY <1>1, CommitCreates, WriteApprovalApproves, WriteRejectionRejects

-----------------------------------------------------------------------------
(* Requests with one key: nothing read goes stale. *)

LEMMA NoTxFresh == Fresh(NoTx)
  BY NoTxRests DEF Fresh, Inserts

LEMMA FreshStays ==
    ASSUME UNCHANGED vars, NEW t, Fresh(t)
    PROVE  Fresh(t)'
<1>1. /\ Recorded' = Recorded /\ Approved' = Approved /\ Latest' = Latest
      /\ NextNumbers' = NextNumbers /\ version' = version /\ feature' = feature
  BY DEF vars, Recorded, Approved, Latest, NextNumbers
<1> QED
  BY <1>1 DEF Fresh

LEMMA OthersRest ==
    ASSUME SerialInv, NEW s \in Slots, Working(s)
    PROVE  \A o \in Slots \ {s} : tx[o] = NoTx
  BY OfSlot DEF SerialInv, OneAtWork, Working, Read

\* Only the slot at work moves, and what it has read is fresh.
LEMMA Serially ==
    ASSUME SerialInv, [RCNext]_rcVars, NEW s \in Slots,
           \A o \in Slots \ {s} : tx'[o] = NoTx, NEW t, tx'[s] = t, Fresh(t)'
    PROVE  SerialInv'
<1>1. Inv'
  BY NextKeepsInv DEF SerialInv
<1>2. CoreInv'
  BY StepRefines, NextKeepsCore DEF SerialInv
<1>3. OneAtWork'
  BY NoTxRests DEF OneAtWork, Working
<1>4. ASSUME NEW o \in Slots PROVE Fresh(tx[o])'
  <2>1. PICK q : q = tx'[o]
    OBVIOUS
  <2>2. Fresh(q)'
    <3>1. CASE o = s
      BY <2>1, <3>1
    <3>2. CASE o # s
      <4>1. q = NoTx
        BY <2>1, <3>2
      <4> QED
        BY <4>1, NoTxRests DEF Fresh, Inserts
    <3> QED
      BY <3>1, <3>2
  <2> QED
    BY <2>1, <2>2 DEF Fresh
<1> QED
  BY <1>1, <1>2, <1>3, <1>4 DEF SerialInv

LEMMA SeriallyReads ==
    ASSUME SerialInv, [RCNext]_rcVars, UNCHANGED vars, NEW s \in Slots,
           \A o \in Slots \ {s} : tx[o] = NoTx, NEW t, Step(s, t), Fresh(t)
    PROVE  SerialInv'
<1>1. tx'[s] = t /\ \A o \in Slots \ {s} : tx'[o] = NoTx
  BY DEF Step, SerialInv, Inv, Requests
<1> QED
  BY <1>1, FreshStays, Serially

LEMMA SeriallyFinishes ==
    ASSUME SerialInv, [RCNext]_rcVars, NEW s \in Slots, Working(s), Finish(s)
    PROVE  SerialInv'
<1>1. tx'[s] = NoTx /\ \A o \in Slots \ {s} : tx'[o] = NoTx
  BY OthersRest DEF Finish, SerialInv, Inv, Requests
<1>2. Fresh(NoTx)'
  BY NoTxRests DEF Fresh, Inserts
<1> QED
  BY <1>1, <1>2, Serially

LEMMA AuthenticateSerially ==
    ASSUME SharedKey, SerialInv, [RCNext]_rcVars, NEW s \in Slots, NEW op \in Ops, Authenticate(s, op)
    PROVE  SerialInv'
<1>1. UNCHANGED vars /\ NoTx \in Tx
  BY NoTxRests DEF Authenticate
<1>2. \A o \in Slots \ {s} : tx[o] = NoTx
  <2>1. \A o \in Slots : tx[o].pc = "idle"
    BY DEF Authenticate, KeyLocked, SharedKey, At
  <2> QED
    BY <2>1, OfSlot DEF Read, SerialInv
<1>3. CASE op = "execute"
  <2>1. PICK fp \in Fingerprints :
            Step(s, [NoTx EXCEPT !.op = op, !.pc = "find", !.fp = fp,
                       !.loaded = feature.fingerprint])
    BY <1>3 DEF Authenticate
  <2> DEFINE t == [NoTx EXCEPT !.op = op, !.pc = "find", !.fp = fp, !.loaded = feature.fingerprint]
  <2>2. t.pc = "find" /\ t.loaded = feature.fingerprint
    BY <1>1 DEF Tx
  <2>3. Step(s, t)
    BY <2>1
  <2> HIDE DEF t
  <2>4. Fresh(t)
    BY <2>2 DEF Fresh, Inserts
  <2> QED
    BY <1>1, <1>2, <2>3, <2>4, SeriallyReads
<1>4. CASE op # "execute"
  <2>1. PICK v \in Recorded :
            Step(s, [NoTx EXCEPT !.op = op, !.pc = "load", !.target = v,
                       !.wasCurrent = (feature.version = v)])
    BY <1>4 DEF Authenticate
  <2> DEFINE t == [NoTx EXCEPT !.op = op, !.pc = "load", !.target = v,
                     !.wasCurrent = (feature.version = v)]
  <2>2. t.pc = "load" /\ t.target = v /\ t.wasCurrent = (feature.version = v)
    BY <1>1 DEF Tx
  <2>3. Step(s, t)
    BY <2>1
  <2> HIDE DEF t
  <2>4. Fresh(t)
    BY <2>2 DEF Fresh, Inserts
  <2> QED
    BY <1>1, <1>2, <2>3, <2>4, SeriallyReads
<1> QED
  BY <1>3, <1>4

LEMMA FindSerially ==
    ASSUME SerialInv, [RCNext]_rcVars, NEW s \in Slots, FindRecorded(s) \/ FindNone(s)
    PROVE  SerialInv'
<1>1. /\ UNCHANGED vars /\ NoTx \in Tx /\ tx[s] \in Tx /\ tx[s].pc = "find"
      /\ Working(s) /\ tx[s].loaded = feature.fingerprint
  BY NoTxRests, OfSlot DEF FindRecorded, FindNone, At, Working, SerialInv, Fresh
<1>2. \A o \in Slots \ {s} : tx[o] = NoTx
  BY <1>1, OthersRest
<1>3. CASE Finish(s)
  BY <1>1, <1>3, SeriallyFinishes
<1>4. CASE \E v \in Recorded :
               /\ version[v].status \notin {"rejected", "superseded"}
               /\ Step(s, [NoTx EXCEPT !.op = "execute", !.pc = "provider", !.target = v])
  <2>1. PICK v \in Recorded :
            /\ version[v].status \notin {"rejected", "superseded"}
            /\ Step(s, [NoTx EXCEPT !.op = "execute", !.pc = "provider", !.target = v])
    BY <1>4
  <2> DEFINE t == [NoTx EXCEPT !.op = "execute", !.pc = "provider", !.target = v]
  <2>2. t.pc = "provider" /\ t.number = 0 /\ t.target = v
    BY <1>1 DEF Tx, NoTx
  <2>3. Step(s, t)
    BY <2>1
  <2> HIDE DEF t
  <2>4. Fresh(t)
    BY <2>1, <2>2 DEF Fresh, Inserts
  <2> QED
    BY <1>1, <1>2, <2>3, <2>4, SeriallyReads
<1>5. CASE FindNone(s)
  <2>1. PICK n \in NextNumbers : Step(s, [tx[s] EXCEPT !.pc = "insert", !.number = n])
    BY <1>5 DEF FindNone
  <2> DEFINE t == [tx[s] EXCEPT !.pc = "insert", !.number = n]
  <2>2. t.pc = "insert" /\ t.number = n /\ t.loaded = tx[s].loaded
    BY <1>1 DEF Tx
  <2>3. Step(s, t)
    BY <2>1
  <2> HIDE DEF t
  <2>4. Fresh(t)
    BY <1>1, <2>2 DEF Fresh, Inserts
  <2> QED
    BY <1>1, <1>2, <2>3, <2>4, SeriallyReads
<1> QED
  BY <1>3, <1>4, <1>5 DEF FindRecorded

LEMMA InsertSerially ==
    ASSUME SerialInv, [RCNext]_rcVars, NEW s \in Slots, InsertVersion(s)
    PROVE  SerialInv'
<1>1. /\ UNCHANGED vars /\ tx[s] \in Tx /\ tx[s].pc = "insert" /\ Working(s)
      /\ tx[s].loaded = feature.fingerprint /\ tx[s].number \in NextNumbers
  BY OfSlot DEF InsertVersion, At, Working, SerialInv, Fresh
<1>2. \A o \in Slots \ {s} : tx[o] = NoTx
  BY <1>1, OthersRest
<1>3. PICK v : Step(s, [tx[s] EXCEPT !.pc = "provider", !.target = v])
  BY DEF InsertVersion
<1> DEFINE t == [tx[s] EXCEPT !.pc = "provider", !.target = v]
<1>4. t.pc = "provider" /\ t.number = tx[s].number /\ t.loaded = tx[s].loaded
  BY <1>1 DEF Tx
<1>5. Step(s, t)
  BY <1>3
<1> HIDE DEF t
<1>6. t.number # 0
  BY <1>1, <1>4, NextNumbersArePositive DEF SerialInv, CoreInv
<1>7. Fresh(t)
  BY <1>1, <1>4, <1>6 DEF Fresh, Inserts
<1> QED
  BY <1>1, <1>2, <1>5, <1>7, SeriallyReads

LEMMA LoadTargetSerially ==
    ASSUME SerialInv, [RCNext]_rcVars, NEW s \in Slots, LoadTarget(s)
    PROVE  SerialInv'
<1>1. /\ UNCHANGED vars /\ tx[s] \in Tx /\ Read(tx[s]) /\ tx[s].pc = "load" /\ Working(s)
      /\ tx[s].wasCurrent = (feature.version = tx[s].target)
  BY OfSlot DEF LoadTarget, At, Working, SerialInv, Fresh
<1>2. \A o \in Slots \ {s} : tx[o] = NoTx
  BY <1>1, OthersRest
<1> DEFINE rejecting == RejectingCurrentApproved(tx[s].wasCurrent, version[tx[s].target])
           pc == IF tx[s].op = "approve" \/ rejecting THEN "others" ELSE "write"
           t == [tx[s] EXCEPT !.seenRow = version[tx[s].target], !.pc = pc]
<1>3. /\ t.pc = pc /\ t.seenRow = version[tx[s].target] /\ t.target = tx[s].target
      /\ t.op = tx[s].op /\ t.wasCurrent = tx[s].wasCurrent /\ t.others = tx[s].others
  BY <1>1 DEF Tx
<1>4. Step(s, t)
  BY DEF LoadTarget
<1> HIDE DEF t
<1>5. tx[s].op \in {"approve", "reject"} /\ DOMAIN t.others = {}
  BY <1>1, <1>3 DEF Read
<1>6. CASE pc = "others"
  BY <1>1, <1>2, <1>3, <1>4, <1>5, <1>6, SeriallyReads DEF Fresh, Inserts
<1>7. CASE pc = "write"
  <2>1. t.op = "reject" /\ ~RejectingCurrentApproved(t.wasCurrent, t.seenRow)
    BY <1>3, <1>5, <1>7
  <2>2. Fresh(t)
    BY <1>1, <1>3, <1>5, <1>7, <2>1 DEF Fresh, Inserts
  <2> QED
    BY <1>1, <1>2, <1>4, <2>2, SeriallyReads
<1> QED
  BY <1>6, <1>7

LEMMA LoadOthersSerially ==
    ASSUME SerialInv, [RCNext]_rcVars, NEW s \in Slots, LoadOthers(s)
    PROVE  SerialInv'
<1>1. /\ UNCHANGED vars /\ tx[s] \in Tx /\ tx[s].pc = "others" /\ Working(s)
      /\ tx[s].wasCurrent = (feature.version = tx[s].target)
      /\ tx[s].seenRow = version[tx[s].target]
      /\ tx[s].op = "reject" => RejectingCurrentApproved(tx[s].wasCurrent, tx[s].seenRow)
  BY OfSlot DEF LoadOthers, At, Working, SerialInv, Fresh
<1>2. \A o \in Slots \ {s} : tx[o] = NoTx
  BY <1>1, OthersRest
<1>3. CASE Finish(s)
  BY <1>1, <1>3, SeriallyFinishes
<1>4. ASSUME NEW ids \in SUBSET Approved,
             Step(s, [tx[s] EXCEPT !.pc = "write", !.others = [w \in ids |-> version[w]]]),
             \/ tx[s].op = "approve" /\ ids = Approved \ {tx[s].target}
             \/ tx[s].op = "reject" /\ \E w \in Approved \ {tx[s].target} : ids = {w}
      PROVE  SerialInv'
  <2> DEFINE seen == [w \in ids |-> version[w]]
             t == [tx[s] EXCEPT !.pc = "write", !.others = seen]
  <2>1. DOMAIN seen = ids /\ \A w \in ids : seen[w] = version[w]
    OBVIOUS
  <2>2. Step(s, t)
    BY <1>4
  <2> HIDE DEF seen
  <2>3. /\ t.pc = "write" /\ t.seenRow = tx[s].seenRow /\ t.target = tx[s].target
        /\ t.op = tx[s].op /\ t.wasCurrent = tx[s].wasCurrent /\ t.others = seen
    BY <1>1 DEF Tx
  <2> HIDE DEF t
  <2>4. Fresh(t)
    BY <1>1, <1>4, <2>1, <2>3 DEF Fresh, Inserts
  <2> QED
    BY <1>1, <1>2, <2>2, <2>4, SeriallyReads
<1> DEFINE load(ids) == Step(s, [tx[s] EXCEPT !.pc = "write", !.others = [w \in ids |-> version[w]]])
<1>5. \/ Finish(s)
      \/ tx[s].op = "approve" /\ load(Approved \ {tx[s].target})
      \/ tx[s].op = "reject" /\ \E w \in Approved \ {tx[s].target} : load({w})
  BY DEF LoadOthers
<1>6. \A ids \in SUBSET Approved :
          /\ load(ids)
          /\ \/ tx[s].op = "approve" /\ ids = Approved \ {tx[s].target}
             \/ tx[s].op = "reject" /\ \E w \in Approved \ {tx[s].target} : ids = {w}
          => SerialInv'
  BY <1>4
<1> HIDE DEF load
<1>7. /\ Approved \ {tx[s].target} \in SUBSET Approved
      /\ \A w \in Approved \ {tx[s].target} : {w} \in SUBSET Approved
  OBVIOUS
<1>8. CASE tx[s].op = "approve" /\ load(Approved \ {tx[s].target})
  BY <1>6, <1>7, <1>8
<1>9. CASE tx[s].op = "reject" /\ \E w \in Approved \ {tx[s].target} : load({w})
  <2>1. PICK w \in Approved \ {tx[s].target} : load({w})
    BY <1>9
  <2> QED
    BY <1>6, <1>7, <1>9, <2>1
<1> QED
  BY <1>3, <1>5, <1>8, <1>9

LEMMA NextKeepsSerial ==
    ASSUME SharedKey
    PROVE  SerialInv /\ [RCNext]_rcVars => SerialInv'
<1> SUFFICES ASSUME SerialInv, [RCNext]_rcVars PROVE SerialInv'
  OBVIOUS
<1>1. CASE UNCHANGED rcVars
  <2>1. UNCHANGED vars /\ tx' = tx /\ Inv' /\ CoreInv'
    BY <1>1, NextKeepsInv, StepRefines, NextKeepsCore DEF rcVars, vars, SerialInv
  <2>2. OneAtWork'
    BY <2>1 DEF SerialInv, OneAtWork, Working
  <2>3. ASSUME NEW s \in Slots PROVE Fresh(tx[s])'
    <3>1. PICK q : q = tx[s] /\ q = tx'[s] /\ Fresh(q)
      BY <2>1 DEF SerialInv
    <3>2. Fresh(q)'
      BY <2>1, <3>1, FreshStays
    <3> QED
      BY <3>1, <3>2 DEF Fresh
  <2> QED
    BY <2>1, <2>2, <2>3 DEF SerialInv
<1>2. CASE RCNext
  <2>1. PICK s \in Slots : (\E op \in Ops : Authenticate(s, op)) \/ Continue(s)
    BY <1>2 DEF RCNext
  <2>2. CASE \E op \in Ops : Authenticate(s, op)
    BY <2>2, AuthenticateSerially
  <2>3. CASE FindRecorded(s) \/ FindNone(s) \/ InsertVersion(s)
    BY <2>3, FindSerially, InsertSerially
  <2>4. CASE LoadTarget(s) \/ LoadOthers(s)
    BY <2>4, LoadTargetSerially, LoadOthersSerially
  <2>5. CASE \/ InsertFails(s) \/ CommitExecution(s) \/ ProviderFails(s)
             \/ WriteApproval(s) \/ ApprovalFails(s) \/ WriteRejection(s)
    <3>1. Working(s) /\ Finish(s)
      BY <2>5 DEF InsertFails, CommitExecution, ProviderFails, WriteApproval, ApprovalFails,
         WriteRejection, Working, At
    <3> QED
      BY <3>1, SeriallyFinishes
  <2> QED
    BY <2>1, <2>2, <2>3, <2>4, <2>5 DEF Continue
<1> QED
  BY <1>1, <1>2

LEMMA InitSerial == RCInit => SerialInv
<1> SUFFICES ASSUME RCInit PROVE SerialInv
  OBVIOUS
<1>1. Inv /\ CoreInv
  BY InitInv, InitCore DEF RCInit
<1>2. \A s \in Slots : tx[s] = NoTx
  BY DEF RCInit
<1> QED
  BY <1>1, <1>2, NoTxRests, NoTxFresh DEF SerialInv, OneAtWork, Working

LEMMA SerialInvariance ==
    ASSUME SharedKey
    PROVE  RCSpec => []SerialInv
  BY InitSerial, NextKeepsSerial, PTL DEF RCSpec

\* Requests with one key, statement by statement, do to the tables what they would do one
\* after the other: the row lock of the key's last_used_at is what the service's decisions
\* on loaded rows rest on.
THEOREM OneKeyIsSerial ==
    ASSUME SharedKey
    PROVE  RCSpec => Spec
<1>1. RCInit => Init
  BY DEF RCInit
<1> QED
  BY <1>1, StepRefines, SerialInvariance, PTL DEF RCSpec, Spec

\* With one key, the status that let a version be executed still stands when the provider
\* has answered.
THEOREM OneKeyExecutes ==
    ASSUME SharedKey
    PROVE  RCSpec => []ExecutableUntilCommit
<1>1. SerialInv => ExecutableUntilCommit
  BY DEF SerialInv, Inv, Reserved, Fresh, Inserts, ExecutableUntilCommit, At
<1> QED
  BY <1>1, SerialInvariance, PTL

\* With one key, nothing but the first version is approved without a decision on it: what
\* requests with several keys break.
THEOREM OneKeyReviews ==
    ASSUME SharedKey
    PROVE  RCSpec => []ApprovedWasReviewed
<1>1. ApprovedNeedsDecision => ApprovedWasReviewed
  BY DEF ApprovedNeedsDecision, ApprovedWasReviewed
<1> QED
  BY <1>1, OneKeyIsSerial, ApprovedNeedsDecisionHolds, PTL
=============================================================================
