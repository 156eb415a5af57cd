-------------------------- MODULE GovernedChatProofs --------------------------
(***************************************************************************)
(* Proofs about concurrent chat requests, for any number of requests,      *)
(* versions, feature ids and transactions, and any policy.                 *)
(*                                                                         *)
(* Whatever keys the requests carry: a review task that a request has      *)
(* inserted and not yet committed is the only open one it will be          *)
(* (Reserved), because the partial index makes other inserts wait; and a   *)
(* request that ran alone has read the end of the evidence chain and       *)
(* extends it (Chained).  No request writes back a meter that is more than *)
(* one call above the most it ever read (Charged).                         *)
(*                                                                         *)
(* With one key: only one request is between authentication and its end    *)
(* (OneHolder), no administrator is, and what it has read of tasks, meters *)
(* and versions is as it was (Sure).  So the counts of the tasks add up to *)
(* the evidence of their reasons (Tallies).                                *)
(***************************************************************************)
EXTENDS GovernedChat, FiniteSetTheorems, SequenceTheorems, TLAPS

Pcs == {"idle", "auth", "govern", "insert", "find", "record", "provider", "log", "commit"}
VersionStatuses == {"unrecorded", "candidate", "approved", "superseded", "rejected"}
Risks == {"none", "low", "medium", "high"}
Events == {"none", "request_blocked_missing_feature", "request_quarantined",
           "request_blocked_candidate_version", "request_quarantined_candidate_version",
           "request_blocked_feature_policy", "request_blocked_pre_check",
           "ai_request_completed", "provider_error"}
Write == [task : Nat, reason : Reasons, count : Nat \ {0}]
Tx == [pc : Pcs, created : Nat, alone : BOOLEAN, subject : Subjects, named : BOOLEAN,
       risk : Risks,
       known : SUBSET Versions, fresh : BOOLEAN, todo : Seq(Reasons), seen : Nat, count : Nat,
       retry : BOOLEAN, writes : SUBSET Write, event : Events, prev : Nat, meter : Nat]
TaskRow == [subject : Subjects, reason : Reasons, open : BOOLEAN, count : Nat \ {0}]
EvidenceRow == [event : Events, subject : Subjects, reasons : SUBSET Reasons,
                prev : Nat, created : Nat, alone : BOOLEAN]

Tables ==
    /\ status \in [Versions -> VersionStatuses]
    /\ tasks \in Seq(TaskRow)
    /\ evidence \in Seq(EvidenceRow) /\ \A i \in DOMAIN evidence : evidence[i].created <= clock
    /\ meters \in Seq(Nat \ {0})
    /\ clock \in Nat

\* A row of review_tasks keeps its subject and reason.
IsTask(i, subject, reason) ==
    i \in DOMAIN tasks /\ tasks[i].subject = subject /\ tasks[i].reason = reason

\* The reasons that a request still has to record are not those it has recorded.
Distinct(t) ==
    /\ IsFiniteSet(t.writes) /\ IsInjective(t.todo)
    /\ \A w, x \in t.writes : w.reason = x.reason => w = x
    /\ \A w \in t.writes : \A k \in DOMAIN t.todo : t.todo[k] # w.reason

\* What holds of a request wherever it is.
Sound(t) ==
    /\ t.pc = "idle" => t = NoTx
    /\ t.pc \in {"auth", "govern", "insert"} =>
           t.todo = <<>> /\ t.writes = {} /\ t.event = "none" /\ t.seen = 0 /\ ~t.fresh
    /\ t.pc \in {"find", "record"} => t.todo # <<>> /\ t.event \notin {"ai_request_completed", "provider_error"}
    /\ t.pc \in {"provider", "log", "commit"} => t.todo = <<>> /\ t.seen = 0
    /\ t.pc = "insert" \/ t.fresh => t.subject \in Versions
    /\ t.pc = "find" => t.seen = 0
    /\ t.pc = "provider" => t.event = "none"
    /\ t.event = "provider_error" => t.writes = {}
    /\ Distinct(t)
    /\ t.seen # 0 => IsTask(t.seen, t.subject, Head(t.todo))
    /\ \A w \in t.writes : w.task # 0 => IsTask(w.task, t.subject, w.reason)
    /\ t.meter # 0 => t.meter \in DOMAIN meters
    /\ t.created <= clock

Requests == tx \in [Slots -> Tx] /\ \A s \in Slots : Sound(tx[s])

Inserts(t, w) == w \in t.writes /\ w.task = 0

\* No other task will be open beside one that is inserted and not committed.
Reserved ==
    \A s \in Slots : \A w \in tx[s].writes : w.task = 0 =>
        /\ OpenTasks(tx[s].subject, w.reason) = {}
        /\ \A o \in Slots \ {s} : \A x \in tx[o].writes :
               ~(tx[o].subject = tx[s].subject /\ x.task = 0 /\ x.reason = w.reason)

SingleTasks ==
    \A i, j \in DOMAIN tasks :
        /\ tasks[i].open /\ tasks[j].open
        /\ tasks[i].subject = tasks[j].subject /\ tasks[i].reason = tasks[j].reason
        => i = j

\* Requests that ran alone.
RunsAlone(s) == ~At(s, "idle") /\ tx[s].alone
ReadEnd(t) == t.prev \in LastEvent \/ (LastEvent = {} /\ t.prev = 0)
ReadMeter(t) == t.meter # 0 => t.count = meters[t.meter]
Alone ==
    \A s \in Slots : RunsAlone(s) =>
        /\ \A o \in Slots \ {s} : At(o, "idle")
        /\ \A i \in DOMAIN evidence : evidence[i].created < tx[s].created
        /\ At(s, "commit") => ReadEnd(tx[s])
Chained ==
    /\ LastEvent # {} \/ evidence = <<>>
    /\ \A i \in DOMAIN evidence : evidence[i].alone /\ evidence[i].prev # 0 =>
           /\ evidence[i].prev \in DOMAIN evidence
           /\ evidence[evidence[i].prev].created < evidence[i].created

Inv == Tables /\ Requests /\ Reserved /\ SingleTasks /\ Alone /\ Chained /\ ForkNeedsOverlap

\* With one key.
SharedKey == \A s, t \in Slots : KeyOf[s] = KeyOf[t]
Holding(t) == t.pc \notin {"idle", "auth"} /\ t.event # "provider_error"
OneHolder == \A s, o \in Slots : HoldsKey(s) /\ HoldsKey(o) => s = o

Raised(t) == {t.todo[k] : k \in DOMAIN t.todo} \cup {w.reason : w \in t.writes}
StatusFor(t) == IF t.fresh THEN FreshStatus(t.known) ELSE status[t.subject]
\* A request that may complete has raised what a run without approval calls for.
Covered(t) ==
    t.pc \notin {"idle", "auth", "govern", "insert"} /\ t.event \in {"none", "ai_request_completed"} =>
        /\ t.subject = Unmapped /\ ~t.named => "missing_feature_id" \in Raised(t)
        /\ t.subject \in Unregistered => "feature_not_registered" \in Raised(t)
        /\ t.subject \in Versions =>
               StatusFor(t) = "approved" \/ "candidate_version_requires_review" \in Raised(t)
\* What it adds to the counts is one to each.
Exact(t) ==
    /\ t.pc = "record" /\ t.seen # 0 => t.count = tasks[t.seen].count
    /\ \A w \in t.writes : w.count = IF w.task = 0 THEN 1 ELSE tasks[w.task].count + 1
Sure(t) ==
    /\ t.seen # 0 => tasks[t.seen].open
    /\ \A w \in t.writes : w.task # 0 => tasks[w.task].open
    /\ Covered(t) /\ Exact(t)
    /\ t.pc = "commit" /\ Billed(t.event) =>
           IF meters = <<>> THEN t.meter = 0 ELSE t.meter = 1 /\ t.count = meters[1]

SerialInv ==
    /\ Inv /\ OneHolder /\ UsageMatchesCompleted
    /\ \A s \in Slots : Sure(tx[s])

-----------------------------------------------------------------------------
(* Requests that step on while the tables stay. *)

\* What the rest of the system needs to know of such a step.
Free(s, subject, reason) == ~TaskPending(s, subject, reason) /\ OpenTasks(subject, reason) = {}
Onward(s, t) ==
    /\ t.subject = tx[s].subject /\ t.alone = tx[s].alone
    /\ \/ t.created = tx[s].created /\ clock' = clock
       \/ t.created = clock + 1 /\ clock' = clock + 1
    /\ \/ t.writes \in {tx[s].writes, {}}
       \/ \E w : t.writes = tx[s].writes \cup {w} /\ (w.task = 0 => Free(s, t.subject, w.reason))
    /\ t.pc = "commit" => ReadEnd(t) /\ ReadMeter(t)
Goes(s, t) ==
    /\ ~At(s, "idle") /\ t \in Tx /\ Sound(t)'
    /\ Step(s, t)
    /\ UNCHANGED <<status, tasks, evidence, meters>> /\ clock' \in {clock, clock + 1}
    /\ t = NoTx \/ (t.pc # "idle" /\ Onward(s, t))
    /\ Holding(t) => HoldsKey(s) \/ KeyFree(KeyOf[s])
    /\ UsageMatchesCompleted /\ Sure(tx[s]) => Sure(t)

\* All fields but pc.
Alike(u, t) ==
    /\ u.created = t.created /\ u.alone = t.alone /\ u.subject = t.subject /\ u.named = t.named /\ u.risk = t.risk
    /\ u.known = t.known /\ u.fresh = t.fresh /\ u.todo = t.todo /\ u.seen = t.seen
    /\ u.count = t.count /\ u.retry = t.retry /\ u.writes = t.writes /\ u.event = t.event
    /\ u.prev = t.prev /\ u.meter = t.meter

LEMMA NoTxIs ==
    /\ NoTx \in Tx /\ NoTx.pc = "idle" /\ NoTx.writes = {} /\ NoTx.todo = <<>> /\ NoTx.event = "none"
    /\ NoTx.seen = 0 /\ NoTx.meter = 0 /\ NoTx.created = 0 /\ NoTx.alone /\ ~NoTx.fresh
<1>1. <<>> \in Seq(Reasons)
  BY EmptySeq
<1>2. Unmapped \in Subjects
  BY DEF Subjects
<1>3. NoTx \in Tx
  BY <1>1, <1>2 DEF NoTx, Tx, Pcs, Risks, Events
<1> QED
  BY <1>3 DEF NoTx

LEMMA NothingToDo == IsInjective(<<>>) /\ IsFiniteSet({})
<1>1. DOMAIN <<>> = {}
  OBVIOUS
<1> QED
  BY <1>1, FS_EmptySet DEF IsInjective

LEMMA NoTxSound == ASSUME clock \in Nat PROVE Sound(NoTx)
<1>1. DOMAIN <<>> = {}
  OBVIOUS
<1> QED
  BY <1>1, NoTxIs, NothingToDo DEF Sound, Distinct

\* No row goes away.
Lasting ==
    /\ \A i \in DOMAIN tasks : /\ i \in DOMAIN tasks'
                             /\ tasks'[i].subject = tasks[i].subject
                             /\ tasks'[i].reason = tasks[i].reason
    /\ DOMAIN meters \subseteq DOMAIN meters'

LEMMA SoundLasts ==
    ASSUME Lasting, clock \in Nat, clock' \in Nat, clock <= clock', NEW t \in Tx, Sound(t)
    PROVE  Sound(t)'
<1>1. t.created \in Nat
  BY DEF Tx
<1>2. (t.created <= clock)'
  BY <1>1 DEF Sound
<1>3. IsTask(t.seen, t.subject, Head(t.todo)) => IsTask(t.seen, t.subject, Head(t.todo))'
  BY DEF IsTask, Lasting
<1>4. \A w \in t.writes : IsTask(w.task, t.subject, w.reason) => IsTask(w.task, t.subject, w.reason)'
  BY DEF IsTask, Lasting
<1>5. (t.meter \in DOMAIN meters) => (t.meter \in DOMAIN meters)'
  BY DEF Lasting
<1> QED
  BY <1>2, <1>3, <1>4, <1>5 DEF Sound

LEMMA SoundStays ==
    ASSUME UNCHANGED <<tasks, meters>>, clock \in Nat, clock' \in Nat, clock <= clock',
           NEW t \in Tx, Sound(t)
    PROVE  Sound(t)'
<1>1. Lasting
  BY DEF Lasting
<1> QED
  BY <1>1, SoundLasts

LEMMA Proceeding ==
    ASSUME NEW s, NEW t \in Tx, Proceed(s, t)
    PROVE  \E u \in Tx :
               /\ Step(s, u) /\ Alike(u, t)
               /\ u.pc = IF t.todo # <<>> THEN "find"
                         ELSE IF t.event = "none" THEN "provider" ELSE "log"
<1> DEFINE pc == IF t.todo # <<>> THEN "find" ELSE IF t.event = "none" THEN "provider" ELSE "log"
           u == [t EXCEPT !.pc = pc]
<1>1. pc \in Pcs
  BY DEF Pcs
<1>2. Step(s, u)
  BY DEF Proceed
<1> HIDE DEF pc
<1>3. u \in Tx /\ u.pc = pc /\ Alike(u, t)
  BY <1>1 DEF Tx, Alike
<1> HIDE DEF u
<1> QED
  BY <1>2, <1>3 DEF pc

LEMMA GovernanceRaises ==
    ASSUME NEW standing, NEW g, g = GovernanceReasons(standing)
    PROVE  /\ g \in Seq(Reasons) /\ IsInjective(g)
           /\ \A k \in DOMAIN g : g[k] # "high_risk_pre_check"
           /\ standing = "missing" => \E k \in DOMAIN g : g[k] = "missing_feature_id"
           /\ standing = "unregistered" => \E k \in DOMAIN g : g[k] = "feature_not_registered"
           /\ standing = "candidate" =>
                  \E k \in DOMAIN g : g[k] = "candidate_version_requires_review"
<1>1. CASE g = <<>>
  <2>1. standing \notin {"missing", "unregistered", "candidate"}
    BY <1>1 DEF GovernanceReasons, CandidateReasons
  <2>2. DOMAIN g = {}
    BY <1>1
  <2> QED
    BY <1>1, <2>1, <2>2, EmptySeq, NothingToDo
<1>2. ASSUME NEW reason \in Reasons \ {"high_risk_pre_check"}, g = <<reason>>
      PROVE  /\ g \in Seq(Reasons) /\ IsInjective(g)
             /\ \A k \in DOMAIN g : g[k] # "high_risk_pre_check"
             /\ 1 \in DOMAIN g /\ g[1] = reason
  BY <1>2 DEF IsInjective
<1>3. CASE g = CandidateReasons
  <2>1. /\ DOMAIN g = {1, 2} /\ g[1] = "feature_fingerprint_changed"
        /\ g[2] = "candidate_version_requires_review"
    BY <1>3 DEF CandidateReasons
  <2>2. g \in Seq(Reasons)
    BY <1>3 DEF CandidateReasons, Reasons
  <2>3. standing = "candidate"
    BY <1>3 DEF CandidateReasons, GovernanceReasons
  <2> QED
    BY <2>1, <2>2, <2>3 DEF IsInjective
<1>4. \/ standing = "missing" /\ g = <<"missing_feature_id">>
      \/ standing = "unregistered" /\ g = <<"feature_not_registered">>
      \/ standing = "suspended" /\ g = <<"feature_not_active">>
      \/ standing = "candidate" /\ g = CandidateReasons
      \/ standing = "rejected" /\ g = <<"version_rejected">>
      \/ standing = "superseded" /\ g = <<"version_superseded">>
      \/ g = <<>>
  BY DEF GovernanceReasons
<1>5. {"missing_feature_id", "feature_not_registered", "feature_not_active", "version_rejected",
       "version_superseded"} \subseteq Reasons \ {"high_risk_pre_check"}
  BY DEF Reasons
<1> QED
  BY <1>1, <1>2, <1>3, <1>4, <1>5

LEMMA Queued ==
    ASSUME NEW g \in Seq(Reasons), IsInjective(g), \A k \in DOMAIN g : g[k] # "high_risk_pre_check",
           NEW stopped \in BOOLEAN,
           NEW q, q = g \o (IF stopped THEN <<"high_risk_pre_check">> ELSE <<>>)
    PROVE  /\ q \in Seq(Reasons) /\ IsInjective(q)
           /\ \A k \in DOMAIN g : k \in DOMAIN q /\ q[k] = g[k]
<1>1. Len(g) \in Nat /\ DOMAIN g = 1..Len(g)
  OBVIOUS
<1>2. CASE ~stopped
  <2>1. q = g
    BY <1>2, ConcatEmptySeq
  <2> QED
    BY <2>1
<1>3. CASE stopped
  <2>1. q = g \o <<"high_risk_pre_check">> /\ "high_risk_pre_check" \in Reasons
    BY <1>3 DEF Reasons
  <2>2. q = Append(g, "high_risk_pre_check")
    BY <2>1, AppendIsConcat
  <2>3. /\ q \in Seq(Reasons) /\ Len(q) = Len(g) + 1
        /\ \A k \in 1..Len(g) : q[k] = g[k]
        /\ q[Len(g) + 1] = "high_risk_pre_check"
    BY <2>1, <2>2, AppendProperties
  <2>4. DOMAIN q = 1..(Len(g) + 1)
    BY <2>3
  <2> QED
    BY <1>1, <2>3, <2>4 DEF IsInjective
<1> QED
  BY <1>2, <1>3

\* What governance leaves of a request.
Kept(u, t) ==
    /\ u.created = t.created /\ u.alone = t.alone /\ u.subject = t.subject /\ u.named = t.named /\ u.fresh = t.fresh
    /\ u.known = t.known /\ u.seen = t.seen /\ u.writes = t.writes /\ u.meter = t.meter
Routed(u, standing) ==
    /\ IsInjective(u.todo) /\ u.event \notin {"ai_request_completed", "provider_error"}
    /\ u.pc = IF u.todo # <<>> THEN "find" ELSE IF u.event = "none" THEN "provider" ELSE "log"
    /\ standing = "missing" => \E k \in DOMAIN u.todo : u.todo[k] = "missing_feature_id"
    /\ standing = "unregistered" => \E k \in DOMAIN u.todo : u.todo[k] = "feature_not_registered"
    /\ standing = "candidate" =>
           \E k \in DOMAIN u.todo : u.todo[k] = "candidate_version_requires_review"
    /\ standing \in {"rejected", "superseded"} => u.event # "none"

LEMMA Verdicts ==
    ASSUME NEW standing, NEW verdict, verdict = GovernanceEvent(standing)
    PROVE  /\ verdict \in Events \ {"ai_request_completed", "provider_error", "request_blocked_pre_check"}
           /\ standing \in {"rejected", "superseded"} => verdict # "none"
<1>1. \/ verdict = "request_blocked_missing_feature" \/ verdict = "request_quarantined"
      \/ verdict = "request_blocked_candidate_version"
      \/ verdict = "request_quarantined_candidate_version"
      \/ verdict = "request_blocked_feature_policy" \/ verdict = "none"
  BY DEF GovernanceEvent
<1>2. standing \in {"rejected", "superseded"} => verdict # "none"
  BY DEF GovernanceEvent
<1> QED
  BY <1>1, <1>2 DEF Events

LEMMA Routing ==
    ASSUME NEW s, NEW t \in Tx, NEW standing, Route(s, t, standing)
    PROVE  \E u \in Tx : Step(s, u) /\ Kept(u, t) /\ Routed(u, standing)
<1> DEFINE verdict == GovernanceEvent(standing)
           stopped == t.risk = "high" /\ verdict = "none"
           g == GovernanceReasons(standing)
           q == g \o (IF stopped THEN <<"high_risk_pre_check">> ELSE <<>>)
           event == IF stopped THEN "request_blocked_pre_check" ELSE verdict
           v == [t EXCEPT !.todo = q, !.event = event]
<1>1. Proceed(s, v)
  BY DEF Route
<1>2. /\ g \in Seq(Reasons) /\ IsInjective(g) /\ \A k \in DOMAIN g : g[k] # "high_risk_pre_check"
      /\ standing = "missing" => \E k \in DOMAIN g : g[k] = "missing_feature_id"
      /\ standing = "unregistered" => \E k \in DOMAIN g : g[k] = "feature_not_registered"
      /\ standing = "candidate" => \E k \in DOMAIN g : g[k] = "candidate_version_requires_review"
  BY GovernanceRaises
<1> HIDE DEF g
<1>3. stopped \in BOOLEAN
  OBVIOUS
<1>4. verdict \in Events \ {"ai_request_completed", "provider_error", "request_blocked_pre_check"}
      /\ (standing \in {"rejected", "superseded"} => verdict # "none")
  BY Verdicts
<1> HIDE DEF verdict
<1>5. event \in Events \ {"ai_request_completed", "provider_error"}
      /\ (standing \in {"rejected", "superseded"} => event # "none")
  BY <1>4 DEF Events
<1> HIDE DEF stopped
<1>6. /\ q \in Seq(Reasons) /\ IsInjective(q)
      /\ \A k \in DOMAIN g : k \in DOMAIN q /\ q[k] = g[k]
  BY <1>2, <1>3, Queued
<1> HIDE DEF q, event
<1>7. v \in Tx /\ v.todo = q /\ v.event = event /\ Kept(v, t)
  BY <1>5, <1>6 DEF Tx, Kept
<1> HIDE DEF v
<1>8. PICK u \in Tx :
          /\ Step(s, u) /\ Alike(u, v)
          /\ u.pc = IF v.todo # <<>> THEN "find"
                    ELSE IF v.event = "none" THEN "provider" ELSE "log"
  BY <1>1, <1>7, Proceeding
<1>9. Kept(u, t)
  BY <1>7, <1>8 DEF Alike, Kept
<1>10. u.todo = q /\ u.event = event
  BY <1>7, <1>8 DEF Alike
<1>11. Routed(u, standing)
  BY <1>2, <1>5, <1>6, <1>7, <1>8, <1>10 DEF Routed
<1> QED
  BY <1>8, <1>9, <1>11

LEMMA RoutedSound ==
    ASSUME NEW t \in Tx, t.writes = {}, t.seen = 0, t.created <= clock,
           t.fresh => t.subject \in Versions,
           t.meter # 0 => t.meter \in DOMAIN meters,
           NEW u \in Tx, Kept(u, t), NEW standing, Routed(u, standing)
    PROVE  Sound(u) /\ u.pc \in {"find", "provider", "log"}
<1>1. Distinct(u)
  BY NothingToDo DEF Distinct, Kept, Routed
<1> QED
  BY <1>1 DEF Sound, Kept, Routed

LEMMA OfSlot ==
    ASSUME Tables, Requests, NEW s \in Slots, NEW u, u = tx[s]
    PROVE  /\ u \in Tx /\ Sound(u) /\ clock \in Nat
           /\ \A pc : At(s, pc) <=> u.pc = pc
           /\ HoldsKey(s) <=> Holding(u)
  BY DEF Tables, Requests, At, HoldsKey, Holding

LEMMA RestsSurely == Sure(NoTx) /\ ~Holding(NoTx)
  BY NoTxIs DEF Sure, Exact, Covered, Holding

\* A step that changes nothing but the request.
LEMMA GoesOn ==
    ASSUME Tables, Requests, NEW s \in Slots, NEW u, u = tx[s], u.pc # "idle",
           UNCHANGED <<tables, clock>>, NEW t \in Tx, Sound(t), Step(s, t), t.pc # "idle",
           t.subject = u.subject, t.named = u.named, t.alone = u.alone, t.created = u.created,
           \/ t.writes \in {u.writes, {}}
           \/ \E w : t.writes = u.writes \cup {w} /\ (w.task = 0 => Free(s, t.subject, w.reason)),
           t.pc = "commit" => ReadEnd(t) /\ ReadMeter(t),
           Holding(t) => Holding(u) \/ KeyFree(KeyOf[s]),
           UsageMatchesCompleted /\ Sure(u) => Sure(t)
    PROVE  Goes(s, t)
<1>1. Sound(t)'
  BY SoundStays DEF Tables, tables
<1> QED
  BY <1>1, OfSlot DEF Goes, Onward, tables

LEMMA GivesUp ==
    ASSUME Tables, Requests, NEW s \in Slots, tx[s].pc # "idle",
           UNCHANGED <<status, tasks, evidence, meters, clock>>, Step(s, NoTx)
    PROVE  Goes(s, NoTx)
<1>1. Sound(NoTx)'
  BY NoTxIs, NoTxSound, SoundStays DEF Tables
<1> QED
  BY <1>1, NoTxIs, RestsSurely, OfSlot DEF Goes

LEMMA AuthenticateGoes ==
    ASSUME Tables, Requests, NEW s \in Slots, Authenticate(s)
    PROVE  \E t : Goes(s, t)
<1>1. PICK u : /\ u = tx[s] /\ u \in Tx /\ Sound(u) /\ u.pc = "auth" /\ KeyFree(KeyOf[s])
               /\ UNCHANGED <<tables, clock>>
  BY OfSlot DEF Authenticate
<1> DEFINE t == [u EXCEPT !.pc = "govern"]
<1>2. t \in Tx /\ t.pc = "govern" /\ Alike(t, u)
  BY <1>1 DEF Tx, Alike, Pcs
<1>3. Step(s, t)
  BY <1>1 DEF Authenticate
<1> HIDE DEF t
<1>4. Sound(t) /\ Sure(t)
  BY <1>1, <1>2 DEF Sound, Alike, Distinct, Sure, Exact, Covered
<1>5. Goes(s, t)
  BY <1>1, <1>2, <1>3, <1>4, GoesOn DEF Alike
<1> QED
  BY <1>5

\* What governance takes a subject for.
LEMMA Standings ==
    ASSUME NEW subject, NEW named, NEW versionStatus
    PROVE  /\ subject = Unmapped /\ ~named => Standing(subject, named, versionStatus) = "missing"
           /\ subject \in Unregistered => Standing(subject, named, versionStatus) = "unregistered"
           /\ subject \in Versions => Standing(subject, named, versionStatus) = versionStatus
<1>1. subject = Unmapped /\ ~named => Standing(subject, named, versionStatus) = "missing"
  BY SubjectsAreDistinct DEF Standing
<1>2. subject \in Unregistered => Standing(subject, named, versionStatus) = "unregistered"
  BY SubjectsAreDistinct DEF Standing
<1>3. subject \in Versions => Standing(subject, named, versionStatus) = versionStatus
  BY SubjectsAreDistinct DEF Standing
<1> QED
  BY <1>1, <1>2, <1>3

\* Governance covers what it lets pass.
LEMMA RoutedSure ==
    ASSUME NEW u, u.writes = {}, u.seen = 0, NEW standing, Routed(u, standing),
           u.subject = Unmapped /\ ~u.named => standing = "missing",
           u.subject \in Unregistered => standing = "unregistered",
           u.subject \in Versions =>
               standing = StatusFor(u) /\ standing \in VersionStatuses \ {"unrecorded"}
    PROVE  Sure(u)
<1>1. Covered(u)
  BY DEF Covered, Raised, Routed, VersionStatuses
<1>2. u.pc # "commit" /\ Exact(u)
  BY DEF Routed, Exact
<1> QED
  BY <1>1, <1>2 DEF Sure

LEMMA GovernGoes ==
    ASSUME Tables, Requests, NEW s \in Slots, Govern(s)
    PROVE  \E t : Goes(s, t)
<1>1. PICK u : /\ u = tx[s] /\ u \in Tx /\ Sound(u) /\ u.pc = "govern"
               /\ UNCHANGED <<tables, clock>>
  BY OfSlot DEF Govern
<1>2. CASE u.subject \in Versions \ Recorded
  <2> DEFINE t == [u EXCEPT !.pc = "insert", !.known = Recorded]
  <2>1. t \in Tx /\ t.pc = "insert"
    BY <1>1 DEF Tx, Pcs, Recorded
  <2>2. /\ t.created = u.created /\ t.alone = u.alone /\ t.subject = u.subject /\ t.named = u.named /\ t.fresh = u.fresh
        /\ t.todo = u.todo /\ t.seen = u.seen /\ t.writes = u.writes /\ t.event = u.event
        /\ t.meter = u.meter
    BY <1>1 DEF Tx
  <2>3. Step(s, t)
    BY <1>1, <1>2 DEF Govern
  <2> HIDE DEF t
  <2>4. Sound(t) /\ Sure(t) /\ Holding(u)
    BY <1>1, <1>2, <2>1, <2>2 DEF Sound, Distinct, Sure, Exact, Covered, Holding
  <2>5. Goes(s, t)
    BY <1>1, <2>1, <2>2, <2>3, <2>4, GoesOn
  <2> QED
    BY <2>5
<1>3. CASE u.subject \notin Versions \ Recorded
  <2>1. PICK standing :
            /\ standing = Standing(u.subject, u.named, IF u.subject \in Versions THEN status[u.subject] ELSE "none")
            /\ Route(s, u, standing)
    BY <1>1, <1>3 DEF Govern
  <2>2. PICK t \in Tx : Step(s, t) /\ Kept(t, u) /\ Routed(t, standing)
    BY <1>1, <2>1, Routing
  <2>3. /\ u.writes = {} /\ u.seen = 0 /\ ~u.fresh /\ u.subject \in Subjects /\ Holding(u)
        /\ u.created <= clock /\ (u.meter # 0 => u.meter \in DOMAIN meters)
    BY <1>1 DEF Sound, Tx, Holding
  <2>4. Sound(t) /\ t.pc \in {"find", "provider", "log"}
    BY <1>1, <2>2, <2>3, RoutedSound
  <2>5. /\ u.subject = Unmapped /\ ~u.named => standing = "missing"
        /\ u.subject \in Unregistered => standing = "unregistered"
        /\ u.subject \in Versions => standing = status[u.subject]
    BY <2>1, Standings
  <2>6. u.subject \in Versions =>
            StatusFor(t) = status[u.subject] /\ status[u.subject] \in VersionStatuses \ {"unrecorded"}
    BY <1>3, <2>2, <2>3 DEF StatusFor, Kept, Recorded, Tables
  <2>8. Sure(t)
    BY <2>2, <2>3, <2>5, <2>6, RoutedSure DEF Kept
  <2>7. Goes(s, t)
    BY <1>1, <2>2, <2>3, <2>4, <2>8, GoesOn DEF Kept
  <2> QED
    BY <2>7
<1> QED
  BY <1>2, <1>3

LEMMA InsertVersionGoes ==
    ASSUME Tables, Requests, NEW s \in Slots, InsertVersion(s)
    PROVE  \E t : Goes(s, t)
<1>1. PICK u : /\ u = tx[s] /\ u \in Tx /\ Sound(u) /\ u.pc = "insert"
               /\ UNCHANGED <<tables, clock>>
               /\ Route(s, [u EXCEPT !.fresh = TRUE], FreshStatus(u.known))
  BY OfSlot DEF InsertVersion
<1> DEFINE v == [u EXCEPT !.fresh = TRUE]
           standing == FreshStatus(u.known)
<1>2. /\ v \in Tx /\ v.created = u.created /\ v.alone = u.alone /\ v.subject = u.subject /\ v.named = u.named
      /\ v.fresh /\ v.known = u.known /\ v.seen = u.seen /\ v.writes = u.writes /\ v.meter = u.meter
  BY <1>1 DEF Tx
<1>3. Route(s, v, standing)
  BY <1>1
<1>4. standing \in {"approved", "candidate"}
  BY DEF FreshStatus
<1> HIDE DEF v
<1>5. PICK t \in Tx : Step(s, t) /\ Kept(t, v) /\ Routed(t, standing)
  BY <1>2, <1>3, Routing
<1>6. /\ u.writes = {} /\ u.seen = 0 /\ u.subject \in Versions /\ Holding(u)
      /\ u.created <= clock /\ (u.meter # 0 => u.meter \in DOMAIN meters)
  BY <1>1 DEF Sound, Holding
<1>7. Sound(t) /\ t.pc \in {"find", "provider", "log"}
  BY <1>2, <1>5, <1>6, RoutedSound
<1>8. StatusFor(t) = standing
  BY <1>2, <1>5 DEF StatusFor, Kept
<1> HIDE DEF standing
<1>9. Sure(t)
  BY <1>2, <1>4, <1>5, <1>6, <1>8, SubjectsAreDistinct, RoutedSure DEF Kept, VersionStatuses
<1>10. Goes(s, t)
  BY <1>1, <1>2, <1>5, <1>6, <1>7, <1>9, GoesOn DEF Kept
<1> QED
  BY <1>10

LEMMA GivingUpGoes ==
    ASSUME Tables, Requests, NEW s \in Slots,
           InsertFails(s) \/ FindFails(s) \/ FailureUnrecorded(s)
    PROVE  \E t : Goes(s, t)
<1>1. tx[s].pc # "idle" /\ UNCHANGED <<status, tasks, evidence, meters, clock>> /\ Step(s, NoTx)
  BY DEF InsertFails, FindFails, FailureUnrecorded, Fail, At, tables
<1>2. Goes(s, NoTx)
  BY <1>1, GivesUp
<1> QED
  BY <1>2

LEMMA FindTaskGoes ==
    ASSUME Tables, Requests, NEW s \in Slots, FindTask(s)
    PROVE  \E t : Goes(s, t)
<1>1. PICK u : /\ u = tx[s] /\ u \in Tx /\ Sound(u) /\ u.pc = "find"
               /\ UNCHANGED <<tables, clock>>
  BY OfSlot DEF FindTask
<1> DEFINE Found(n, c) ==
               /\ n # 0 => n \in OpenTasks(u.subject, Head(u.todo)) /\ c = tasks[n].count
               /\ Step(s, [u EXCEPT !.pc = "record", !.seen = n, !.count = c])
<1>2. PICK n \in Nat, c \in Nat : Found(n, c)
  <2>1. CASE Step(s, [u EXCEPT !.pc = "record"])
    <3>1. [u EXCEPT !.pc = "record"] = [u EXCEPT !.pc = "record", !.seen = 0, !.count = u.count]
      BY <1>1 DEF Tx, Sound
    <3>2. u.count \in Nat /\ Found(0, u.count)
      BY <1>1, <2>1, <3>1 DEF Tx
    <3> QED
      BY <3>2
  <2>2. ASSUME NEW i \in OpenTasks(u.subject, Head(u.todo)),
               Step(s, [u EXCEPT !.pc = "record", !.seen = i, !.count = tasks[i].count])
        PROVE  \E n \in Nat, c \in Nat : Found(n, c)
    <3>1. tasks \in Seq(TaskRow) /\ i \in 1..Len(tasks)
      BY DEF OpenTasks, Tables
    <3>2. i \in Nat /\ tasks[i] \in TaskRow
      BY <3>1
    <3>3. tasks[i].count \in Nat
      BY <3>2 DEF TaskRow
    <3>4. Found(i, tasks[i].count)
      BY <2>2
    <3> QED
      BY <3>2, <3>3, <3>4
  <2> QED
    BY <1>1, <2>1, <2>2 DEF FindTask
<1> DEFINE t == [u EXCEPT !.pc = "record", !.seen = n, !.count = c]
<1>3. /\ t \in Tx /\ t.pc = "record" /\ t.seen = n /\ t.count = c
      /\ t.created = u.created /\ t.alone = u.alone /\ t.subject = u.subject /\ t.named = u.named /\ t.fresh = u.fresh
      /\ t.known = u.known /\ t.todo = u.todo /\ t.writes = u.writes /\ t.event = u.event
      /\ t.meter = u.meter
  BY <1>1, <1>2 DEF Tx, Pcs
<1>4. Step(s, t)
  BY <1>2
<1> HIDE DEF t
<1>5. Sound(t)
  BY <1>1, <1>2, <1>3 DEF Sound, Distinct, OpenTasks, IsTask
<1>6. Sure(u) => Sure(t)
  BY <1>1, <1>2, <1>3 DEF Sure, Exact, Covered, Raised, StatusFor, OpenTasks
<1>7. Holding(t) => Holding(u)
  BY <1>1, <1>3 DEF Holding
<1>8. Goes(s, t)
  BY <1>1, <1>3, <1>4, <1>5, <1>6, <1>7, GoesOn
<1> QED
  BY <1>8

\* The rest of the reasons once the first is done.
RestOf(r, q) ==
    /\ IsInjective(r)
    /\ 1 \in DOMAIN q /\ q[1] = Head(q)
    /\ \A k \in DOMAIN r : r[k] # Head(q) /\ \E j \in DOMAIN q : r[k] = q[j]
    /\ \A k \in DOMAIN q : q[k] = Head(q) \/ \E j \in DOMAIN r : r[j] = q[k]

LEMMA RestOfReasons ==
    ASSUME NEW q \in Seq(Reasons), q # <<>>, IsInjective(q)
    PROVE  Tail(q) \in Seq(Reasons) /\ RestOf(Tail(q), q)
<1> DEFINE r == Tail(q)
<1>1. /\ Head(q) \in Reasons /\ r \in Seq(Reasons) /\ Len(r) = Len(q) - 1
      /\ \A k \in 1..Len(r) : r[k] = q[k + 1]
  BY HeadTailProperties
<1>2. Len(q) \in Nat \ {0} /\ DOMAIN q = 1..Len(q) /\ Head(q) = q[1]
  BY EmptySeq
<1>3. DOMAIN r = 1..(Len(q) - 1)
  BY <1>1
<1>4. \A k \in DOMAIN r : k + 1 \in DOMAIN q /\ k + 1 # 1 /\ r[k] = q[k + 1]
  BY <1>1, <1>2, <1>3
<1>5. IsInjective(r)
  BY <1>2, <1>3, <1>4 DEF IsInjective
<1>6. \A k \in DOMAIN r : r[k] # Head(q) /\ \E j \in DOMAIN q : r[k] = q[j]
  BY <1>2, <1>4 DEF IsInjective
<1>7. ASSUME NEW k \in DOMAIN q, q[k] # Head(q)  PROVE \E j \in DOMAIN r : r[j] = q[k]
  <2>1. k - 1 \in DOMAIN r /\ (k - 1) + 1 = k
    BY <1>2, <1>3, <1>7
  <2>2. r[k - 1] = q[k]
    BY <1>4, <2>1
  <2> QED
    BY <2>1, <2>2
<1> QED
  BY <1>1, <1>2, <1>5, <1>6, <1>7 DEF RestOf

LEMMA SightedGoes ==
    ASSUME Tables, Requests, NEW s \in Slots, NEW u, u = tx[s], u.pc = "record",
           NEW w \in Write, w.reason = Head(u.todo), Sighted(s, w), UNCHANGED <<tables, clock>>,
           w.task \in {0, u.seen}, w.count = IF w.task = 0 THEN 1 ELSE u.count + 1,
           w.task = 0 => Free(s, u.subject, w.reason)
    PROVE  \E t : Goes(s, t)
<1>1. u \in Tx /\ Sound(u) /\ Holding(u)
  BY OfSlot DEF Sound, Holding
<1> DEFINE v == [u EXCEPT !.writes = @ \cup {w}, !.todo = Tail(@),
                  !.seen = 0, !.count = 0, !.retry = FALSE]
           r == Tail(u.todo)
           head == Head(u.todo)
<1>2. u.todo \in Seq(Reasons) /\ u.todo # <<>> /\ IsInjective(u.todo)
  BY <1>1 DEF Tx, Sound, Distinct
<1>3. /\ r \in Seq(Reasons) /\ IsInjective(r)
      /\ 1 \in DOMAIN u.todo /\ u.todo[1] = head
      /\ \A k \in DOMAIN r : r[k] # head /\ \E j \in DOMAIN u.todo : r[k] = u.todo[j]
      /\ \A k \in DOMAIN u.todo : u.todo[k] = head \/ \E j \in DOMAIN r : r[j] = u.todo[k]
  <2>1. r \in Seq(Reasons) /\ RestOf(r, u.todo)
    BY <1>2, RestOfReasons
  <2> HIDE DEF r
  <2> QED
    BY <2>1 DEF RestOf
<1>4. Proceed(s, v)
  BY DEF Sighted
<1> HIDE DEF r
<1>5. /\ v \in Tx /\ v.created = u.created /\ v.alone = u.alone /\ v.subject = u.subject /\ v.named = u.named
      /\ v.fresh = u.fresh /\ v.known = u.known /\ v.event = u.event /\ v.meter = u.meter
      /\ v.seen = 0 /\ v.todo = r /\ v.writes = u.writes \cup {w}
  BY <1>1, <1>3 DEF Tx, r
<1> HIDE DEF v
<1>6. PICK t \in Tx :
          /\ Step(s, t) /\ Alike(t, v)
          /\ t.pc = IF v.todo # <<>> THEN "find"
                    ELSE IF v.event = "none" THEN "provider" ELSE "log"
  BY <1>4, <1>5, Proceeding
<1>7. /\ t.created = u.created /\ t.alone = u.alone /\ t.subject = u.subject /\ t.named = u.named
      /\ t.fresh = u.fresh /\ t.known = u.known /\ t.event = u.event /\ t.meter = u.meter
      /\ t.seen = 0 /\ t.todo = r /\ t.writes = u.writes \cup {w}
      /\ t.pc = IF r # <<>> THEN "find" ELSE IF u.event = "none" THEN "provider" ELSE "log"
  BY <1>5, <1>6 DEF Alike
<1>8. Distinct(t)
  <2>1. IsFiniteSet(t.writes)
    BY <1>1, <1>7, FS_AddElement DEF Sound, Distinct
  <2>2. \A x, y \in t.writes : x.reason = y.reason => x = y
    BY <1>1, <1>3, <1>7 DEF Sound, Distinct
  <2>3. \A x \in t.writes : \A k \in DOMAIN t.todo : t.todo[k] # x.reason
    BY <1>1, <1>3, <1>7 DEF Sound, Distinct
  <2> QED
    BY <1>3, <1>7, <2>1, <2>2, <2>3 DEF Distinct
<1>9. u.event \notin {"ai_request_completed", "provider_error"} /\ ~(u.event = "provider_error")
  BY <1>1 DEF Sound
<1>10. w.task # 0 => u.seen # 0 /\ w.task = u.seen
  OBVIOUS
<1>11. Sound(t)
  BY <1>1, <1>7, <1>8, <1>9, <1>10 DEF Sound
<1>12. Raised(u) \subseteq Raised(t)
  BY <1>3, <1>7 DEF Raised
<1>13. Sure(u) => Sure(t)
  BY <1>1, <1>7, <1>9, <1>10, <1>12 DEF Sure, Exact, Covered, StatusFor
<1>14. Goes(s, t)
  <2>1. t.pc # "idle" /\ t.pc # "commit" /\ u.pc # "idle"
    BY <1>7
  <2> QED
    BY <1>1, <1>6, <1>7, <1>11, <1>13, <2>1, GoesOn
<1> QED
  BY <1>14

LEMMA RecordTaskGoes ==
    ASSUME Tables, Requests, NEW s \in Slots, RecordTask(s)
    PROVE  \E t : Goes(s, t)
<1>1. PICK u : /\ u = tx[s] /\ u \in Tx /\ Sound(u) /\ u.pc = "record"
               /\ UNCHANGED <<tables, clock>>
  BY OfSlot DEF RecordTask
<1> DEFINE reason == Head(u.todo)
<1>2. reason \in Reasons
  BY <1>1, HeadTailProperties DEF Tx, Sound
<1>3. u.seen \in Nat /\ u.count \in Nat
  BY <1>1 DEF Tx
<1>4. CASE u.seen # 0
  <2> DEFINE w == [task |-> u.seen, reason |-> reason, count |-> u.count + 1]
  <2>1. w \in Write /\ w.task = u.seen /\ w.reason = reason /\ w.count = u.count + 1
    BY <1>2, <1>3 DEF Write
  <2>2. Sighted(s, w)
    BY <1>1, <1>4 DEF RecordTask
  <2> HIDE DEF w
  <2> QED
    BY <1>1, <1>4, <2>1, <2>2, SightedGoes
<1>5. CASE u.seen = 0 /\ OpenTasks(u.subject, reason) = {}
  <2> DEFINE w == FirstSighting(reason)
  <2>1. w \in Write /\ w.task = 0 /\ w.reason = reason /\ w.count = 1
    BY <1>2 DEF Write, FirstSighting
  <2>2. Sighted(s, w) /\ Free(s, u.subject, reason)
    BY <1>1, <1>5 DEF RecordTask, Free
  <2> HIDE DEF w
  <2> QED
    BY <1>1, <2>1, <2>2, SightedGoes
<1>6. CASE u.seen = 0 /\ OpenTasks(u.subject, reason) # {}
  <2> DEFINE t == [u EXCEPT !.pc = "find", !.retry = TRUE]
  <2>1. /\ t \in Tx /\ t.pc = "find" /\ t.seen = 0
        /\ t.created = u.created /\ t.alone = u.alone /\ t.subject = u.subject /\ t.named = u.named
        /\ t.fresh = u.fresh /\ t.known = u.known /\ t.event = u.event /\ t.meter = u.meter
        /\ t.todo = u.todo /\ t.writes = u.writes
    BY <1>1, <1>6 DEF Tx, Pcs
  <2>2. Step(s, t)
    BY <1>1, <1>6 DEF RecordTask
  <2> HIDE DEF t
  <2>3. Sound(t) /\ Holding(u)
    BY <1>1, <2>1 DEF Sound, Distinct, Holding
  <2>4. Sure(u) => Sure(t)
    BY <1>1, <2>1 DEF Sure, Exact, Covered, Raised, StatusFor
  <2>5. Goes(s, t)
    BY <1>1, <2>1, <2>2, <2>3, <2>4, GoesOn
  <2> QED
    BY <2>5
<1> QED
  BY <1>4, <1>5, <1>6

LEMMA ProviderGoes ==
    ASSUME Tables, Requests, NEW s \in Slots, ProviderAnswers(s) \/ ProviderFails(s)
    PROVE  \E t : Goes(s, t)
<1>1. PICK u : /\ u = tx[s] /\ u \in Tx /\ Sound(u) /\ u.pc = "provider" /\ Holding(u)
               /\ clock \in Nat /\ ~At(s, "idle") /\ HoldsKey(s)
  BY OfSlot DEF ProviderAnswers, ProviderFails, Sound, Holding
<1>2. CASE ProviderAnswers(s)
  <2> DEFINE t == [u EXCEPT !.pc = "log", !.event = "ai_request_completed"]
  <2>1. /\ t \in Tx /\ t.pc = "log" /\ t.event = "ai_request_completed"
        /\ t.created = u.created /\ t.alone = u.alone /\ t.subject = u.subject /\ t.named = u.named
        /\ t.fresh = u.fresh /\ t.known = u.known /\ t.seen = u.seen /\ t.meter = u.meter
        /\ t.todo = u.todo /\ t.writes = u.writes
    BY <1>1 DEF Tx, Pcs, Events
  <2>2. Step(s, t) /\ UNCHANGED <<tables, clock>>
    BY <1>1, <1>2 DEF ProviderAnswers
  <2> HIDE DEF t
  <2>3. Sound(t)
    BY <1>1, <2>1 DEF Sound, Distinct
  <2>4. Sure(u) => Sure(t)
    BY <1>1, <2>1 DEF Sound, Sure, Exact, Covered, Raised, StatusFor
  <2>5. Goes(s, t)
    BY <1>1, <2>1, <2>2, <2>3, <2>4, GoesOn
  <2> QED
    BY <2>5
<1>3. CASE ProviderFails(s)
  <2>9. PICK n \in Nat : n = clock + 1
    BY <1>1
  <2> DEFINE t == [u EXCEPT !.pc = "log", !.event = "provider_error", !.writes = {},
                            !.created = n]
  <2>1. /\ t \in Tx /\ t.pc = "log" /\ t.event = "provider_error"
        /\ t.created = n /\ t.alone = u.alone /\ t.subject = u.subject /\ t.named = u.named
        /\ t.fresh = u.fresh /\ t.seen = u.seen /\ t.meter = u.meter
        /\ t.todo = u.todo /\ t.writes = {}
    BY <1>1, <2>9 DEF Tx, Pcs, Events
  <2>2. Step(s, t) /\ UNCHANGED tables /\ clock' = n
    BY <1>1, <1>3, <2>9 DEF ProviderFails
  <2> HIDE DEF t
  <2>3. Distinct(t)
    BY <1>1, <2>1, NothingToDo DEF Sound, Distinct
  <2>4. (t.created <= clock)' /\ (t.meter # 0 => t.meter \in DOMAIN meters)'
    BY <1>1, <2>1, <2>2 DEF Sound, tables
  <2>5. Sound(t)'
    BY <1>1, <2>1, <2>3, <2>4 DEF Sound
  <2>6. Sure(t) /\ ~Holding(t)
    BY <1>1, <2>1 DEF Sound, Sure, Exact, Covered, Holding, Billed
  <2>7. Onward(s, t)
    BY <1>1, <2>1, <2>2, <2>9 DEF Onward
  <2>8. Goes(s, t)
    BY <1>1, <2>1, <2>2, <2>5, <2>6, <2>7, <2>9 DEF Goes, tables
  <2> QED
    BY <2>8
<1> QED
  BY <1>2, <1>3

LEMMA LogEventGoes ==
    ASSUME Tables, Requests, NEW s \in Slots, LogEvent(s)
    PROVE  \E t : Goes(s, t)
<1>1. PICK u : /\ u = tx[s] /\ u \in Tx /\ Sound(u) /\ u.pc = "log"
               /\ UNCHANGED <<tables, clock>>
  BY OfSlot DEF LogEvent
<1>2. PICK p \in IF LastEvent = {} THEN {0} ELSE LastEvent,
           m \in IF Billed(u.event) /\ meters # <<>> THEN DOMAIN meters ELSE {0} :
           Step(s, [u EXCEPT !.pc = "commit", !.prev = p, !.meter = m,
                      !.count = IF m = 0 THEN 0 ELSE meters[m]])
  BY <1>1 DEF LogEvent
<1> DEFINE c == IF m = 0 THEN 0 ELSE meters[m]
           t == [u EXCEPT !.pc = "commit", !.prev = p, !.meter = m, !.count = c]
<1>3. p \in Nat /\ m \in Nat /\ c \in Nat /\ (m # 0 => m \in DOMAIN meters)
  <2>1. evidence \in Seq(EvidenceRow) /\ meters \in Seq(Nat \ {0})
    BY DEF Tables
  <2>2. LastEvent \subseteq Nat
    <3>1. DOMAIN evidence \subseteq Nat
      <4> HIDE DEF c, t
      <4> QED
        BY <2>1
    <3> QED
      BY <3>1 DEF LastEvent
  <2>3. m \in DOMAIN meters \cup {0}
    OBVIOUS
  <2>4. CASE m = 0
    BY <2>2, <2>4
  <2>5. CASE m \in DOMAIN meters
    <3>1. m \in Nat /\ meters[m] \in Nat
      BY <2>1, <2>5
    <3> QED
      BY <2>2, <2>5, <3>1
  <2> QED
    BY <2>3, <2>4, <2>5
<1>4. (p \in LastEvent \/ (LastEvent = {} /\ p = 0))
  OBVIOUS
<1>5. UsageMatchesCompleted /\ Billed(u.event) =>
          IF meters = <<>> THEN m = 0 ELSE m = 1 /\ c = meters[1]
  BY DEF UsageMatchesCompleted
<1>6. Step(s, t)
  BY <1>2
<1> HIDE DEF c
<1>7. /\ t \in Tx /\ t.pc = "commit" /\ t.prev = p /\ t.meter = m /\ t.count = c
      /\ t.created = u.created /\ t.alone = u.alone /\ t.subject = u.subject /\ t.named = u.named
      /\ t.fresh = u.fresh /\ t.known = u.known /\ t.seen = u.seen /\ t.event = u.event
      /\ t.todo = u.todo /\ t.writes = u.writes
  BY <1>1, <1>3 DEF Tx, Pcs
<1> HIDE DEF t
<1>8. Sound(t) /\ ReadEnd(t) /\ ReadMeter(t)
  <2>1. m # 0 => c = meters[m]
    BY DEF c
  <2> QED
    BY <1>1, <1>3, <1>4, <1>7, <2>1 DEF Sound, Distinct, ReadEnd, ReadMeter
<1>9. UsageMatchesCompleted /\ Sure(u) => Sure(t)
  BY <1>1, <1>5, <1>7 DEF Sound, Sure, Exact, Covered, Raised, StatusFor
<1>10. Holding(t) => Holding(u)
  BY <1>1, <1>7 DEF Holding
<1>11. Goes(s, t)
  BY <1>1, <1>6, <1>7, <1>8, <1>9, <1>10, GoesOn
<1> QED
  BY <1>11

-----------------------------------------------------------------------------
(* What a commit makes of the review tasks. *)

Lists(f, S) ==
    /\ f \in [1..Cardinality(S) -> S] /\ Cardinality(S) \in Nat
    /\ IsInjective(f) /\ \A x \in S : \E k \in DOMAIN f : f[k] = x

LEMMA SetIsListed ==
    ASSUME NEW S, IsFiniteSet(S)
    PROVE  Lists(SetToSeq(S), S)
<1> DEFINE n == Cardinality(S)
<1>1. n \in Nat /\ ExistsBijection(1..n, S)
  BY FS_CardinalityType
<1>2. \E g \in [1..n -> S] : IsInjective(g)
  BY <1>1 DEF ExistsBijection, Bijection, Injection, IsInjective
<1> HIDE DEF n
<1>3. PICK f : f = SetToSeq(S) /\ f \in [1..n -> S] /\ IsInjective(f)
  BY <1>2 DEF SetToSeq, n
<1>4. IsFiniteSet(1..n) /\ Cardinality(1..n) = n
  BY <1>1, FS_Interval
<1>5. f \in Injection(1..n, S)
  BY <1>3 DEF Injection, IsInjective
<1>6. f \in Surjection(1..n, S)
  BY <1>4, <1>5, FS_Injection DEF n
<1>7. \A x \in S : \E k \in DOMAIN f : f[k] = x
  BY <1>3, <1>6 DEF Surjection
<1> QED
  BY <1>1, <1>3, <1>7 DEF Lists, n

\* Old rows keep what identifies them and whether they are open; every inserted write
\* has become one open row.
Rewritten(t, r) ==
    /\ r \in Seq(TaskRow) /\ DOMAIN tasks \subseteq DOMAIN r
    /\ \A i \in DOMAIN tasks :
           r[i].subject = tasks[i].subject /\ r[i].reason = tasks[i].reason /\ r[i].open = tasks[i].open
    /\ \A i \in DOMAIN r \ DOMAIN tasks :
           /\ r[i].open /\ r[i].subject = t.subject
           /\ \E w \in t.writes : w.task = 0 /\ w.reason = r[i].reason /\ w.count = r[i].count
    /\ \A i \in DOMAIN tasks :
           \/ \E w \in t.writes : w.task = i /\ r[i].count = w.count
           \/ (\A w \in t.writes : w.task # i) /\ r[i].count = tasks[i].count
    /\ \A i, j \in DOMAIN r \ DOMAIN tasks : r[i].reason = r[j].reason => i = j
    /\ \A w \in t.writes : w.task = 0 => \E i \in DOMAIN r \ DOMAIN tasks : r[i].reason = w.reason

\* The rows that the first sightings of a request become.
NewRow(t, w) == [subject |-> t.subject, reason |-> w.reason, open |-> TRUE, count |-> w.count]
NewRows(t) == {NewRow(t, w) : w \in {x \in t.writes : x.task = 0}}
Recount(t, i) ==
    IF \E w \in t.writes : w.task = i
    THEN [tasks[i] EXCEPT !.count = (CHOOSE w \in t.writes : w.task = i).count]
    ELSE tasks[i]

LEMMA NewRowsAre ==
    ASSUME NEW t \in Tx, Distinct(t)
    PROVE  /\ NewRows(t) \subseteq TaskRow /\ IsFiniteSet(NewRows(t))
           /\ \A x \in NewRows(t) :
                  /\ x.open /\ x.subject = t.subject
                  /\ \E w \in t.writes : w.task = 0 /\ w.reason = x.reason /\ w.count = x.count
           /\ \A x, y \in NewRows(t) : x.reason = y.reason => x = y
           /\ \A w \in t.writes : w.task = 0 => \E x \in NewRows(t) : x.reason = w.reason
<1>1. \A w \in t.writes : w \in Write /\ NewRow(t, w) \in TaskRow /\ NewRow(t, w).reason = w.reason
                         /\ NewRow(t, w).count = w.count
                         /\ NewRow(t, w).open /\ NewRow(t, w).subject = t.subject
  BY DEF Tx, Write, TaskRow, NewRow
<1>2. \A w, x \in t.writes : w.reason = x.reason => w = x
  BY DEF Distinct
<1> DEFINE I == {x \in t.writes : x.task = 0}
           f == [w \in I |-> NewRow(t, w)]
<1>3. IsFiniteSet(I)
  BY FS_Subset DEF Distinct
<1>4. f \in Surjection(I, NewRows(t))
  BY DEF Surjection, NewRows
<1>5. IsFiniteSet(NewRows(t))
  BY <1>3, <1>4, FS_Surjection
<1> QED
  BY <1>1, <1>2, <1>5 DEF NewRows

LEMMA RecountKeeps ==
    ASSUME tasks \in Seq(TaskRow), NEW t \in Tx, NEW i \in DOMAIN tasks
    PROVE  /\ Recount(t, i) \in TaskRow /\ Recount(t, i).subject = tasks[i].subject
           /\ Recount(t, i).reason = tasks[i].reason /\ Recount(t, i).open = tasks[i].open
           /\ \/ \E w \in t.writes : w.task = i /\ Recount(t, i).count = w.count
              \/ (\A w \in t.writes : w.task # i) /\ Recount(t, i).count = tasks[i].count
<1>1. tasks[i] \in TaskRow
  OBVIOUS
<1>2. CASE \E w \in t.writes : w.task = i
  <2>1. PICK w \in t.writes : w.task = i /\ w = CHOOSE x \in t.writes : x.task = i
    BY <1>2
  <2>2. w.count \in Nat \ {0}
    BY DEF Tx, Write
  <2>3. Recount(t, i) = [tasks[i] EXCEPT !.count = w.count]
    BY <1>2, <2>1 DEF Recount
  <2>4. /\ Recount(t, i) \in TaskRow /\ Recount(t, i).subject = tasks[i].subject
        /\ Recount(t, i).reason = tasks[i].reason /\ Recount(t, i).open = tasks[i].open
        /\ Recount(t, i).count = w.count
    BY <1>1, <2>2, <2>3 DEF TaskRow
  <2> QED
    BY <2>1, <2>4
<1>3. CASE \A w \in t.writes : w.task # i
  <2>1. Recount(t, i) = tasks[i]
    BY <1>3 DEF Recount
  <2> QED
    BY <1>1, <1>3, <2>1
<1> QED
  BY <1>2, <1>3

LEMMA WritesRewrite ==
    ASSUME tasks \in Seq(TaskRow), NEW t \in Tx, Distinct(t)
    PROVE  Rewritten(t, WithWrites(tasks, t.subject, t.writes))
<1> DEFINE updated == [i \in DOMAIN tasks |-> Recount(t, i)]
           S == NewRows(t)
           added == SetToSeq(S)
           n == Len(tasks)
           m == Cardinality(S)
           r == updated \o added
<1>1. WithWrites(tasks, t.subject, t.writes) = r
  BY DEF WithWrites, Recount, NewRows, NewRow
<1>2. n \in Nat /\ DOMAIN tasks = 1..n
  OBVIOUS
<1>3. \A i \in DOMAIN tasks :
          /\ Recount(t, i) \in TaskRow /\ Recount(t, i).subject = tasks[i].subject
          /\ Recount(t, i).reason = tasks[i].reason /\ Recount(t, i).open = tasks[i].open
          /\ \/ \E w \in t.writes : w.task = i /\ Recount(t, i).count = w.count
             \/ (\A w \in t.writes : w.task # i) /\ Recount(t, i).count = tasks[i].count
  BY RecountKeeps
<1>4. /\ S \subseteq TaskRow /\ IsFiniteSet(S)
      /\ \A x \in S : /\ x.open /\ x.subject = t.subject
                      /\ \E w \in t.writes : w.task = 0 /\ w.reason = x.reason /\ w.count = x.count
      /\ \A x, y \in S : x.reason = y.reason => x = y
      /\ \A w \in t.writes : w.task = 0 => \E x \in S : x.reason = w.reason
  BY NewRowsAre
<1> HIDE DEF S
<1>5. /\ added \in [1..m -> S] /\ m \in Nat /\ IsInjective(added)
      /\ \A x \in S : \E k \in DOMAIN added : added[k] = x
  BY <1>4, SetIsListed DEF Lists
<1> HIDE DEF added, m, n
<1>6. updated \in Seq(TaskRow) /\ Len(updated) = n /\ \A i \in 1..n : updated[i] = Recount(t, i)
  <2>1. updated \in [1..n -> TaskRow]
    BY <1>2, <1>3
  <2> QED
    BY <1>2, <2>1
<1>7. added \in Seq(TaskRow) /\ Len(added) = m
  <2>1. added \in [1..m -> TaskRow]
    BY <1>4, <1>5
  <2> QED
    BY <1>5, <2>1
<1> HIDE DEF updated
<1>8. /\ r \in Seq(TaskRow) /\ Len(r) = n + m
      /\ \A i \in 1..(n + m) : r[i] = IF i <= n THEN updated[i] ELSE added[i - n]
  BY <1>6, <1>7, ConcatProperties
<1> HIDE DEF r
<1>9. DOMAIN r = 1..(n + m)
  BY <1>8
<1>10. \A i \in DOMAIN tasks : i \in DOMAIN r /\ r[i] = Recount(t, i)
  BY <1>2, <1>5, <1>6, <1>8, <1>9
<1>11. \A i \in DOMAIN r \ DOMAIN tasks : i - n \in 1..m /\ r[i] = added[i - n] /\ i \in Int
  BY <1>2, <1>5, <1>8, <1>9
<1>12. \A k \in 1..m : k + n \in DOMAIN r \ DOMAIN tasks /\ r[k + n] = added[k]
  BY <1>2, <1>5, <1>8, <1>9
<1>13. \A i \in DOMAIN r \ DOMAIN tasks : r[i] \in S
  BY <1>5, <1>11
<1>14. ASSUME NEW i \in DOMAIN r \ DOMAIN tasks, NEW j \in DOMAIN r \ DOMAIN tasks,
              r[i].reason = r[j].reason
       PROVE  i = j
  <2>1. r[i] = r[j]
    BY <1>4, <1>13, <1>14
  <2>2. i - n = j - n
    BY <1>5, <1>11, <2>1 DEF IsInjective
  <2> QED
    BY <1>2, <1>11, <2>2
<1>15. ASSUME NEW w \in t.writes, w.task = 0
       PROVE  \E i \in DOMAIN r \ DOMAIN tasks : r[i].reason = w.reason
  <2>1. PICK x \in S : x.reason = w.reason
    BY <1>4, <1>15
  <2>2. PICK k \in 1..m : added[k] = x
    BY <1>5
  <2> QED
    BY <1>12, <2>1, <2>2
<1> QED
  BY <1>1, <1>3, <1>4, <1>8, <1>10, <1>13, <1>14, <1>15 DEF Rewritten

-----------------------------------------------------------------------------
(* Every step keeps the invariant. *)

LEMMA EvidenceIsDated ==
    ASSUME Tables
    PROVE  \A i \in DOMAIN evidence : evidence[i].created \in Nat /\ evidence[i].created <= clock
<1>1. \A i \in DOMAIN evidence : evidence[i] \in EvidenceRow /\ evidence[i].created <= clock
  BY DEF Tables
<1> QED
  BY <1>1 DEF EvidenceRow

LEMMA GoesKeeps ==
    ASSUME Inv, NEW s \in Slots, NEW t, Goes(s, t)
    PROVE  Inv'
<1>1. /\ Tables /\ Requests /\ Reserved /\ SingleTasks /\ Alone /\ Chained /\ ForkNeedsOverlap
      /\ ~At(s, "idle") /\ t \in Tx /\ Sound(t)' /\ clock \in Nat /\ clock' \in Nat /\ clock <= clock'
      /\ UNCHANGED <<status, tasks, evidence, meters>> /\ clock' \in {clock, clock + 1}
      /\ t = NoTx \/ (t.pc # "idle" /\ Onward(s, t))
  BY DEF Inv, Goes, Tables
<1>2. tx' = [tx EXCEPT ![s] = t] /\ tx \in [Slots -> Tx]
  BY DEF Goes, Step, Inv, Requests
<1>3. tx'[s] = t /\ \A o \in Slots \ {s} : tx'[o] = tx[o]
  BY <1>2
<1>4. Tables'
  <2>1. \A i \in DOMAIN evidence : evidence[i].created \in Nat /\ evidence[i].created <= clock
    BY <1>1, EvidenceIsDated
  <2>2. \A i \in DOMAIN evidence : evidence[i].created <= clock'
    BY <1>1, <2>1
  <2> QED
    BY <1>1, <2>2 DEF Tables
<1>5. Requests'
  <2>1. tx' \in [Slots -> Tx]
    BY <1>1, <1>2
  <2>2. ASSUME NEW o \in Slots  PROVE Sound(tx[o])'
    <3>1. CASE o = s
      BY <1>1, <1>3, <3>1
    <3>2. CASE o # s
      <4>1. PICK u : u = tx[o] /\ u \in Tx /\ Sound(u)
        BY <1>1 DEF Requests
      <4>2. Sound(u)'
        BY <1>1, <4>1, SoundStays
      <4> QED
        BY <1>3, <3>2, <4>1, <4>2
    <3> QED
      BY <3>1, <3>2
  <2> QED
    BY <2>1, <2>2 DEF Requests
<1>6. \A subject, reason : OpenTasks(subject, reason)' = OpenTasks(subject, reason)
  BY <1>1 DEF OpenTasks
<1>7. t = NoTx => t.writes = {} /\ t.pc = "idle"
  BY NoTxIs
<1>8. Reserved'
  <2>1. \A w \in t.writes : w.task = 0 =>
            /\ t.subject = tx[s].subject
            /\ w \in tx[s].writes \/ Free(s, t.subject, w.reason)
    BY <1>1, <1>7 DEF Onward
  <2>2. ASSUME NEW w \in t.writes, w.task = 0
        PROVE  /\ OpenTasks(t.subject, w.reason) = {}
               /\ \A o \in Slots \ {s} : \A x \in tx[o].writes :
                      ~(tx[o].subject = t.subject /\ x.task = 0 /\ x.reason = w.reason)
    BY <1>1, <2>1, <2>2 DEF Reserved, Free, TaskPending
  <2>3. ASSUME NEW p \in Slots, NEW w \in tx'[p].writes, w.task = 0
        PROVE  /\ OpenTasks(tx'[p].subject, w.reason) = {}
               /\ \A o \in Slots \ {p} : \A x \in tx'[o].writes :
                      ~(tx'[o].subject = tx'[p].subject /\ x.task = 0 /\ x.reason = w.reason)
    <3>1. CASE p = s
      BY <1>3, <2>2, <2>3, <3>1
    <3>2. CASE p # s
      BY <1>1, <1>3, <2>2, <2>3, <3>2 DEF Reserved
    <3> QED
      BY <3>1, <3>2
  <2> QED
    BY <1>6, <2>3 DEF Reserved
<1>9. LastEvent' = LastEvent
  BY <1>1 DEF LastEvent
<1>10. Alone'
  <2>1. ASSUME NEW p \in Slots, RunsAlone(p)'
        PROVE  p = s /\ RunsAlone(s) /\ Onward(s, t)
    <3>1. CASE p = s
      BY <1>1, <1>3, <1>7, <2>1, <3>1 DEF RunsAlone, At, Onward
    <3>2. CASE p # s
      BY <1>1, <1>3, <2>1, <3>2 DEF RunsAlone, At, Alone
    <3> QED
      BY <3>1, <3>2
  <2>2. ASSUME RunsAlone(s), Onward(s, t)
        PROVE  /\ \A o \in Slots \ {s} : At(o, "idle")'
               /\ \A i \in DOMAIN evidence : evidence[i].created < t.created
               /\ t.pc = "commit" => ReadEnd(t)
    <3>1. \A o \in Slots \ {s} : At(o, "idle")'
      BY <1>1, <1>3, <2>2 DEF Alone, At
    <3>2. \A i \in DOMAIN evidence : evidence[i].created \in Nat /\ evidence[i].created <= clock
      BY <1>1, EvidenceIsDated
    <3>3. \A i \in DOMAIN evidence : evidence[i].created < t.created
      BY <1>1, <2>2, <3>2 DEF Alone, Onward
    <3> QED
      BY <2>2, <3>1, <3>3 DEF Onward
  <2>3. ReadEnd(t) => ReadEnd(t)'
    BY <1>9 DEF ReadEnd
  <2> QED
    BY <1>1, <1>3, <2>1, <2>2, <2>3 DEF Alone, At
<1>11. SingleTasks' /\ Chained' /\ ForkNeedsOverlap'
  BY <1>1, <1>9 DEF SingleTasks, Chained, ForkNeedsOverlap
<1> QED
  BY <1>4, <1>5, <1>8, <1>10, <1>11 DEF Inv

LEMMA BeginKeeps ==
    ASSUME Inv, NEW s \in Slots, NEW subject \in Subjects, NEW named \in BOOLEAN,
           NEW risk \in PreCheckLevels, Begin(s, subject, named, risk)
    PROVE  Inv'
<1>1. /\ Tables /\ Requests /\ Reserved /\ SingleTasks /\ Alone /\ Chained /\ ForkNeedsOverlap
      /\ UNCHANGED <<status, tasks, evidence, meters>> /\ clock \in Nat /\ clock' = clock + 1
      /\ tx \in [Slots -> Tx]
  BY DEF Inv, Begin, tables, Tables, Requests
<1>2. PICK n \in Nat : n = clock + 1
  BY <1>1
<1>3. PICK t \in Tx :
          /\ t.pc = "auth" /\ t.created = n /\ t.subject = subject
          /\ t.alone => \A p \in Slots \ {s} : At(p, "idle")
          /\ t.writes = {} /\ t.todo = <<>> /\ t.event = "none" /\ t.seen = 0 /\ t.meter = 0 /\ ~t.fresh
          /\ tx' = [o \in Slots |-> IF o = s THEN t
                                  ELSE IF At(o, "idle") THEN NoTx ELSE [tx[o] EXCEPT !.alone = FALSE]]
  <2> DEFINE b == \A p \in Slots \ {s} : At(p, "idle")
             t == [NoTx EXCEPT !.pc = "auth", !.created = n, !.alone = b,
                               !.subject = subject, !.named = named, !.risk = risk]
  <2>1. tx' = [o \in Slots |-> IF o = s THEN t
                               ELSE IF At(o, "idle") THEN NoTx ELSE [tx[o] EXCEPT !.alone = FALSE]]
    BY <1>2 DEF Begin
  <2>2. b \in BOOLEAN /\ (b => \A p \in Slots \ {s} : At(p, "idle"))
    OBVIOUS
  <2> HIDE DEF b
  <2>3. risk \in Risks
    BY PoliciesAreKnown DEF Risks
  <2>4. /\ t \in Tx /\ t.pc = "auth" /\ t.created = n /\ t.alone = b /\ t.subject = subject
        /\ t.writes = {} /\ t.todo = <<>> /\ t.event = "none" /\ t.seen = 0 /\ t.meter = 0 /\ ~t.fresh
    BY <1>2, <2>2, <2>3, NoTxIs DEF Tx, Pcs
  <2> HIDE DEF t
  <2> QED
    BY <2>1, <2>2, <2>4
<1>6. tx'[s] = t
  BY <1>3
<1>7. ASSUME NEW o \in Slots \ {s}
      PROVE  \E u \in Tx, v \in Tx :
                 /\ u = tx[o] /\ v = tx'[o] /\ Sound(v)' /\ v.pc = u.pc /\ v.subject = u.subject /\ v.named = u.named
                 /\ v.writes = u.writes /\ (v.pc # "idle" => ~v.alone)
  <2>1. PICK u : u = tx[o] /\ u \in Tx /\ Sound(u)
    BY <1>1 DEF Requests
  <2>2. CASE u.pc = "idle"
    <3>1. u = NoTx /\ tx'[o] = NoTx
      BY <1>3, <2>1, <2>2 DEF Sound, At
    <3>2. Sound(u)'
      BY <1>1, <2>1, SoundStays
    <3> QED
      BY <2>1, <2>2, <3>1, <3>2
  <2>3. CASE u.pc # "idle"
    <3> DEFINE v == [u EXCEPT !.alone = FALSE]
    <3>1. /\ v \in Tx /\ ~v.alone /\ v.pc = u.pc /\ v.subject = u.subject /\ v.named = u.named /\ v.writes = u.writes
          /\ v.todo = u.todo /\ v.event = u.event /\ v.seen = u.seen /\ v.meter = u.meter
          /\ v.fresh = u.fresh /\ v.created = u.created
      BY <2>1 DEF Tx
    <3>2. tx'[o] = v
      BY <1>3, <2>1, <2>3 DEF At
    <3> HIDE DEF v
    <3>3. Sound(v)
      BY <2>1, <2>3, <3>1 DEF Sound, Distinct
    <3>4. Sound(v)'
      BY <1>1, <3>1, <3>3, SoundStays
    <3> QED
      BY <2>1, <3>1, <3>2, <3>4
  <2> QED
    BY <2>2, <2>3
<1>8. Tables'
  <2>1. \A i \in DOMAIN evidence : evidence[i].created \in Nat /\ evidence[i].created <= clock
    BY <1>1, EvidenceIsDated
  <2>2. \A i \in DOMAIN evidence : evidence[i].created <= clock'
    BY <1>1, <2>1
  <2> QED
    BY <1>1, <2>2 DEF Tables
<1>9. Requests'
  <2>1. Sound(t)'
    <3>1. Distinct(t)
      BY <1>3, NothingToDo DEF Distinct
    <3>2. (t.created <= clock)'
      BY <1>1, <1>2, <1>3
    <3> QED
      BY <1>3, <3>1, <3>2 DEF Sound
  <2>2. DOMAIN tx' = Slots /\ \A o \in Slots : tx'[o] \in Tx
    BY <1>3, <1>6, <1>7
  <2>3. tx' \in [Slots -> Tx]
    BY <1>3, <2>2
  <2>4. \A o \in Slots : Sound(tx[o])'
    BY <1>6, <1>7, <2>1
  <2> QED
    BY <2>3, <2>4 DEF Requests
<1>10. \A q, reason : OpenTasks(q, reason)' = OpenTasks(q, reason)
  BY <1>1 DEF OpenTasks
<1>11. Reserved'
  <2>1. tx'[s].writes = {}
    BY <1>3, <1>6
  <2>2. \A o \in Slots \ {s} : tx'[o].writes = tx[o].writes /\ tx'[o].subject = tx[o].subject
    BY <1>7
  <2> QED
    BY <1>1, <1>10, <2>1, <2>2 DEF Reserved
<1>12. LastEvent' = LastEvent
  BY <1>1 DEF LastEvent
<1>13. Alone'
  <2>1. \A o \in Slots \ {s} : ~RunsAlone(o)' /\ (At(o, "idle") => At(o, "idle")')
    BY <1>7 DEF RunsAlone, At
  <2>2. RunsAlone(s)' => \A o \in Slots \ {s} : At(o, "idle")'
    BY <1>3, <1>6, <2>1 DEF RunsAlone
  <2>3. \A i \in DOMAIN evidence : evidence[i].created < t.created
    BY <1>1, <1>2, <1>3, EvidenceIsDated
  <2> QED
    BY <1>1, <1>3, <1>6, <2>1, <2>2, <2>3 DEF Alone, At
<1>14. SingleTasks' /\ Chained' /\ ForkNeedsOverlap'
  BY <1>1, <1>12 DEF SingleTasks, Chained, ForkNeedsOverlap
<1> QED
  BY <1>8, <1>9, <1>11, <1>13, <1>14 DEF Inv

\* What committing request t leaves: its evidence e, its tasks, nothing of itself.
Ends(s, t, e) ==
    /\ t = tx[s] /\ t \in Tx /\ Sound(t) /\ t.pc = "commit"
    /\ tx'[s] = NoTx /\ tx' \in [Slots -> Tx] /\ \A o \in Slots \ {s} : tx'[o] = tx[o]
    /\ Rewritten(t, tasks') /\ clock' = clock
    /\ e.event = t.event /\ e.prev = t.prev /\ e.created = t.created /\ e.alone = t.alone
    /\ e.subject = t.subject /\ e.reasons = {w.reason : w \in t.writes}
    /\ \E n \in Nat :
           /\ DOMAIN evidence = 1..n /\ DOMAIN evidence' = 1..(n + 1) /\ evidence'[n + 1] = e
           /\ \A i \in 1..n : evidence'[i] = evidence[i]
Bills(t) ==
    IF ~Billed(t.event) THEN meters' = meters
    ELSE IF t.meter = 0 THEN meters' = Append(meters, 1)
    ELSE meters' = [meters EXCEPT ![t.meter] = t.count + 1]

LEMMA CommitEnds ==
    ASSUME Tables, Requests, NEW s \in Slots, Commit(s)
    PROVE  /\ Tables' /\ DOMAIN meters \subseteq DOMAIN meters'
           /\ \E t, e : Ends(s, t, e) /\ Bills(t)
<1>1. PICK t : t = tx[s] /\ t \in Tx /\ Sound(t) /\ t.pc = "commit"
  BY OfSlot DEF Commit
<1>2. Rewritten(t, tasks')
  <2>1. tasks' = WithWrites(tasks, t.subject, t.writes)
    BY <1>1 DEF Commit
  <2>2. tasks \in Seq(TaskRow) /\ Distinct(t)
    BY <1>1 DEF Tables, Sound
  <2>3. Rewritten(t, WithWrites(tasks, t.subject, t.writes))
    BY <1>1, <2>2, WritesRewrite
  <2> QED
    BY <2>1, <2>3
<1>3. /\ tx'[s] = NoTx /\ tx' \in [Slots -> Tx] /\ clock' = clock /\ clock \in Nat
      /\ \A o \in Slots \ {s} : tx'[o] = tx[o]
  BY NoTxIs DEF Commit, Step, Requests, Tables
<1>4. PICK e \in EvidenceRow :
          /\ evidence' = Append(evidence, e)
          /\ e.event = t.event /\ e.prev = t.prev /\ e.created = t.created /\ e.alone = t.alone
          /\ e.subject = t.subject /\ e.reasons = {w.reason : w \in t.writes}
  <2> DEFINE e == [event |-> t.event, subject |-> t.subject, reasons |-> {w.reason : w \in t.writes},
                   prev |-> t.prev, created |-> t.created, alone |-> t.alone]
  <2>1. {w.reason : w \in t.writes} \subseteq Reasons
    BY <1>1 DEF Tx, Write
  <2>2. e \in EvidenceRow
    BY <1>1, <2>1 DEF Tx, EvidenceRow
  <2>3. evidence' = Append(evidence, e)
    BY <1>1 DEF Commit
  <2>4. /\ e.event = t.event /\ e.prev = t.prev /\ e.created = t.created /\ e.alone = t.alone
        /\ e.subject = t.subject /\ e.reasons = {w.reason : w \in t.writes}
    OBVIOUS
  <2> HIDE DEF e
  <2> QED
    BY <2>2, <2>3, <2>4
<1>5. /\ evidence' \in Seq(EvidenceRow)
      /\ \E n \in Nat :
           /\ DOMAIN evidence = 1..n /\ DOMAIN evidence' = 1..(n + 1) /\ evidence'[n + 1] = e
           /\ \A i \in 1..n : evidence'[i] = evidence[i]
  <2>1. evidence \in Seq(EvidenceRow)
    BY DEF Tables
  <2>2. /\ evidence' \in Seq(EvidenceRow) /\ Len(evidence') = Len(evidence) + 1
        /\ \A i \in 1..Len(evidence) : evidence'[i] = evidence[i]
        /\ evidence'[Len(evidence) + 1] = e
    BY <1>4, <2>1, AppendProperties
  <2>3. /\ Len(evidence) \in Nat /\ DOMAIN evidence = 1..Len(evidence)
        /\ DOMAIN evidence' = 1..(Len(evidence) + 1)
    BY <2>1, <2>2
  <2> QED
    BY <2>2, <2>3
<1>6. \A i \in DOMAIN evidence' : evidence'[i].created <= clock'
  <2>1. e.created <= clock
    BY <1>1, <1>4 DEF Sound
  <2> QED
    BY <1>3, <1>5, <2>1, EvidenceIsDated
<1>7. status' \in [Versions -> VersionStatuses]
  <2>1. t.fresh => t.subject \in Versions /\ FreshStatus(t.known) \in VersionStatuses
    BY <1>1 DEF Sound, FreshStatus, VersionStatuses
  <2>2. status' = IF t.fresh THEN [status EXCEPT ![t.subject] = FreshStatus(t.known)] ELSE status
    BY <1>1 DEF Commit
  <2> QED
    BY <2>1, <2>2 DEF Tables
<1>8. Bills(t)
  BY <1>1 DEF Commit, Bills
<1>9. meters' \in Seq(Nat \ {0}) /\ DOMAIN meters \subseteq DOMAIN meters'
  <2>1. meters \in Seq(Nat \ {0}) /\ t.count \in Nat /\ (t.meter # 0 => t.meter \in DOMAIN meters)
    BY <1>1 DEF Tables, Tx, Sound
  <2>2. CASE ~Billed(t.event)
    BY <1>8, <2>1, <2>2 DEF Bills
  <2>3. CASE Billed(t.event) /\ t.meter = 0
    <3>1. meters' = Append(meters, 1)
      BY <1>8, <2>3 DEF Bills
    <3> QED
      BY <2>1, <3>1
  <2>4. CASE Billed(t.event) /\ t.meter # 0
    <3>1. meters' = [meters EXCEPT ![t.meter] = t.count + 1]
      BY <1>8, <2>4 DEF Bills
    <3>2. t.count + 1 \in Nat \ {0}
      BY <2>1
    <3> QED
      BY <2>1, <2>4, <3>1, <3>2
  <2> QED
    BY <2>2, <2>3, <2>4
<1>10. Tables'
  BY <1>2, <1>3, <1>5, <1>6, <1>7, <1>9 DEF Tables, Rewritten
<1>11. Ends(s, t, e)
  BY <1>1, <1>2, <1>3, <1>4, <1>5 DEF Ends
<1> QED
  BY <1>8, <1>9, <1>10, <1>11

LEMMA CommitKeeps ==
    ASSUME Inv, NEW s \in Slots, Commit(s)
    PROVE  Inv'
<1>1. /\ Tables /\ Requests /\ Reserved /\ SingleTasks /\ Alone /\ Chained /\ ForkNeedsOverlap
      /\ Tables' /\ DOMAIN meters \subseteq DOMAIN meters'
  BY CommitEnds DEF Inv
<1>2. PICK t, e : Ends(s, t, e)
  BY <1>1, CommitEnds
<1>3. /\ t = tx[s] /\ t \in Tx /\ Sound(t) /\ t.pc = "commit" /\ clock' = clock /\ clock \in Nat
      /\ tx'[s] = NoTx /\ tx' \in [Slots -> Tx] /\ \A o \in Slots \ {s} : tx'[o] = tx[o]
  BY <1>1, <1>2 DEF Ends, Tables
<1>4. /\ DOMAIN tasks \subseteq DOMAIN tasks'
      /\ \A i \in DOMAIN tasks :
            /\ tasks'[i].subject = tasks[i].subject /\ tasks'[i].reason = tasks[i].reason
            /\ tasks'[i].open = tasks[i].open
      /\ \A i \in DOMAIN tasks' \ DOMAIN tasks :
            tasks'[i].open /\ tasks'[i].subject = t.subject
            /\ \E w \in t.writes : w.task = 0 /\ w.reason = tasks'[i].reason
      /\ \A i, j \in DOMAIN tasks' \ DOMAIN tasks : tasks'[i].reason = tasks'[j].reason => i = j
  BY <1>2 DEF Ends, Rewritten
<1>5. PICK n \in Nat :
          /\ DOMAIN evidence = 1..n /\ DOMAIN evidence' = 1..(n + 1) /\ evidence'[n + 1] = e
          /\ \A i \in 1..n : evidence'[i] = evidence[i]
  BY <1>2 DEF Ends
<1>6. e.prev = t.prev /\ e.created = t.created /\ e.alone = t.alone /\ e.created \in Nat /\ e.prev \in Nat
  BY <1>2 DEF Ends, Tx
<1>7. Requests'
  <2>1. Lasting
    BY <1>1, <1>4 DEF Lasting
  <2>2. ASSUME NEW o \in Slots  PROVE Sound(tx[o])'
    <3>1. PICK u : u = tx'[o] /\ u \in Tx /\ Sound(u)
      BY <1>1, <1>3, NoTxIs, NoTxSound DEF Requests
    <3>2. Sound(u)'
      BY <1>3, <2>1, <3>1, SoundLasts
    <3> QED
      BY <3>1, <3>2
  <2> QED
    BY <1>3, <2>2 DEF Requests
<1>8. Reserved'
  <2>1. ASSUME NEW p \in Slots, NEW w \in tx'[p].writes, w.task = 0
        PROVE  /\ OpenTasks(tx[p].subject, w.reason)' = {}
               /\ \A o \in Slots \ {p} : \A x \in tx'[o].writes :
                      ~(tx'[o].subject = tx'[p].subject /\ x.task = 0 /\ x.reason = w.reason)
    <3>1. p # s /\ tx'[p] = tx[p]
      BY <1>3, <2>1, NoTxIs
    <3>2. /\ OpenTasks(tx[p].subject, w.reason) = {}
          /\ \A o \in Slots \ {p} : \A x \in tx[o].writes :
                 ~(tx[o].subject = tx[p].subject /\ x.task = 0 /\ x.reason = w.reason)
      BY <1>1, <2>1, <3>1 DEF Reserved
    <3>3. OpenTasks(tx[p].subject, w.reason)' = {}
      BY <1>3, <1>4, <3>1, <3>2 DEF OpenTasks
    <3>4. \A o \in Slots \ {p} : \A x \in tx'[o].writes : o # s /\ tx'[o] = tx[o]
      BY <1>3, NoTxIs
    <3> QED
      BY <3>1, <3>2, <3>3, <3>4
  <2> QED
    BY <2>1 DEF Reserved
<1>9. SingleTasks'
  <2>1. ASSUME NEW i \in DOMAIN tasks', NEW j \in DOMAIN tasks', i \notin DOMAIN tasks, j \in DOMAIN tasks,
               tasks'[j].open, tasks'[i].subject = tasks'[j].subject,
               tasks'[i].reason = tasks'[j].reason
        PROVE  FALSE
    <3>1. PICK w \in t.writes : w.task = 0 /\ w.reason = tasks'[i].reason
      BY <1>4, <2>1
    <3>2. OpenTasks(t.subject, w.reason) = {}
      BY <1>1, <1>3, <3>1 DEF Reserved
    <3>3. j \in OpenTasks(t.subject, w.reason)
      BY <1>4, <2>1, <3>1 DEF OpenTasks
    <3> QED
      BY <3>2, <3>3
  <2>2. ASSUME NEW i \in DOMAIN tasks', NEW j \in DOMAIN tasks', tasks'[i].open, tasks'[j].open,
               tasks'[i].subject = tasks'[j].subject, tasks'[i].reason = tasks'[j].reason
        PROVE  i = j
    <3>1. CASE i \in DOMAIN tasks /\ j \in DOMAIN tasks
      BY <1>1, <1>4, <2>2, <3>1 DEF SingleTasks
    <3>2. CASE i \notin DOMAIN tasks /\ j \notin DOMAIN tasks
      BY <1>4, <2>2, <3>2
    <3> QED
      BY <2>1, <2>2, <3>1, <3>2
  <2> QED
    BY <2>2 DEF SingleTasks
<1>10. Alone'
  <2>1. ASSUME NEW p \in Slots, RunsAlone(p)'  PROVE FALSE
    <3>1. p # s /\ RunsAlone(p)
      BY <1>3, <2>1, NoTxIs DEF RunsAlone, At
    <3> QED
      BY <1>1, <1>3, <3>1 DEF Alone, At
  <2> QED
    BY <2>1 DEF Alone
<1>11. e.alone => /\ t.prev \in LastEvent \/ (LastEvent = {} /\ t.prev = 0)
                 /\ \A i \in 1..n : evidence[i].created < e.created
  BY <1>1, <1>3, <1>5, <1>6 DEF Alone, RunsAlone, At, ReadEnd
<1>12. \A i \in 1..n : evidence[i].created \in Nat
  BY <1>1, <1>5, EvidenceIsDated
<1>13. Chained'
  <2>1. LastEvent' # {}
    <3>1. CASE n = 0
      <4>1. 1 \in LastEvent'
        BY <1>5, <1>6, <3>1 DEF LastEvent
      <4> QED
        BY <4>1
    <3>2. CASE n # 0
      <4>1. evidence # <<>>
        BY <1>5, <3>2
      <4>2. PICK i \in LastEvent : TRUE
        BY <1>1, <4>1 DEF Chained
      <4>3. i \in 1..n /\ \A j \in 1..n : evidence[j].created <= evidence[i].created
        BY <1>5 DEF LastEvent
      <4>4. CASE e.created <= evidence[i].created
        <5>1. \A j \in 1..(n + 1) : evidence'[j].created <= evidence'[i].created
          BY <1>5, <4>3, <4>4
        <5>2. i \in LastEvent'
          BY <1>5, <4>3, <5>1 DEF LastEvent
        <5> QED
          BY <5>2
      <4>5. CASE ~(e.created <= evidence[i].created)
        <5>1. \A j \in 1..(n + 1) : evidence'[j].created <= evidence'[n + 1].created
          BY <1>5, <1>6, <1>12, <4>3, <4>5
        <5>2. n + 1 \in LastEvent'
          BY <1>5, <5>1 DEF LastEvent
        <5> QED
          BY <5>2
      <4> QED
        BY <4>4, <4>5
    <3> QED
      BY <3>1, <3>2
  <2>2. ASSUME NEW i \in 1..(n + 1), evidence'[i].alone, evidence'[i].prev # 0
        PROVE  /\ evidence'[i].prev \in 1..(n + 1)
               /\ evidence'[evidence'[i].prev].created < evidence'[i].created
    <3>1. CASE i = n + 1
      <4>1. t.prev \in 1..n /\ evidence'[t.prev] = evidence[t.prev]
        BY <1>5, <1>6, <1>11, <2>2, <3>1 DEF LastEvent
      <4>2. evidence[t.prev].created < e.created
        BY <1>5, <1>11, <2>2, <3>1, <4>1
      <4> QED
        BY <1>5, <1>6, <3>1, <4>1, <4>2
    <3>2. CASE i # n + 1
      <4>1. i \in 1..n /\ evidence'[i] = evidence[i]
        BY <1>5, <3>2
      <4>2. evidence[i].prev \in 1..n /\ evidence[evidence[i].prev].created < evidence[i].created
        BY <1>1, <1>5, <2>2, <4>1 DEF Chained
      <4> QED
        BY <1>5, <4>1, <4>2
    <3> QED
      BY <3>1, <3>2
  <2> QED
    BY <1>5, <2>1, <2>2 DEF Chained
<1>14. ForkNeedsOverlap'
  <2>1. ASSUME NEW i \in 1..n, evidence[i].prev = e.prev, evidence[i].alone, e.alone
        PROVE  FALSE
    <3>1. evidence # <<>>
      BY <1>5
    <3>2. LastEvent # {}
      BY <1>1, <3>1 DEF Chained
    <3>3. t.prev \in 1..n /\ evidence[i].created <= evidence[t.prev].created
      BY <1>5, <1>11, <2>1, <3>2 DEF LastEvent
    <3>4. evidence[t.prev].created < evidence[i].created
      BY <1>1, <1>5, <1>6, <2>1, <3>3 DEF Chained
    <3> QED
      BY <1>12, <3>3, <3>4
  <2>2. ASSUME NEW i \in 1..(n + 1), NEW j \in 1..(n + 1), i # j,
               evidence'[i].prev = evidence'[j].prev, evidence'[i].alone, evidence'[j].alone
        PROVE  FALSE
    <3>1. CASE i = n + 1
      <4>1. j \in 1..n /\ evidence'[j] = evidence[j]
        BY <1>5, <2>2, <3>1
      <4> QED
        BY <1>5, <2>1, <2>2, <3>1, <4>1
    <3>2. CASE j = n + 1
      <4>1. i \in 1..n /\ evidence'[i] = evidence[i]
        BY <1>5, <2>2, <3>2
      <4> QED
        BY <1>5, <2>1, <2>2, <3>2, <4>1
    <3>3. CASE i # n + 1 /\ j # n + 1
      <4>1. i \in 1..n /\ j \in 1..n /\ evidence'[i] = evidence[i] /\ evidence'[j] = evidence[j]
        BY <1>5, <3>3
      <4> QED
        BY <1>1, <1>5, <2>2, <4>1 DEF ForkNeedsOverlap
    <3> QED
      BY <3>1, <3>2, <3>3
  <2> QED
    BY <1>5, <2>2 DEF ForkNeedsOverlap
<1> QED
  BY <1>1, <1>7, <1>8, <1>9, <1>10, <1>13, <1>14 DEF Inv

\* The rows of review_tasks are the same but for being closed.
OnlyCloses ==
    /\ DOMAIN tasks' = DOMAIN tasks /\ tasks' \in Seq(TaskRow)
    /\ \A i \in DOMAIN tasks : /\ tasks'[i].subject = tasks[i].subject
                             /\ tasks'[i].reason = tasks[i].reason
                             /\ tasks'[i].open \in {FALSE, tasks[i].open}

LEMMA AdministerKeeps ==
    ASSUME Inv, Administer
    PROVE  Inv'
<1>1. /\ Tables /\ Requests /\ Reserved /\ SingleTasks /\ Alone /\ Chained /\ ForkNeedsOverlap
      /\ clock \in Nat
  BY DEF Inv, Tables
<1>2. UNCHANGED <<evidence, meters, clock, tx>>
  BY DEF Administer, ApproveVersion, RejectVersion, CloseReviewTask
<1>3. OnlyCloses
  <2>1. tasks \in Seq(TaskRow)
    BY <1>1 DEF Tables
  <2>2. CASE tasks' = tasks
    BY <2>1, <2>2 DEF OnlyCloses
  <2>3. ASSUME NEW i \in DOMAIN tasks, tasks' = [tasks EXCEPT ![i].open = FALSE]
        PROVE  OnlyCloses
    <3> DEFINE row == [tasks[i] EXCEPT !.open = FALSE]
    <3>1. tasks[i] \in TaskRow
      BY <2>1
    <3>2. /\ row \in TaskRow /\ row.open = FALSE /\ row.subject = tasks[i].subject
          /\ row.reason = tasks[i].reason
      BY <3>1 DEF TaskRow
    <3>3. tasks' = [tasks EXCEPT ![i] = row]
      BY <2>3
    <3> HIDE DEF row
    <3>4. tasks' \in Seq(TaskRow) /\ DOMAIN tasks' = DOMAIN tasks
      BY <2>1, <3>2, <3>3
    <3>5. \A j \in DOMAIN tasks : tasks'[j] = IF j = i THEN row ELSE tasks[j]
      BY <2>1, <3>3
    <3> QED
      BY <3>2, <3>4, <3>5 DEF OnlyCloses
  <2> QED
    BY <2>2, <2>3 DEF Administer, ApproveVersion, RejectVersion, CloseReviewTask
<1>4. status' \in [Versions -> VersionStatuses]
  BY <1>1 DEF Administer, ApproveVersion, RejectVersion, CloseReviewTask, Tables, VersionStatuses
<1>5. Tables'
  BY <1>1, <1>2, <1>3, <1>4 DEF Tables, OnlyCloses
<1>6. Requests'
  <2>1. Lasting
    BY <1>1, <1>2, <1>3 DEF Tables, Lasting, OnlyCloses
  <2>2. ASSUME NEW o \in Slots  PROVE Sound(tx[o])'
    <3>1. PICK u : u = tx[o] /\ u \in Tx /\ Sound(u)
      BY <1>1 DEF Requests
    <3>2. Sound(u)'
      BY <1>1, <1>2, <2>1, <3>1, SoundLasts
    <3> QED
      BY <1>2, <3>1, <3>2
  <2> QED
    BY <1>1, <1>2, <2>2 DEF Requests
<1>7. \A subject, reason : OpenTasks(subject, reason)' \subseteq OpenTasks(subject, reason)
  BY <1>3 DEF OpenTasks, OnlyCloses
<1>8. Reserved'
  BY <1>1, <1>2, <1>7 DEF Reserved
<1>9. SingleTasks'
  BY <1>1, <1>3 DEF SingleTasks, OnlyCloses
<1>10. LastEvent' = LastEvent
  BY <1>2 DEF LastEvent
<1>11. Alone' /\ Chained' /\ ForkNeedsOverlap'
  BY <1>1, <1>2, <1>10 DEF Alone, RunsAlone, At, ReadEnd, Chained, ForkNeedsOverlap
<1> QED
  BY <1>5, <1>6, <1>8, <1>9, <1>11 DEF Inv

LEMMA ContinueGoes ==
    ASSUME Tables, Requests, NEW s \in Slots, Continue(s)
    PROVE  Commit(s) \/ \E t : Goes(s, t)
BY AuthenticateGoes, GovernGoes, InsertVersionGoes, GivingUpGoes, FindTaskGoes, RecordTaskGoes,
   ProviderGoes, LogEventGoes DEF Continue

LEMMA StartsSound == ASSUME Init PROVE SerialInv
<1>1. DOMAIN tasks = {} /\ DOMAIN evidence = {} /\ DOMAIN meters = {}
  BY DEF Init
<1>2. \A s \in Slots : tx[s] = NoTx
  BY DEF Init
<1>3. Tables
  BY <1>1, EmptySeq DEF Init, Tables, VersionStatuses
<1>4. Requests
  BY <1>2, <1>3, NoTxIs, NoTxSound DEF Init, Requests, Tables
<1>5. Reserved /\ SingleTasks /\ Alone /\ ForkNeedsOverlap
  BY <1>1, <1>2, NoTxIs DEF Reserved, SingleTasks, Alone, RunsAlone, At, ForkNeedsOverlap
<1>6. Chained
  BY <1>1 DEF Init, Chained
<1>7. UsageMatchesCompleted
  BY <1>1 DEF Init, UsageMatchesCompleted, Completed
<1>8. OneHolder /\ \A s \in Slots : Sure(tx[s])
  BY <1>2, NoTxIs, RestsSurely DEF OneHolder, HoldsKey, At
<1> QED
  BY <1>3, <1>4, <1>5, <1>6, <1>7, <1>8 DEF SerialInv, Inv

LEMMA StepKeepsInv == ASSUME Inv, [Next]_vars PROVE Inv'
<1>1. CASE Next
  <2>1. ASSUME NEW s \in Slots, Continue(s)  PROVE Inv'
    BY <2>1, ContinueGoes, CommitKeeps, GoesKeeps DEF Inv
  <2> QED
    BY <1>1, <2>1, BeginKeeps, AdministerKeeps DEF Next
<1>2. CASE UNCHANGED vars
  <2>1. /\ Tables /\ Requests /\ Reserved /\ SingleTasks /\ Alone /\ Chained /\ ForkNeedsOverlap
        /\ UNCHANGED <<status, tasks, evidence, meters, clock, tx>>
    BY <1>2 DEF Inv, vars, tables
  <2>2. Tables'
    BY <2>1 DEF Tables
  <2>3. Requests'
    <3>1. ASSUME NEW s \in Slots  PROVE Sound(tx[s])'
      <4>1. PICK u : u = tx[s] /\ u \in Tx /\ Sound(u)
        BY <2>1 DEF Requests
      <4>2. Sound(u)'
        BY <2>1, <4>1, SoundStays DEF Tables
      <4> QED
        BY <2>1, <4>1, <4>2
    <3> QED
      BY <2>1, <3>1 DEF Requests
  <2>4. LastEvent' = LastEvent /\ \A subject, reason : OpenTasks(subject, reason)' = OpenTasks(subject, reason)
    BY <2>1 DEF LastEvent, OpenTasks
  <2>5. Reserved' /\ SingleTasks'
    BY <2>1, <2>4 DEF Reserved, SingleTasks
  <2>6. Alone' /\ Chained' /\ ForkNeedsOverlap'
    BY <2>1, <2>4 DEF Alone, RunsAlone, At, ReadEnd, Chained, ForkNeedsOverlap
  <2> QED
    BY <2>2, <2>3, <2>5, <2>6 DEF Inv
<1> QED
  BY <1>1, <1>2

LEMMA InvAlways == Spec => []Inv
<1>1. Init => Inv
  BY StartsSound DEF SerialInv
<1> QED
  BY <1>1, StepKeepsInv, PTL DEF Spec

\* The tables hold rows of their types, whatever steps requests and administrators take.
THEOREM Typed == Spec => []TypeOK
<1>1. Inv => TypeOK
  <2>1. Tables /\ Requests => TypeOK
    <3> SUFFICES ASSUME Tables, Requests PROVE TypeOK
      OBVIOUS
    <3>1. \A i \in DOMAIN tasks : tasks[i] \in TaskRow
      BY DEF Tables
    <3>2. \A i \in DOMAIN evidence : evidence[i] \in EvidenceRow
      BY DEF Tables
    <3>3. \A m \in DOMAIN meters : meters[m] \in Nat \ {0}
      BY DEF Tables
    <3>4. \A i \in DOMAIN evidence : evidence[i].subject \in Subjects /\ evidence[i].reasons \subseteq Reasons
      BY <3>2 DEF EvidenceRow
    <3> QED
      BY <3>1, <3>3, <3>4 DEF TypeOK, Tables, Requests, TaskRow, VersionStatuses
  <2> QED
    BY <2>1 DEF Inv
<1> QED
  BY <1>1, InvAlways, PTL

\* Whatever keys the requests of a tenant carry, a subject never has two open review tasks
\* for one reason: between the look for an open task and the commit of a new one, the
\* partial unique index makes every other insertion wait.
THEOREM OneOpenPerReason == Spec => []OneOpenTask
<1>1. Inv => OneOpenTask
  <2> SUFFICES ASSUME Inv, NEW subject \in Subjects, NEW reason \in Reasons
               PROVE  Cardinality(OpenTasks(subject, reason)) <= 1
    BY DEF OneOpenTask
  <2>1. \A i, j \in OpenTasks(subject, reason) : i = j
    BY DEF Inv, SingleTasks, OpenTasks
  <2>2. CASE OpenTasks(subject, reason) = {}
    BY <2>2, FS_EmptySet
  <2>3. CASE OpenTasks(subject, reason) # {}
    <3>1. PICK i : OpenTasks(subject, reason) = {i}
      BY <2>1, <2>3
    <3> QED
      BY <3>1, FS_Singleton
  <2> QED
    BY <2>2, <2>3
<1> QED
  BY <1>1, InvAlways, PTL

\* Whatever keys the requests carry, the chain of evidence forks only around requests that
\* overlapped another: of two that ran alone, the later has read the earlier's end.
THEOREM ForksShowOverlap == Spec => []ForkNeedsOverlap
<1>1. Inv => ForkNeedsOverlap
  BY DEF Inv
<1> QED
  BY <1>1, InvAlways, PTL

-----------------------------------------------------------------------------
(* One key: the requests run one after another once authenticated. *)

\* A request without the key has no share in tasks or meters.
Quiet(t) == t.seen = 0 /\ t.writes = {} /\ ~Holding(t)

LEMMA WithoutKeyQuiet ==
    ASSUME NEW t \in Tx, Sound(t), ~Holding(t)
    PROVE  Quiet(t)
<1>1. CASE t.pc = "idle"
  BY <1>1, NoTxIs DEF Sound, Quiet
<1>2. CASE t.pc = "auth"
  BY <1>2 DEF Sound, Quiet
<1>3. CASE t.event = "provider_error"
  <2>1. t.pc \in {"log", "commit", "idle"}
    BY <1>3 DEF Sound, Tx, Pcs
  <2> QED
    BY <1>1, <1>3, <2>1 DEF Sound, Quiet
<1> QED
  BY <1>1, <1>2, <1>3 DEF Holding

LEMMA QuietIsSure ==
    ASSUME NEW t, Quiet(t)
    PROVE  Sure(t)'
BY DEF Quiet, Holding, Sure, Exact, Covered, Billed

LEMMA GoesSerially ==
    ASSUME SharedKey, SerialInv, NEW s \in Slots, NEW t, Goes(s, t)
    PROVE  SerialInv'
<1>1. Inv' /\ Requests
  BY GoesKeeps DEF SerialInv, Inv
<1>2. /\ tx'[s] = t /\ \A o \in Slots \ {s} : tx'[o] = tx[o]
      /\ UNCHANGED <<status, tasks, evidence, meters>>
  BY <1>1 DEF Goes, Step, Requests
<1>3. \A o \in Slots \ {s} : HoldsKey(o)' = HoldsKey(o)
  BY <1>2 DEF HoldsKey, At
<1>4. HoldsKey(s)' <=> Holding(t)
  BY <1>2 DEF HoldsKey, Holding, At
<1>5. Holding(t) => \A o \in Slots \ {s} : ~HoldsKey(o)
  BY DEF Goes, SharedKey, SerialInv, OneHolder, KeyFree
<1>6. OneHolder'
  BY <1>3, <1>4, <1>5 DEF SerialInv, OneHolder
<1>7. UsageMatchesCompleted'
  BY <1>2 DEF SerialInv, UsageMatchesCompleted, Completed
<1>8. ASSUME NEW o \in Slots  PROVE Sure(tx[o])'
  <2>1. PICK u : u = tx'[o] /\ Sure(u)
    <3>1. CASE o = s
      BY <1>2, <3>1 DEF SerialInv, Goes
    <3>2. CASE o # s
      BY <1>2, <3>2 DEF SerialInv
    <3> QED
      BY <3>1, <3>2
  <2>2. Sure(u)'
    BY <1>2, <2>1 DEF Sure, Exact, Covered, StatusFor
  <2> QED
    BY <2>1, <2>2
<1> QED
  BY <1>1, <1>6, <1>7, <1>8 DEF SerialInv

LEMMA BeginSerially ==
    ASSUME SerialInv, NEW s \in Slots, NEW subject \in Subjects, NEW named \in BOOLEAN,
           NEW risk \in PreCheckLevels, Begin(s, subject, named, risk)
    PROVE  SerialInv'
<1>1. Inv' /\ Requests /\ UNCHANGED <<status, tasks, evidence, meters>>
  BY BeginKeeps DEF SerialInv, Inv, Begin, tables
<1>2. PICK begun : begun = tx'[s] /\ Quiet(begun)
  <2> DEFINE first == [NoTx EXCEPT !.pc = "auth", !.created = clock + 1,
                         !.alone = \A p \in Slots \ {s} : At(p, "idle"),
                         !.subject = subject, !.named = named, !.risk = risk]
  <2>1. tx'[s] = first
    BY DEF Begin
  <2>2. first.pc = "auth" /\ first.seen = NoTx.seen /\ first.writes = NoTx.writes
    BY DEF NoTx
  <2> HIDE DEF first
  <2> QED
    BY <2>1, <2>2, NoTxIs DEF Quiet, Holding
<1>3. ASSUME NEW o \in Slots \ {s}
      PROVE  \E u, v : /\ u = tx[o] /\ v = tx'[o] /\ Sure(u)
                       /\ v.pc = u.pc /\ v.event = u.event /\ v.seen = u.seen /\ v.writes = u.writes
                       /\ v.todo = u.todo /\ v.subject = u.subject /\ v.named = u.named /\ v.fresh = u.fresh
                       /\ v.known = u.known /\ v.meter = u.meter /\ v.count = u.count
  <2>1. PICK u : u = tx[o] /\ u \in Tx /\ Sound(u) /\ Sure(u)
    BY <1>1 DEF SerialInv, Requests
  <2>2. CASE u.pc = "idle"
    <3>1. tx'[o] = u
      BY <2>1, <2>2 DEF Begin, At, Sound
    <3> QED
      BY <2>1, <3>1
  <2>3. CASE u.pc # "idle"
    <3> DEFINE v == [u EXCEPT !.alone = FALSE]
    <3>1. tx'[o] = v
      BY <2>1, <2>3 DEF Begin, At
    <3>2. /\ v.pc = u.pc /\ v.event = u.event /\ v.seen = u.seen /\ v.writes = u.writes
          /\ v.todo = u.todo /\ v.subject = u.subject /\ v.named = u.named /\ v.fresh = u.fresh
          /\ v.known = u.known /\ v.meter = u.meter /\ v.count = u.count
      BY <2>1 DEF Tx
    <3> HIDE DEF v
    <3> QED
      BY <2>1, <3>1, <3>2
  <2> QED
    BY <2>2, <2>3
<1>4. ~HoldsKey(s)' /\ \A o \in Slots \ {s} : HoldsKey(o)' = HoldsKey(o)
  BY <1>2, <1>3 DEF HoldsKey, Holding, Quiet, At
<1>5. OneHolder'
  BY <1>4 DEF SerialInv, OneHolder
<1>6. UsageMatchesCompleted'
  BY <1>1 DEF SerialInv, UsageMatchesCompleted, Completed
<1>7. ASSUME NEW o \in Slots \ {s}  PROVE Sure(tx[o])'
  <2>1. PICK u, v : /\ u = tx[o] /\ v = tx'[o] /\ Sure(u)
                    /\ v.pc = u.pc /\ v.event = u.event /\ v.seen = u.seen /\ v.writes = u.writes
                    /\ v.todo = u.todo /\ v.subject = u.subject /\ v.named = u.named /\ v.fresh = u.fresh
                    /\ v.known = u.known /\ v.meter = u.meter /\ v.count = u.count
    BY <1>3
  <2>2. Sure(v)'
    BY <1>1, <2>1 DEF Sure, Exact, Covered, Raised, StatusFor
  <2> QED
    BY <2>1, <2>2
<1>8. Sure(tx[s])'
  BY <1>2, QuietIsSure
<1> QED
  BY <1>1, <1>5, <1>6, <1>7, <1>8 DEF SerialInv

\* Nobody has the key while an administrator acts.
LEMMA AdministerSerially ==
    ASSUME SharedKey, SerialInv, Administer
    PROVE  SerialInv'
<1>1. Inv' /\ Requests /\ UNCHANGED <<evidence, meters, tx>> /\ SomeKeyFree
  BY AdministerKeeps DEF SerialInv, Inv, Administer, ApproveVersion, RejectVersion, CloseReviewTask
<1>2. \A s \in Slots : ~HoldsKey(s)
  BY <1>1 DEF SharedKey, SomeKeyFree, KeyFree
<1>3. OneHolder'
  BY <1>1, <1>2 DEF OneHolder, HoldsKey, At
<1>4. UsageMatchesCompleted'
  BY <1>1 DEF SerialInv, UsageMatchesCompleted, Completed
<1>5. ASSUME NEW o \in Slots  PROVE Sure(tx[o])'
  <2>1. PICK u : u = tx[o] /\ u \in Tx /\ Sound(u) /\ ~Holding(u)
    BY <1>1, <1>2, OfSlot DEF SerialInv, Inv
  <2>2. Sure(u)'
    BY <2>1, WithoutKeyQuiet, QuietIsSure
  <2> QED
    BY <1>1, <2>1, <2>2
<1> QED
  BY <1>1, <1>3, <1>4, <1>5 DEF SerialInv

\* The meter after a completed call.
LEMMA MetersOn ==
    ASSUME SerialInv, NEW s \in Slots, NEW t, NEW e, Ends(s, t, e), Bills(t)
    PROVE  UsageMatchesCompleted'
<1>1. PICK n \in Nat :
          /\ DOMAIN evidence = 1..n /\ DOMAIN evidence' = 1..(n + 1) /\ evidence'[n + 1] = e
          /\ \A i \in 1..n : evidence'[i] = evidence[i]
  BY DEF Ends
<1>2. e.event = t.event /\ Sure(t) /\ t.pc = "commit" /\ UsageMatchesCompleted
  BY DEF Ends, SerialInv
<1>3. CASE ~Billed(t.event)
  <2>1. meters' = meters
    BY <1>3 DEF Bills
  <2>2. Completed' = Completed
    BY <1>1, <1>2, <1>3 DEF Completed, Billed
  <2> QED
    BY <1>2, <2>1, <2>2 DEF UsageMatchesCompleted
<1>4. CASE Billed(t.event)
  <2>1. Completed' = Completed \cup {n + 1} /\ n + 1 \notin Completed /\ Completed \subseteq 1..n
    BY <1>1, <1>2, <1>4 DEF Completed, Billed
  <2>2. IsFiniteSet(Completed)
    <3>1. IsFiniteSet(1..n)
      BY FS_Interval
    <3> QED
      BY <2>1, <3>1, FS_Subset
  <2>3. Cardinality(Completed) \in Nat /\ Cardinality(Completed') = Cardinality(Completed) + 1
    BY <2>1, <2>2, FS_AddElement, FS_CardinalityType
  <2>4. IF meters = <<>> THEN t.meter = 0 ELSE t.meter = 1 /\ t.count = meters[1]
    BY <1>2, <1>4 DEF Sure
  <2>5. PICK c \in Nat : c = Cardinality(Completed) /\ Cardinality(Completed') = c + 1
    BY <2>3
  <2>6. CASE Completed = {}
    <3>1. meters = <<>> /\ c = 0
      BY <1>2, <2>5, <2>6, FS_EmptySet DEF UsageMatchesCompleted
    <3>2. meters' = Append(<<>>, 1)
      BY <1>4, <2>4, <3>1 DEF Bills
    <3> QED
      BY <2>1, <2>5, <3>1, <3>2 DEF UsageMatchesCompleted
  <2>7. CASE Completed # {}
    <3>1. meters = <<c>>
      BY <1>2, <2>5, <2>7 DEF UsageMatchesCompleted
    <3>2. t.meter = 1 /\ t.count = c
      BY <2>4, <3>1
    <3>3. meters' = [meters EXCEPT ![1] = c + 1]
      BY <1>4, <3>2 DEF Bills
    <3>4. meters' = <<c + 1>>
      BY <3>1, <3>3
    <3> QED
      BY <2>1, <2>5, <3>4 DEF UsageMatchesCompleted
  <2> QED
    BY <2>6, <2>7
<1> QED
  BY <1>3, <1>4

LEMMA CommitSerially ==
    ASSUME SerialInv, NEW s \in Slots, Commit(s)
    PROVE  SerialInv'
<1>1. Inv' /\ Tables /\ Requests
  BY CommitKeeps DEF SerialInv, Inv
<1>2. PICK t, e : Ends(s, t, e) /\ Bills(t)
  BY <1>1, CommitEnds
<1>3. /\ t = tx[s] /\ t \in Tx /\ Sound(t) /\ t.pc = "commit"
      /\ tx'[s] = NoTx /\ \A o \in Slots \ {s} : tx'[o] = tx[o]
  BY <1>2 DEF Ends
<1>4. UsageMatchesCompleted'
  BY <1>2, MetersOn
<1>5. OneHolder'
  <2>1. ~HoldsKey(s)' /\ \A o \in Slots \ {s} : HoldsKey(o)' = HoldsKey(o)
    BY <1>3, NoTxIs DEF HoldsKey, At
  <2> QED
    BY <2>1 DEF SerialInv, OneHolder
<1>6. Sure(tx[s])'
  <2>1. Quiet(NoTx)
    BY NoTxIs, RestsSurely DEF Quiet
  <2> QED
    BY <1>3, <2>1, QuietIsSure
<1>7. ASSUME NEW o \in Slots \ {s}  PROVE Sure(tx[o])'
  <2>1. PICK u : u = tx[o] /\ u = tx'[o] /\ u \in Tx /\ Sound(u) /\ Sure(u)
                 /\ (HoldsKey(o) <=> Holding(u))
    BY <1>1, <1>3, OfSlot DEF SerialInv
  <2>2. CASE ~Holding(u)
    BY <2>1, <2>2, WithoutKeyQuiet, QuietIsSure
  <2>3. CASE Holding(u)
    <3>1. ~Holding(t)
      BY <1>1, <1>3, <2>1, <2>3, OfSlot DEF SerialInv, OneHolder
    <3>2. t.event = "provider_error" /\ ~Billed(t.event)
      BY <1>3, <3>1 DEF Holding, Billed
    <3>3. status' = status
      BY <1>3, <3>2 DEF Commit
    <3>4. meters' = meters
      BY <1>2, <3>2 DEF Bills
    <3>5. \A i \in DOMAIN tasks : tasks'[i].open = tasks[i].open /\ tasks'[i].count = tasks[i].count
      BY <1>2, <1>3, <3>2 DEF Ends, Rewritten, Sound
    <3>6. /\ u.seen # 0 => u.seen \in DOMAIN tasks
          /\ \A w \in u.writes : w.task # 0 => w.task \in DOMAIN tasks
      BY <2>1 DEF Sound, IsTask
    <3>7. Sure(u)'
      BY <2>1, <3>3, <3>4, <3>5, <3>6 DEF Sure, Exact, Covered, StatusFor
    <3> QED
      BY <2>1, <3>7
  <2> QED
    BY <2>2, <2>3
<1> QED
  BY <1>1, <1>4, <1>5, <1>6, <1>7 DEF SerialInv

LEMMA StepKeepsSerialInv ==
    ASSUME SharedKey, SerialInv, [Next]_vars
    PROVE  SerialInv'
<1>1. CASE Next
  <2>1. ASSUME NEW s \in Slots, Continue(s)  PROVE SerialInv'
    BY <2>1, ContinueGoes, CommitSerially, GoesSerially DEF SerialInv, Inv
  <2> QED
    BY <1>1, <2>1, BeginSerially, AdministerSerially DEF Next
<1>2. CASE UNCHANGED vars
  <2>1. Inv'
    BY <1>2, StepKeepsInv DEF SerialInv
  <2>2. UNCHANGED <<status, tasks, evidence, meters, tx>>
    BY <1>2 DEF vars, tables
  <2>3. OneHolder' /\ UsageMatchesCompleted'
    BY <2>2 DEF SerialInv, OneHolder, HoldsKey, At, UsageMatchesCompleted, Completed
  <2>4. ASSUME NEW o \in Slots  PROVE Sure(tx[o])'
    <3>1. PICK u : u = tx[o] /\ Sure(u)
      BY DEF SerialInv
    <3>2. Sure(u)'
      BY <2>2, <3>1 DEF Sure, Exact, Covered, StatusFor
    <3> QED
      BY <2>2, <3>1, <3>2
  <2> QED
    BY <2>1, <2>3, <2>4 DEF SerialInv
<1> QED
  BY <1>1, <1>2

LEMMA SerialAlways == ASSUME SharedKey PROVE Spec => []SerialInv
<1>1. SerialInv /\ [Next]_vars => SerialInv'
  BY StepKeepsSerialInv
<1> QED
  BY <1>1, StartsSound, PTL DEF Spec

\* Under one API key usage is metered exactly: one row, which reads the number of the calls
\* that were completed, although record_usage reads the count and writes it back.
THEOREM UsageIsExact == ASSUME SharedKey PROVE Spec => []UsageMatchesCompleted
<1>1. SerialInv => UsageMatchesCompleted
  BY DEF SerialInv
<1> QED
  BY <1>1, SerialAlways, PTL

\* Only a commit ends a request that completed its call.
LEMMA CompletedCommits ==
    ASSUME Inv, Next, NEW s \in Slots, At(s, "commit"), tx[s].event = "ai_request_completed",
           tx'[s] = NoTx
    PROVE  Commit(s)
<1>1. Tables /\ Requests /\ tx \in [Slots -> Tx]
  BY DEF Inv, Requests
<1>2. tx'[s].pc = "idle" /\ tx[s].pc = "commit"
  BY NoTxIs DEF At
<1>3. ASSUME NEW o \in Slots, NEW subject \in Subjects, NEW named \in BOOLEAN,
             NEW risk \in PreCheckLevels, Begin(o, subject, named, risk)
      PROVE  FALSE
  <2>1. o # s
    BY <1>2, <1>3 DEF Begin, At
  <2>2. tx'[s] = [tx[s] EXCEPT !.alone = FALSE]
    BY <1>2, <1>3, <2>1 DEF Begin, At
  <2>3. tx'[s].pc = tx[s].pc
    BY <1>1, <2>2 DEF Tx
  <2> QED
    BY <1>2, <2>3
<1>4. ASSUME NEW o \in Slots, Continue(o)
      PROVE  Commit(s)
  <2>1. CASE o = s
    BY <1>2, <1>4, <2>1 DEF At, Continue, Authenticate, Govern, InsertVersion, InsertFails, FindTask,
       FindFails, RecordTask, ProviderAnswers, ProviderFails, LogEvent, FailureUnrecorded
  <2>2. CASE o # s
    <3>1. tx'[s] = tx[s]
      <4>1. CASE Commit(o)
        BY <1>1, <2>2, <4>1 DEF Commit, Step
      <4>2. ASSUME NEW t, Goes(o, t)  PROVE tx'[s] = tx[s]
        BY <1>1, <2>2, <4>2 DEF Goes, Step
      <4> QED
        BY <1>1, <1>4, <4>1, <4>2, ContinueGoes
    <3> QED
      BY <1>2, <3>1
  <2> QED
    BY <2>1, <2>2
<1>5. ASSUME Administer  PROVE FALSE
  <2>1. tx' = tx
    BY <1>5 DEF Administer, ApproveVersion, RejectVersion, CloseReviewTask
  <2> QED
    BY <1>2, <2>1
<1> QED
  BY <1>3, <1>4, <1>5 DEF Next

\* A reason that a committing request has raised is open for review afterwards.
LEMMA RaisedIsOpen ==
    ASSUME NEW s \in Slots, NEW t, NEW e, Ends(s, t, e), Sure(t), NEW reason \in Raised(t)
    PROVE  \E i \in DOMAIN tasks' :
               tasks'[i].open /\ tasks'[i].subject = t.subject /\ tasks'[i].reason = reason
<1>1. Sound(t) /\ t.pc = "commit" /\ t \in Tx /\ Rewritten(t, tasks')
  BY DEF Ends
<1>2. PICK w \in t.writes : w.reason = reason
  <2>1. DOMAIN t.todo = {}
    BY <1>1 DEF Sound
  <2> QED
    BY <2>1 DEF Raised
<1>3. CASE w.task = 0
  <2>1. PICK i \in DOMAIN tasks' \ DOMAIN tasks : tasks'[i].reason = reason
    BY <1>1, <1>2, <1>3 DEF Rewritten
  <2>2. tasks'[i].open /\ tasks'[i].subject = t.subject
    BY <1>1 DEF Rewritten
  <2> QED
    BY <2>1, <2>2
<1>4. CASE w.task # 0
  <2>1. IsTask(w.task, t.subject, reason) /\ tasks[w.task].open
    BY <1>1, <1>2, <1>4 DEF Sound, Sure
  <2>2. /\ w.task \in DOMAIN tasks' /\ tasks'[w.task].subject = t.subject
        /\ tasks'[w.task].reason = reason /\ tasks'[w.task].open
    BY <1>1, <2>1 DEF Rewritten, IsTask
  <2> QED
    BY <2>2
<1> QED
  BY <1>3, <1>4

\* Under one API key a completed call that no approved version covers leaves its subject
\* under review: the task it counted on cannot be closed before it commits, and the task it
\* inserted is open.
THEOREM UngovernedRunsAreReviewed ==
    ASSUME SharedKey PROVE Spec => UngovernedRunLeavesOpenTask
<1> DEFINE LeavesOpen ==
        \A s \in Slots :
          LET subject == tx[s].subject
              open(reason) == \E i \in DOMAIN tasks' :
                  tasks'[i].open /\ tasks'[i].subject = subject /\ tasks'[i].reason = reason
          IN  At(s, "commit") /\ tx[s].event = "ai_request_completed" /\ tx'[s] = NoTx =>
                  /\ subject = Unmapped /\ ~tx[s].named => open("missing_feature_id")
                  /\ subject \in Unregistered => open("feature_not_registered")
                  /\ subject \in Versions =>
                         \/ status'[subject] = "approved"
                         \/ open("candidate_version_requires_review")
<1>1. SerialInv /\ [Next]_vars => [LeavesOpen]_vars
  <2> SUFFICES ASSUME SerialInv, Next, NEW s \in Slots, At(s, "commit"),
                      tx[s].event = "ai_request_completed", tx'[s] = NoTx,
                      NEW u, u = tx[s]
               PROVE  LET open(reason) == \E i \in DOMAIN tasks' :
                              tasks'[i].open /\ tasks'[i].subject = u.subject /\ tasks'[i].reason = reason
                      IN  /\ u.subject = Unmapped /\ ~u.named => open("missing_feature_id")
                          /\ u.subject \in Unregistered => open("feature_not_registered")
                          /\ u.subject \in Versions =>
                                 \/ status'[u.subject] = "approved"
                                 \/ open("candidate_version_requires_review")
    OBVIOUS
  <2>1. Commit(s) /\ Tables /\ Requests
    BY CompletedCommits DEF SerialInv, Inv
  <2>2. PICK e : Ends(s, u, e)
    BY <2>1, CommitEnds DEF Ends
  <2>3. Sure(u) /\ u.pc = "commit" /\ u.event = "ai_request_completed"
    BY DEF SerialInv, At
  <2>4. \A reason \in Raised(u) : \E i \in DOMAIN tasks' :
            tasks'[i].open /\ tasks'[i].subject = u.subject /\ tasks'[i].reason = reason
    BY <2>2, <2>3, RaisedIsOpen
  <2>5. /\ u.subject = Unmapped /\ ~u.named => "missing_feature_id" \in Raised(u)
        /\ u.subject \in Unregistered => "feature_not_registered" \in Raised(u)
        /\ u.subject \in Versions =>
               StatusFor(u) = "approved" \/ "candidate_version_requires_review" \in Raised(u)
    BY <2>3 DEF Sure, Covered
  <2>6. u.subject \in Versions => status'[u.subject] = StatusFor(u)
    BY <2>1 DEF Commit, StatusFor, Tables
  <2> QED
    BY <2>4, <2>5, <2>6
<1> QED
  BY <1>1, SerialAlways, PTL DEF Spec, UngovernedRunLeavesOpenTask

-----------------------------------------------------------------------------
(* Counts that add up. *)

LEMMA UnitsAre ==
    ASSUME NEW f, NEW u
    PROVE  u \in Units(f) <=> \E i \in DOMAIN f : \E k \in 1..f[i] : u = <<i, k>>
  BY DEF Units

\* One count, that of a new row perhaps, goes up by one.
Raises(f, g, i, n) ==
    /\ n \in Nat /\ DOMAIN g = DOMAIN f \cup {i} /\ g[i] = n + 1
    /\ IF i \in DOMAIN f THEN f[i] = n ELSE n = 0
    /\ \A j \in DOMAIN f \ {i} : g[j] = f[j]

LEMMA UnitAdded ==
    ASSUME NEW f, IsFiniteSet(Units(f)), NEW g, NEW i, NEW n, Raises(f, g, i, n)
    PROVE  IsFiniteSet(Units(g)) /\ Cardinality(Units(g)) = Cardinality(Units(f)) + 1
<1>1. n \in Nat /\ 1..(n + 1) = (1..n) \cup {n + 1} /\ n + 1 \notin 1..n /\ 1..0 = {}
  BY DEF Raises
<1>2. ASSUME NEW u
      PROVE  u \in Units(g) <=> u \in Units(f) \/ u = <<i, n + 1>>
  <2>1. u \in Units(g) <=>
            \/ \E j \in DOMAIN f \ {i} : \E k \in 1..f[j] : u = <<j, k>>
            \/ \E k \in 1..(n + 1) : u = <<i, k>>
    BY UnitsAre DEF Raises
  <2>2. u \in Units(f) <=>
            \/ \E j \in DOMAIN f \ {i} : \E k \in 1..f[j] : u = <<j, k>>
            \/ \E k \in 1..n : u = <<i, k>>
    <3>1. CASE i \in DOMAIN f
      BY <3>1, UnitsAre DEF Raises
    <3>2. CASE i \notin DOMAIN f
      BY <1>1, <3>2, UnitsAre DEF Raises
    <3> QED
      BY <3>1, <3>2
  <2> QED
    BY <1>1, <2>1, <2>2
<1>3. Units(g) = Units(f) \cup {<<i, n + 1>>}
  BY <1>2
<1>4. <<i, n + 1>> \notin Units(f)
  <2> SUFFICES ASSUME <<i, n + 1>> \in Units(f) PROVE FALSE
    OBVIOUS
  <2>1. i \in DOMAIN f /\ n + 1 \in 1..f[i]
    BY UnitsAre
  <2> QED
    BY <1>1, <2>1 DEF Raises
<1> HIDE DEF Units
<1> QED
  BY <1>3, <1>4, FS_AddElement

LEMMA FewerUnits ==
    ASSUME NEW f, NEW g, IsFiniteSet(Units(g)), DOMAIN f = DOMAIN g,
           \A i \in DOMAIN f : f[i] \in Nat /\ g[i] \in Nat /\ f[i] <= g[i]
    PROVE  IsFiniteSet(Units(f)) /\ Cardinality(Units(f)) <= Cardinality(Units(g))
<1>1. ASSUME NEW u \in Units(f) PROVE u \in Units(g)
  <2>1. PICK i \in DOMAIN f : \E k \in 1..f[i] : u = <<i, k>>
    BY UnitsAre
  <2>2. \A k \in 1..f[i] : k \in 1..g[i]
    OBVIOUS
  <2> QED
    BY <2>1, <2>2, UnitsAre
<1>2. Units(f) \in SUBSET Units(g)
  BY <1>1
<1> QED
  BY <1>2, FS_Subset

LEMMA NoUnits ==
    ASSUME NEW f, DOMAIN f = {}
    PROVE  IsFiniteSet(Units(f)) /\ Cardinality(Units(f)) = 0
<1>1. Units(f) = {}
  BY UnitsAre
<1> QED
  BY <1>1, FS_EmptySet

\* The most that a meter ever read: a request may write back less than the meter reads by
\* then, and never more than one above.
Peak(high, n) ==
    /\ DOMAIN high = DOMAIN meters
    /\ \A m \in DOMAIN meters : high[m] \in Nat /\ meters[m] <= high[m]
    /\ \A s \in Slots : At(s, "commit") /\ tx[s].meter # 0 => tx[s].count <= high[tx[s].meter]
    /\ IsFiniteSet(Units(high)) /\ Cardinality(Units(high)) <= n
Charged == IsFiniteSet(Completed) /\ \E high : Peak(high, Cardinality(Completed))

LEMMA GoesCharged ==
    ASSUME Inv, Charged, NEW s \in Slots, NEW t, Goes(s, t)
    PROVE  Charged'
<1>1. PICK high : Peak(high, Cardinality(Completed))
  BY DEF Charged
<1>2. /\ tx'[s] = t /\ \A o \in Slots \ {s} : tx'[o] = tx[o]
      /\ meters' = meters /\ evidence' = evidence
  BY DEF Goes, Step, Inv, Requests
<1>3. Completed' = Completed
  BY <1>2 DEF Completed
<1>4. t.pc = "commit" => ReadMeter(t) /\ (t.meter # 0 => t.meter \in DOMAIN meters)
  <2>1. Sound(t)'
    BY DEF Goes
  <2>2. t.meter # 0 => t.meter \in DOMAIN meters
    BY <1>2, <2>1 DEF Sound
  <2> QED
    BY <2>2, NoTxIs DEF Goes, Onward
<1>5. t.pc = "commit" /\ t.meter # 0 => t.count <= high[t.meter]
  BY <1>1, <1>4 DEF ReadMeter, Peak
<1>6. Peak(high, Cardinality(Completed))'
  BY <1>1, <1>2, <1>3, <1>5 DEF Peak, At
<1> QED
  BY <1>3, <1>6 DEF Charged

LEMMA BeginCharged ==
    ASSUME Inv, Charged, NEW s \in Slots, NEW subject, NEW named, NEW risk,
           Begin(s, subject, named, risk)
    PROVE  Charged'
<1>1. PICK high : Peak(high, Cardinality(Completed))
  BY DEF Charged
<1>2. meters' = meters /\ Completed' = Completed
  BY DEF Begin, tables, Completed
<1>3. ASSUME NEW o \in Slots, At(o, "commit")'
      PROVE  At(o, "commit") /\ tx'[o].meter = tx[o].meter /\ tx'[o].count = tx[o].count
  <2>1. PICK u : u = tx[o] /\ u \in Tx /\ Sound(u)
    BY DEF Inv, Requests
  <2>2. o # s
    <3>1. tx'[s].pc = "auth"
      BY DEF Begin, NoTx
    <3> QED
      BY <1>3, <3>1 DEF At
  <2>3. u.pc # "idle"
    BY <1>3, <2>1, <2>2, NoTxIs DEF Begin, At
  <2>4. tx'[o] = [u EXCEPT !.alone = FALSE]
    BY <2>1, <2>2, <2>3 DEF Begin, At
  <2> QED
    BY <1>3, <2>1, <2>4 DEF At, Tx
<1>4. Peak(high, Cardinality(Completed))'
  BY <1>1, <1>2, <1>3 DEF Peak
<1> QED
  BY <1>2, <1>4 DEF Charged

\* A completed call adds one to what a meter read, or begins another meter.
LEMMA CommitCharged ==
    ASSUME Inv, Charged, NEW s \in Slots, Commit(s)
    PROVE  Charged'
<1>1. PICK high : Peak(high, Cardinality(Completed))
  BY DEF Charged
<1>2. PICK t, e : Ends(s, t, e) /\ Bills(t)
  BY CommitEnds DEF Inv
<1>3. PICK n \in Nat :
          /\ DOMAIN evidence = 1..n /\ DOMAIN evidence' = 1..(n + 1) /\ evidence'[n + 1] = e
          /\ \A i \in 1..n : evidence'[i] = evidence[i]
  BY <1>2 DEF Ends
<1>4. /\ t = tx[s] /\ t \in Tx /\ t.pc = "commit" /\ e.event = t.event
      /\ (t.meter # 0 => t.meter \in DOMAIN meters) /\ t.count \in Nat
      /\ tx'[s].pc # "commit" /\ \A o \in Slots \ {s} : tx'[o] = tx[o]
  BY <1>2, NoTxIs DEF Ends, Sound, Tx
<1>5. /\ \A o \in Slots : At(o, "commit")' => At(o, "commit") /\ tx'[o] = tx[o]
      /\ \A o \in Slots : At(o, "commit") /\ tx[o].meter # 0 => tx[o].meter \in DOMAIN meters /\ tx[o].count \in Nat
  <2>1. \A o \in Slots : tx[o] \in Tx /\ Sound(tx[o])
    BY DEF Inv, Requests
  <2> QED
    BY <1>4, <2>1 DEF At, Sound, Tx
<1>6. CASE ~Billed(t.event)
  <2>1. meters' = meters
    BY <1>2, <1>6 DEF Bills
  <2>2. Completed' = Completed
    BY <1>3, <1>4, <1>6 DEF Completed, Billed
  <2>3. Peak(high, Cardinality(Completed))'
    BY <1>1, <1>5, <2>1, <2>2 DEF Peak
  <2> QED
    BY <2>2, <2>3 DEF Charged
<1>7. CASE Billed(t.event)
  <2>1. Completed' = Completed \cup {n + 1} /\ n + 1 \notin Completed
    BY <1>3, <1>4, <1>7 DEF Completed, Billed
  <2>2. PICK c \in Nat : c = Cardinality(Completed) /\ Cardinality(Completed') = c + 1
                         /\ IsFiniteSet(Completed')
    BY <2>1, FS_AddElement, FS_CardinalityType DEF Charged
  <2>3. Cardinality(Units(high)) \in Nat /\ IsFiniteSet(Units(high)) /\ Cardinality(Units(high)) <= c
    BY <1>1, <2>2, FS_CardinalityType DEF Peak
  <2>4. CASE t.meter = 0
    <3>1. PICK k \in Nat : DOMAIN meters = 1..k /\ DOMAIN meters' = 1..(k + 1)
                           /\ meters'[k + 1] = 1 /\ \A i \in 1..k : meters'[i] = meters[i]
      <4>1. meters' = Append(meters, 1) /\ meters \in Seq(Nat)
        BY <1>2, <1>7, <2>4 DEF Bills, Inv, Tables
      <4> QED
        BY <4>1
    <3> DEFINE g == [m \in 1..(k + 1) |-> IF m = k + 1 THEN 1 ELSE high[m]]
    <3>2. Raises(high, g, k + 1, 0)
      BY <1>1, <3>1 DEF Raises, Peak
    <3>3. IsFiniteSet(Units(g)) /\ Cardinality(Units(g)) <= c + 1
      BY <2>3, <3>2, UnitAdded
    <3>4. Peak(g, Cardinality(Completed))'
      <4>1. DOMAIN g = DOMAIN meters' /\ \A m \in DOMAIN meters : g[m] = high[m] /\ m \in DOMAIN meters'
        BY <3>1
      <4>2. \A m \in DOMAIN meters' : g[m] \in Nat /\ meters'[m] <= g[m]
        BY <1>1, <3>1 DEF Peak
      <4>3. \A o \in Slots : At(o, "commit")' /\ tx'[o].meter # 0 => tx'[o].count <= g[tx'[o].meter]
        BY <1>1, <1>5, <4>1 DEF Peak
      <4> HIDE DEF g
      <4> QED
        BY <2>2, <3>3, <4>1, <4>2, <4>3 DEF Peak
    <3> QED
      BY <2>2, <3>4 DEF Charged
  <2>5. CASE t.meter # 0
    <3> DEFINE i == t.meter
               g == IF t.count + 1 <= high[i] THEN high ELSE [high EXCEPT ![i] = high[i] + 1]
    <3>1. i \in DOMAIN meters /\ DOMAIN meters' = DOMAIN meters /\ meters'[i] = t.count + 1
          /\ \A m \in DOMAIN meters \ {i} : meters'[m] = meters[m]
      BY <1>2, <1>4, <1>7, <2>5 DEF Bills
    <3>2. high[i] \in Nat /\ t.count <= high[i] /\ DOMAIN high = DOMAIN meters
      BY <1>1, <1>4, <2>5, <3>1 DEF Peak, At
    <3>3. IsFiniteSet(Units(g)) /\ Cardinality(Units(g)) <= c + 1
      <4>1. CASE t.count + 1 <= high[i]
        BY <2>3, <4>1
      <4>2. CASE ~(t.count + 1 <= high[i])
        <5>1. Raises(high, g, i, high[i])
          BY <3>1, <3>2, <4>2 DEF Raises
        <5> QED
          BY <2>3, <5>1, UnitAdded
      <4> QED
        BY <4>1, <4>2
    <3>4. DOMAIN g = DOMAIN meters /\ \A m \in DOMAIN meters : g[m] \in Nat /\ high[m] <= g[m] /\ high[m] \in Nat
      BY <1>1, <3>1, <3>2 DEF Peak
    <3>5. t.count + 1 <= g[i]
      BY <1>4, <3>1, <3>2
    <3>6. Peak(g, Cardinality(Completed))'
      <4> HIDE DEF g
      <4>1. \A m \in DOMAIN meters' : g[m] \in Nat /\ meters'[m] <= g[m]
        <5>1. \A m \in DOMAIN meters : meters[m] \in Nat /\ meters[m] <= high[m]
          BY <1>1 DEF Peak, Inv, Tables
        <5> QED
          BY <3>1, <3>4, <3>5, <5>1
      <4>2. \A o \in Slots : At(o, "commit")' /\ tx'[o].meter # 0 => tx'[o].count <= g[tx'[o].meter]
        BY <1>1, <1>5, <3>4 DEF Peak
      <4> QED
        BY <2>2, <3>1, <3>3, <3>4, <4>1, <4>2 DEF Peak
    <3> QED
      BY <2>2, <3>6 DEF Charged
  <2> QED
    BY <2>4, <2>5
<1> QED
  BY <1>6, <1>7

LEMMA StepKeepsCharged ==
    ASSUME Inv, Charged, [Next]_vars
    PROVE  Charged'
<1>1. CASE Next
  <2>1. ASSUME NEW s \in Slots, Continue(s)  PROVE Charged'
    BY <2>1, ContinueGoes, CommitCharged, GoesCharged DEF Inv
  <2>2. ASSUME Administer  PROVE Charged'
    <3>1. UNCHANGED <<evidence, meters, tx>>
      BY <2>2 DEF Administer, ApproveVersion, RejectVersion, CloseReviewTask
    <3> QED
      BY <3>1 DEF Charged, Peak, Completed, At
  <2> QED
    BY <1>1, <2>1, <2>2, BeginCharged DEF Next
<1>2. CASE UNCHANGED vars
  BY <1>2 DEF vars, tables, Charged, Peak, Completed, At
<1> QED
  BY <1>1, <1>2

\* With any keys a tenant is never charged for more calls than were completed: lost updates
\* and second meters only lose calls.
THEOREM ChargesAreBounded == Spec => []UsageNeverOvercounts
<1>1. Init => Charged
  <2> SUFFICES ASSUME Init PROVE Charged
    OBVIOUS
  <2>1. Completed = {} /\ DOMAIN meters = {} /\ \A s \in Slots : ~At(s, "commit")
    BY NoTxIs DEF Init, Completed, At
  <2>2. Peak(meters, 0)
    BY <2>1, NoUnits DEF Peak
  <2> QED
    BY <2>1, <2>2, FS_EmptySet DEF Charged
<1>2. Inv /\ Charged /\ [Next]_vars => Charged'
  BY StepKeepsCharged
<1>3. Inv /\ Charged => UsageNeverOvercounts
  <2> SUFFICES ASSUME Inv, Charged PROVE UsageNeverOvercounts
    OBVIOUS
  <2>1. PICK high : Peak(high, Cardinality(Completed))
    BY DEF Charged
  <2>2. \A m \in DOMAIN meters : meters[m] \in Nat /\ high[m] \in Nat /\ meters[m] <= high[m]
    BY <2>1 DEF Peak, Inv, Tables
  <2>3. Cardinality(Units(meters)) <= Cardinality(Units(high)) /\ IsFiniteSet(Units(meters))
    BY <2>1, <2>2, FewerUnits DEF Peak
  <2> QED
    BY <2>1, <2>3, FS_CardinalityType DEF Peak, Charged, UsageNeverOvercounts, Usage
<1> QED
  BY <1>1, <1>2, <1>3, InvAlways, PTL DEF Spec

Tallied(subject, reason) ==
    /\ IsFiniteSet(Units(Counts(subject, reason))) /\ IsFiniteSet(MetBy(subject, reason))
    /\ Cardinality(Units(Counts(subject, reason))) = Cardinality(MetBy(subject, reason))
Tallies == \A subject \in Subjects, reason \in Reasons : Tallied(subject, reason)

LEMMA CountsAre ==
    ASSUME NEW subject, NEW reason
    PROVE  /\ DOMAIN Counts(subject, reason) = {i \in DOMAIN tasks : IsTask(i, subject, reason)}
           /\ \A i \in DOMAIN Counts(subject, reason) : Counts(subject, reason)[i] = tasks[i].count
  BY DEF Counts, IsTask

\* A commit adds one to the count of each reason that it names, and to no other.
LEMMA CommitTallies ==
    ASSUME SerialInv, Tallies, NEW s \in Slots, Commit(s)
    PROVE  Tallies'
<1>1. PICK t, e : Ends(s, t, e)
  BY CommitEnds DEF SerialInv, Inv
<1>2. PICK n \in Nat :
          /\ DOMAIN evidence = 1..n /\ DOMAIN evidence' = 1..(n + 1) /\ evidence'[n + 1] = e
          /\ \A i \in 1..n : evidence'[i] = evidence[i]
  BY <1>1 DEF Ends
<1>3. /\ t \in Tx /\ Sound(t) /\ Exact(t) /\ Rewritten(t, tasks')
      /\ e.subject = t.subject /\ e.reasons = {w.reason : w \in t.writes}
  BY <1>1 DEF Ends, SerialInv, Sure
<1>4. \A i \in DOMAIN tasks : i \in Nat \ {0} /\ tasks[i].count \in Nat
  <2>1. tasks \in Seq(TaskRow)
    BY DEF SerialInv, Inv, Tables
  <2>2. \A i \in DOMAIN tasks : i \in Nat \ {0} /\ tasks[i] \in TaskRow
    BY <2>1
  <2> QED
    BY <2>2 DEF TaskRow
<1>5. SUFFICES ASSUME NEW subject \in Subjects, NEW reason \in Reasons
               PROVE  Tallied(subject, reason)'
  BY DEF Tallies
<1> DEFINE f == Counts(subject, reason)
           g == Counts(subject, reason)'
           met == MetBy(subject, reason)
<1>6. /\ DOMAIN f = {i \in DOMAIN tasks : IsTask(i, subject, reason)}
      /\ \A i \in DOMAIN f : f[i] = tasks[i].count
  BY CountsAre
<1>7. /\ DOMAIN g = {i \in DOMAIN tasks' : IsTask(i, subject, reason)'}
      /\ \A i \in DOMAIN g : g[i] = tasks'[i].count
  BY DEF Counts, IsTask
<1>8. IsFiniteSet(Units(f)) /\ IsFiniteSet(met) /\ Cardinality(Units(f)) = Cardinality(met)
  BY DEF Tallies, Tallied
<1>9. met \subseteq 1..n /\ n + 1 \notin met
  BY <1>2 DEF MetBy
<1>10. \A i \in DOMAIN tasks : IsTask(i, subject, reason)' <=> IsTask(i, subject, reason)
  BY <1>3 DEF Rewritten, IsTask
<1> HIDE DEF f, g
<1>11. ASSUME NEW w \in t.writes, w.reason = reason, t.subject = subject
       PROVE  Tallied(subject, reason)'
  <2>1. MetBy(subject, reason)' = met \cup {n + 1}
    BY <1>2, <1>3, <1>11 DEF MetBy
  <2>2. \A x \in t.writes : x.reason = reason => x = w
    BY <1>3, <1>11 DEF Sound, Distinct
  <2>3. PICK i, k : Raises(f, g, i, k)
    <3>1. CASE w.task = 0
      <4>1. PICK i \in DOMAIN tasks' \ DOMAIN tasks : tasks'[i].reason = reason
        BY <1>3, <1>11, <3>1 DEF Rewritten
      <4>2. tasks'[i].subject = subject /\ tasks'[i].count = 1
        BY <1>3, <1>11, <2>2, <3>1, <4>1 DEF Rewritten, Exact
      <4>3. DOMAIN g = DOMAIN f \cup {i}
        <5>1. \A j \in DOMAIN tasks' \ DOMAIN tasks : tasks'[j].reason = reason => j = i
          BY <1>3, <4>1 DEF Rewritten
        <5>2. IsTask(i, subject, reason)'
          BY <4>1, <4>2 DEF IsTask
        <5>3. DOMAIN tasks \subseteq DOMAIN tasks'
          BY <1>3 DEF Rewritten
        <5> QED
          BY <1>6, <1>7, <1>10, <5>1, <5>2, <5>3 DEF IsTask
      <4>4. \A j \in DOMAIN f : g[j] = f[j]
        <5>1. ASSUME NEW j \in DOMAIN f, NEW x \in t.writes, x.task = j
              PROVE  FALSE
          <6>1. x.task # 0 /\ IsTask(j, t.subject, x.reason) /\ IsTask(j, subject, reason)
            BY <1>3, <1>4, <1>6, <5>1 DEF Sound
          <6>2. x = w
            BY <2>2, <6>1 DEF IsTask
          <6> QED
            BY <3>1, <6>1, <6>2
        <5>2. \A j \in DOMAIN f : tasks'[j].count = tasks[j].count
          BY <1>3, <1>6, <5>1 DEF Rewritten
        <5> QED
          BY <1>6, <1>7, <4>3, <5>2
      <4>5. g[i] = 1 /\ i \notin DOMAIN f
        BY <1>6, <1>7, <4>1, <4>2, <4>3
      <4>6. Raises(f, g, i, 0)
        BY <4>3, <4>4, <4>5 DEF Raises
      <4> QED
        BY <4>6
    <3>2. CASE w.task # 0
      <4> DEFINE i == w.task
      <4>1. IsTask(i, subject, reason) /\ w.count = tasks[i].count + 1
        BY <1>3, <1>11, <3>2 DEF Sound, Exact
      <4>2. DOMAIN g = DOMAIN f /\ i \in DOMAIN f
        <5>1. ASSUME NEW j \in DOMAIN tasks' \ DOMAIN tasks, tasks'[j].reason = reason
              PROVE  FALSE
          <6>1. PICK x \in t.writes : x.task = 0 /\ x.reason = tasks'[j].reason
            BY <1>3 DEF Rewritten
          <6> QED
            BY <2>2, <3>2, <5>1, <6>1
        <5>2. DOMAIN tasks \subseteq DOMAIN tasks'
          BY <1>3 DEF Rewritten
        <5> QED
          BY <1>6, <1>7, <1>10, <4>1, <5>1, <5>2 DEF IsTask
      <4>3. \A x \in t.writes : x.task = i => x = w
        BY <1>3, <2>2, <3>2, <4>1 DEF Sound, IsTask
      <4>4. tasks'[i].count = tasks[i].count + 1
        BY <1>3, <4>1, <4>3 DEF Rewritten, IsTask
      <4>5. ASSUME NEW j \in DOMAIN f, j # i
            PROVE  tasks'[j].count = tasks[j].count
        <5>1. ASSUME NEW x \in t.writes, x.task = j
              PROVE  FALSE
          <6>1. x.task # 0 /\ IsTask(j, t.subject, x.reason) /\ IsTask(j, subject, reason)
            BY <1>3, <1>4, <1>6, <5>1 DEF Sound
          <6>2. x = w
            BY <2>2, <6>1 DEF IsTask
          <6> QED
            BY <4>5, <5>1, <6>2
        <5> QED
          BY <1>3, <1>6, <5>1 DEF Rewritten
      <4>6. Raises(f, g, i, tasks[i].count)
        <5> HIDE DEF i
        <5>1. tasks[i].count \in Nat /\ f[i] = tasks[i].count /\ g[i] = tasks'[i].count
          BY <1>4, <1>6, <1>7, <4>2
        <5>2. \A j \in DOMAIN f \ {i} : g[j] = f[j]
          BY <1>6, <1>7, <4>2, <4>5
        <5> QED
          BY <4>2, <4>4, <5>1, <5>2 DEF Raises
      <4> QED
        BY <4>6
    <3> QED
      BY <3>1, <3>2
  <2>4. IsFiniteSet(Units(g)) /\ Cardinality(Units(g)) = Cardinality(Units(f)) + 1
    BY <1>8, <2>3, UnitAdded
  <2>5. IsFiniteSet(met \cup {n + 1}) /\ Cardinality(met \cup {n + 1}) = Cardinality(met) + 1
    BY <1>8, <1>9, FS_AddElement
  <2>6. Units(g) = Units(Counts(subject, reason))'
    BY DEF g, Units
  <2> QED
    BY <1>8, <2>1, <2>4, <2>5, <2>6 DEF Tallied
<1>12. ASSUME ~(t.subject = subject /\ \E w \in t.writes : w.reason = reason)
       PROVE  Tallied(subject, reason)'
  <2>1. MetBy(subject, reason)' = met
    BY <1>2, <1>3, <1>12 DEF MetBy
  <2>2. DOMAIN g = DOMAIN f
    <3>1. \A j \in DOMAIN tasks' \ DOMAIN tasks : ~(tasks'[j].subject = subject /\ tasks'[j].reason = reason)
      BY <1>3, <1>12 DEF Rewritten
    <3>2. DOMAIN tasks \subseteq DOMAIN tasks'
      BY <1>3 DEF Rewritten
    <3> QED
      BY <1>6, <1>7, <1>10, <3>1, <3>2 DEF IsTask
  <2>3. ASSUME NEW j \in DOMAIN f  PROVE tasks'[j].count = tasks[j].count
    <3>1. ASSUME NEW x \in t.writes, x.task = j
          PROVE  FALSE
      <4>1. x.task # 0 /\ IsTask(j, t.subject, x.reason) /\ IsTask(j, subject, reason)
        BY <1>3, <1>4, <1>6, <3>1 DEF Sound
      <4> QED
        BY <1>12, <4>1 DEF IsTask
    <3> QED
      BY <1>3, <1>6, <3>1 DEF Rewritten
  <2>4. \A j \in DOMAIN f : g[j] = f[j]
    BY <1>6, <1>7, <2>2, <2>3
  <2>5. Units(g) = Units(f)
    BY <2>2, <2>4 DEF Units
  <2>6. Units(g) = Units(Counts(subject, reason))'
    BY DEF g, Units
  <2> QED
    BY <1>8, <2>1, <2>5, <2>6 DEF Tallied
<1> QED
  BY <1>11, <1>12

LEMMA TalliesStay ==
    ASSUME Tallies, evidence' = evidence, DOMAIN tasks' = DOMAIN tasks,
           \A i \in DOMAIN tasks : /\ tasks'[i].subject = tasks[i].subject
                                   /\ tasks'[i].reason = tasks[i].reason
                                   /\ tasks'[i].count = tasks[i].count
    PROVE  Tallies'
<1>1. ASSUME NEW subject \in Subjects, NEW reason \in Reasons
      PROVE  Tallied(subject, reason)'
  <2>1. Counts(subject, reason)' = Counts(subject, reason)
    BY DEF Counts
  <2>2. MetBy(subject, reason)' = MetBy(subject, reason)
    BY DEF MetBy
  <2>3. Units(Counts(subject, reason))' = Units(Counts(subject, reason))
    BY <2>1 DEF Units
  <2> QED
    BY <2>2, <2>3 DEF Tallies, Tallied
<1> QED
  BY <1>1 DEF Tallies

LEMMA StepKeepsTallies ==
    ASSUME SerialInv, Tallies, [Next]_vars
    PROVE  Tallies'
<1>1. CASE Next
  <2>1. ASSUME NEW s \in Slots, Continue(s)  PROVE Tallies'
    <3>1. ASSUME NEW t, Goes(s, t)  PROVE Tallies'
      BY <3>1, TalliesStay DEF Goes
    <3> QED
      BY <2>1, <3>1, ContinueGoes, CommitTallies DEF SerialInv, Inv
  <2>2. ASSUME NEW s \in Slots, NEW subject, NEW named, NEW risk,
           Begin(s, subject, named, risk)  PROVE Tallies'
    BY <2>2, TalliesStay DEF Begin, tables
  <2>3. ASSUME Administer  PROVE Tallies'
    <3>1. CASE tasks' = tasks /\ evidence' = evidence
      BY <3>1, TalliesStay
    <3>2. ASSUME NEW i, CloseReviewTask(i)  PROVE Tallies'
      <4>1. tasks \in Seq(TaskRow) /\ evidence' = evidence /\ tasks' = [tasks EXCEPT ![i].open = FALSE]
        BY <3>2 DEF CloseReviewTask, SerialInv, Inv, Tables
      <4>2. \A j \in DOMAIN tasks : tasks[j] \in TaskRow
        BY <4>1
      <4>3. DOMAIN tasks' = DOMAIN tasks
            /\ \A j \in DOMAIN tasks : /\ tasks'[j].subject = tasks[j].subject
                                       /\ tasks'[j].reason = tasks[j].reason
                                       /\ tasks'[j].count = tasks[j].count
        BY <4>1, <4>2 DEF TaskRow
      <4> QED
        BY <4>1, <4>3, TalliesStay
    <3> QED
      BY <2>3, <3>1, <3>2 DEF Administer, ApproveVersion, RejectVersion
  <2> QED
    BY <1>1, <2>1, <2>2, <2>3 DEF Next
<1>2. CASE UNCHANGED vars
  BY <1>2, TalliesStay DEF vars, tables
<1> QED
  BY <1>1, <1>2

\* Under one API key no sighting is lost or invented: the occurrence counts of a reason add
\* up to the requests that met it, although they are read, raised and written back, and an
\* administrator closes tasks in between.
THEOREM SightingsAddUp == ASSUME SharedKey PROVE Spec => []SightingsCounted
<1>1. Init => Tallies
  <2> SUFFICES ASSUME Init, NEW subject \in Subjects, NEW reason \in Reasons
               PROVE  Tallied(subject, reason)
    BY DEF Tallies
  <2>1. DOMAIN Counts(subject, reason) = {} /\ MetBy(subject, reason) = {}
    BY DEF Init, Counts, MetBy
  <2> QED
    BY <2>1, NoUnits, FS_EmptySet DEF Tallied
<1>2. SerialInv /\ Tallies /\ [Next]_vars => Tallies'
  BY StepKeepsTallies
<1>3. Tallies => SightingsCounted
  BY DEF Tallies, Tallied, SightingsCounted
<1> QED
  BY <1>1, <1>2, <1>3, SerialAlways, PTL DEF Spec
=============================================================================
