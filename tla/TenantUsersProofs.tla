--------------------------- MODULE TenantUsersProofs ---------------------------
(***************************************************************************)
(* Proofs about users, invitations and login policy of a tenant, for any   *)
(* number of requests, addresses, roles, policies and invitations, as long *)
(* as all requests carry the key of the dashboard.                         *)
(*                                                                         *)
(* The argument: the lock on the key's row lets one request at a time past *)
(* authentication (OneAtWork); so what a request has looked up (Held) is   *)
(* still so when it writes, but for the time that an invitation has left,  *)
(* and an UPDATE of the changed columns writes the row that the request    *)
(* decided on (MergedUser, MergedPolicy).                                  *)
(***************************************************************************)
EXTENDS TenantUsers, SequenceTheorems, TLAPS

\* Every request carries the dashboard's one key.
SharedKey == \A s, t \in Slots : KeyOf[s] = KeyOf[t]

Tx == [pc : {"idle", "load", "count", "write", "insert", "find", "user", "enter",
             "invitation", "expire", "provision"},
       op : {"none", "update", "create", "invite", "revoke", "policy", "login"},
       email : Emails \cup {KeyItself}, actor : Emails \cup {KeyItself},
       user : User \cup {NoUser}, want : User \cup {NoUser},
       policy : Policies, inv : Nat, seen : Invitation \cup {<<>>}]

Working(s) == tx[s].pc # "idle"
OneAtWork == \A s, t \in Slots : Working(s) /\ Working(t) => s = t

\* What a request has established and relies on, by operation and place in it.
HeldByUpdate(t) ==
    /\ t.pc \in {"load", "count", "write"} /\ t.email \in Emails /\ t.inv = 0
    /\ t.pc = "load" /\ t.actor = t.email => t.user = users[t.email]
    /\ t.pc \in {"count", "write"} => Known(t.email) /\ t.user = users[t.email]
    /\ t.pc = "write" =>
           /\ t.want \in User
           /\ RemovesOwner(t.user, t.want) => ActiveOwners \ {t.email} # {}

HeldByCreate(t) ==
    /\ t.pc \in {"load", "insert"} /\ t.email \in Emails /\ t.inv = 0
    /\ t.pc = "insert" => ~Known(t.email) /\ t.want \in User

HeldByInvite(t) ==
    /\ t.pc \in {"load", "find", "write"} /\ t.email \in Emails
    /\ t.pc # "write" => t.inv = 0
    /\ t.pc = "write" =>
           IF t.inv = 0 THEN Pending(t.email) = {}
           ELSE /\ t.inv \in Pending(t.email)
                /\ t.seen \in Invitation /\ t.seen.email = t.email /\ t.seen.status = "pending"

HeldByRevoke(t) ==
    /\ t.pc \in {"load", "write"} /\ t.email \in Emails
    /\ t.pc = "load" => t.inv = 0
    /\ t.pc = "write" => t.inv \in Pending(t.email)

HeldByPolicy(t) ==
    /\ t.pc \in {"load", "write"} /\ t.inv = 0
    /\ t.pc = "write" => t.policy = policy

HeldByLogin(t) ==
    /\ t.pc \in {"user", "enter", "invitation", "expire", "provision", "insert"}
    /\ t.email \in Emails
    /\ t.pc \in {"user", "enter", "invitation", "provision"} => t.inv = 0
    /\ t.pc = "enter" =>
           /\ Known(t.email) /\ t.user = users[t.email]
           /\ t.user.status # "disabled" /\ t.want = LoggedIn(t.user)
    /\ t.pc \in {"invitation", "provision", "insert"} => ~Known(t.email)
    /\ t.pc = "expire" => t.inv \in Pending(t.email)
    /\ t.pc = "insert" =>
           /\ t.want \in User /\ t.want.status = "active"
           /\ t.inv # 0 => t.inv \in Pending(t.email)
           /\ t.inv = 0 /\ t.want.role = "owner" => ~HasUsers

Held(t) ==
    /\ t.op = "none" => t = NoTx
    /\ t.op # "none" => t.pc # "idle"
    /\ t.op \notin {"none", "login"} /\ t.actor # KeyItself => Entitled(users[t.actor])
    /\ t.op = "update" => HeldByUpdate(t)
    /\ t.op = "create" => HeldByCreate(t)
    /\ t.op = "invite" => HeldByInvite(t)
    /\ t.op = "revoke" => HeldByRevoke(t)
    /\ t.op = "policy" => HeldByPolicy(t)
    /\ t.op = "login" => HeldByLogin(t)

\* An address that an invitation admitted has a user.
AdmittedAreKnown ==
    \A i \in DOMAIN invitations : invitations[i].status = "accepted" => Known(invitations[i].email)

Rows == TypeOK /\ InvitationsAreSingular /\ AuditExplainsUsers /\ AdmittedAreKnown
Requests == tx \in [Slots -> Tx] /\ OneAtWork /\ \A s \in Slots : Held(tx[s])
Inv == Rows /\ Requests

-----------------------------------------------------------------------------
(* Rows: what an UPDATE of the changed columns makes of them. *)

LEMMA UsersAreKnown ==
    ASSUME NEW u \in User
    PROVE  u # NoUser
  BY DEF User, UserStatuses, NoUser

LEMMA MergedUser ==
    ASSUME NEW u \in User, NEW new \in User
    PROVE  Merge(u, u, new) = new
<1>1. DOMAIN u = {"role", "status"} /\ new = [c \in {"role", "status"} |-> new[c]]
  BY DEF User
<1>2. Merge(u, u, new) = [c \in {"role", "status"} |-> new[c]]
  BY <1>1 DEF Merge
<1> QED
  BY <1>1, <1>2

\* AuditExplainsUsers, of one user.
Explained(shown, user) ==
    \/ user = shown
    \/ shown = NoUser /\ user.status = "active"
    \/ shown.status = "invited" /\ user = LoggedIn(shown)

\* A login leaves an active user as he is, and one it activates was shown as invited.
LEMMA ExplainedLogin ==
    ASSUME NEW shown \in User \cup {NoUser}, NEW user \in User, user.status # "disabled",
           Explained(shown, user)
    PROVE  Explained(shown, LoggedIn(user))
<1>1. LoggedIn(user) \in User /\ LoggedIn(user).status = "active"
  BY DEF LoggedIn, User, UserStatuses
<1>2. user.status = "active" => LoggedIn(user) = user
  BY DEF LoggedIn, User
<1>3. user.status \in {"active", "invited"}
  BY DEF User, UserStatuses
<1>4. shown.status = "invited" => shown \in User
  BY DEF NoUser
<1>5. shown \in User => LoggedIn(shown).status = "active"
  BY DEF LoggedIn, User
<1> QED
  BY <1>1, <1>2, <1>3, <1>4, <1>5 DEF Explained

\* Who is not there is not on the trail.
LEMMA ExplainedAbsence ==
    ASSUME NEW shown \in User \cup {NoUser}, Explained(shown, NoUser)
    PROVE  shown = NoUser
<1>1. shown \in User => LoggedIn(shown).status = "active"
  BY DEF LoggedIn, User
<1> QED
  BY <1>1 DEF Explained, NoUser

LEMMA MergedPolicy ==
    ASSUME NEW p \in Policies, NEW new \in Policies
    PROVE  Merge(p, p, new) = new
<1> DEFINE Columns == {"providers", "allowed", "provision", "defaultRole"}
<1>1. DOMAIN p = Columns /\ new = [c \in Columns |-> new[c]]
  BY PoliciesAreRecords
<1>2. Merge(p, p, new) = [c \in Columns |-> new[c]]
  BY <1>1 DEF Merge
<1> QED
  BY <1>1, <1>2

LEMMA MergedInvitation ==
    ASSUME NEW inv \in Invitation, NEW seen \in Invitation, NEW role \in Roles
    PROVE  LET new == Merge(inv, seen, [seen EXCEPT !.role = role])
           IN  new \in Invitation /\ new.email = inv.email /\ new.status = inv.status
<1> DEFINE Columns == {"email", "role", "status", "overdue"}
           assigned == [seen EXCEPT !.role = role]
           new == Merge(inv, seen, assigned)
<1>1. /\ DOMAIN inv = Columns
      /\ assigned.email = seen.email /\ assigned.role = role
      /\ assigned.status = seen.status /\ assigned.overdue = seen.overdue
  BY DEF Invitation
<1> HIDE DEF assigned
<1>2. /\ new = [c \in Columns |-> new[c]]
      /\ new.email = inv.email /\ new.status = inv.status /\ new.overdue = inv.overdue
      /\ new.role \in {inv.role, role}
  BY <1>1 DEF Merge
<1> HIDE DEF new
<1>3. /\ new = [email |-> new.email, role |-> new.role, status |-> new.status, overdue |-> new.overdue]
      /\ inv.email \in Emails /\ inv.role \in Roles /\ inv.overdue \in BOOLEAN
      /\ inv.status \in {"pending", "accepted", "revoked", "expired"}
  BY <1>2 DEF Invitation
<1> QED
  BY <1>2, <1>3 DEF Invitation, new, assigned

LEMMA InvitationChanged ==
    ASSUME NEW t \in Seq(Invitation), NEW i \in DOMAIN t, NEW new \in Invitation
    PROVE  /\ [t EXCEPT ![i] = new] \in Seq(Invitation)
           /\ DOMAIN [t EXCEPT ![i] = new] = DOMAIN t
           /\ \A j \in DOMAIN t : [t EXCEPT ![i] = new][j] = IF j = i THEN new ELSE t[j]
  OBVIOUS

LEMMA InvitationAdded ==
    ASSUME NEW t \in Seq(Invitation), NEW new \in Invitation
    PROVE  /\ Append(t, new) \in Seq(Invitation)
           /\ \A i \in DOMAIN Append(t, new) :
                  IF i \in DOMAIN t THEN Append(t, new)[i] = t[i]
                  ELSE i = Len(t) + 1 /\ Append(t, new)[i] = new
  BY AppendProperties

-----------------------------------------------------------------------------
(* Steps of requests. *)

LEMMA RestingTx == NoTx \in Tx /\ NoTx.pc = "idle" /\ Held(NoTx)
  BY PoliciesAreRecords DEF NoTx, Tx, NoUser, Held

LEMMA IdleIsNoTx ==
    ASSUME Requests, NEW s \in Slots, ~Working(s)
    PROVE  tx[s] = NoTx
  BY DEF Requests, Working, Held

LEMMA HeldStays ==
    ASSUME UNCHANGED tables, NEW s \in Slots, NEW t, tx'[s] = t, Held(t)
    PROVE  Held(tx[s])'
  BY DEF tables, Held, HeldByUpdate, HeldByCreate, HeldByInvite, HeldByRevoke, HeldByPolicy,
         HeldByLogin, Known, ActiveOwners, HasUsers, Pending

LEMMA HeldAtRest ==
    ASSUME NEW s \in Slots, tx'[s] = NoTx
    PROVE  Held(tx[s])'
  BY DEF Held, NoTx

LEMMA Moves ==
    ASSUME Inv, UNCHANGED tables, NEW s \in Slots, NEW t \in Tx, Step(s, t), Held(t),
           \A other \in Slots : Working(other) => other = s \/ t.pc = "idle"
    PROVE  Inv'
<1>1. tx' \in [Slots -> Tx] /\ tx'[s] = t /\ \A other \in Slots \ {s} : tx'[other] = tx[other]
  BY DEF Inv, Requests, Step
<1>2. OneAtWork'
  BY <1>1 DEF Inv, Requests, OneAtWork, Working
<1>3. \A other \in Slots : Held(tx[other])'
  BY <1>1, HeldStays DEF Inv, Requests
<1>4. Rows'
  BY DEF Inv, Rows, TypeOK, InvitationsAreSingular, AuditExplainsUsers, AdmittedAreKnown, Known, tables
<1> QED
  BY <1>1, <1>2, <1>3, <1>4 DEF Inv, Requests

LEMMA Finishes ==
    ASSUME Inv, NEW s \in Slots, Working(s), Finish(s), Rows'
    PROVE  Inv'
<1>1. /\ tx' \in [Slots -> Tx] /\ tx'[s] = NoTx
      /\ \A other \in Slots \ {s} : tx'[other] = tx[other]
  BY RestingTx DEF Inv, Requests, Finish
<1>2. \A other \in Slots : tx'[other] = NoTx
  BY <1>1, IdleIsNoTx DEF Inv, Requests, OneAtWork
<1>3. OneAtWork' /\ \A other \in Slots : Held(tx[other])'
  BY <1>2, HeldAtRest, RestingTx DEF OneAtWork, Working
<1> QED
  BY <1>1, <1>3 DEF Inv, Requests

LEMMA FinishesUnchanged ==
    ASSUME Inv, NEW s \in Slots, Working(s), Finish(s), UNCHANGED tables
    PROVE  Inv'
<1>1. Rows'
  BY DEF Inv, Rows, TypeOK, InvitationsAreSingular, AuditExplainsUsers, AdmittedAreKnown, Known, tables
<1> QED
  BY <1>1, Finishes

-----------------------------------------------------------------------------
(* The steps that read. *)

LEMMA KeyIsFree ==
    ASSUME SharedKey, NEW s \in Slots, ~KeyLocked(KeyOf[s])
    PROVE  \A other \in Slots : ~Working(other)
  BY DEF SharedKey, KeyLocked, Working

LEMMA BeginsAdministering ==
    ASSUME Inv, SharedKey, NEW s \in Slots, NEW actor \in Emails \cup {KeyItself},
           NEW op \in {"update", "create", "invite", "revoke", "policy"},
           NEW e \in Emails \cup {KeyItself}, op # "policy" => e \in Emails,
           Administer(s, op, actor, e)
    PROVE  Inv'
<1> DEFINE user == IF op = "update" /\ actor = e THEN users[e] ELSE NoUser
           t == [NoTx EXCEPT !.pc = "load", !.op = op, !.actor = actor, !.email = e,
                   !.user = user]
<1>1. \A other \in Slots : ~Working(other)
  BY KeyIsFree DEF Administer
<1>2. users \in [Emails -> User \cup {NoUser}] /\ NoTx \in Tx
  BY RestingTx DEF Inv, Rows, TypeOK
<1>3. /\ t.pc = "load" /\ t.op = op /\ t.actor = actor /\ t.email = e /\ t.inv = 0
      /\ op = "update" /\ actor = e => t.user = users[e]
  BY DEF NoTx
<1>4. t \in Tx
  <2>1. user \in User \cup {NoUser}
    BY <1>2
  <2> HIDE DEF user
  <2> QED
    BY <1>2, <2>1 DEF Tx
<1>5. Step(s, t) /\ UNCHANGED tables /\ (actor # KeyItself => Entitled(users[actor]))
  BY DEF Administer
<1> HIDE DEF t
<1>6. Held(t)
  BY <1>3, <1>5 DEF Held, HeldByUpdate, HeldByCreate, HeldByInvite, HeldByRevoke, HeldByPolicy
<1> QED
  BY <1>1, <1>4, <1>5, <1>6, Moves

LEMMA BeginsLogin ==
    ASSUME Inv, SharedKey, NEW s \in Slots, NEW e \in Emails, NEW provider, Login(s, e, provider)
    PROVE  Inv'
<1> DEFINE t == [NoTx EXCEPT !.pc = "user", !.op = "login", !.email = e, !.policy = policy]
<1>1. \A other \in Slots : ~Working(other)
  BY KeyIsFree DEF Login
<1>2. policy \in Policies /\ NoTx \in Tx
  BY RestingTx DEF Inv, Rows, TypeOK
<1>3. t \in Tx /\ t.pc = "user" /\ t.op = "login" /\ t.email = e /\ t.inv = 0
  BY <1>2 DEF Tx, NoTx
<1>4. Step(s, t) /\ UNCHANGED tables
  BY DEF Login
<1> HIDE DEF t
<1>5. Held(t)
  BY <1>3 DEF Held, HeldByLogin
<1> QED
  BY <1>1, <1>3, <1>4, <1>5, Moves

\* What every step of a request may use.
LEMMA AtWork ==
    ASSUME Inv, NEW s \in Slots, Working(s)
    PROVE  /\ tx[s] \in Tx /\ Held(tx[s]) /\ \A other \in Slots : Working(other) => other = s
           /\ users \in [Emails -> User \cup {NoUser}] /\ trail \in [Emails -> User \cup {NoUser}]
           /\ invitations \in Seq(Invitation) /\ policy \in Policies
  BY DEF Inv, Rows, TypeOK, Requests, OneAtWork

LEMMA ReadsForUpdate ==
    ASSUME Inv, NEW s \in Slots, LoadUser(s) \/ CountOwners(s)
    PROVE  Inv'
<1>1. Working(s) /\ tx[s].op = "update" /\ UNCHANGED tables
  BY DEF LoadUser, CountOwners, At, Working
<1>2. HeldByUpdate(tx[s])
  BY <1>1, AtWork DEF Held
<1>3. CASE Finish(s)
  BY <1>1, <1>3, FinishesUnchanged
<1>4. CASE LoadUser(s) /\ ~Finish(s)
  <2> DEFINE user == IF tx[s].actor = tx[s].email THEN tx[s].user ELSE users[tx[s].email]
             t == [tx[s] EXCEPT !.pc = "count", !.user = user]
  <2>1. Step(s, t) /\ Known(tx[s].email) /\ tx[s].pc = "load"
    BY <1>4 DEF LoadUser, At
  <2>2. user = users[tx[s].email] /\ user \in User \cup {NoUser}
    BY <1>1, <1>2, <2>1, AtWork DEF HeldByUpdate
  <2> HIDE DEF user
  <2>3. /\ t \in Tx /\ t.pc = "count" /\ t.op = tx[s].op /\ t.email = tx[s].email /\ t.user = user
        /\ t.actor = tx[s].actor /\ t.inv = tx[s].inv
    BY <1>1, <2>2, AtWork DEF Tx
  <2> HIDE DEF t
  <2>4. Held(t)
    BY <1>1, <1>2, <2>1, <2>2, <2>3, AtWork DEF Held, HeldByUpdate
  <2> QED
    BY <1>1, <2>1, <2>3, <2>4, AtWork, Moves
<1>5. CASE CountOwners(s) /\ ~Finish(s)
  <2>1. PICK want \in User : /\ RemovesOwner(tx[s].user, want) => ActiveOwners \ {tx[s].email} # {}
                             /\ Step(s, [tx[s] EXCEPT !.pc = "write", !.want = want])
                             /\ tx[s].pc = "count"
    BY <1>5 DEF CountOwners, At
  <2> DEFINE t == [tx[s] EXCEPT !.pc = "write", !.want = want]
  <2>2. /\ t \in Tx /\ t.pc = "write" /\ t.op = tx[s].op /\ t.email = tx[s].email
        /\ t.user = tx[s].user /\ t.want = want /\ t.actor = tx[s].actor /\ t.inv = tx[s].inv
    BY <1>1, AtWork DEF Tx
  <2>3. Step(s, t)
    BY <2>1
  <2> HIDE DEF t
  <2>4. Held(t)
    BY <1>1, <1>2, <2>1, <2>2, AtWork DEF Held, HeldByUpdate
  <2> QED
    BY <1>1, <2>2, <2>3, <2>4, AtWork, Moves
<1> QED
  BY <1>3, <1>4, <1>5

LEMMA ReadsForCreate ==
    ASSUME Inv, NEW s \in Slots, FindDuplicate(s)
    PROVE  Inv'
<1>1. Working(s) /\ tx[s].op = "create" /\ tx[s].pc = "load" /\ UNCHANGED tables
  BY DEF FindDuplicate, At, Working
<1>2. HeldByCreate(tx[s])
  BY <1>1, AtWork DEF Held
<1>3. CASE Finish(s)
  BY <1>1, <1>3, FinishesUnchanged
<1>4. CASE ~Finish(s)
  <2>1. PICK want \in User : /\ ~Known(tx[s].email)
                             /\ Step(s, [tx[s] EXCEPT !.pc = "insert", !.want = want])
    BY <1>4 DEF FindDuplicate
  <2> DEFINE t == [tx[s] EXCEPT !.pc = "insert", !.want = want]
  <2>2. /\ t \in Tx /\ t.pc = "insert" /\ t.op = tx[s].op /\ t.email = tx[s].email
        /\ t.want = want /\ t.actor = tx[s].actor /\ t.inv = tx[s].inv
    BY <1>1, AtWork DEF Tx
  <2>3. Step(s, t)
    BY <2>1
  <2> HIDE DEF t
  <2>4. Held(t)
    BY <1>1, <1>2, <2>1, <2>2, AtWork DEF Held, HeldByCreate
  <2> QED
    BY <1>1, <2>2, <2>3, <2>4, AtWork, Moves
<1> QED
  BY <1>3, <1>4

LEMMA ReadsForInvite ==
    ASSUME Inv, NEW s \in Slots, CheckInvitee(s) \/ FindInvitation(s)
    PROVE  Inv'
<1>1. Working(s) /\ tx[s].op = "invite" /\ UNCHANGED tables
  BY DEF CheckInvitee, FindInvitation, At, Working
<1>2. HeldByInvite(tx[s]) /\ tx[s].inv = 0
  BY <1>1, AtWork DEF Held, HeldByInvite, CheckInvitee, FindInvitation, At
<1>3. CASE Finish(s)
  BY <1>1, <1>3, FinishesUnchanged
<1>4. CASE (CheckInvitee(s) /\ ~Finish(s)) \/ (FindInvitation(s) /\ Pending(tx[s].email) = {})
  <2>1. PICK pc : /\ pc \in {"find", "write"} /\ Step(s, [tx[s] EXCEPT !.pc = pc])
                  /\ pc = "write" => Pending(tx[s].email) = {}
    <3>1. CASE CheckInvitee(s) /\ ~Finish(s)
      BY <3>1 DEF CheckInvitee, Goto
    <3>2. CASE FindInvitation(s) /\ Pending(tx[s].email) = {}
      BY <3>2 DEF FindInvitation, Goto, Newest
    <3> QED
      BY <1>4, <3>1, <3>2
  <2> DEFINE t == [tx[s] EXCEPT !.pc = pc]
  <2>2. /\ t \in Tx /\ t.pc = pc /\ t.op = tx[s].op /\ t.email = tx[s].email
        /\ t.actor = tx[s].actor /\ t.inv = tx[s].inv
    BY <1>1, <2>1, AtWork DEF Tx
  <2>3. Step(s, t)
    BY <2>1
  <2> HIDE DEF t
  <2>4. Held(t)
    BY <1>1, <1>2, <2>1, <2>2, AtWork DEF Held, HeldByInvite
  <2> QED
    BY <1>1, <2>2, <2>3, <2>4, AtWork, Moves
<1>5. CASE FindInvitation(s) /\ Pending(tx[s].email) # {}
  <2>1. \/ Newest(Pending(tx[s].email)) = {} /\ Goto(s, "write")
        \/ \E i \in Pending(tx[s].email) :
               Step(s, [tx[s] EXCEPT !.pc = "write", !.inv = i, !.seen = invitations[i]])
    BY <1>5 DEF FindInvitation, Newest
  <2>2. Newest(Pending(tx[s].email)) # {}
    <3>1. InvitationsAreSingular
      BY DEF Inv, Rows
    <3>2. PICK i : i \in Pending(tx[s].email)
      BY <1>5
    <3>3. \A j \in Pending(tx[s].email) : i = j
      BY <3>1, <3>2 DEF InvitationsAreSingular, Pending
    <3>4. i <= i
      BY <1>1, <3>2, AtWork DEF Pending
    <3> QED
      BY <3>2, <3>3, <3>4 DEF Newest
  <2>3. PICK i \in Pending(tx[s].email) :
            Step(s, [tx[s] EXCEPT !.pc = "write", !.inv = i, !.seen = invitations[i]])
    BY <2>1, <2>2
  <2>4. /\ i \in Nat /\ i # 0 /\ invitations[i] \in Invitation
        /\ invitations[i].email = tx[s].email /\ invitations[i].status = "pending"
    BY <1>1, <2>3, AtWork DEF Pending
  <2> DEFINE t == [tx[s] EXCEPT !.pc = "write", !.inv = i, !.seen = invitations[i]]
  <2>5. /\ t \in Tx /\ t.pc = "write" /\ t.op = tx[s].op /\ t.email = tx[s].email
        /\ t.actor = tx[s].actor /\ t.inv = i /\ t.seen = invitations[i]
    BY <1>1, <2>4, AtWork DEF Tx
  <2>6. Step(s, t)
    BY <2>3
  <2> HIDE DEF t
  <2>7. Held(t)
    BY <1>1, <1>2, <2>3, <2>4, <2>5, AtWork DEF Held, HeldByInvite
  <2> QED
    BY <1>1, <2>5, <2>6, <2>7, AtWork, Moves
<1> QED
  BY <1>3, <1>4, <1>5

LEMMA ReadsForRevoke ==
    ASSUME Inv, NEW s \in Slots, LoadInvitation(s)
    PROVE  Inv'
<1>1. Working(s) /\ tx[s].op = "revoke" /\ UNCHANGED tables
  BY DEF LoadInvitation, At, Working
<1>2. HeldByRevoke(tx[s])
  BY <1>1, AtWork DEF Held
<1>3. CASE Finish(s)
  BY <1>1, <1>3, FinishesUnchanged
<1>4. CASE ~Finish(s)
  <2>1. PICK i \in Pending(tx[s].email) : Step(s, [tx[s] EXCEPT !.pc = "write", !.inv = i])
    BY <1>4 DEF LoadInvitation
  <2>2. i \in Nat
    BY <1>1, <2>1, AtWork DEF Pending
  <2> DEFINE t == [tx[s] EXCEPT !.pc = "write", !.inv = i]
  <2>3. /\ t \in Tx /\ t.pc = "write" /\ t.op = tx[s].op /\ t.email = tx[s].email
        /\ t.actor = tx[s].actor /\ t.inv = i
    BY <1>1, <2>2, AtWork DEF Tx
  <2>4. Step(s, t)
    BY <2>1
  <2> HIDE DEF t
  <2>5. Held(t)
    BY <1>1, <1>2, <2>1, <2>3, AtWork DEF Held, HeldByRevoke
  <2> QED
    BY <1>1, <2>3, <2>4, <2>5, AtWork, Moves
<1> QED
  BY <1>3, <1>4

LEMMA ReadsForPolicy ==
    ASSUME Inv, NEW s \in Slots, LoadPolicy(s)
    PROVE  Inv'
<1>1. Working(s) /\ tx[s].op = "policy" /\ UNCHANGED tables
  BY DEF LoadPolicy, At, Working
<1>2. HeldByPolicy(tx[s])
  BY <1>1, AtWork DEF Held
<1> DEFINE t == [tx[s] EXCEPT !.pc = "write", !.policy = policy]
<1>3. /\ t \in Tx /\ t.pc = "write" /\ t.op = tx[s].op /\ t.actor = tx[s].actor
      /\ t.inv = tx[s].inv /\ t.policy = policy
  BY <1>1, AtWork DEF Tx
<1>4. Step(s, t)
  BY DEF LoadPolicy
<1> HIDE DEF t
<1>5. Held(t)
  BY <1>1, <1>2, <1>3, AtWork DEF Held, HeldByPolicy
<1> QED
  BY <1>1, <1>3, <1>4, <1>5, AtWork, Moves

LEMMA ReadsForLogin ==
    ASSUME Inv, NEW s \in Slots, LoginUser(s) \/ LoginInvitation(s) \/ Provision(s)
    PROVE  Inv'
<1>1. Working(s) /\ tx[s].op = "login" /\ tx[s].inv = 0 /\ UNCHANGED tables
  BY AtWork DEF LoginUser, LoginInvitation, Provision, At, Working, Held, HeldByLogin
<1>2. HeldByLogin(tx[s]) /\ tx[s].email \in Emails
  BY <1>1, AtWork DEF Held, HeldByLogin
<1>3. CASE Finish(s)
  BY <1>1, <1>3, FinishesUnchanged
<1>4. CASE LoginUser(s) /\ ~Finish(s)
  <2> DEFINE user == users[tx[s].email]
  <2>1. CASE user = NoUser
    <3> DEFINE t == [tx[s] EXCEPT !.pc = "invitation"]
    <3>1. /\ t \in Tx /\ t.pc = "invitation" /\ t.op = tx[s].op /\ t.email = tx[s].email
          /\ t.inv = tx[s].inv
      BY <1>1, AtWork DEF Tx
    <3>2. Step(s, t)
      BY <1>4, <2>1 DEF LoginUser, Goto
    <3> HIDE DEF t
    <3>3. Held(t)
      BY <1>1, <1>2, <2>1, <3>1 DEF Held, HeldByLogin, Known
    <3> QED
      BY <1>1, <3>1, <3>2, <3>3, AtWork, Moves
  <2>2. CASE user # NoUser
    <3> DEFINE want == LoggedIn(user)
               t == [tx[s] EXCEPT !.pc = "enter", !.user = user, !.want = want]
    <3>1. user.status # "disabled" /\ Step(s, t)
      BY <1>4, <2>2 DEF LoginUser
    <3>2. user \in User /\ want \in User
      BY <1>1, <1>2, <2>2, AtWork DEF LoggedIn, User, UserStatuses
    <3> HIDE DEF user, want
    <3>3. /\ t \in Tx /\ t.pc = "enter" /\ t.op = tx[s].op /\ t.email = tx[s].email
          /\ t.inv = tx[s].inv /\ t.user = user /\ t.want = want
      BY <1>1, <3>2, AtWork DEF Tx
    <3> HIDE DEF t
    <3>4. Held(t)
      BY <1>1, <1>2, <2>2, <3>1, <3>3 DEF Held, HeldByLogin, Known, user, want
    <3> QED
      BY <1>1, <3>1, <3>3, <3>4, AtWork, Moves
  <2> QED
    BY <2>1, <2>2
<1>5. CASE LoginInvitation(s) /\ tx'[s].pc = "provision"
  <2> DEFINE t == [tx[s] EXCEPT !.pc = "provision"]
  <2>1. /\ t \in Tx /\ t.pc = "provision" /\ t.op = tx[s].op /\ t.email = tx[s].email
        /\ t.inv = tx[s].inv
    BY <1>1, AtWork DEF Tx
  <2>2. tx \in [Slots -> Tx] /\ tx[s].pc = "invitation"
    BY <1>5 DEF Inv, Requests, LoginInvitation, At
  <2>3. Step(s, t)
    <3>1. SUFFICES ASSUME NEW i \in Newest(Pending(tx[s].email)),
                          Step(s, [tx[s] EXCEPT
                              !.pc = IF invitations[i].overdue THEN "expire" ELSE "insert",
                              !.inv = i,
                              !.want = [role |-> invitations[i].role, status |-> "active"]])
                   PROVE  FALSE
      BY <1>5 DEF LoginInvitation, Goto
    <3> QED
      BY <1>5, <2>2, <3>1 DEF Step, Tx
  <2> HIDE DEF t
  <2>4. Held(t)
    BY <1>1, <1>2, <2>1, <2>2 DEF Held, HeldByLogin
  <2> QED
    BY <1>1, <2>1, <2>3, <2>4, AtWork, Moves
<1>6. CASE LoginInvitation(s) /\ tx'[s].pc # "provision"
  <2>1. tx[s].pc = "invitation" /\ tx \in [Slots -> Tx]
    BY <1>6 DEF Inv, Requests, LoginInvitation, At
  <2>2. ~Goto(s, "provision")
    BY <1>6, <2>1 DEF Goto, Step, Tx
  <2>3. PICK i \in Pending(tx[s].email) :
            Step(s, [tx[s] EXCEPT !.pc = IF invitations[i].overdue THEN "expire" ELSE "insert",
                       !.inv = i,
                       !.want = [role |-> invitations[i].role, status |-> "active"]])
    BY <1>6, <2>2 DEF LoginInvitation, Newest
  <2>4. i \in Nat /\ i # 0 /\ invitations[i].role \in Roles
    <3>1. i \in Nat /\ i # 0 /\ invitations[i] \in Invitation
      BY <1>1, <2>3, AtWork DEF Pending
    <3> QED
      BY <3>1 DEF Invitation
  <2> DEFINE pc == IF invitations[i].overdue THEN "expire" ELSE "insert"
             want == [role |-> invitations[i].role, status |-> "active"]
             t == [tx[s] EXCEPT !.pc = pc, !.inv = i, !.want = want]
  <2>5. want \in User /\ want.status = "active" /\ pc \in {"expire", "insert"} /\ Step(s, t)
    BY <2>3, <2>4 DEF User, UserStatuses
  <2> HIDE DEF want, pc
  <2>6. /\ t \in Tx /\ t.pc = pc /\ t.op = tx[s].op /\ t.email = tx[s].email
        /\ t.inv = i /\ t.want = want
    BY <1>1, <2>4, <2>5, AtWork DEF Tx
  <2> HIDE DEF t
  <2>7. Held(t)
    BY <1>1, <1>2, <2>1, <2>3, <2>4, <2>5, <2>6 DEF Held, HeldByLogin
  <2> QED
    BY <1>1, <2>5, <2>6, <2>7, AtWork, Moves
<1>7. CASE Provision(s) /\ ~Finish(s)
  <2>1. PICK role : /\ Step(s, [tx[s] EXCEPT !.pc = "insert",
                                  !.want = [role |-> role, status |-> "active"]])
                    /\ role \in Roles /\ (role = "owner" => ~HasUsers)
    <3>1. CASE ~HasUsers
      BY <1>7, <3>1, RolesHaveOwner DEF Provision
    <3>2. CASE HasUsers
      <4>1. tx[s].policy.defaultRole \in Roles \ {"owner"}
        <5>1. tx[s].policy \in Policies
          BY <1>1, AtWork DEF Tx
        <5> QED
          BY <5>1, PoliciesAreRecords
      <4> QED
        BY <1>7, <3>2, <4>1 DEF Provision
    <3> QED
      BY <3>1, <3>2
  <2>2. tx[s].pc = "provision"
    BY <1>7 DEF Provision, At
  <2> DEFINE want == [role |-> role, status |-> "active"]
             t == [tx[s] EXCEPT !.pc = "insert", !.want = want]
  <2>3. want \in User /\ want.role = role /\ want.status = "active" /\ Step(s, t)
    BY <2>1 DEF User, UserStatuses
  <2> HIDE DEF want
  <2>4. /\ t \in Tx /\ t.pc = "insert" /\ t.op = tx[s].op /\ t.email = tx[s].email
        /\ t.inv = tx[s].inv /\ t.want = want
    BY <1>1, <2>3, AtWork DEF Tx
  <2> HIDE DEF t
  <2>5. Held(t)
    BY <1>1, <1>2, <2>1, <2>2, <2>3, <2>4 DEF Held, HeldByLogin
  <2> QED
    BY <1>1, <2>3, <2>4, <2>5, AtWork, Moves
<1> QED
  BY <1>3, <1>4, <1>5, <1>6, <1>7

-----------------------------------------------------------------------------
(* The steps that write. *)

\* What a request that writes a user writes: the row it decided on, changed as it wanted.
LEMMA WrittenUser ==
    ASSUME Inv, NEW s \in Slots, UpdateUser(s) \/ Enter(s)
    PROVE  LET t == tx[s] IN
           /\ Working(s) /\ Held(t) /\ t.email \in Emails /\ t.want \in User
           /\ users[t.email] \in User /\ t.user = users[t.email]
           /\ users' = [users EXCEPT ![t.email] = t.want]
           /\ \/ trail' = [trail EXCEPT ![t.email] = t.want]
              \/ trail' = trail /\ t.want = LoggedIn(users[t.email])
                    /\ users[t.email].status # "disabled"
<1> DEFINE t == tx[s]
<1>1. Working(s)
  BY DEF UpdateUser, Enter, At, Working
<1>2. Held(t) /\ users \in [Emails -> User \cup {NoUser}]
  BY <1>1, AtWork
<1>3. t.email \in Emails /\ Known(t.email) /\ t.user = users[t.email]
  BY <1>2 DEF UpdateUser, Enter, At, Held, HeldByUpdate, HeldByLogin
<1>4. users[t.email] \in User
  BY <1>2, <1>3 DEF Known
<1>5. t.want \in User
  <2>1. CASE UpdateUser(s)
    BY <1>2, <2>1 DEF UpdateUser, At, Held, HeldByUpdate
  <2>2. CASE Enter(s)
    <3>1. t.want = LoggedIn(t.user)
      BY <1>2, <2>2 DEF Enter, At, Held, HeldByLogin
    <3> QED
      BY <1>3, <1>4, <3>1 DEF LoggedIn, User, UserStatuses
  <2> QED
    BY <2>1, <2>2
<1>6. Merge(users[t.email], t.user, t.want) = t.want
  BY <1>3, <1>4, <1>5, MergedUser
<1>7. Enter(s) => t.want = LoggedIn(users[t.email]) /\ users[t.email].status # "disabled"
  BY <1>2, <1>3 DEF Enter, At, Held, HeldByLogin
<1> QED
  BY <1>1, <1>2, <1>3, <1>4, <1>5, <1>6, <1>7 DEF UpdateUser, Enter, Image

LEMMA Invited ==
    ASSUME Inv, NEW i \in DOMAIN invitations
    PROVE  invitations[i] \in Invitation /\ invitations[i].email \in Emails
<1>1. invitations[i] \in Invitation
  BY DEF Inv, Rows, TypeOK
<1> QED
  BY <1>1 DEF Invitation

LEMMA WritesUser ==
    ASSUME Inv, NEW s \in Slots, UpdateUser(s) \/ Enter(s)
    PROVE  Inv'
<1> DEFINE t == tx[s]
<1>1. /\ t.email \in Emails /\ t.want \in User /\ Working(s) /\ users[t.email] \in User
      /\ users' = [users EXCEPT ![t.email] = t.want]
      /\ \/ trail' = [trail EXCEPT ![t.email] = t.want]
         \/ trail' = trail /\ t.want = LoggedIn(users[t.email])
               /\ users[t.email].status # "disabled"
  BY WrittenUser
<1>2. UNCHANGED <<invitations, policy>> /\ Finish(s)
  BY DEF UpdateUser, Enter
<1> HIDE DEF t
<1>3. TypeOK'
  BY <1>1, <1>2 DEF Inv, Rows, TypeOK
<1>4. InvitationsAreSingular'
  BY <1>2 DEF Inv, Rows, InvitationsAreSingular
<1>6. AuditExplainsUsers'
  <2>1. CASE trail' = [trail EXCEPT ![t.email] = t.want]
    BY <1>1, <2>1 DEF Inv, Rows, TypeOK, AuditExplainsUsers
  <2>2. CASE trail' = trail /\ t.want = LoggedIn(users[t.email]) /\ users[t.email].status # "disabled"
    <3>1. /\ Explained(trail[t.email], users[t.email])
          /\ trail[t.email] \in User \cup {NoUser}
      BY <1>1 DEF Inv, Rows, TypeOK, AuditExplainsUsers, Explained
    <3>2. Explained(trail[t.email], t.want)
      BY <1>1, <2>2, <3>1, ExplainedLogin
    <3>3. \A e \in Emails : users'[e] = IF e = t.email THEN t.want ELSE users[e]
      BY <1>1 DEF Inv, Rows, TypeOK
    <3> QED
      BY <2>2, <3>2, <3>3 DEF Inv, Rows, AuditExplainsUsers, Explained
  <2> QED
    BY <1>1, <2>1, <2>2
<1>5. AdmittedAreKnown'
  <2>1. \A e \in Emails : Known(e) => Known(e)'
    BY <1>1, UsersAreKnown DEF Inv, Rows, TypeOK, Known
  <2>2. \A i \in DOMAIN invitations : invitations[i].email \in Emails
    BY Invited
  <2> QED
    BY <1>2, <2>1, <2>2 DEF Inv, Rows, AdmittedAreKnown
<1> QED
  BY <1>1, <1>2, <1>3, <1>4, <1>5, <1>6, Finishes DEF Rows

\* What a request that inserts a user relies on and does, unless the address is taken.
LEMMA InsertedUser ==
    ASSUME Inv, NEW s \in Slots, InsertUser(s)
    PROVE  LET t == tx[s] IN
           /\ Working(s) /\ Held(t) /\ t.email \in Emails /\ t.want \in User /\ ~Known(t.email)
           /\ t.inv # 0 => t.inv \in Pending(t.email)
           /\ users' = [users EXCEPT ![t.email] = t.want]
           /\ \/ trail' = [trail EXCEPT ![t.email] = t.want]
              \/ trail' = trail /\ t.want.status = "active"
           /\ invitations' = IF t.inv = 0 THEN invitations
                             ELSE [invitations EXCEPT ![t.inv].status = "accepted"]
           /\ UNCHANGED policy
<1> DEFINE t == tx[s]
<1>1. Working(s) /\ t.pc = "insert"
  BY DEF InsertUser, Working
<1>2. Held(t) /\ t \in Tx
  BY <1>1, AtWork
<1>3. t.op \in {"create", "login"}
  BY <1>1, <1>2 DEF Held, HeldByUpdate, HeldByInvite, HeldByRevoke, HeldByPolicy, Tx, NoTx
<1>4. /\ t.email \in Emails /\ t.want \in User /\ ~Known(t.email)
      /\ t.inv # 0 => t.inv \in Pending(t.email)
      /\ t.op = "create" \/ t.want.status = "active"
  BY <1>1, <1>2, <1>3 DEF Held, HeldByCreate, HeldByLogin
<1> QED
  BY <1>1, <1>2, <1>4 DEF InsertUser, Image

\* A pending invitation whose status changes.
LEMMA InvitationLeaves ==
    ASSUME Inv, NEW e \in Emails, NEW i \in Pending(e), NEW status,
           status \in {"accepted", "revoked", "expired"},
           invitations' = [invitations EXCEPT ![i].status = status]
    PROVE  /\ invitations' \in Seq(Invitation) /\ DOMAIN invitations' = DOMAIN invitations
           /\ \A j \in DOMAIN invitations :
                  /\ invitations'[j].email = invitations[j].email
                  /\ invitations'[j].status = IF j = i THEN status ELSE invitations[j].status
<1> DEFINE new == [invitations[i] EXCEPT !.status = status]
<1>1. /\ invitations \in Seq(Invitation) /\ i \in DOMAIN invitations
      /\ invitations[i].email = e
  BY DEF Inv, Rows, TypeOK, Pending
<1>2. invitations[i] \in Invitation
  BY <1>1
<1>3. new \in Invitation /\ new.email = e /\ new.status = status
  BY <1>1, <1>2 DEF Invitation
<1>4. [invitations EXCEPT ![i].status = status] = [invitations EXCEPT ![i] = new]
  OBVIOUS
<1> HIDE DEF new
<1> QED
  BY <1>1, <1>3, <1>4, InvitationChanged

LEMMA InsertsUser ==
    ASSUME Inv, NEW s \in Slots, InsertUser(s)
    PROVE  Inv'
<1> DEFINE t == tx[s]
<1>1. Finish(s) /\ Working(s)
  BY DEF InsertUser, Working
<1>2. CASE UNCHANGED tables
  BY <1>1, <1>2, FinishesUnchanged
<1>3. CASE ~Known(t.email)
  <2>1. /\ t.email \in Emails /\ t.want \in User
        /\ t.inv # 0 => t.inv \in Pending(t.email)
        /\ users' = [users EXCEPT ![t.email] = t.want]
        /\ \/ trail' = [trail EXCEPT ![t.email] = t.want]
           \/ trail' = trail /\ t.want.status = "active"
        /\ invitations' = IF t.inv = 0 THEN invitations
                          ELSE [invitations EXCEPT ![t.inv].status = "accepted"]
        /\ UNCHANGED policy
    BY <1>3, InsertedUser
  <2> HIDE DEF t
  <2>6. users[t.email] = NoUser
    BY <1>3 DEF Known
  <2>2. /\ \A e \in Emails : Known(e) => Known(e)'
        /\ users'[t.email] # NoUser
    BY <2>1, UsersAreKnown DEF Inv, Rows, TypeOK, Known
  <2>3. AuditExplainsUsers'
    <3>1. CASE trail' = [trail EXCEPT ![t.email] = t.want]
      BY <2>1, <3>1 DEF Inv, Rows, TypeOK, AuditExplainsUsers
    <3>2. CASE trail' = trail /\ t.want.status = "active"
      <4>1. Explained(trail[t.email], NoUser) /\ trail[t.email] \in User \cup {NoUser}
        BY <2>1, <2>6 DEF Inv, Rows, TypeOK, AuditExplainsUsers, Explained
      <4>2. trail[t.email] = NoUser
        BY <4>1, ExplainedAbsence
      <4>3. \A e \in Emails : users'[e] = IF e = t.email THEN t.want ELSE users[e]
        BY <2>1 DEF Inv, Rows, TypeOK
      <4> QED
        BY <3>2, <4>2, <4>3 DEF Inv, Rows, AuditExplainsUsers
    <3> QED
      BY <2>1, <3>1, <3>2
  <2>4. CASE t.inv = 0
    <3>1. TypeOK' /\ InvitationsAreSingular'
      BY <2>1, <2>4 DEF Inv, Rows, TypeOK, InvitationsAreSingular
    <3>2. AdmittedAreKnown'
      BY <2>1, <2>2, <2>4, Invited DEF Inv, Rows, AdmittedAreKnown
    <3> QED
      BY <1>1, <2>3, <3>1, <3>2, Finishes DEF Rows
  <2>5. CASE t.inv # 0
    <3>1. /\ invitations' \in Seq(Invitation) /\ DOMAIN invitations' = DOMAIN invitations
          /\ \A j \in DOMAIN invitations :
                 /\ invitations'[j].email = invitations[j].email
                 /\ invitations'[j].status = IF j = t.inv THEN "accepted" ELSE invitations[j].status
      <4>1. /\ t.email \in Emails /\ t.inv \in Pending(t.email)
            /\ invitations' = [invitations EXCEPT ![t.inv].status = "accepted"]
        BY <2>1, <2>5
      <4> QED
        BY <4>1, InvitationLeaves
    <3> invitations[t.inv].email = t.email
      BY <2>1, <2>5 DEF Pending
    <3>2. TypeOK'
      BY <2>1, <3>1 DEF Inv, Rows, TypeOK
    <3>3. AdmittedAreKnown'
      BY <2>2, <3>1, Invited DEF Inv, Rows, AdmittedAreKnown, Known
    <3>4. \A j \in DOMAIN invitations :
             invitations[j].email = t.email => invitations[j].status # "accepted"
      BY <1>3 DEF Inv, Rows, AdmittedAreKnown
    <3>5. InvitationsAreSingular'
      BY <3>1, <3>4 DEF Inv, Rows, InvitationsAreSingular
    <3> QED
      BY <1>1, <2>3, <3>2, <3>3, <3>5, Finishes DEF Rows
  <2> QED
    BY <2>4, <2>5
<1> QED
  BY <1>2, <1>3 DEF InsertUser

\* A revocation or an expiry closes the pending invitation that was found.
LEMMA ClosesInvitation ==
    ASSUME Inv, NEW s \in Slots, Revoke(s) \/ ExpireInvitation(s)
    PROVE  Inv'
<1> DEFINE t == tx[s]
<1>1. Finish(s) /\ Working(s) /\ UNCHANGED <<users, policy, trail>>
  BY DEF Revoke, ExpireInvitation, At, Working
<1>2. t.email \in Emails /\ t.inv \in Pending(t.email)
  BY <1>1, AtWork DEF Revoke, ExpireInvitation, At, Held, HeldByRevoke, HeldByLogin
<1>4. PICK status \in {"revoked", "expired"} :
          /\ invitations' \in Seq(Invitation) /\ DOMAIN invitations' = DOMAIN invitations
          /\ \A j \in DOMAIN invitations :
                 /\ invitations'[j].email = invitations[j].email
                 /\ invitations'[j].status = IF j = t.inv THEN status ELSE invitations[j].status
  <2>1. CASE Revoke(s)
    <3>1. invitations' = [invitations EXCEPT ![t.inv].status = "revoked"]
      BY <2>1 DEF Revoke
    <3> HIDE DEF t
    <3>2. /\ invitations' \in Seq(Invitation) /\ DOMAIN invitations' = DOMAIN invitations
          /\ \A j \in DOMAIN invitations :
                 /\ invitations'[j].email = invitations[j].email
                 /\ invitations'[j].status = IF j = t.inv THEN "revoked" ELSE invitations[j].status
      BY <1>2, <3>1, InvitationLeaves
    <3> QED
      BY <3>2
  <2>2. CASE ExpireInvitation(s)
    <3>1. invitations' = [invitations EXCEPT ![t.inv].status = "expired"]
      BY <2>2 DEF ExpireInvitation
    <3> HIDE DEF t
    <3>2. /\ invitations' \in Seq(Invitation) /\ DOMAIN invitations' = DOMAIN invitations
          /\ \A j \in DOMAIN invitations :
                 /\ invitations'[j].email = invitations[j].email
                 /\ invitations'[j].status = IF j = t.inv THEN "expired" ELSE invitations[j].status
      BY <1>2, <3>1, InvitationLeaves
    <3> QED
      BY <3>2
  <2> QED
    BY <2>1, <2>2
<1> HIDE DEF t
<1>5. TypeOK' /\ AuditExplainsUsers'
  BY <1>1, <1>4 DEF Inv, Rows, TypeOK, AuditExplainsUsers
<1>6. InvitationsAreSingular'
  BY <1>4 DEF Inv, Rows, InvitationsAreSingular
<1>7. AdmittedAreKnown'
  BY <1>1, <1>4 DEF Inv, Rows, AdmittedAreKnown, Known
<1> QED
  BY <1>1, <1>5, <1>6, <1>7, Finishes DEF Rows

LEMMA Invites ==
    ASSUME Inv, NEW s \in Slots, Invite(s)
    PROVE  Inv'
<1> DEFINE t == tx[s]
<1>1. Finish(s) /\ Working(s) /\ UNCHANGED <<users, policy, trail>>
  BY DEF Invite, At, Working
<1>2. /\ t.email \in Emails
      /\ IF t.inv = 0 THEN Pending(t.email) = {}
         ELSE /\ t.inv \in Pending(t.email)
              /\ t.seen \in Invitation /\ t.seen.email = t.email /\ t.seen.status = "pending"
  BY <1>1, AtWork DEF Invite, At, Held, HeldByInvite
<1>3. PICK role \in Roles :
           IF t.inv # 0
           THEN invitations' = [invitations EXCEPT
                    ![t.inv] = Merge(@, t.seen, [t.seen EXCEPT !.role = role])]
           ELSE invitations' = IF Len(invitations) = MaxInvitations THEN invitations
                               ELSE Append(invitations, NewInvitation(t.email, role))
  BY DEF Invite
<1> HIDE DEF t
<1>4. invitations \in Seq(Invitation)
  BY DEF Inv, Rows, TypeOK
<1>5. SUFFICES Rows'
  BY <1>1, Finishes
<1>6. CASE t.inv # 0
  <2> DEFINE new == Merge(invitations[t.inv], t.seen, [t.seen EXCEPT !.role = role])
  <2>1. t.inv \in DOMAIN invitations /\ invitations[t.inv] \in Invitation
    BY <1>2, <1>6, Invited DEF Pending
  <2>2. /\ new \in Invitation
        /\ new.email = invitations[t.inv].email /\ new.status = invitations[t.inv].status
    BY <1>2, <1>6, <2>1, MergedInvitation
  <2>3. invitations' = [invitations EXCEPT ![t.inv] = new]
    BY <1>3, <1>6
  <2> HIDE DEF new
  <2>4. /\ invitations' \in Seq(Invitation) /\ DOMAIN invitations' = DOMAIN invitations
        /\ \A j \in DOMAIN invitations :
               /\ invitations'[j].email = invitations[j].email
               /\ invitations'[j].status = invitations[j].status
    BY <1>4, <2>1, <2>2, <2>3, InvitationChanged
  <2> QED
    BY <1>1, <2>4 DEF Inv, Rows, TypeOK, AuditExplainsUsers, InvitationsAreSingular, AdmittedAreKnown, Known
<1>7. CASE t.inv = 0 /\ Len(invitations) # MaxInvitations
  <2> DEFINE new == NewInvitation(t.email, role)
  <2>1. new \in Invitation /\ new.email = t.email /\ new.status = "pending"
    BY <1>2 DEF NewInvitation, Invitation
  <2>2. invitations' = Append(invitations, new)
    BY <1>3, <1>7
  <2> HIDE DEF new
  <2>3. /\ invitations' \in Seq(Invitation)
        /\ \A i \in DOMAIN invitations' :
               IF i \in DOMAIN invitations THEN invitations'[i] = invitations[i]
               ELSE i = Len(invitations) + 1 /\ invitations'[i] = new
    BY <1>4, <2>1, <2>2, InvitationAdded
  <2>4. \A i \in DOMAIN invitations :
           ~(invitations[i].email = new.email /\ invitations[i].status = "pending")
    BY <1>2, <1>7, <2>1 DEF Pending
  <2>5. TypeOK' /\ AuditExplainsUsers'
    BY <1>1, <2>3 DEF Inv, Rows, TypeOK, AuditExplainsUsers
  <2>6. InvitationsAreSingular'
    BY <2>1, <2>3, <2>4 DEF Inv, Rows, InvitationsAreSingular
  <2>7. AdmittedAreKnown'
    BY <1>1, <2>1, <2>3 DEF Inv, Rows, AdmittedAreKnown, Known
  <2> QED
    BY <2>5, <2>6, <2>7 DEF Rows
<1>8. CASE t.inv = 0 /\ Len(invitations) = MaxInvitations
  <2>1. UNCHANGED tables
    BY <1>1, <1>3, <1>8 DEF tables
  <2> QED
    BY <2>1 DEF tables, Inv, Rows, TypeOK, AuditExplainsUsers, InvitationsAreSingular, AdmittedAreKnown, Known
<1> QED
  BY <1>6, <1>7, <1>8

LEMMA UpdatesPolicy ==
    ASSUME Inv, NEW s \in Slots, UpdatePolicy(s)
    PROVE  Inv'
<1>1. Finish(s) /\ Working(s) /\ UNCHANGED <<users, invitations, trail>>
  BY DEF UpdatePolicy, At, Working
<1>2. tx[s].policy = policy /\ policy \in Policies
  BY <1>1, AtWork DEF UpdatePolicy, At, Held, HeldByPolicy
<1>3. policy' \in Policies
  BY <1>2, MergedPolicy DEF UpdatePolicy
<1> QED
  BY <1>1, <1>3, Finishes DEF Inv, Rows, TypeOK, AuditExplainsUsers, InvitationsAreSingular, AdmittedAreKnown, Known

LEMMA Lapses ==
    ASSUME Inv, NEW i \in DOMAIN invitations, Lapse(i)
    PROVE  Inv'
<1> DEFINE new == [invitations[i] EXCEPT !.overdue = TRUE]
<1>1. new \in Invitation /\ new.email = invitations[i].email /\ new.status = invitations[i].status
  BY Invited DEF Invitation
<1>2. invitations' = [invitations EXCEPT ![i] = new] /\ UNCHANGED <<users, policy, trail, tx>>
  BY DEF Lapse
<1> HIDE DEF new
<1>3. invitations \in Seq(Invitation)
  BY DEF Inv, Rows, TypeOK
<1>4. /\ invitations' \in Seq(Invitation) /\ DOMAIN invitations' = DOMAIN invitations
      /\ \A j \in DOMAIN invitations :
             /\ invitations'[j].email = invitations[j].email
             /\ invitations'[j].status = invitations[j].status
  BY <1>1, <1>2, <1>3, InvitationChanged
<1>5. Rows'
  BY <1>2, <1>4 DEF Inv, Rows, TypeOK, AuditExplainsUsers, InvitationsAreSingular, AdmittedAreKnown, Known
<1>6. \A e : Pending(e)' = Pending(e)
  BY <1>4 DEF Pending
<1>7. ASSUME NEW s \in Slots PROVE Held(tx[s])'
  <2>1. Held(tx[s]) /\ tx'[s] = tx[s]
    BY <1>2 DEF Inv, Requests
  <2> QED
    BY <1>2, <1>6, <2>1 DEF Held, HeldByUpdate, HeldByCreate, HeldByInvite, HeldByRevoke,
        HeldByPolicy, HeldByLogin, Known, ActiveOwners, HasUsers
<1>8. (tx \in [Slots -> Tx] /\ OneAtWork)'
  BY <1>2 DEF Inv, Requests, OneAtWork, Working
<1> QED
  BY <1>5, <1>7, <1>8 DEF Inv, Requests

-----------------------------------------------------------------------------
(* The steps of the system. *)

LEMMA InitEstablishes ==
    ASSUME Init
    PROVE  Inv
<1>1. Rows
  BY PoliciesAreRecords DEF Init, Rows, TypeOK, InvitationsAreSingular, AuditExplainsUsers, AdmittedAreKnown
<1>2. Requests
  BY RestingTx DEF Init, Requests, OneAtWork, Working
<1> QED
  BY <1>1, <1>2 DEF Inv

LEMMA StepPreserves ==
    ASSUME Inv, SharedKey, [Next]_vars
    PROVE  Inv'
<1>1. CASE UNCHANGED vars
  <2>1. UNCHANGED tables /\ UNCHANGED tx
    BY <1>1 DEF vars, tables
  <2>2. Rows'
    BY <2>1 DEF Inv, Rows, TypeOK, InvitationsAreSingular, AuditExplainsUsers, AdmittedAreKnown, Known, tables
  <2>3. \A s \in Slots : Held(tx[s])'
    BY <2>1, HeldStays DEF Inv, Requests
  <2> QED
    BY <2>1, <2>2, <2>3 DEF Inv, Requests, OneAtWork, Working
<1>2. ASSUME NEW s \in Slots, NEW actor \in Emails \cup {KeyItself},
             \/ \E op \in {"update", "create", "invite", "revoke"}, e \in Emails :
                    Administer(s, op, actor, e)
             \/ Administer(s, "policy", actor, KeyItself)
      PROVE  Inv'
  <2>1. CASE \E op \in {"update", "create", "invite", "revoke"}, e \in Emails :
                 Administer(s, op, actor, e)
    BY <2>1, BeginsAdministering
  <2>2. CASE Administer(s, "policy", actor, KeyItself)
    BY <2>2, BeginsAdministering
  <2> QED
    BY <1>2, <2>1, <2>2
<1>3. ASSUME NEW s \in Slots, NEW e \in Emails, NEW provider \in {"google", "password"},
             Login(s, e, provider)
      PROVE  Inv'
  BY <1>3, BeginsLogin
<1>4. ASSUME NEW s \in Slots,
             \/ LoadUser(s) \/ CountOwners(s) \/ FindDuplicate(s) \/ CheckInvitee(s)
             \/ FindInvitation(s) \/ LoadInvitation(s) \/ LoadPolicy(s)
             \/ LoginUser(s) \/ LoginInvitation(s) \/ Provision(s)
      PROVE  Inv'
  BY <1>4, ReadsForUpdate, ReadsForCreate, ReadsForInvite, ReadsForRevoke, ReadsForPolicy,
     ReadsForLogin
<1>5. ASSUME NEW s \in Slots,
             \/ UpdateUser(s) \/ Enter(s) \/ InsertUser(s) \/ Invite(s) \/ Revoke(s)
             \/ ExpireInvitation(s) \/ UpdatePolicy(s)
      PROVE  Inv'
  BY <1>5, WritesUser, InsertsUser, Invites, ClosesInvitation, UpdatesPolicy
<1>6. ASSUME NEW i \in DOMAIN invitations, Lapse(i) PROVE Inv'
  BY <1>6, Lapses
<1> QED
  BY <1>1, <1>2, <1>3, <1>4, <1>5, <1>6 DEF Next

LEMMA Invariance ==
    ASSUME SharedKey
    PROVE  Spec => []Inv
<1>1. Inv /\ [Next]_vars => Inv'
  BY StepPreserves
<1>2. Init => Inv
  BY InitEstablishes
<1> QED
  BY <1>1, <1>2, PTL DEF Spec

-----------------------------------------------------------------------------
(* The theorems. *)

\* Rows of users, invitations, policy and trail keep to their columns.
THEOREM Typed == ASSUME SharedKey PROVE Spec => []TypeOK
<1>1. Inv => TypeOK
  BY DEF Inv, Rows
<1> QED
  BY <1>1, Invariance, PTL

\* An address never has two pending invitations, nor is it admitted by two: the invitation found
\* pending is still so when it is renewed, accepted, revoked or found overdue.
THEOREM InvitationsStaySingular == ASSUME SharedKey PROVE Spec => []InvitationsAreSingular
<1>1. Inv => InvitationsAreSingular
  BY DEF Inv, Rows
<1> QED
  BY <1>1, Invariance, PTL

\* The newest image of a user on the trail is the user's row, but for what a login may do to
\* it: nobody wrote to the row that an image was made from, between its load and its update.
THEOREM AuditKeepsUp == ASSUME SharedKey PROVE Spec => []AuditExplainsUsers
<1>1. Inv => AuditExplainsUsers
  BY DEF Inv, Rows
<1> QED
  BY <1>1, Invariance, PTL

\* Only these steps write users.
LEMMA UserWriters ==
    ASSUME [Next]_vars, users' # users
    PROVE  \E s \in Slots :
               \/ UpdateUser(s) \/ Enter(s)
               \/ InsertUser(s) /\ ~Known(tx[s].email)
<1>1. \A s \in Slots : InsertUser(s) => ~Known(tx[s].email)
  BY DEF InsertUser, tables
<1> QED
  BY <1>1 DEF Next, vars, tables, Administer, Login, LoadUser, CountOwners, FindDuplicate,
     CheckInvitee, FindInvitation, Invite, LoadInvitation, Revoke, LoadPolicy, UpdatePolicy,
     LoginUser, LoginInvitation, ExpireInvitation, Provision, Lapse

\* The owner count that an update made is still right when it writes, a login changes no role
\* and never deactivates, and a new user displaces nobody.
THEOREM OwnerStays == ASSUME SharedKey PROVE Spec => OwnerRemains
<1>1. ASSUME Inv, [Next]_vars, ActiveOwners # {}
      PROVE  ActiveOwners' # {}
  <2>1. PICK owner \in Emails : users[owner] = [role |-> "owner", status |-> "active"]
    BY <1>1 DEF ActiveOwners
  <2>2. CASE users' = users
    BY <1>1, <2>2 DEF ActiveOwners
  <2>3. ASSUME NEW s \in Slots, UpdateUser(s) \/ Enter(s)
        PROVE  ActiveOwners' # {}
    <3> DEFINE t == tx[s]
    <3>1. /\ Working(s) /\ Held(t) /\ t.email \in Emails /\ t.want \in User
          /\ users[t.email] \in User /\ t.user = users[t.email]
          /\ users' = [users EXCEPT ![t.email] = t.want]
      BY <1>1, <2>3, WrittenUser
    <3>2. users \in [Emails -> User \cup {NoUser}]
      BY <1>1 DEF Inv, Rows, TypeOK
    <3>3. CASE UpdateUser(s) /\ RemovesOwner(t.user, t.want)
      <4>1. PICK other \in ActiveOwners : other # t.email
        BY <3>1, <3>3 DEF UpdateUser, At, Held, HeldByUpdate
      <4> QED
        BY <3>1, <3>2, <4>1 DEF ActiveOwners
    <3>4. CASE UpdateUser(s) /\ ~RemovesOwner(t.user, t.want)
      BY <2>1, <3>1, <3>2, <3>4 DEF ActiveOwners, RemovesOwner
    <3>5. CASE Enter(s)
      <4>1. t.want = LoggedIn(t.user)
        BY <3>1, <3>5 DEF Enter, At, Held, HeldByLogin
      <4>2. t.email = owner => t.want = [role |-> "owner", status |-> "active"]
        BY <2>1, <3>1, <4>1 DEF LoggedIn
      <4> HIDE DEF t
      <4> QED
        BY <2>1, <3>1, <3>2, <4>2 DEF ActiveOwners
    <3> QED
      BY <2>3, <3>3, <3>4, <3>5
  <2>4. ASSUME NEW s \in Slots, InsertUser(s) /\ ~Known(tx[s].email)
        PROVE  ActiveOwners' # {}
    <3>1. /\ tx[s].email \in Emails /\ users' = [users EXCEPT ![tx[s].email] = tx[s].want]
          /\ users[tx[s].email] = NoUser /\ users \in [Emails -> User \cup {NoUser}]
      BY <1>1, <2>4, InsertedUser DEF Inv, Rows, TypeOK, Known
    <3>2. tx[s].email # owner
      BY <2>1, <3>1 DEF NoUser
    <3> QED
      BY <2>1, <3>1, <3>2 DEF ActiveOwners
  <2> QED
    BY <1>1, <2>2, <2>3, <2>4, UserWriters
<1>2. Inv /\ [Next]_vars => [ActiveOwners # {} => ActiveOwners' # {}]_vars
  BY <1>1
<1> QED
  BY <1>2, Invariance, PTL DEF Spec, OwnerRemains

\* Whoever a login admits as owner without an invitation finds the tenant still empty.
THEOREM FoundersAreFirst == ASSUME SharedKey PROVE Spec => FounderIsFirst
<1> DEFINE First(s) ==
        /\ At(s, "login", "insert") /\ tx[s].inv = 0 /\ tx[s].want.role = "owner"
        /\ users' # users /\ tx'[s].pc = "idle"
        => \A e \in Emails : users[e] = NoUser
<1>1. Inv => \A s \in Slots : First(s)
  BY DEF Inv, Requests, Held, HeldByLogin, At, HasUsers, Known
<1>2. Inv /\ [Next]_vars => [\A s \in Slots : First(s)]_vars
  BY <1>1
<1> QED
  BY <1>2, Invariance, PTL DEF Spec, FounderIsFirst

\* A login under way, an invitation or a new user brings no disabled user back.
THEOREM DisabledKeptOut == ASSUME SharedKey PROVE Spec => DisabledStaysOut
<1> DEFINE KeptOut ==
        \A e \in Emails :
            users[e].status = "disabled" /\ users'[e].status # "disabled" =>
                \E s \in Slots : At(s, "update", "write") /\ tx[s].email = e
<1>1. ASSUME Inv, [Next]_vars
      PROVE  KeptOut
  <2>1. SUFFICES ASSUME NEW e \in Emails, users[e].status = "disabled", users'[e].status # "disabled"
                 PROVE  \E s \in Slots : At(s, "update", "write") /\ tx[s].email = e
    OBVIOUS
  <2>2. users \in [Emails -> User \cup {NoUser}]
    BY <1>1 DEF Inv, Rows, TypeOK
  <2>3. ASSUME NEW s \in Slots, UpdateUser(s) \/ Enter(s)
        PROVE  At(s, "update", "write") /\ tx[s].email = e
    <3>1. /\ Held(tx[s]) /\ tx[s].email \in Emails /\ tx[s].user = users[tx[s].email]
          /\ users' = [users EXCEPT ![tx[s].email] = tx[s].want]
      BY <1>1, <2>3, WrittenUser
    <3>2. tx[s].email = e
      BY <2>1, <2>2, <3>1
    <3>3. Enter(s) => tx[s].user.status # "disabled"
      BY <3>1 DEF Enter, At, Held, HeldByLogin
    <3> QED
      BY <2>1, <2>3, <3>1, <3>2, <3>3 DEF UpdateUser
  <2>4. ASSUME NEW s \in Slots, InsertUser(s) /\ ~Known(tx[s].email)
        PROVE  FALSE
    <3>1. /\ tx[s].email \in Emails /\ users' = [users EXCEPT ![tx[s].email] = tx[s].want]
          /\ users[tx[s].email] = NoUser
      BY <1>1, <2>4, InsertedUser DEF Known
    <3> QED
      BY <2>1, <2>2, <3>1 DEF NoUser
  <2> QED
    BY <1>1, <2>1, <2>3, <2>4, UserWriters
<1>2. Inv /\ [Next]_vars => [KeptOut]_vars
  BY <1>1
<1> QED
  BY <1>2, Invariance, PTL DEF Spec, DisabledStaysOut

\* The session checked at the start of a request is checked for all of it.
THEOREM ActorsStillAdminister == ASSUME SharedKey PROVE Spec => ActorStillAdministers
<1> DEFINE StillMay(s) ==
        /\ tx[s].op # "login" /\ tx[s].actor # KeyItself
        /\ tables' # tables
        /\ tx'[s].pc = "idle" /\ tx[s].pc # "idle"
        => users[tx[s].actor].status = "active" /\ users[tx[s].actor].role \in AdminRoles
<1>1. Inv => \A s \in Slots : StillMay(s)
  BY DEF Inv, Requests, Held, NoTx, Entitled
<1>2. Inv /\ [Next]_vars => [\A s \in Slots : StillMay(s)]_vars
  BY <1>1
<1> QED
  BY <1>2, Invariance, PTL DEF Spec, ActorStillAdministers
=============================================================================
