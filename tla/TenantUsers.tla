----------------------------- MODULE TenantUsers -----------------------------
(***************************************************************************)
(* Users, invitations, login policy and audit trail of one tenant, as      *)
(* tenant_admin_service.py keeps them and routes/tenant_admin.py commits   *)
(* them: one transaction per request.  Requests interleave between their   *)
(* statements unless they carry the same API key (see FeatureRequests).    *)
(* A request decides on the rows its session loaded and sends the columns  *)
(* it changed; the writes are flushed and committed in one go.             *)
(*                                                                         *)
(* A user is known by the address, unique per tenant and never changed; no *)
(* user is ever deleted.  The policy row is taken to be there, as it is    *)
(* after the first look at the dashboard.  A request refused before it has *)
(* loaded a row leaves at most an entry in the log of logins, which holds  *)
(* no image of a user and is not modelled.                                 *)
(***************************************************************************)
EXTENDS Naturals, Sequences, FiniteSets

CONSTANTS
    Slots,            \* request threads
    KeyOf,            \* slot |-> the API key its requests carry
    Emails,
    Roles, AdminRoles,\* tenant roles; those that may administer
    Policies,         \* the login policies an administrator may set
    DefaultPolicy,
    KeyItself,        \* the actor of a request without a dashboard session
    MaxInvitations    \* bound on the invitations sent

ASSUME RolesHaveOwner == "owner" \in AdminRoles /\ AdminRoles \subseteq Roles
ASSUME KeyIsNoUser == KeyItself \notin Emails
ASSUME PoliciesAreRecords ==
    DefaultPolicy \in Policies /\ Policies \subseteq
        [providers : SUBSET {"google", "password"}, allowed : SUBSET Emails,
         provision : BOOLEAN, defaultRole : Roles \ {"owner"}]

VARIABLES
    users,        \* tenant_users: address |-> row
    invitations,  \* tenant_invitations, oldest first
    policy,       \* tenant_auth_policies
    trail,        \* tenant_action_audits: address |-> the newest image of the user in it
    tx            \* per slot: where its request is and what its session holds

vars == <<users, invitations, policy, trail, tx>>
tables == <<users, invitations, policy, trail>>

UserStatuses == {"active", "invited", "disabled"}
User == [role : Roles, status : UserStatuses]
NoUser == [role |-> "none", status |-> "absent"]
Invitation == [email : Emails, role : Roles,
               status : {"pending", "accepted", "revoked", "expired"}, overdue : BOOLEAN]

NoTx == [pc |-> "idle", op |-> "none", email |-> KeyItself, actor |-> KeyItself,
         user |-> NoUser, want |-> NoUser, policy |-> DefaultPolicy, inv |-> 0, seen |-> <<>>]

At(s, op, pc) == tx[s].op = op /\ tx[s].pc = pc
Step(s, t) == tx' = [tx EXCEPT ![s] = t]
Goto(s, pc) == Step(s, [tx[s] EXCEPT !.pc = pc])
Finish(s) == tx' = [tx EXCEPT ![s] = NoTx]

\* An UPDATE carries the columns whose value differs from the one loaded.
Merge(current, loaded, assigned) ==
    [c \in DOMAIN current |-> IF assigned[c] = loaded[c] THEN current[c] ELSE assigned[c]]

\* Fault: last_used_at is not flushed, so requests with one key overlap.
NeverLocked(k) == FALSE
KeyLocked(k) == \E s \in Slots : KeyOf[s] = k /\ tx[s].pc # "idle"

-----------------------------------------------------------------------------
\* The questions tenant_admin_service.py asks.

\* Fault: a session outlives the status of its user.
EntitledByRole(u) == u.role \in AdminRoles
Entitled(u) == u.status = "active" /\ u.role \in AdminRoles

Known(e) == users[e] # NoUser
ActiveOwners == {e \in Emails : users[e] = [role |-> "owner", status |-> "active"]}

\* Fault: only active users are counted.
HasActiveUsers == \E e \in Emails : users[e].status = "active"
HasUsers == \E e \in Emails : Known(e)

\* Fault: disabling an owner does not count as removing one.
RemovesRole(user, want) == user.role = "owner" /\ want.role # "owner"
RemovesOwner(user, want) ==
    user.role = "owner" /\ want # [role |-> "owner", status |-> "active"]

\* Fault: only an invitation that is still in time is found.
PendingInTime(e) ==
    {i \in DOMAIN invitations : invitations[i].email = e /\ invitations[i].status = "pending"
                                  /\ ~invitations[i].overdue}
Pending(e) ==
    {i \in DOMAIN invitations : invitations[i].email = e /\ invitations[i].status = "pending"}
Newest(ids) == {i \in ids : \A j \in ids : j <= i}

Allows(p, e, provider) == provider \in p.providers /\ (p.allowed = {} \/ e \in p.allowed)

\* Fault: the outcome of the login ends up in the status.
LoggedInAsSuccess(user) == [user EXCEPT !.status = "success"]
LoggedIn(user) == [user EXCEPT !.status = "active"]

\* record_action_event: the image of the user that an administrator's request leaves.
\* Fault: the image is taken before the change.
ImageBefore(t) == t.user
Image(t) == t.want

-----------------------------------------------------------------------------
\* authenticate_api_key and, for an administrative request, the dashboard session.
Administer(s, op, actor, e) ==
    /\ tx[s].pc = "idle" /\ ~KeyLocked(KeyOf[s])
    /\ actor # KeyItself => Entitled(users[actor])
    /\ Step(s, [NoTx EXCEPT !.pc = "load", !.op = op, !.actor = actor, !.email = e,
                  !.user = IF op = "update" /\ actor = e THEN users[e] ELSE NoUser])
    /\ UNCHANGED tables

\* GET /users/{id} of the update: the actor's own row is in the session already.
LoadUser(s) ==
    /\ At(s, "update", "load")
    /\ IF Known(tx[s].email)
       THEN Step(s, [tx[s] EXCEPT !.pc = "count",
                       !.user = IF tx[s].actor = tx[s].email THEN @ ELSE users[tx[s].email]])
       ELSE Finish(s)
    /\ UNCHANGED tables

CountOwners(s) ==
    /\ At(s, "update", "count")
    /\ \E want \in User :
           IF RemovesOwner(tx[s].user, want) /\ ActiveOwners \ {tx[s].email} = {}
           THEN Finish(s)
           ELSE Step(s, [tx[s] EXCEPT !.pc = "write", !.want = want])
    /\ UNCHANGED tables

UpdateUser(s) ==
    LET t == tx[s] IN
    /\ At(s, "update", "write")
    /\ users' = [users EXCEPT ![t.email] = Merge(@, t.user, t.want)]
    /\ trail' = [trail EXCEPT ![t.email] = Image(t)]
    /\ Finish(s)
    /\ UNCHANGED <<invitations, policy>>

FindDuplicate(s) ==
    /\ At(s, "create", "load")
    /\ IF Known(tx[s].email) THEN Finish(s)
       ELSE \E want \in User : Step(s, [tx[s] EXCEPT !.pc = "insert", !.want = want])
    /\ UNCHANGED tables

\* The row of a new user, by an administrator or at a login; the unique address may have
\* been taken meanwhile, and then everything is rolled back.
InsertUser(s) ==
    LET t == tx[s] IN
    /\ t.pc = "insert"
    /\ IF Known(t.email)
       THEN UNCHANGED tables
       ELSE /\ users' = [users EXCEPT ![t.email] = t.want]
            /\ trail' = IF t.op = "create" THEN [trail EXCEPT ![t.email] = Image(t)] ELSE trail
            /\ invitations' = IF t.inv = 0 THEN invitations
                              ELSE [invitations EXCEPT ![t.inv].status = "accepted"]
            /\ UNCHANGED policy
    /\ Finish(s)

\* A disabled user may be invited again.
CheckInvitee(s) ==
    /\ At(s, "invite", "load")
    /\ IF Known(tx[s].email) /\ users[tx[s].email].status # "disabled"
       THEN Finish(s) ELSE Goto(s, "find")
    /\ UNCHANGED tables

FindInvitation(s) ==
    LET found == Newest(Pending(tx[s].email)) IN
    /\ At(s, "invite", "find")
    /\ \/ found = {} /\ Goto(s, "write")
       \/ \E i \in found :
              Step(s, [tx[s] EXCEPT !.pc = "write", !.inv = i, !.seen = invitations[i]])
    /\ UNCHANGED tables

NewInvitation(e, role) ==
    [email |-> e, role |-> role, status |-> "pending", overdue |-> FALSE]

\* A pending invitation gets the new role and keeps its date of expiry.
Invite(s) ==
    LET t == tx[s] IN
    /\ At(s, "invite", "write")
    /\ \E role \in Roles :
           IF t.inv # 0
           THEN invitations' = [invitations EXCEPT
                    ![t.inv] = Merge(@, t.seen, [t.seen EXCEPT !.role = role])]
           ELSE invitations' = IF Len(invitations) = MaxInvitations THEN invitations
                               ELSE Append(invitations, NewInvitation(t.email, role))
    /\ Finish(s)
    /\ UNCHANGED <<users, policy, trail>>

\* The invitation may be unknown or pending no more: then nothing is changed.
LoadInvitation(s) ==
    /\ At(s, "revoke", "load")
    /\ \/ \E i \in Pending(tx[s].email) : Step(s, [tx[s] EXCEPT !.pc = "write", !.inv = i])
       \/ Finish(s)
    /\ UNCHANGED tables

Revoke(s) ==
    /\ At(s, "revoke", "write")
    /\ invitations' = [invitations EXCEPT ![tx[s].inv].status = "revoked"]
    /\ Finish(s)
    /\ UNCHANGED <<users, policy, trail>>

LoadPolicy(s) ==
    /\ At(s, "policy", "load")
    /\ Step(s, [tx[s] EXCEPT !.pc = "write", !.policy = policy])
    /\ UNCHANGED tables

UpdatePolicy(s) ==
    /\ At(s, "policy", "write")
    /\ \E p \in Policies : policy' = Merge(policy, tx[s].policy, p)
    /\ Finish(s)
    /\ UNCHANGED <<users, invitations, trail>>

-----------------------------------------------------------------------------
\* login/resolve: the policy, then the user, then the newest pending invitation.
Login(s, e, provider) ==
    /\ tx[s].pc = "idle" /\ ~KeyLocked(KeyOf[s])
    /\ Allows(policy, e, provider)
    /\ Step(s, [NoTx EXCEPT !.pc = "user", !.op = "login", !.email = e, !.policy = policy])
    /\ UNCHANGED tables

LoginUser(s) ==
    LET t == tx[s]  user == users[t.email] IN
    /\ At(s, "login", "user")
    /\ CASE user = NoUser -> Goto(s, "invitation")
         [] user.status = "disabled" -> Finish(s)
         [] OTHER -> Step(s, [t EXCEPT !.pc = "enter", !.user = user, !.want = LoggedIn(user)])
    /\ UNCHANGED tables

Enter(s) ==
    LET t == tx[s] IN
    /\ At(s, "login", "enter")
    /\ users' = [users EXCEPT ![t.email] = Merge(@, t.user, t.want)]
    /\ Finish(s)
    /\ UNCHANGED <<invitations, policy, trail>>

LoginInvitation(s) ==
    LET t == tx[s]  found == Newest(Pending(t.email)) IN
    /\ At(s, "login", "invitation")
    /\ \/ found = {} /\ Goto(s, "provision")
       \/ \E i \in found :
              Step(s, [t EXCEPT !.pc = IF invitations[i].overdue THEN "expire" ELSE "insert",
                         !.inv = i,
                         !.want = [role |-> invitations[i].role, status |-> "active"]])
    /\ UNCHANGED tables

ExpireInvitation(s) ==
    /\ At(s, "login", "expire")
    /\ invitations' = [invitations EXCEPT ![tx[s].inv].status = "expired"]
    /\ Finish(s)
    /\ UNCHANGED <<users, policy, trail>>

\* Nobody there yet: the owner.  Otherwise the policy's default role, if it provisions.
Provision(s) ==
    LET t == tx[s]
        admit(role) == Step(s, [t EXCEPT !.pc = "insert",
                                  !.want = [role |-> role, status |-> "active"]])
    IN
    /\ At(s, "login", "provision")
    /\ IF ~HasUsers THEN admit("owner")
       ELSE IF t.policy.provision THEN admit(t.policy.defaultRole)
       ELSE Finish(s)
    /\ UNCHANGED tables

\* Seven days pass.
Lapse(i) ==
    /\ invitations[i].status = "pending" /\ ~invitations[i].overdue
    /\ invitations' = [invitations EXCEPT ![i].overdue = TRUE]
    /\ UNCHANGED <<users, policy, trail, tx>>

-----------------------------------------------------------------------------
Init ==
    /\ users = [e \in Emails |-> NoUser]
    /\ invitations = <<>>
    /\ policy = DefaultPolicy
    /\ trail = users
    /\ tx = [s \in Slots |-> NoTx]

Next ==
    \/ \E s \in Slots, actor \in Emails \cup {KeyItself} :
           \/ \E op \in {"update", "create", "invite", "revoke"}, e \in Emails :
                  Administer(s, op, actor, e)
           \/ Administer(s, "policy", actor, KeyItself)
    \/ \E s \in Slots, e \in Emails, provider \in {"google", "password"} :
           Login(s, e, provider)
    \/ \E s \in Slots :
           \/ LoadUser(s) \/ CountOwners(s) \/ UpdateUser(s)
           \/ FindDuplicate(s) \/ InsertUser(s)
           \/ CheckInvitee(s) \/ FindInvitation(s) \/ Invite(s)
           \/ LoadInvitation(s) \/ Revoke(s)
           \/ LoadPolicy(s) \/ UpdatePolicy(s)
           \/ LoginUser(s) \/ Enter(s) \/ LoginInvitation(s) \/ ExpireInvitation(s)
           \/ Provision(s)
    \/ \E i \in DOMAIN invitations : Lapse(i)

Spec == Init /\ [][Next]_vars

-----------------------------------------------------------------------------
TypeOK ==
    /\ users \in [Emails -> User \cup {NoUser}]
    /\ trail \in [Emails -> User \cup {NoUser}]
    /\ invitations \in Seq(Invitation)
    /\ policy \in Policies

\* "At least one active owner is required": a tenant that has one is never without.
OwnerRemains == [][ActiveOwners # {} => ActiveOwners' # {}]_vars

\* Who becomes owner by logging in first was first: no two logins found the tenant empty.
FounderIsFirst ==
    [][\A s \in Slots :
          /\ At(s, "login", "insert") /\ tx[s].inv = 0 /\ tx[s].want.role = "owner"
          /\ users' # users /\ tx'[s].pc = "idle"
          => \A e \in Emails : users[e] = NoUser]_vars

\* A disabled user comes back by an administrator's update, and by no login or
\* invitation that was under way.
DisabledStaysOut ==
    [][\A e \in Emails :
          users[e].status = "disabled" /\ users'[e].status # "disabled" =>
              \E s \in Slots : At(s, "update", "write") /\ tx[s].email = e]_vars

\* An address has one pending invitation at most, and is admitted by one at most.
InvitationsAreSingular ==
    \A i, j \in DOMAIN invitations :
        /\ invitations[i].email = invitations[j].email
        /\ invitations[i].status = invitations[j].status
        /\ invitations[i].status \in {"pending", "accepted"}
        => i = j

\* What the audit trail does not show of a user, a login did: it shows his role as long as
\* any administrator has dealt with him, and every disabling; a login alone admits a user
\* or activates an invited one.
AuditExplainsUsers ==
    \A e \in Emails :
        \/ users[e] = trail[e]
        \/ trail[e] = NoUser /\ users[e].status = "active"
        \/ trail[e].status = "invited" /\ users[e] = LoggedIn(trail[e])

\* What is done in the name of a user is done while he still is an active administrator.
ActorStillAdministers ==
    [][\A s \in Slots :
          /\ tx[s].op # "login" /\ tx[s].actor # KeyItself
          /\ tables' # tables
          /\ tx'[s].pc = "idle" /\ tx[s].pc # "idle"
          => users[tx[s].actor].status = "active" /\ users[tx[s].actor].role \in AdminRoles]_vars
=============================================================================
