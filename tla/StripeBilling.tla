---------------------------- MODULE StripeBilling ----------------------------
(***************************************************************************)
(* The Stripe webhook (routes/webhooks_stripe.py, billing_service.py) and  *)
(* the tables it keeps, tenant_subscriptions and processed_stripe_events.  *)
(*                                                                         *)
(* Stripe delivers an event at least once, in any order, and again until   *)
(* it gets a 2xx.  The route is a coroutine that works synchronously, so a *)
(* gunicorn worker handles one event at a time and two workers can handle  *)
(* two, or the same one.  A handler commits twice: the subscription, then  *)
(* the mark; its worker may die anywhere before it has answered.  A period *)
(* end moves with the status and is left out.                              *)
(***************************************************************************)
EXTENDS Naturals, Sequences, FiniteSets

CONSTANTS
    Tenants, Workers,
    Customers,      \* Stripe customers
    TenantOf,       \* customer |-> the tenant that checked out
    Subscriptions,
    CustomerOf,     \* subscription |-> its customer
    None,           \* NULL
    Statuses,       \* what Stripe may report of a subscription
    MaxEvents,      \* bound on the events Stripe emits
    MaxCrashes      \* bound on the workers that die

ASSUME StripeIdsHaveOwners ==
    /\ TenantOf \in [Customers -> Tenants] /\ CustomerOf \in [Subscriptions -> Customers]
    /\ None \notin Customers \cup Subscriptions

VARIABLES
    row,            \* tenant_subscriptions: tenant |-> row, or NoRow
    processed,      \* processed_stripe_events
    emitted,        \* Stripe: the events so far; an event's index is its id
    acknowledged,   \* Stripe: the events answered with a 2xx, not sent again
    worker,         \* per worker: the delivery it handles
    crashes

vars == <<row, processed, emitted, acknowledged, worker, crashes>>

NoRow == [exists |-> FALSE, customer |-> None, subscription |-> None, status |-> "absent"]
FreeRow == [NoRow EXCEPT !.exists = TRUE, !.status = "active"]
Resting == [pc |-> "idle", event |-> 0, tenant |-> None, loaded |-> NoRow]

Event == [type : {"checkout.session.completed"}, subscription : Subscriptions, status : {"none"}]
    \cup [type : {"customer.subscription.updated"}, subscription : Subscriptions, status : Statuses]

At(w, pc) == worker[w].pc = pc
Step(w, t) == worker' = [worker EXCEPT ![w] = t]
Rows == {t \in Tenants : row[t].exists}

-----------------------------------------------------------------------------
\* The look-ups and assignments of handle_stripe_webhook.

\* Fault: the customer filter is lost.
AnyRow(subscription) == Rows
\* The row holds the subscription, or else the customer.
Matching(subscription) ==
    LET bySubscription == {t \in Rows : row[t].subscription = subscription}
    IN  IF bySubscription # {} THEN bySubscription
        ELSE {t \in Rows : row[t].customer = CustomerOf[subscription]}

\* Fault: the customer and the subscription are mixed up.
MixedUp(loaded, e) ==
    [loaded EXCEPT !.customer = e.subscription, !.subscription = CustomerOf[e.subscription]]
Assigned(loaded, e) ==
    IF e.type = "checkout.session.completed"
    THEN [loaded EXCEPT !.customer = CustomerOf[e.subscription],
                        !.subscription = e.subscription]
    ELSE [loaded EXCEPT !.status = e.status, !.subscription = e.subscription]

\* An UPDATE carries the columns whose value differs from the one loaded.
Merge(current, loaded, assigned) ==
    [c \in DOMAIN current |-> IF assigned[c] = loaded[c] THEN current[c] ELSE assigned[c]]

\* A processed event is answered 200 ("already_processed").
\* Fault: it is answered 409.
RepeatRefused(e) == acknowledged
RepeatAnswered(e) == acknowledged \cup {e}

\* The loser of the race to insert the free row is answered 500.
\* Fault: the conflict is swallowed.
Swallowed(t) == [t EXCEPT !.pc = "mark"]
LostRace(t) == Resting

-----------------------------------------------------------------------------
\* Stripe (external): a checkout makes the customer's first subscription; afterwards a
\* subscription changes, or the customer adds one in the portal.
Emit(e) ==
    /\ Len(emitted) < MaxEvents
    /\ emitted' = Append(emitted, e)
    /\ UNCHANGED <<row, processed, acknowledged, worker, crashes>>

Knows(customer) == \E i \in DOMAIN emitted :
    emitted[i].type = "checkout.session.completed"
        /\ CustomerOf[emitted[i].subscription] = customer

CompleteCheckout(subscription) ==
    /\ ~Knows(CustomerOf[subscription])
    /\ Emit([type |-> "checkout.session.completed", subscription |-> subscription,
             status |-> "none"])

ChangeSubscription(subscription, status) ==
    /\ Knows(CustomerOf[subscription])
    /\ Emit([type |-> "customer.subscription.updated", subscription |-> subscription,
             status |-> status])

\* A delivery: the processed mark is looked up first.
Deliver(w, e) ==
    /\ At(w, "idle")
    /\ e \in DOMAIN emitted \ acknowledged
    /\ IF e \in processed
       THEN acknowledged' = RepeatAnswered(e) /\ UNCHANGED worker
       ELSE Step(w, [Resting EXCEPT !.pc = "load", !.event = e]) /\ UNCHANGED acknowledged
    /\ UNCHANGED <<row, processed, emitted, crashes>>

Load(w) ==
    LET t == worker[w]  e == emitted[t.event]  tenant == TenantOf[CustomerOf[e.subscription]]
        found(x) == Step(w, [t EXCEPT !.pc = "write", !.tenant = x, !.loaded = row[x]])
    IN
    /\ At(w, "load")
    /\ IF e.type = "checkout.session.completed"
       THEN IF row[tenant].exists THEN found(tenant)
            ELSE Step(w, [t EXCEPT !.pc = "create", !.tenant = tenant])
       ELSE \/ \E x \in Matching(e.subscription) : found(x)
            \/ Matching(e.subscription) = {} /\ Step(w, [t EXCEPT !.pc = "mark"])
    /\ UNCHANGED <<row, processed, emitted, acknowledged, crashes>>

\* get_subscription inserts the free row and commits.
Create(w) ==
    /\ At(w, "create")
    /\ IF row[worker[w].tenant].exists
       THEN Step(w, LostRace(worker[w])) /\ UNCHANGED row
       ELSE /\ row' = [row EXCEPT ![worker[w].tenant] = FreeRow]
            /\ Step(w, [worker[w] EXCEPT !.pc = "write", !.loaded = FreeRow])
    /\ UNCHANGED <<processed, emitted, acknowledged, crashes>>

\* GET /v1/billing/subscription, the checkout and the portal create the free row, too.
GetSubscription(t) ==
    /\ ~row[t].exists
    /\ row' = [row EXCEPT ![t] = FreeRow]
    /\ UNCHANGED <<processed, emitted, acknowledged, worker, crashes>>

\* The first commit.
Write(w) ==
    LET t == worker[w] IN
    /\ At(w, "write")
    /\ row' = [row EXCEPT ![t.tenant] = Merge(@, t.loaded, Assigned(t.loaded, emitted[t.event]))]
    /\ Step(w, [t EXCEPT !.pc = "mark"])
    /\ UNCHANGED <<processed, emitted, acknowledged, crashes>>

\* The second commit: a mark that exists already is a conflict, answered 500.
Mark(w) ==
    LET t == worker[w] IN
    /\ At(w, "mark")
    /\ processed' = processed \cup {t.event}
    /\ Step(w, IF t.event \in processed THEN Resting ELSE [t EXCEPT !.pc = "answer"])
    /\ UNCHANGED <<row, emitted, acknowledged, crashes>>

Answer(w) ==
    /\ At(w, "answer")
    /\ acknowledged' = acknowledged \cup {worker[w].event}
    /\ Step(w, Resting)
    /\ UNCHANGED <<row, processed, emitted, crashes>>

\* The worker dies or is restarted; what it has not committed or answered is gone.
Crash(w) ==
    /\ ~At(w, "idle") /\ crashes < MaxCrashes
    /\ crashes' = crashes + 1
    /\ Step(w, Resting)
    /\ UNCHANGED <<row, processed, emitted, acknowledged>>

-----------------------------------------------------------------------------
Init ==
    /\ row = [t \in Tenants |-> NoRow]
    /\ processed = {} /\ emitted = <<>> /\ acknowledged = {}
    /\ worker = [w \in Workers |-> Resting]
    /\ crashes = 0

Handle(w) == Load(w) \/ Create(w) \/ Write(w) \/ Mark(w) \/ Answer(w)

Next ==
    \/ \E x \in Subscriptions :
           CompleteCheckout(x) \/ \E status \in Statuses : ChangeSubscription(x, status)
    \/ \E t \in Tenants : GetSubscription(t)
    \/ \E w \in Workers : Handle(w) \/ Crash(w) \/ \E e \in 1..MaxEvents : Deliver(w, e)

\* A handler runs on unless its worker dies, and Stripe retries what was not answered 2xx.
Fairness ==
    /\ \A w \in Workers : WF_vars(Handle(w))
    /\ \A e \in 1..MaxEvents : SF_vars(\E w \in Workers : Deliver(w, e))

Spec == Init /\ [][Next]_vars /\ Fairness

-----------------------------------------------------------------------------
TypeOK ==
    /\ row \in [Tenants -> [exists : BOOLEAN, customer : Customers \cup {None},
                            subscription : Subscriptions \cup {None},
                            status : Statuses \cup {"absent", "active"}]]
    /\ emitted \in Seq(Event)
    /\ processed \subseteq DOMAIN emitted /\ acknowledged \subseteq processed

\* No delivery, however late or repeated, gives a tenant another tenant's customer,
\* subscription or status.
TenantIsolation ==
    \A t \in Tenants :
        /\ row[t].customer # None => TenantOf[row[t].customer] = t
        /\ row[t].subscription # None => TenantOf[CustomerOf[row[t].subscription]] = t
        /\ row[t].status \notin {"absent", "active"} =>
               \E i \in DOMAIN emitted :
                   /\ emitted[i].status = row[t].status
                   /\ TenantOf[CustomerOf[emitted[i].subscription]] = t

\* Once Stripe was told that a checkout is done, and will not tell of it again, the
\* tenant's row carries a customer and a subscription.
CheckoutLinksTenant ==
    \A e \in acknowledged :
        emitted[e].type = "checkout.session.completed" =>
            LET t == TenantOf[CustomerOf[emitted[e].subscription]]
            IN  row[t].customer # None /\ row[t].subscription # None

\* Every event is acknowledged in the end: no conflict or missing row makes Stripe retry
\* for ever.
EventuallyAcknowledged ==
    \A e \in 1..MaxEvents : e \in DOMAIN emitted ~> e \in acknowledged
=============================================================================
