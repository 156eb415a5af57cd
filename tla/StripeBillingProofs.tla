-------------------------- MODULE StripeBillingProofs --------------------------
(***************************************************************************)
(* Proofs about the Stripe webhook, for any number of workers, tenants,    *)
(* customers, subscriptions, events, crashes, repeated and unordered       *)
(* deliveries.                                                             *)
(*                                                                         *)
(* The argument: what a handler has loaded before its write may be stale,  *)
(* but it belongs to the tenant that the event is about (Held), and an     *)
(* UPDATE of the changed columns puts each column to what is there or to   *)
(* what the event says.  No step takes a link away (Grows); so a link made *)
(* before the mark outlives the mark, the answer and every stale write.    *)
(***************************************************************************)
EXTENDS StripeBilling, SequenceTheorems, TLAPS

Row == [exists : BOOLEAN, customer : Customers \cup {None},
        subscription : Subscriptions \cup {None}, status : Statuses \cup {"absent", "active"}]
Delivery == [pc : {"idle", "load", "create", "write", "mark", "answer"}, event : Nat,
             tenant : Tenants \cup {None}, loaded : Row]

IsCheckout(e) == emitted[e].type = "checkout.session.completed"
Addressee(e) == TenantOf[CustomerOf[emitted[e].subscription]]

Linked(r) == r.customer # None /\ r.subscription # None
Reported(t, status) == \E e \in DOMAIN emitted : emitted[e].status = status /\ Addressee(e) = t

\* What TenantIsolation says of one row, and of the copy of it that a handler holds.
Belongs(r, t) ==
    /\ r.customer # None => TenantOf[r.customer] = t
    /\ r.subscription # None => TenantOf[CustomerOf[r.subscription]] = t
    /\ r.status \notin {"absent", "active"} => Reported(t, r.status)

\* A link that the handler has loaded is in the table still.
LinksRemain(t) ==
    /\ t.loaded.customer # None => row[t.tenant].customer # None
    /\ t.loaded.subscription # None => row[t.tenant].subscription # None

\* What a delivery has established and relies on, by its place in the handler.
Held(t) ==
    /\ t.pc # "idle" => t.event \in DOMAIN emitted
    /\ t.pc \in {"create", "write"} => t.tenant \in Tenants /\ t.tenant = Addressee(t.event)
    /\ t.pc = "create" => IsCheckout(t.event)
    /\ t.pc = "write" =>
           /\ row[t.tenant].exists /\ t.loaded.exists
           /\ Belongs(t.loaded, t.tenant) /\ LinksRemain(t)
    /\ t.pc \in {"mark", "answer"} /\ IsCheckout(t.event) => Linked(row[Addressee(t.event)])
    /\ t.pc = "answer" => t.event \in processed

RowsBelong == \A t \in Tenants : Belongs(row[t], t) /\ (row[t].exists \/ row[t] = NoRow)
MarkedAreLinked == \A e \in processed : IsCheckout(e) => Linked(row[Addressee(e)])
Deliveries == worker \in [Workers -> Delivery] /\ \A w \in Workers : Held(worker[w])

Inv == TypeOK /\ RowsBelong /\ MarkedAreLinked /\ Deliveries

-----------------------------------------------------------------------------
(* What no step takes away. *)

Grows ==
    /\ \A t \in Tenants :
           /\ row[t].exists => row'[t].exists
           /\ row[t].customer # None => row'[t].customer # None
           /\ row[t].subscription # None => row'[t].subscription # None
    /\ \A e \in DOMAIN emitted : e \in DOMAIN emitted' /\ emitted'[e] = emitted[e]
    /\ processed \subseteq processed'

LEMMA EventsHaveAddressees ==
    ASSUME TypeOK, NEW e \in DOMAIN emitted
    PROVE  /\ emitted[e].subscription \in Subscriptions
           /\ CustomerOf[emitted[e].subscription] \in Customers /\ Addressee(e) \in Tenants
           /\ emitted[e].subscription # None /\ CustomerOf[emitted[e].subscription] # None
           /\ IsCheckout(e) \/ emitted[e].status \in Statuses
<1>1. emitted[e] \in Event
  BY DEF TypeOK
<1>2. emitted[e].subscription \in Subscriptions /\ (IsCheckout(e) \/ emitted[e].status \in Statuses)
  BY <1>1 DEF Event, IsCheckout
<1> QED
  BY <1>2, StripeIdsHaveOwners DEF Addressee

LEMMA BelongsStays ==
    ASSUME Grows, NEW r, NEW t, Belongs(r, t)
    PROVE  Belongs(r, t)'
<1>1. \A status : Reported(t, status) => Reported(t, status)'
  BY DEF Grows, Reported, Addressee
<1> QED
  BY <1>1 DEF Belongs

\* Nothing that another worker, Stripe or the subscription page does undoes what a delivery holds.
LEMMA HeldStays ==
    ASSUME TypeOK, Grows, NEW t, Held(t), NEW w \in Workers, worker'[w] = t
    PROVE  Held(worker[w])'
<1>1. t.pc # "idle" => /\ t.event \in DOMAIN emitted /\ t.event \in DOMAIN emitted'
                       /\ emitted'[t.event] = emitted[t.event]
                       /\ Addressee(t.event) \in Tenants
                       /\ emitted'[t.event] = emitted[t.event]
  BY EventsHaveAddressees DEF Held, Grows
<1>2. Belongs(t.loaded, t.tenant) => Belongs(t.loaded, t.tenant)'
  BY BelongsStays
<1>3. t.tenant \in Tenants /\ LinksRemain(t) => LinksRemain(t)'
  BY DEF Grows, LinksRemain
<1>4. \A x \in Tenants : Linked(row[x]) => Linked(row[x])'
  BY DEF Grows, Linked
<1> QED
  BY <1>1, <1>2, <1>3, <1>4 DEF Held, Grows, Addressee, IsCheckout

LEMMA DeliveryMoves ==
    ASSUME Inv, Grows, NEW w \in Workers, NEW t \in Delivery, Step(w, t), Held(worker[w])'
    PROVE  Deliveries'
<1>1. /\ worker' \in [Workers -> Delivery]
      /\ \A other \in Workers \ {w} : worker'[other] = worker[other]
  BY DEF Inv, Deliveries, Step
<1>2. \A other \in Workers \ {w} : Held(worker[other])'
  BY <1>1, HeldStays DEF Inv, Deliveries
<1> QED
  BY <1>1, <1>2 DEF Deliveries

LEMMA DeliveriesStand ==
    ASSUME Inv, Grows, UNCHANGED worker
    PROVE  Deliveries'
  BY HeldStays DEF Inv, Deliveries

LEMMA TablesStand ==
    ASSUME Inv, UNCHANGED <<row, processed, emitted>>,
           acknowledged' \subseteq processed
    PROVE  Grows /\ (TypeOK /\ RowsBelong /\ MarkedAreLinked)'
<1>1. Grows
  BY DEF Grows
<1>2. (TypeOK /\ MarkedAreLinked)'
  BY DEF Inv, TypeOK, MarkedAreLinked, IsCheckout, Linked, Addressee
<1>3. RowsBelong'
  BY DEF Inv, RowsBelong, Belongs, Reported, Addressee
<1> QED
  BY <1>1, <1>2, <1>3

LEMMA RestingDelivery == Resting \in Delivery
  BY DEF Resting, NoRow, Delivery, Row

-----------------------------------------------------------------------------
(* The steps outside the handler. *)

LEMMA Emits ==
    ASSUME Inv, NEW e \in Event, Emit(e)
    PROVE  Inv'
<1>1. /\ emitted \in Seq(Event) /\ emitted' = Append(emitted, e)
      /\ UNCHANGED <<row, processed, acknowledged, worker>>
  BY DEF Emit, Inv, TypeOK
<1>2. /\ emitted' \in Seq(Event)
      /\ \A i \in DOMAIN emitted : i \in DOMAIN emitted' /\ emitted'[i] = emitted[i]
  BY <1>1, AppendProperties
<1>3. Grows
  BY <1>1, <1>2 DEF Grows
<1>4. TypeOK'
  BY <1>1, <1>2 DEF Inv, TypeOK
<1>5. RowsBelong'
  BY <1>1, <1>3, BelongsStays DEF Inv, RowsBelong
<1>6. MarkedAreLinked'
  BY <1>1, <1>2 DEF Inv, TypeOK, MarkedAreLinked, IsCheckout, Linked, Addressee
<1> QED
  BY <1>1, <1>3, <1>4, <1>5, <1>6, DeliveriesStand DEF Inv

\* A row that is replaced by one that keeps its links and belongs to the tenant.
LEMMA RowReplaced ==
    ASSUME Inv, NEW t \in Tenants, NEW r \in Row, row' = [row EXCEPT ![t] = r],
           r.exists, Belongs(r, t),
           row[t].customer # None => r.customer # None,
           row[t].subscription # None => r.subscription # None,
           UNCHANGED <<processed, emitted, acknowledged>>
    PROVE  Grows /\ (TypeOK /\ RowsBelong /\ MarkedAreLinked)'
<1>1. /\ row' \in [Tenants -> Row] /\ row'[t] = r
      /\ \A other \in Tenants \ {t} : row'[other] = row[other]
  BY DEF Inv, TypeOK, Row
<1>2. Grows
  BY <1>1 DEF Grows
<1>3. TypeOK'
  BY <1>1 DEF Inv, TypeOK, Row
<1>4. RowsBelong'
  <2>1. ASSUME NEW x \in Tenants PROVE Belongs(row[x], x)'
    <3>1. PICK q : q = row'[x] /\ Belongs(q, x)
      BY <1>1 DEF Inv, RowsBelong
    <3>2. Belongs(q, x)'
      BY <1>2, <3>1, BelongsStays
    <3> QED
      BY <3>1, <3>2 DEF Belongs
  <2> QED
    BY <1>1, <2>1 DEF Inv, RowsBelong
<1>5. MarkedAreLinked'
  <2>1. \A e \in processed : e \in DOMAIN emitted /\ Addressee(e) \in Tenants
    BY EventsHaveAddressees DEF Inv, TypeOK
  <2> QED
    BY <1>2, <2>1 DEF Inv, MarkedAreLinked, IsCheckout, Linked, Addressee, Grows
<1> QED
  BY <1>2, <1>3, <1>4, <1>5

LEMMA FreeRowCreated ==
    ASSUME Inv, NEW t \in Tenants, ~row[t].exists, row' = [row EXCEPT ![t] = FreeRow],
           UNCHANGED <<processed, emitted, acknowledged>>
    PROVE  /\ Grows /\ (TypeOK /\ RowsBelong /\ MarkedAreLinked)'
           /\ FreeRow \in Row /\ FreeRow.exists /\ Belongs(FreeRow, t)
<1>1. row[t] = NoRow
  BY DEF Inv, RowsBelong
<1>2. /\ FreeRow \in Row /\ FreeRow.exists /\ Belongs(FreeRow, t)
      /\ row[t].customer = None /\ row[t].subscription = None
  <2>1. /\ FreeRow \in Row /\ FreeRow.exists /\ FreeRow.status = "active"
        /\ FreeRow.customer = None /\ FreeRow.subscription = None
    <3>1. NoRow \in Row /\ NoRow.customer = None /\ NoRow.subscription = None
      BY DEF NoRow, Row
    <3> QED
      BY <3>1 DEF FreeRow, Row
  <2>2. row[t].customer = None /\ row[t].subscription = None
    BY <1>1 DEF NoRow
  <2> QED
    BY <2>1, <2>2 DEF Belongs
<1> QED
  BY <1>2, RowReplaced

LEMMA SubscriptionRead ==
    ASSUME Inv, NEW t \in Tenants, GetSubscription(t)
    PROVE  Inv'
<1>1. UNCHANGED worker
  BY DEF GetSubscription
<1>2. Grows /\ (TypeOK /\ RowsBelong /\ MarkedAreLinked)'
  BY FreeRowCreated DEF GetSubscription
<1> QED
  BY <1>1, <1>2, DeliveriesStand DEF Inv

LEMMA WorkerDies ==
    ASSUME Inv, NEW w \in Workers, Crash(w)
    PROVE  Inv'
<1>1. Step(w, Resting) /\ UNCHANGED <<row, processed, emitted, acknowledged>>
  BY DEF Crash
<1>2. Grows /\ (TypeOK /\ RowsBelong /\ MarkedAreLinked)'
  BY <1>1, TablesStand DEF Inv, TypeOK
<1>3. worker'[w] = Resting
  BY <1>1 DEF Inv, Deliveries, Step
<1>4. Held(worker[w])'
  BY <1>3 DEF Held, Resting
<1> QED
  BY <1>1, <1>2, <1>4, RestingDelivery, DeliveryMoves DEF Inv

-----------------------------------------------------------------------------
(* The steps of the handler. *)

\* What every step of a delivery may use.
LEMMA AtWork ==
    ASSUME Inv, NEW w \in Workers, ~At(w, "idle")
    PROVE  LET t == worker[w] IN
           /\ t \in Delivery /\ Held(t) /\ t.event \in DOMAIN emitted
           /\ Addressee(t.event) \in Tenants
  BY EventsHaveAddressees DEF Inv, Deliveries, At, Held

\* A step of a delivery that leaves the tables alone.
LEMMA LooksUp ==
    ASSUME Inv, NEW w \in Workers, NEW t \in Delivery, Step(w, t), Held(t),
           UNCHANGED <<row, processed, emitted>>, acknowledged' \subseteq processed
    PROVE  Inv'
<1>1. Grows /\ (TypeOK /\ RowsBelong /\ MarkedAreLinked)'
  BY TablesStand
<1>2. worker'[w] = t
  BY DEF Inv, Deliveries, Step
<1>3. Held(worker[w])'
  BY <1>1, <1>2, HeldStays DEF Inv
<1> QED
  BY <1>1, <1>3, DeliveryMoves DEF Inv

LEMMA Delivers ==
    ASSUME Inv, NEW w \in Workers, NEW e, Deliver(w, e)
    PROVE  Inv'
<1>1. CASE e \in processed
  <2>1. /\ UNCHANGED <<row, processed, emitted, worker>> /\ acknowledged' \subseteq processed
    BY <1>1 DEF Deliver, RepeatAnswered, Inv, TypeOK
  <2> QED
    BY <2>1, TablesStand, DeliveriesStand DEF Inv
<1>2. CASE e \notin processed
  <2> DEFINE t == [Resting EXCEPT !.pc = "load", !.event = e]
  <2>1. e \in Nat /\ e \in DOMAIN emitted
    BY DEF Deliver, Inv, TypeOK
  <2>2. t \in Delivery /\ t.pc = "load" /\ t.event = e
    BY <2>1, RestingDelivery DEF Delivery
  <2>3. Step(w, t) /\ UNCHANGED <<row, processed, emitted, acknowledged>>
    BY <1>2 DEF Deliver
  <2> HIDE DEF t
  <2>4. Held(t)
    BY <2>1, <2>2 DEF Held
  <2> QED
    BY <2>2, <2>3, <2>4, LooksUp DEF Inv, TypeOK
<1> QED
  BY <1>1, <1>2

\* The row found for an update is the addressee's: by its subscription or its customer.
LEMMA FoundRowIsAddressees ==
    ASSUME Inv, NEW e \in DOMAIN emitted, NEW x \in Matching(emitted[e].subscription)
    PROVE  x \in Tenants /\ row[x].exists /\ x = Addressee(e)
<1>1. /\ x \in Tenants /\ row[x].exists
      /\ \/ row[x].subscription = emitted[e].subscription
         \/ row[x].customer = CustomerOf[emitted[e].subscription]
  BY DEF Matching, Rows
<1>2. Belongs(row[x], x)
  BY <1>1 DEF Inv, RowsBelong
<1> QED
  BY <1>1, <1>2, EventsHaveAddressees DEF Belongs, Addressee, Inv

LEMMA Loads ==
    ASSUME Inv, NEW w \in Workers, Load(w)
    PROVE  Inv'
<1> DEFINE t == worker[w]
           found(x) == [t EXCEPT !.pc = "write", !.tenant = x, !.loaded = row[x]]
<1>1. /\ t \in Delivery /\ t.pc = "load" /\ t.event \in DOMAIN emitted
      /\ Addressee(t.event) \in Tenants
  BY AtWork DEF Load, At
<1>2. UNCHANGED <<row, processed, emitted, acknowledged>>
  BY DEF Load
<1>3. ASSUME NEW x \in Tenants, row[x].exists, x = Addressee(t.event), Step(w, found(x))
      PROVE  Inv'
  <2>1. row[x] \in Row /\ Belongs(row[x], x)
    BY DEF Inv, TypeOK, Row, RowsBelong
  <2> DEFINE f == found(x)
  <2>2. /\ f \in Delivery /\ f.pc = "write" /\ f.event = t.event
        /\ f.tenant = x /\ f.loaded = row[x]
    BY <1>1, <1>3, <2>1 DEF Delivery
  <2> HIDE DEF f, found
  <2>3. Held(f)
    BY <1>1, <1>3, <2>1, <2>2 DEF Held, LinksRemain
  <2>4. Step(w, f)
    BY <1>3 DEF f
  <2> QED
    BY <1>2, <2>2, <2>3, <2>4, LooksUp DEF Inv, TypeOK
<1>4. CASE IsCheckout(t.event) /\ row[Addressee(t.event)].exists
  BY <1>1, <1>3, <1>4 DEF Load, IsCheckout, Addressee
<1>5. CASE IsCheckout(t.event) /\ ~row[Addressee(t.event)].exists
  <2> DEFINE c == [t EXCEPT !.pc = "create", !.tenant = Addressee(t.event)]
  <2>1. Step(w, c)
    BY <1>5 DEF Load, IsCheckout, Addressee
  <2>2. /\ c \in Delivery /\ c.pc = "create" /\ c.event = t.event
        /\ c.tenant = Addressee(t.event)
    BY <1>1 DEF Delivery
  <2> HIDE DEF c
  <2>3. Held(c)
    BY <1>1, <1>5, <2>2 DEF Held
  <2> QED
    BY <1>2, <2>1, <2>2, <2>3, LooksUp DEF Inv, TypeOK
<1>6. CASE ~IsCheckout(t.event)
  <2>1. CASE \E x \in Matching(emitted[t.event].subscription) : Step(w, found(x))
    BY <1>1, <1>3, <2>1, FoundRowIsAddressees
  <2>2. CASE Step(w, [t EXCEPT !.pc = "mark"])
    <3>1. PICK m \in Delivery : Step(w, m) /\ m.pc = "mark" /\ m.event = t.event
      BY <1>1, <2>2 DEF Delivery
    <3>2. Held(m)
      BY <1>1, <1>6, <3>1 DEF Held
    <3> QED
      BY <1>2, <3>1, <3>2, LooksUp DEF Inv, TypeOK
  <2> QED
    BY <1>6, <2>1, <2>2 DEF Load, IsCheckout
<1> QED
  BY <1>4, <1>5, <1>6

LEMMA Creates ==
    ASSUME Inv, NEW w \in Workers, Create(w)
    PROVE  Inv'
<1> DEFINE t == worker[w]
<1>1. /\ t \in Delivery /\ t.pc = "create" /\ t.event \in DOMAIN emitted
      /\ t.tenant \in Tenants /\ t.tenant = Addressee(t.event)
  BY AtWork DEF Create, At, Held
<1>2. UNCHANGED <<processed, emitted, acknowledged>>
  BY DEF Create
<1>3. CASE row[t.tenant].exists
  <2>1. Step(w, Resting) /\ UNCHANGED row
    BY <1>3 DEF Create, LostRace
  <2>2. Held(Resting)
    BY DEF Held, Resting
  <2> QED
    BY <1>2, <2>1, <2>2, RestingDelivery, LooksUp DEF Inv, TypeOK
<1>4. CASE ~row[t.tenant].exists
  <2>1. PICK f : /\ f = [t EXCEPT !.pc = "write", !.loaded = FreeRow] /\ Step(w, f)
                 /\ row' = [row EXCEPT ![t.tenant] = FreeRow]
    BY <1>4 DEF Create
  <2>2. /\ Grows /\ (TypeOK /\ RowsBelong /\ MarkedAreLinked)'
        /\ FreeRow \in Row /\ FreeRow.exists /\ Belongs(FreeRow, t.tenant)
    BY <1>1, <1>2, <1>4, <2>1, FreeRowCreated
  <2>3. /\ f \in Delivery /\ f.pc = "write" /\ f.event = t.event
        /\ f.tenant = t.tenant /\ f.loaded = FreeRow
    BY <1>1, <2>1, <2>2 DEF Delivery
  <2> HIDE DEF t
  <2>4. Belongs(FreeRow, f.tenant)'
    BY <2>2, <2>3, BelongsStays
  <2>5. worker'[w] = f /\ row'[f.tenant] = FreeRow /\ Addressee(f.event)' = Addressee(f.event)
    BY <1>1, <1>2, <2>1, <2>3 DEF Inv, Deliveries, Step, TypeOK, Addressee
  <2>6. Held(worker[w])'
    BY <1>1, <1>2, <2>2, <2>3, <2>4, <2>5 DEF Held, LinksRemain
  <2> QED
    BY <2>1, <2>2, <2>3, <2>6, DeliveryMoves DEF Inv
<1> QED
  BY <1>3, <1>4

LEMMA AssignedBelongs ==
    ASSUME Inv, NEW e \in DOMAIN emitted, NEW loaded \in Row, Belongs(loaded, Addressee(e))
    PROVE  LET assigned == Assigned(loaded, emitted[e]) IN
           /\ assigned \in Row /\ Belongs(assigned, Addressee(e))
           /\ assigned.exists = loaded.exists /\ assigned.subscription # None
           /\ loaded.customer # None \/ IsCheckout(e) => assigned.customer # None
<1> DEFINE assigned == Assigned(loaded, emitted[e])
           x == emitted[e].subscription
<1>1. /\ x \in Subscriptions /\ CustomerOf[x] \in Customers /\ TenantOf[CustomerOf[x]] = Addressee(e)
      /\ x # None /\ CustomerOf[x] # None
  BY EventsHaveAddressees DEF Inv, Addressee
<1>2. CASE IsCheckout(e)
  <2>1. assigned = [loaded EXCEPT !.customer = CustomerOf[x], !.subscription = x]
    BY <1>2 DEF Assigned, IsCheckout
  <2> HIDE DEF assigned, x
  <2>2. /\ assigned \in Row /\ assigned.customer = CustomerOf[x] /\ assigned.subscription = x
        /\ assigned.status = loaded.status /\ assigned.exists = loaded.exists
    BY <1>1, <2>1 DEF Row
  <2> QED
    BY <1>1, <2>2 DEF Belongs, assigned
<1>3. CASE ~IsCheckout(e)
  <2>1. assigned = [loaded EXCEPT !.status = emitted[e].status, !.subscription = x]
    BY <1>3 DEF Assigned, IsCheckout
  <2>2. emitted[e].status \in Statuses
    BY <1>3, EventsHaveAddressees DEF Inv
  <2> HIDE DEF assigned, x
  <2>3. /\ assigned \in Row /\ assigned.customer = loaded.customer /\ assigned.subscription = x
        /\ assigned.status = emitted[e].status /\ assigned.exists = loaded.exists
    BY <1>1, <2>1, <2>2 DEF Row
  <2>4. Reported(Addressee(e), assigned.status)
    BY <2>3 DEF Reported
  <2> QED
    BY <1>1, <1>3, <2>3, <2>4 DEF Belongs, assigned
<1> QED
  BY <1>2, <1>3

\* A write from a stale copy puts each column to what is there or to what was assigned.
LEMMA MergedBelongs ==
    ASSUME NEW current \in Row, NEW loaded \in Row, NEW assigned \in Row, NEW t,
           current.exists, assigned.exists, Belongs(current, t), Belongs(assigned, t),
           loaded.customer # None => current.customer # None /\ assigned.customer # None,
           loaded.subscription # None => current.subscription # None,
           assigned.subscription # None
    PROVE  LET new == Merge(current, loaded, assigned) IN
           /\ new \in Row /\ new.exists /\ Belongs(new, t)
           /\ new.subscription # None
           /\ current.customer # None \/ assigned.customer # None => new.customer # None
<1> DEFINE Columns == {"exists", "customer", "subscription", "status"}
           new == Merge(current, loaded, assigned)
<1>1. DOMAIN current = Columns
  BY DEF Row
<1>2. /\ new = [c \in Columns |-> new[c]]
      /\ \A c \in Columns : new[c] = IF assigned[c] = loaded[c] THEN current[c] ELSE assigned[c]
  BY <1>1 DEF Merge
<1> HIDE DEF new
<1>3. /\ new.exists = TRUE /\ current.exists = TRUE
      /\ new.customer = IF assigned.customer = loaded.customer THEN current.customer
                        ELSE assigned.customer
      /\ new.subscription = IF assigned.subscription = loaded.subscription
                            THEN current.subscription ELSE assigned.subscription
      /\ new.status = IF assigned.status = loaded.status THEN current.status ELSE assigned.status
  BY <1>2 DEF Row
<1>4. new = [exists |-> new.exists, customer |-> new.customer, subscription |-> new.subscription,
             status |-> new.status]
  BY <1>2
<1>5. new \in Row
  BY <1>3, <1>4 DEF Row
<1>6. Belongs(new, t)
  BY <1>3 DEF Belongs
<1> QED
  BY <1>3, <1>5, <1>6 DEF new

LEMMA Writes ==
    ASSUME Inv, NEW w \in Workers, Write(w)
    PROVE  Inv'
<1>1. PICK t : t = worker[w]
  OBVIOUS
<1>2. /\ t \in Delivery /\ t.pc = "write" /\ t.event \in DOMAIN emitted
      /\ t.tenant \in Tenants /\ t.tenant = Addressee(t.event)
      /\ row[t.tenant].exists /\ t.loaded.exists
      /\ Belongs(t.loaded, t.tenant) /\ LinksRemain(t)
  BY <1>1, AtWork DEF Write, At, Held
<1>3. t.loaded \in Row /\ row[t.tenant] \in Row /\ Belongs(row[t.tenant], t.tenant)
  BY <1>2 DEF Delivery, Inv, TypeOK, Row, RowsBelong
<1>4. PICK m : m = [t EXCEPT !.pc = "mark"] /\ Step(w, m)
  BY <1>1 DEF Write
<1>5. m \in Delivery /\ m.pc = "mark" /\ m.event = t.event
  BY <1>2, <1>4 DEF Delivery
<1>6. PICK assigned \in Row :
          /\ assigned = Assigned(t.loaded, emitted[t.event])
          /\ Belongs(assigned, t.tenant) /\ assigned.exists /\ assigned.subscription # None
          /\ t.loaded.customer # None \/ IsCheckout(t.event) => assigned.customer # None
  BY <1>2, <1>3, AssignedBelongs
<1>7. PICK new \in Row :
          /\ new = Merge(row[t.tenant], t.loaded, assigned)
          /\ new.exists /\ Belongs(new, t.tenant) /\ new.subscription # None
          /\ row[t.tenant].customer # None \/ assigned.customer # None => new.customer # None
  BY <1>2, <1>3, <1>6, MergedBelongs DEF LinksRemain
<1>8. row' = [row EXCEPT ![t.tenant] = new] /\ UNCHANGED <<processed, emitted, acknowledged>>
  BY <1>1, <1>6, <1>7 DEF Write
<1>9. Grows /\ (TypeOK /\ RowsBelong /\ MarkedAreLinked)'
  BY <1>2, <1>7, <1>8, RowReplaced
<1>10. Held(worker[w])'
  <2>1. worker'[w] = m /\ row'[t.tenant] = new /\ emitted' = emitted
    BY <1>2, <1>4, <1>8 DEF Inv, Deliveries, Step, TypeOK
  <2>2. IsCheckout(m.event) => Linked(new)
    BY <1>5, <1>6, <1>7 DEF Linked
  <2> QED
    BY <1>2, <1>5, <2>1, <2>2 DEF Held, IsCheckout, Addressee, Linked
<1> QED
  BY <1>4, <1>5, <1>9, <1>10, DeliveryMoves DEF Inv

LEMMA Marks ==
    ASSUME Inv, NEW w \in Workers, Mark(w)
    PROVE  Inv'
<1>1. PICK t : t = worker[w]
  OBVIOUS
<1>2. /\ t \in Delivery /\ t.event \in DOMAIN emitted /\ Addressee(t.event) \in Tenants
      /\ IsCheckout(t.event) => Linked(row[Addressee(t.event)])
  BY <1>1, AtWork DEF Mark, At, Held
<1>3. /\ processed' = processed \cup {t.event} /\ UNCHANGED <<row, emitted, acknowledged>>
  BY <1>1 DEF Mark
<1>4. PICK a \in Delivery :
          Step(w, a) /\ (a = Resting \/ (a.pc = "answer" /\ a.event = t.event))
  <2> DEFINE next == [t EXCEPT !.pc = "answer"]
  <2>1. next \in Delivery /\ next.pc = "answer" /\ next.event = t.event
    BY <1>2 DEF Delivery
  <2>2. Step(w, Resting) \/ Step(w, next)
    BY <1>1 DEF Mark
  <2> HIDE DEF next
  <2> QED
    BY <2>1, <2>2, RestingDelivery
<1>5. Grows
  BY <1>3 DEF Grows
<1>6. TypeOK'
  BY <1>2, <1>3 DEF Inv, TypeOK
<1>7. RowsBelong'
  BY <1>3 DEF Inv, RowsBelong, Belongs, Reported, Addressee
<1>8. MarkedAreLinked'
  BY <1>2, <1>3 DEF Inv, MarkedAreLinked, IsCheckout, Linked, Addressee
<1>9. Held(worker[w])'
  <2>1. worker'[w] = a
    BY <1>4 DEF Inv, Deliveries, Step
  <2> QED
    BY <1>2, <1>3, <1>4, <2>1 DEF Held, Resting, IsCheckout, Addressee, Linked
<1> QED
  BY <1>4, <1>5, <1>6, <1>7, <1>8, <1>9, DeliveryMoves DEF Inv

LEMMA Answers ==
    ASSUME Inv, NEW w \in Workers, Answer(w)
    PROVE  Inv'
<1>1. worker[w].event \in processed
  BY AtWork DEF Answer, At, Held
<1>2. Step(w, Resting) /\ UNCHANGED <<row, processed, emitted>> /\ acknowledged' \subseteq processed
  BY <1>1 DEF Answer, Inv, TypeOK
<1>3. Held(Resting)
  BY DEF Held, Resting
<1> QED
  BY <1>2, <1>3, RestingDelivery, LooksUp

-----------------------------------------------------------------------------
(* The theorems. *)

LEMMA InitEstablishes ==
    ASSUME Init
    PROVE  Inv
<1>1. TypeOK
  BY DEF Init, TypeOK, NoRow
<1>2. RowsBelong
  BY DEF Init, RowsBelong, Belongs, NoRow
<1>3. MarkedAreLinked
  BY DEF Init, MarkedAreLinked
<1>4. Deliveries
  <2>1. worker \in [Workers -> Delivery]
    BY RestingDelivery DEF Init
  <2> QED
    BY <2>1 DEF Init, Deliveries, Held, Resting
<1> QED
  BY <1>1, <1>2, <1>3, <1>4 DEF Inv

LEMMA StepPreserves ==
    ASSUME Inv, [Next]_vars
    PROVE  Inv'
<1>1. CASE UNCHANGED vars
  <2>1. UNCHANGED <<row, processed, emitted, worker>> /\ acknowledged' \subseteq processed
    BY <1>1 DEF vars, Inv, TypeOK
  <2> QED
    BY <2>1, TablesStand, DeliveriesStand DEF Inv
<1>2. ASSUME NEW x \in Subscriptions, CompleteCheckout(x)
      PROVE  Inv'
  BY <1>2, Emits DEF CompleteCheckout, Event
<1>3. ASSUME NEW x \in Subscriptions, NEW status \in Statuses, ChangeSubscription(x, status)
      PROVE  Inv'
  BY <1>3, Emits DEF ChangeSubscription, Event
<1>4. ASSUME NEW t \in Tenants, GetSubscription(t)
      PROVE  Inv'
  BY <1>4, SubscriptionRead
<1>5. ASSUME NEW w \in Workers, Handle(w) \/ Crash(w) \/ \E e \in 1..MaxEvents : Deliver(w, e)
      PROVE  Inv'
  BY <1>5, Loads, Creates, Writes, Marks, Answers, WorkerDies, Delivers DEF Handle
<1> QED
  BY <1>1, <1>2, <1>3, <1>4, <1>5 DEF Next

LEMMA Invariance == Spec => []Inv
  BY InitEstablishes, StepPreserves, PTL DEF Spec

\* Rows keep to their columns, only events that Stripe emitted are marked, and only marked
\* ones are acknowledged.
THEOREM Typed == Spec => []TypeOK
  BY Invariance, PTL DEF Inv

\* However deliveries are repeated, delayed, reordered or broken off, a tenant's row shows the
\* customer, the subscription and the status of that tenant.
THEOREM TenantsStayApart == Spec => []TenantIsolation
<1>1. Inv => TenantIsolation
  BY DEF Inv, RowsBelong, Belongs, Reported, Addressee, TenantIsolation
<1> QED
  BY <1>1, Invariance, PTL

\* The link of an acknowledged checkout is there, and no handler that loaded the row before it
\* was made overwrites it with nothing.
THEOREM CheckoutsStayLinked == Spec => []CheckoutLinksTenant
<1>1. Inv => CheckoutLinksTenant
  BY DEF Inv, TypeOK, MarkedAreLinked, IsCheckout, Linked, Addressee, CheckoutLinksTenant
<1> QED
  BY <1>1, Invariance, PTL
=============================================================================
