---------------------------- MODULE BillingProofs ----------------------------
(***************************************************************************)
(* Theorems about Billing, for any number of requests, customers, sessions *)
(* and events.                                                             *)
(*                                                                         *)
(* A webhook request that runs alone finds the row as it loaded it, in all *)
(* columns but the customer; a checkout that runs alone finds the customer *)
(* as it loaded it.  The customer of the row is that of every session.     *)
(***************************************************************************)
EXTENDS Billing, SequenceTheorems, TLAPS

\* A request waits for an event of the log.
EventsExist == \A r \in Webhooks : req[r].event \in 1..Len(log)

\* A session is created for a customer.
SessionsHaveCustomer == \A r \in Requests : req[r].pc = "session" => req[r].customer # None

\* Somebody paid, if anything is in the log or in a row.
Paid == \E i \in 1..Len(log) : log[i].type = "completed"
NothingUnpaid ==
    /\ org.plan = "pro" => Paid
    /\ log # <<>> => Paid
    /\ \A s \in DOMAIN subs : subs[s].status # "open" => Paid

\* One at a time, a webhook request has the row's plan, status and subscription.
WebhookAlone ==
    regime # "parallel" =>
        /\ \A r, q \in Webhooks : r = q
        /\ \A r \in Webhooks : /\ req[r].loaded.plan = org.plan
                               /\ req[r].loaded.status = org.status
                               /\ req[r].loaded.sub = org.sub

\* One at a time, a checkout has the row's customer, and a session's is the same
\* or the first.
CheckoutAlone ==
    regime # "parallel" =>
        /\ \A r, q \in Checkouts : r = q
        /\ \A r \in Checkouts :
              /\ req[r].loaded.customer = org.customer
              /\ req[r].pc = "customer" => org.customer = None
              /\ req[r].pc = "session" /\ org.customer # None => req[r].customer = org.customer
        /\ \A i \in DOMAIN log : log[i].customer = org.customer

Invariant ==
    /\ TypeOK /\ EventsExist /\ SessionsHaveCustomer /\ NothingUnpaid
    /\ WebhookAlone /\ CheckoutAlone
    /\ PlanMatchesStatus /\ PortalReaches
-----------------------------------------------------------------------------
LEMMA WrittenRow ==
    ASSUME org \in Row, NEW loaded \in Row, NEW new \in Row
    PROVE  /\ Written(loaded, new) \in Row
           /\ Written(loaded, new).plan
                = IF new.plan # loaded.plan THEN new.plan ELSE org.plan
           /\ Written(loaded, new).status
                = IF new.status # loaded.status THEN new.status ELSE org.status
           /\ Written(loaded, new).sub
                = IF new.sub # loaded.sub THEN new.sub ELSE org.sub
           /\ Written(loaded, new).customer
                = IF new.customer # loaded.customer THEN new.customer ELSE org.customer
<1>1. DOMAIN org = {"plan", "customer", "sub", "status"}
  BY DEF Row
<1>2. Written(loaded, new) =
         [plan |-> IF new.plan # loaded.plan THEN new.plan ELSE org.plan,
          customer |-> IF new.customer # loaded.customer THEN new.customer ELSE org.customer,
          sub |-> IF new.sub # loaded.sub THEN new.sub ELSE org.sub,
          status |-> IF new.status # loaded.status THEN new.status ELSE org.status]
  BY <1>1 DEF Written
<1> QED
  BY <1>2 DEF Row

LEMMA RequestTypes ==
    ASSUME TypeOK, NEW r \in Requests
    PROVE  /\ req[r].pc \in {"idle", "customer", "session", "event"}
           /\ r \in Checkouts => /\ req[r] \in Checkout /\ req[r].loaded \in Row
                                 /\ req[r].customer \in Nat
           /\ r \in Webhooks => /\ req[r] \in Webhook /\ req[r].loaded \in Row
                                /\ req[r].event \in Nat
<1>1. req[r] \in {Idle} \cup Checkout \cup Webhook
  BY DEF TypeOK
<1>2. CASE req[r] = Idle
  BY <1>2 DEF Idle, Checkouts, Webhooks
<1>3. CASE req[r] \in Checkout
  BY <1>3 DEF Checkout, Checkouts, Webhooks
<1>4. CASE req[r] \in Webhook
  BY <1>4 DEF Webhook, Checkouts, Webhooks
<1> QED
  BY <1>1, <1>2, <1>3, <1>4

LEMMA StripeTypes ==
    ASSUME TypeOK
    PROVE  /\ \A i \in DOMAIN subs : /\ subs[i] \in Sub
                                     /\ subs[i].customer \in Ids /\ subs[i].customer # None
           /\ \A i \in DOMAIN log : /\ log[i] \in Event
                                    /\ log[i].customer \in Ids /\ log[i].customer # None
           /\ Len(subs) \in Nat /\ DOMAIN subs = 1..Len(subs)
           /\ Len(log) \in Nat /\ DOMAIN log = 1..Len(log)
<1>1. subs \in Seq(Sub) /\ log \in Seq(Event)
  BY DEF TypeOK
<1>2. \A i \in DOMAIN subs : subs[i] \in Sub
  BY <1>1
<1>3. \A i \in DOMAIN log : log[i] \in Event
  BY <1>1
<1>4. \A x \in Sub : x.customer \in Ids
  BY DEF Sub
<1>5. \A e \in Event : e.customer \in Ids
  BY DEF Event
<1>6. \A n \in Ids : n # None
  BY DEF Ids
<1> QED
  BY <1>1, <1>2, <1>3, <1>4, <1>5, <1>6

LEMMA RequestMoves ==
    ASSUME TypeOK, NEW r \in Requests, NEW q \in {Idle} \cup Checkout \cup Webhook,
           req' = [req EXCEPT ![r] = q]
    PROVE  /\ req' \in [Requests -> {Idle} \cup Checkout \cup Webhook]
           /\ req'[r] = q
           /\ \A o \in Requests : o # r => req'[o] = req[o]
           /\ Checkouts' = (Checkouts \ {r})
                \cup (IF q.pc \in {"customer", "session"} THEN {r} ELSE {})
           /\ Webhooks' = (Webhooks \ {r}) \cup (IF q.pc = "event" THEN {r} ELSE {})
<1> DEFINE S == {Idle} \cup Checkout \cup Webhook
<1>1. req \in [Requests -> S] /\ q \in S
  BY DEF TypeOK
<1> HIDE DEF S
<1>2. /\ req' \in [Requests -> S] /\ req'[r] = q
      /\ \A o \in Requests : o # r => req'[o] = req[o]
  BY <1>1
<1>3. Checkouts' = (Checkouts \ {r})
         \cup (IF q.pc \in {"customer", "session"} THEN {r} ELSE {})
  BY <1>2 DEF Checkouts
<1>4. Webhooks' = (Webhooks \ {r}) \cup (IF q.pc = "event" THEN {r} ELSE {})
  BY <1>2 DEF Webhooks
<1> QED
  BY <1>2, <1>3, <1>4 DEF S

LEMMA RequestEnds ==
    ASSUME TypeOK, NEW r \in Requests, req' = [req EXCEPT ![r] = Idle]
    PROVE  /\ req' \in [Requests -> {Idle} \cup Checkout \cup Webhook]
           /\ req'[r].pc = "idle"
           /\ \A o \in Requests : o # r => req'[o] = req[o]
           /\ Checkouts' = Checkouts \ {r} /\ Webhooks' = Webhooks \ {r}
<1>1. Idle.pc = "idle"
  BY DEF Idle
<1> QED
  BY <1>1, RequestMoves

\* The invariant holds of an organization that never asked for billing.
THEOREM Initial == Init => Invariant
<1> SUFFICES ASSUME Init PROVE Invariant
  OBVIOUS
<1>1. NewRow \in Row /\ NewRow.plan = "free" /\ NewRow.status = "null"
  BY DEF NewRow, Row, None
<1>2. Webhooks = {} /\ Checkouts = {} /\ \A r \in Requests : req[r].pc = "idle"
  BY DEF Init, Webhooks, Checkouts, Idle
<1>3. TypeOK
  <2>1. customers \in 0..MaxCustomers
    <3>1. MaxCustomers \in Nat /\ customers = 0
      BY BillingAssumption DEF Init
    <3> QED
      BY <3>1
  <2>2. subs \in Seq(Sub) /\ log \in Seq(Event) /\ acked \subseteq 1..Len(log)
    BY DEF Init
  <2>3. req \in [Requests -> {Idle} \cup Checkout \cup Webhook]
    BY DEF Init
  <2> QED
    BY <1>1, <2>1, <2>2, <2>3 DEF Init, TypeOK
<1>4. DOMAIN subs = {} /\ DOMAIN log = {} /\ log = <<>> /\ org = NewRow
  BY DEF Init
<1>5. PlanMatchesStatus /\ PortalReaches
  BY <1>1, <1>4 DEF PlanMatchesStatus, PortalReaches, ACTIVE_STATUSES
<1>6. EventsExist /\ SessionsHaveCustomer /\ NothingUnpaid
  BY <1>1, <1>2, <1>4 DEF EventsExist, SessionsHaveCustomer, NothingUnpaid
<1>7. WebhookAlone /\ CheckoutAlone
  BY <1>2, <1>4 DEF WebhookAlone, CheckoutAlone
<1> QED
  BY <1>3, <1>5, <1>6, <1>7 DEF Invariant
-----------------------------------------------------------------------------
(* Checkouts                                                                *)

LEMMA BeginKeeps ==
    ASSUME Invariant, NEW r \in Requests, BeginCheckout(r)
    PROVE  Invariant'
<1> DEFINE q == [pc |-> IF NeedsCustomer(org) THEN "customer" ELSE "session",
                 loaded |-> org, customer |-> org.customer]
<1>1. /\ org' = org /\ subs' = subs /\ log' = log /\ acked' = acked /\ regime' = regime
      /\ customers' = customers /\ req' = [req EXCEPT ![r] = q]
      /\ req[r] = Idle /\ Alone(Checkouts)
  BY DEF BeginCheckout, stripe
<1>2. org \in Row /\ org.customer \in Nat
  BY DEF Invariant, TypeOK, Row
<1>3. q \in Checkout
  BY <1>2 DEF Checkout
<1>4. /\ q.pc = (IF org.customer = None THEN "customer" ELSE "session")
      /\ q.loaded = org /\ q.customer = org.customer
  BY DEF NeedsCustomer
<1> HIDE DEF q
<1>5. /\ req' \in [Requests -> {Idle} \cup Checkout \cup Webhook]
      /\ req'[r] = q
      /\ \A o \in Requests : o # r => req'[o] = req[o]
      /\ Checkouts' = Checkouts \cup {r} /\ Webhooks' = Webhooks \ {r}
  <2>1. q.pc \in {"customer", "session"} /\ q.pc # "event" /\ r \notin Checkouts
    BY <1>1, <1>4 DEF Checkouts, Idle
  <2> QED
    BY <1>1, <1>3, <2>1, RequestMoves DEF Invariant
<1>6. TypeOK'
  BY <1>1, <1>5 DEF Invariant, TypeOK
<1>7. EventsExist' /\ SessionsHaveCustomer' /\ NothingUnpaid'
  BY <1>1, <1>4, <1>5 DEF Invariant, EventsExist, SessionsHaveCustomer, NothingUnpaid, Paid,
     Webhooks
<1>8. WebhookAlone'
  BY <1>1, <1>5 DEF Invariant, WebhookAlone, Webhooks
<1>9. CheckoutAlone'
  <2> SUFFICES ASSUME regime # "parallel" PROVE CheckoutAlone'
    BY <1>1 DEF CheckoutAlone
  <2>1. Checkouts' = {r}
    BY <1>1, <1>5 DEF Alone
  <2> QED
    BY <1>1, <1>4, <1>5, <2>1 DEF Invariant, CheckoutAlone
<1> QED
  BY <1>1, <1>6, <1>7, <1>8, <1>9 DEF Invariant, PlanMatchesStatus, PortalReaches, InPortal

LEMMA CustomerRequest ==
    ASSUME NEW q \in Checkout, NEW n \in Nat
    PROVE  LET s == [q EXCEPT !.pc = "session", !.customer = n]
           IN  /\ s \in Checkout /\ s.pc = "session" /\ s.customer = n
               /\ s.loaded = q.loaded
  BY DEF Checkout

LEMMA CustomerKeeps ==
    ASSUME Invariant, NEW r \in Requests, CreateCustomer(r)
    PROVE  Invariant'
<1> DEFINE q == [req[r] EXCEPT !.pc = "session", !.customer = customers + 1]
<1>1. /\ org' = org /\ subs' = subs /\ log' = log /\ acked' = acked /\ regime' = regime
      /\ customers' = customers + 1 /\ customers < MaxCustomers /\ req[r].pc = "customer"
      /\ req' = [req EXCEPT ![r].pc = "session", ![r].customer = customers + 1]
  BY DEF CreateCustomer
<1>2. MaxCustomers \in Nat /\ customers \in 0..MaxCustomers
  BY BillingAssumption DEF Invariant, TypeOK
<1>3. customers' \in 0..MaxCustomers /\ customers + 1 \in Nat /\ customers + 1 # None
  BY <1>1, <1>2 DEF None
<1>4. r \in Checkouts /\ req[r] \in Checkout
  BY <1>1, RequestTypes DEF Invariant, Checkouts
<1>5. q \in Checkout /\ q.pc = "session" /\ q.customer = customers + 1 /\ q.loaded = req[r].loaded
  BY <1>3, <1>4, CustomerRequest
<1>6. req' = [req EXCEPT ![r] = q]
  BY <1>1, Zenon DEF Invariant, TypeOK
<1> HIDE DEF q
<1>7. /\ req' \in [Requests -> {Idle} \cup Checkout \cup Webhook]
      /\ req'[r] = q
      /\ \A o \in Requests : o # r => req'[o] = req[o]
      /\ Checkouts' = Checkouts /\ Webhooks' = Webhooks
  <2>1. r \notin Webhooks
    BY <1>1 DEF Webhooks
  <2> QED
    <3>1. q \in {Idle} \cup Checkout \cup Webhook
      BY <1>5
    <3>2. TypeOK
      BY DEF Invariant
    <3>3. /\ Checkouts' = (Checkouts \ {r}) \cup {r} /\ Webhooks' = Webhooks \ {r}
          /\ req' \in [Requests -> {Idle} \cup Checkout \cup Webhook]
          /\ req'[r] = q
          /\ \A o \in Requests : o # r => req'[o] = req[o]
      BY <1>5, <1>6, <3>1, <3>2, RequestMoves
    <3> QED
      BY <1>4, <2>1, <3>3
<1>8. TypeOK'
  BY <1>1, <1>3, <1>7 DEF Invariant, TypeOK
<1>9. EventsExist' /\ SessionsHaveCustomer' /\ NothingUnpaid'
  BY <1>1, <1>3, <1>5, <1>7
     DEF Invariant, EventsExist, SessionsHaveCustomer, NothingUnpaid, Paid, Webhooks
<1>10. WebhookAlone'
  BY <1>1, <1>7 DEF Invariant, WebhookAlone, Webhooks
<1>11. CheckoutAlone'
  BY <1>1, <1>4, <1>5, <1>7 DEF Invariant, CheckoutAlone, Checkouts
<1> QED
  BY <1>1, <1>8, <1>9, <1>10, <1>11 DEF Invariant, PlanMatchesStatus, PortalReaches, InPortal

\* A request gives up.
LEMMA FailureKeeps ==
    ASSUME Invariant, NEW r \in Requests, CheckoutFails(r) \/ ReceiveFails(r)
    PROVE  Invariant'
<1>1. /\ org' = org /\ subs' = subs /\ log' = log /\ acked' = acked /\ regime' = regime
      /\ customers' = customers /\ req' = [req EXCEPT ![r] = Idle]
  BY DEF CheckoutFails, ReceiveFails, stripe
<1>2. /\ req' \in [Requests -> {Idle} \cup Checkout \cup Webhook]
      /\ req'[r].pc = "idle"
      /\ \A o \in Requests : o # r => req'[o] = req[o]
      /\ Checkouts' = Checkouts \ {r} /\ Webhooks' = Webhooks \ {r}
  BY <1>1, RequestEnds DEF Invariant
<1>3. TypeOK'
  BY <1>1, <1>2 DEF Invariant, TypeOK
<1>4. EventsExist' /\ SessionsHaveCustomer' /\ NothingUnpaid'
  BY <1>1, <1>2 DEF Invariant, EventsExist, SessionsHaveCustomer, NothingUnpaid, Paid, Webhooks
<1>5. WebhookAlone'
  BY <1>1, <1>2 DEF Invariant, WebhookAlone, Webhooks
<1>6. CheckoutAlone'
  BY <1>1, <1>2 DEF Invariant, CheckoutAlone, Checkouts
<1> QED
  BY <1>1, <1>3, <1>4, <1>5, <1>6 DEF Invariant, PlanMatchesStatus, PortalReaches, InPortal

\* The session belongs to the customer that is then in the row.
LEMMA FinishKeeps ==
    ASSUME Invariant, NEW r \in Requests, FinishCheckout(r)
    PROVE  Invariant'
<1> DEFINE c == req[r].customer
           loaded == req[r].loaded
           new == Billed(loaded, c)
           s == [status |-> "open", customer |-> c]
<1>1. /\ log' = log /\ acked' = acked /\ regime' = regime /\ customers' = customers
      /\ req' = [req EXCEPT ![r] = Idle] /\ req[r].pc = "session"
      /\ subs' = Append(subs, s) /\ org' = Written(loaded, new)
  BY DEF FinishCheckout
<1>2. r \in Checkouts /\ loaded \in Row /\ c \in Nat /\ c # None /\ org \in Row
  BY <1>1, RequestTypes DEF Invariant, TypeOK, Checkouts, SessionsHaveCustomer
<1>3. /\ new \in Row /\ new.plan = loaded.plan /\ new.status = loaded.status
      /\ new.sub = loaded.sub /\ new.customer = c
  <2>1. ASSUME NEW row \in Row
        PROVE  LET b == [row EXCEPT !.customer = c]
               IN  b \in Row /\ b.plan = row.plan /\ b.status = row.status
                   /\ b.sub = row.sub /\ b.customer = c
    BY <1>2 DEF Row
  <2> QED
    BY <1>2, <2>1 DEF Billed
<1> HIDE DEF new
<1>4. /\ org' \in Row /\ org'.plan = org.plan /\ org'.status = org.status
      /\ org'.sub = org.sub
      /\ org'.customer = IF c # loaded.customer THEN c ELSE org.customer
  BY <1>1, <1>2, <1>3, WrittenRow
<1>5. /\ req' \in [Requests -> {Idle} \cup Checkout \cup Webhook]
      /\ req'[r].pc = "idle"
      /\ \A o \in Requests : o # r => req'[o] = req[o]
      /\ Checkouts' = Checkouts \ {r} /\ Webhooks' = Webhooks \ {r}
  BY <1>1, RequestEnds DEF Invariant
<1>6. s \in Sub /\ s.status = "open" /\ s.customer = c
  BY <1>2 DEF Sub, Ids
<1> HIDE DEF s
<1>7. /\ subs' \in Seq(Sub) /\ DOMAIN subs' = DOMAIN subs \cup {Len(subs) + 1}
      /\ \A i \in DOMAIN subs : subs'[i] = subs[i]
      /\ subs'[Len(subs) + 1] = s
  BY <1>1, <1>6 DEF Invariant, TypeOK
<1>8. TypeOK'
  BY <1>1, <1>4, <1>5, <1>7 DEF Invariant, TypeOK
<1>9. EventsExist' /\ SessionsHaveCustomer' /\ NothingUnpaid'
  BY <1>1, <1>4, <1>5, <1>6, <1>7
     DEF Invariant, EventsExist, SessionsHaveCustomer, NothingUnpaid, Paid, Webhooks
<1>10. WebhookAlone'
  BY <1>1, <1>4, <1>5 DEF Invariant, WebhookAlone, Webhooks
<1>11. regime # "parallel" => org'.customer = c /\ (org.customer # None => c = org.customer)
  BY <1>1, <1>2, <1>4 DEF Invariant, CheckoutAlone
<1>12. regime # "parallel" /\ org.customer = None => DOMAIN subs = {} /\ DOMAIN log = {}
  <2> SUFFICES ASSUME regime # "parallel", org.customer = None
               PROVE  DOMAIN subs = {} /\ DOMAIN log = {}
    OBVIOUS
  <2>1. \A i \in DOMAIN subs : subs[i].customer = None /\ subs[i].customer # None
    BY StripeTypes DEF Invariant, PortalReaches, InPortal
  <2>2. \A i \in DOMAIN log : log[i].customer = None /\ log[i].customer # None
    BY StripeTypes DEF Invariant, CheckoutAlone
  <2> QED
    BY <2>1, <2>2
<1>13. CheckoutAlone'
  BY <1>1, <1>2, <1>4, <1>5, <1>11, <1>12 DEF Invariant, CheckoutAlone, Checkouts
<1>14. PortalReaches'
  BY <1>1, <1>6, <1>7, <1>11, <1>12 DEF Invariant, PortalReaches, InPortal
<1>15. PlanMatchesStatus'
  BY <1>1, <1>4 DEF Invariant, PlanMatchesStatus
<1> QED
  BY <1>8, <1>9, <1>10, <1>13, <1>14, <1>15 DEF Invariant
-----------------------------------------------------------------------------
(* Stripe                                                                   *)

\* What users and Stripe do emits one event about one session.
LEMMA StripeEmits ==
    ASSUME Invariant, NEW i \in DOMAIN subs, StripeStep(i)
    PROVE  \E type \in {"completed", "updated", "deleted"},
              status \in LiveStatuses \cup {"canceled"} :
                /\ Emit(type, i, status)
                /\ subs[i].status = "open" => type = "completed"
<1>1. CASE Pay(i)
  BY <1>1 DEF Pay, LiveStatuses
<1>2. CASE ChangeStatus(i)
  BY <1>2 DEF ChangeStatus, LiveStatuses
<1>3. CASE Cancel(i)
  BY <1>3 DEF Cancel, LiveStatuses
<1> QED
  BY <1>1, <1>2, <1>3 DEF StripeStep

LEMMA StatusOfSub ==
    ASSUME NEW x \in Sub, NEW status \in LiveStatuses \cup {"canceled"}
    PROVE  LET y == [x EXCEPT !.status = status]
           IN  y \in Sub /\ y.status = status /\ y.customer = x.customer
  BY DEF Sub

LEMMA StripeKeeps ==
    ASSUME Invariant, NEW i \in DOMAIN subs, StripeStep(i)
    PROVE  Invariant'
<1>1. PICK type \in {"completed", "updated", "deleted"},
           status \in LiveStatuses \cup {"canceled"} :
              /\ Emit(type, i, status)
              /\ subs[i].status = "open" => type = "completed"
  BY StripeEmits
<1> DEFINE e == [type |-> type, sub |-> i, customer |-> subs[i].customer, status |-> status]
           x == [subs[i] EXCEPT !.status = status]
<1>2. /\ org' = org /\ req' = req /\ customers' = customers /\ acked' = acked
      /\ regime' = regime /\ log' = Append(log, e)
      /\ subs' = [subs EXCEPT ![i].status = status]
  BY <1>1 DEF Emit
<1>3. /\ i \in 1..Len(subs) /\ subs[i] \in Sub /\ subs[i].customer \in Ids
      /\ subs \in Seq(Sub) /\ log \in Seq(Event)
  BY StripeTypes DEF Invariant, TypeOK
<1>4. x \in Sub /\ x.status = status /\ x.customer = subs[i].customer
  BY <1>3, StatusOfSub
<1>5. subs' = [subs EXCEPT ![i] = x]
  BY <1>2, Zenon
<1>6. e \in Event /\ e.type = type /\ e.customer = subs[i].customer
  <2>1. i \in Ids
    BY <1>3, StripeTypes DEF Ids, None
  <2> QED
    BY <1>3, <2>1 DEF Event
<1> HIDE DEF e, x
<1>7. /\ subs' \in Seq(Sub) /\ DOMAIN subs' = DOMAIN subs /\ subs'[i] = x
      /\ \A j \in DOMAIN subs : j # i => subs'[j] = subs[j]
  BY <1>3, <1>4, <1>5
<1>8. /\ log' \in Seq(Event) /\ Len(log) \in Nat /\ Len(log') = Len(log) + 1
      /\ \A j \in 1..Len(log) : log'[j] = log[j]
      /\ log'[Len(log) + 1] = e
  BY <1>2, <1>3, <1>6
<1>9. TypeOK'
  BY <1>2, <1>7, <1>8 DEF Invariant, TypeOK
<1>10. EventsExist' /\ SessionsHaveCustomer'
  BY <1>2, <1>8 DEF Invariant, EventsExist, SessionsHaveCustomer, Webhooks
<1>11. NothingUnpaid'
  <2>1. Paid'
    <3>1. CASE type = "completed"
      BY <1>6, <1>8, <3>1 DEF Paid
    <3>2. CASE type # "completed"
      <4>1. Paid
        BY <1>1, <3>2 DEF Invariant, NothingUnpaid
      <4> QED
        BY <1>8, <4>1 DEF Paid
    <3> QED
      BY <3>1, <3>2
  <2> QED
    BY <2>1 DEF NothingUnpaid
<1>12. WebhookAlone' /\ PlanMatchesStatus'
  BY <1>2 DEF Invariant, WebhookAlone, PlanMatchesStatus, Webhooks
<1>13. PortalReaches'
  BY <1>2, <1>4, <1>7 DEF Invariant, PortalReaches, InPortal
<1>14. CheckoutAlone'
  <2>1. regime # "parallel" => subs[i].customer = org.customer
    BY DEF Invariant, PortalReaches, InPortal
  <2>2. DOMAIN log = 1..Len(log) /\ DOMAIN log' = 1..Len(log')
    BY <1>3, <1>8
  <2>3. regime # "parallel" => \A j \in DOMAIN log' : log'[j].customer = org.customer
    BY <1>6, <1>8, <2>1, <2>2 DEF Invariant, CheckoutAlone
  <2> QED
    BY <1>2, <2>3 DEF Invariant, CheckoutAlone, Checkouts
<1> QED
  BY <1>9, <1>10, <1>11, <1>12, <1>13, <1>14 DEF Invariant
-----------------------------------------------------------------------------
(* Webhooks                                                                 *)

LEMMA ReceiveKeeps ==
    ASSUME Invariant, NEW r \in Requests, Receive(r)
    PROVE  Invariant'
<1>1. PICK i \in Deliverable :
          \/ /\ Known(log[i])
             /\ req' = [req EXCEPT ![r] = [pc |-> "event", loaded |-> org, event |-> i]]
             /\ UNCHANGED acked
          \/ ~Known(log[i]) /\ Acknowledge(i) /\ UNCHANGED req
  BY DEF Receive
<1>2. /\ org' = org /\ subs' = subs /\ log' = log /\ regime' = regime
      /\ customers' = customers /\ req[r] = Idle /\ Alone(Webhooks)
  BY DEF Receive, stripe
<1>3. i \in 1..Len(log) /\ i \in Nat /\ org \in Row
  <2>1. i \in 1..Len(log)
    BY DEF Deliverable
  <2>2. Len(log) \in Nat /\ org \in Row
    BY StripeTypes DEF Invariant, TypeOK
  <2> QED
    BY <2>1, <2>2
<1>4. CASE req' = [req EXCEPT ![r] = [pc |-> "event", loaded |-> org, event |-> i]]
           /\ UNCHANGED acked
  <2> DEFINE q == [pc |-> "event", loaded |-> org, event |-> i]
  <2>1. q \in Webhook /\ q.pc = "event" /\ q.loaded = org /\ q.event = i
    BY <1>3 DEF Webhook
  <2> HIDE DEF q
  <2>2. /\ req' \in [Requests -> {Idle} \cup Checkout \cup Webhook]
        /\ req'[r] = q
        /\ \A o \in Requests : o # r => req'[o] = req[o]
        /\ Checkouts' = Checkouts \ {r} /\ Webhooks' = Webhooks \cup {r}
    <3>1. q \in {Idle} \cup Checkout \cup Webhook /\ TypeOK /\ req' = [req EXCEPT ![r] = q]
      BY <1>4, <2>1 DEF Invariant, q
    <3>2. r \notin Webhooks
      BY <1>2 DEF Webhooks, Idle
    <3> QED
      BY <2>1, <3>1, <3>2, RequestMoves
  <2>3. TypeOK'
    BY <1>2, <1>4, <2>2 DEF Invariant, TypeOK
  <2>4. EventsExist' /\ SessionsHaveCustomer' /\ NothingUnpaid'
    BY <1>2, <1>3, <2>1, <2>2
       DEF Invariant, EventsExist, SessionsHaveCustomer, NothingUnpaid, Paid, Webhooks
  <2>5. WebhookAlone'
    <3> SUFFICES ASSUME regime # "parallel" PROVE WebhookAlone'
      BY <1>2 DEF WebhookAlone
    <3>1. Webhooks' = {r}
      BY <1>2, <2>2 DEF Alone
    <3> QED
      BY <1>2, <2>1, <2>2, <3>1 DEF WebhookAlone
  <2>6. CheckoutAlone'
    BY <1>2, <2>2 DEF Invariant, CheckoutAlone, Checkouts
  <2> QED
    BY <1>2, <2>3, <2>4, <2>5, <2>6 DEF Invariant, PlanMatchesStatus, PortalReaches, InPortal
<1>5. CASE Acknowledge(i) /\ UNCHANGED req
  <2>1. TypeOK'
    BY <1>2, <1>3, <1>5 DEF Invariant, TypeOK, Acknowledge
  <2> QED
    BY <1>2, <1>5, <2>1 DEF Invariant, EventsExist, SessionsHaveCustomer, NothingUnpaid, Paid,
       WebhookAlone, CheckoutAlone, PlanMatchesStatus, PortalReaches, InPortal, Webhooks, Checkouts
<1> QED
  BY <1>1, <1>4, <1>5

\* The columns an event asks for.
LEMMA TargetRow ==
    ASSUME NEW e \in Event, NEW row \in Row
    PROVE  /\ Target(e, row) \in Row
           /\ Target(e, row).plan = "pro" <=> Target(e, row).status \in ACTIVE_STATUSES
           /\ Target(e, row).customer
                = IF e.type = "completed" THEN e.customer ELSE row.customer
<1>1. /\ e.status \in LiveStatuses \cup {"canceled"} /\ e.sub \in Nat /\ e.customer \in Nat
      /\ row.customer \in Nat
  BY DEF Event, Row, Ids
<1>2. CASE e.type = "completed"
  BY <1>1, <1>2 DEF Target, Row, ACTIVE_STATUSES, LiveStatuses
<1>3. CASE e.type # "completed"
  <2>1. PlanOf(e.status) \in {"free", "pro"}
    BY DEF PlanOf
  <2>2. PlanOf(e.status) = "pro" <=> e.status \in ACTIVE_STATUSES
    BY DEF PlanOf
  <2>3. None \in Nat
    BY DEF None
  <2>4. Target(e, row) = [plan |-> PlanOf(e.status), customer |-> row.customer,
                          sub |-> IF PlanOf(e.status) = "free" THEN None ELSE e.sub,
                          status |-> e.status]
    BY <1>3 DEF Target
  <2> QED
    BY <1>1, <1>3, <2>1, <2>2, <2>3, <2>4 DEF Row
<1> QED
  BY <1>2, <1>3

\* A webhook request that runs alone writes exactly what its event asks for.
LEMMA ApplyKeeps ==
    ASSUME Invariant, NEW r \in Requests, Apply(r)
    PROVE  Invariant'
<1> DEFINE e == log[req[r].event]
           loaded == req[r].loaded
           new == Target(e, loaded)
<1>1. /\ subs' = subs /\ log' = log /\ regime' = regime /\ customers' = customers
      /\ req' = [req EXCEPT ![r] = Idle] /\ r \in Webhooks
      /\ org' = Written(loaded, new) /\ acked' = acked \cup {req[r].event}
  BY DEF Apply, Acknowledge, stripe
<1>2. /\ req[r].event \in 1..Len(log) /\ e \in Event /\ loaded \in Row /\ org \in Row
      /\ log # <<>>
  BY <1>1, RequestTypes, StripeTypes DEF Invariant, EventsExist, TypeOK
<1>3. /\ new \in Row /\ (new.plan = "pro" <=> new.status \in ACTIVE_STATUSES)
      /\ new.customer = IF e.type = "completed" THEN e.customer ELSE loaded.customer
  BY <1>2, TargetRow
<1> HIDE DEF new
<1>4. /\ org' \in Row
      /\ org'.plan = IF new.plan # loaded.plan THEN new.plan ELSE org.plan
      /\ org'.status = IF new.status # loaded.status THEN new.status ELSE org.status
      /\ org'.sub = IF new.sub # loaded.sub THEN new.sub ELSE org.sub
      /\ org'.customer = IF new.customer # loaded.customer THEN new.customer ELSE org.customer
  BY <1>1, <1>2, <1>3, WrittenRow
<1>5. /\ req' \in [Requests -> {Idle} \cup Checkout \cup Webhook]
      /\ req'[r].pc = "idle"
      /\ \A o \in Requests : o # r => req'[o] = req[o]
      /\ Checkouts' = Checkouts \ {r} /\ Webhooks' = Webhooks \ {r}
  BY <1>1, RequestEnds DEF Invariant
<1>6. TypeOK'
  BY <1>1, <1>2, <1>4, <1>5 DEF Invariant, TypeOK
<1>7. EventsExist' /\ SessionsHaveCustomer'
  BY <1>1, <1>5 DEF Invariant, EventsExist, SessionsHaveCustomer, Webhooks
<1>8. NothingUnpaid'
  BY <1>1, <1>2 DEF Invariant, NothingUnpaid, Paid
<1>9. regime # "parallel" => org'.customer = org.customer
  <2> SUFFICES ASSUME regime # "parallel" PROVE org'.customer = org.customer
    OBVIOUS
  <2>1. e.customer = org.customer
    BY <1>2, StripeTypes DEF Invariant, CheckoutAlone
  <2> QED
    BY <1>3, <1>4, <2>1
<1>10. regime # "parallel" => Webhooks' = {} /\ org'.plan = new.plan /\ org'.status = new.status
  BY <1>1, <1>4, <1>5 DEF Invariant, WebhookAlone
<1>11. WebhookAlone'
  BY <1>1, <1>10 DEF WebhookAlone
<1>12. CheckoutAlone'
  BY <1>1, <1>5, <1>9 DEF Invariant, CheckoutAlone, Checkouts
<1>13. PortalReaches'
  BY <1>1, <1>9 DEF Invariant, PortalReaches, InPortal
<1>14. PlanMatchesStatus'
  BY <1>1, <1>3, <1>10 DEF PlanMatchesStatus
<1> QED
  BY <1>6, <1>7, <1>8, <1>11, <1>12, <1>13, <1>14 DEF Invariant
-----------------------------------------------------------------------------
\* Every step keeps the invariant.
THEOREM Step == Invariant /\ [Next]_vars => Invariant'
<1> SUFFICES ASSUME Invariant, [Next]_vars PROVE Invariant'
  OBVIOUS
<1>1. ASSUME NEW r \in Requests, CheckoutStep(r) PROVE Invariant'
  BY <1>1, BeginKeeps, CustomerKeeps, FinishKeeps, FailureKeeps DEF CheckoutStep
<1>2. ASSUME NEW r \in Requests, WebhookStep(r) PROVE Invariant'
  BY <1>2, ReceiveKeeps, ApplyKeeps, FailureKeeps DEF WebhookStep
<1>3. ASSUME NEW s \in DOMAIN subs, StripeStep(s) PROVE Invariant'
  BY <1>3, StripeKeeps
<1>4. CASE UNCHANGED vars
  BY <1>4 DEF vars, Invariant, TypeOK, EventsExist, SessionsHaveCustomer, NothingUnpaid, Paid,
     WebhookAlone, CheckoutAlone, PlanMatchesStatus, PortalReaches, InPortal, Webhooks, Checkouts
<1> QED
  BY <1>1, <1>2, <1>3, <1>4 DEF Next

\* The invariant holds of every behaviour.
THEOREM Safe == Spec => []Invariant
  BY Initial, Step, PTL DEF Spec

\* The billing columns, requests and events keep their types.
THEOREM Types == Spec => []TypeOK
<1>1. Invariant => TypeOK
  BY DEF Invariant
<1> QED
  BY <1>1, Safe, PTL

\* The plan agrees with the stored status in any order of events, while webhook
\* requests do not overlap (BillingService.handle_event).
THEOREM PlansMatch == Spec => []PlanMatchesStatus
<1>1. Invariant => PlanMatchesStatus
  BY DEF Invariant
<1> QED
  BY <1>1, Safe, PTL

\* While checkouts do not overlap, the portal reaches every subscription, whatever
\* fails or is delivered in between (create_checkout_session).
THEOREM PortalsReach == Spec => []PortalReaches
<1>1. Invariant => PortalReaches
  BY DEF Invariant
<1> QED
  BY <1>1, Safe, PTL

\* Nobody gets the paid plan for nothing, with any overlap and order of requests
\* (handle_event).
THEOREM ProIsPaid == Spec => []ProWasPaid
<1>1. Invariant => ProWasPaid
  BY DEF Invariant, NothingUnpaid, Paid, ProWasPaid
<1> QED
  BY <1>1, Safe, PTL

\* The plan and the status change only when a webhook request commits, whatever
\* row a checkout loaded (create_checkout_session).
THEOREM EventsDecide == Spec => PlanOnlyByEvents
<1> DEFINE A == org'.plan # org.plan \/ org'.status # org.status => Webhooks' # Webhooks
<1>1. ASSUME Invariant, [Next]_vars PROVE [A]_vars
  <2>1. ASSUME NEW r \in Requests, FinishCheckout(r) PROVE A
    <3> DEFINE loaded == req[r].loaded
               new == Billed(loaded, req[r].customer)
    <3>1. /\ loaded \in Row /\ org \in Row /\ req[r].customer \in Nat
      BY <1>1, <2>1, RequestTypes DEF Invariant, TypeOK, Checkouts, FinishCheckout
    <3>2. new \in Row /\ new.plan = loaded.plan /\ new.status = loaded.status
      <4>1. ASSUME NEW row \in Row, NEW c \in Nat
            PROVE  LET b == [row EXCEPT !.customer = c]
                   IN  b \in Row /\ b.plan = row.plan /\ b.status = row.status
        BY DEF Row
      <4> QED
        BY <3>1, <4>1 DEF Billed
    <3> HIDE DEF new
    <3>3. org' = Written(loaded, new)
      BY <2>1 DEF FinishCheckout, new
    <3> QED
      BY <3>1, <3>2, <3>3, WrittenRow
  <2>2. ASSUME NEW r \in Requests, Apply(r) PROVE A
    <3>1. r \in Webhooks /\ Webhooks' = Webhooks \ {r}
      BY <1>1, <2>2, RequestEnds DEF Invariant, Apply
    <3> QED
      BY <3>1
  <2>3. ASSUME NEW r \in Requests,
               \/ BeginCheckout(r) \/ CreateCustomer(r) \/ CheckoutFails(r)
               \/ Receive(r) \/ ReceiveFails(r)
        PROVE  A
    BY <2>3 DEF BeginCheckout, CreateCustomer, CheckoutFails, Receive, ReceiveFails
  <2>4. ASSUME NEW s \in DOMAIN subs, StripeStep(s) PROVE A
    BY <2>4 DEF StripeStep, Pay, ChangeStatus, Cancel, Emit
  <2>5. CASE UNCHANGED vars
    BY <2>5
  <2> QED
    BY <1>1, <2>1, <2>2, <2>3, <2>4, <2>5 DEF Next, CheckoutStep, WebhookStep
<1> QED
  BY <1>1, Safe, PTL DEF Spec, PlanOnlyByEvents

\* The row agrees with itself and with the customer at Stripe
\* (create_checkout_session, handle_event).
THEOREM RowsAreConsistent == Spec => []RowIsConsistent
<1>1. Invariant => RowIsConsistent
  BY DEF Invariant, RowIsConsistent
<1> QED
  BY <1>1, Safe, PTL
=============================================================================
