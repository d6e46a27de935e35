------------------------------- MODULE Billing -------------------------------
(***************************************************************************)
(* The billing state of one organization (domains/billing): checkouts that *)
(* lead to Stripe subscriptions, and the webhook that copies Stripe's      *)
(* events into the organization's row.                                     *)
(*                                                                         *)
(* A request is a READ COMMITTED transaction: it loads the row, waits for  *)
(* Stripe or for its turn, and commits.  SQLAlchemy's UPDATE names only    *)
(* the columns whose value differs from the loaded one.  Stripe itself is  *)
(* external: the states of its subscriptions, and a log of events that it  *)
(* delivers at least once, in the order of the log or not.                 *)
(***************************************************************************)
EXTENDS Naturals, Sequences

CONSTANTS Requests,     \* requests that may be in flight together
          MaxCustomers, \* bound: customers ever created at Stripe
          MaxSubs,      \* bound: checkout sessions ever created at Stripe
          MaxEvents,    \* bound: events Stripe emits
          Regimes       \* the orders of events and requests to consider

ASSUME BillingAssumption ==
    /\ MaxCustomers \in Nat /\ MaxSubs \in Nat /\ MaxEvents \in Nat
    /\ Regimes \subseteq {"in order", "any order", "parallel"}

VARIABLES org,          \* committed billing columns of the organization
          req,          \* checkout and webhook requests in flight
          customers,    \* the number of customers created at Stripe
          subs,         \* sessions and their subscriptions at Stripe, by id
          log,          \* events Stripe has emitted, oldest first
          acked,        \* positions of the events that were acknowledged
          regime        \* how events and requests are ordered, fixed at the start

vars == <<org, req, customers, subs, log, acked, regime>>
stripe == <<customers, subs, log>>
-----------------------------------------------------------------------------
ACTIVE_STATUSES == {"active", "trialing", "past_due"}
LiveStatuses == {"active", "past_due", "unpaid"}   \* of a subscription not deleted

None == 0                                          \* a NULL column
Ids == Nat \ {None}                                \* of customers and subscriptions
Row == [plan : {"free", "pro"}, customer : Nat, sub : Nat,
        status : LiveStatuses \cup {"canceled", "null"}]
Sub == [status : {"open", "canceled"} \cup LiveStatuses, customer : Ids]
Event == [type : {"completed", "updated", "deleted"}, sub : Ids,
          customer : Ids, status : LiveStatuses \cup {"canceled"}]
Idle == [pc |-> "idle"]
Checkout == [pc : {"customer", "session"}, loaded : Row, customer : Nat]
Webhook == [pc : {"event"}, loaded : Row, event : Nat]

\* What the UPDATE of a request leaves in the row: only the columns it changed.
\* Mutant: the row is written as a whole.
Written_Whole(loaded, new) == new

Written(loaded, new) ==
    [c \in DOMAIN org |-> IF new[c] # loaded[c] THEN new[c] ELSE org[c]]

\* In the regimes other than "parallel" requests of one kind run one at a time.
Checkouts == {r \in Requests : req[r].pc \in {"customer", "session"}}
Webhooks == {r \in Requests : req[r].pc = "event"}
Alone(kind) == regime = "parallel" \/ kind = {}
-----------------------------------------------------------------------------
(* POST /billing/checkout by a manager                                      *)

NeedsCustomer(row) == row.customer = None

BeginCheckout(r) ==
    /\ req[r] = Idle /\ Alone(Checkouts)
    /\ org.plan # "pro"
    /\ req' = [req EXCEPT ![r] =
          [pc |-> IF NeedsCustomer(org) THEN "customer" ELSE "session",
           loaded |-> org, customer |-> org.customer]]
    /\ UNCHANGED <<org, stripe, acked, regime>>

CreateCustomer(r) ==
    /\ req[r].pc = "customer"
    /\ customers < MaxCustomers
    /\ customers' = customers + 1
    /\ req' = [req EXCEPT ![r].pc = "session", ![r].customer = customers + 1]
    /\ UNCHANGED <<org, subs, log, acked, regime>>

\* Mutant: the plan is granted with the checkout session.
Billed_Early(row, c) == [row EXCEPT !.customer = c, !.plan = "pro"]

Billed(row, c) == [row EXCEPT !.customer = c]

\* The session is created, the customer id committed, and only then does the
\* user get the session's URL.
FinishCheckout(r) ==
    /\ req[r].pc = "session"
    /\ Len(subs) < MaxSubs
    /\ subs' = Append(subs, [status |-> "open", customer |-> req[r].customer])
    /\ org' = Written(req[r].loaded, Billed(req[r].loaded, req[r].customer))
    /\ req' = [req EXCEPT ![r] = Idle]
    /\ UNCHANGED <<customers, log, acked, regime>>

\* Stripe answers with an error or the process dies: the session rolls back,
\* and what was created at Stripe is never shown to the user.
CheckoutFails(r) ==
    /\ r \in Checkouts
    /\ req' = [req EXCEPT ![r] = Idle]
    /\ UNCHANGED <<org, stripe, acked, regime>>
-----------------------------------------------------------------------------
(* Stripe: what users and Stripe do to sessions and subscriptions           *)

Emit(type, s, status) ==
    /\ Len(log) < MaxEvents
    /\ log' = Append(log, [type |-> type, sub |-> s,
                           customer |-> subs[s].customer, status |-> status])
    /\ subs' = [subs EXCEPT ![s].status = status]
    /\ UNCHANGED <<org, req, customers, acked, regime>>

Pay(s) == subs[s].status = "open" /\ Emit("completed", s, "active")

ChangeStatus(s) ==
    /\ subs[s].status \in LiveStatuses
    /\ \E status \in LiveStatuses \ {subs[s].status} : Emit("updated", s, status)

\* The portal of an organization shows the subscriptions of its customer.
InPortal(s) == subs[s].customer = org.customer

\* A subscription ends in the portal, or at Stripe when it is not paid.
Cancel(s) ==
    /\ subs[s].status \in LiveStatuses
    /\ InPortal(s) \/ subs[s].status # "active"
    /\ Emit("deleted", s, "canceled")
-----------------------------------------------------------------------------
(* POST /webhooks/stripe, with a valid signature                            *)

Deliverable ==
    {i \in 1..Len(log) : regime = "in order" => i \notin acked /\ 1..(i - 1) \subseteq acked}

\* Mutant: the organization is found by the subscription in the row.
Known_BySubscription(e) == e.type = "completed" \/ e.sub = org.sub

\* The organization of an event: its client_reference_id, or its customer.
Known(e) == e.type = "completed" \/ e.customer = org.customer

PlanOf(status) == IF status \in ACTIVE_STATUSES THEN "pro" ELSE "free"

\* Mutant: the handler of a deletion leaves the plan to the next update.
Target_KeepsPlan(e, row) ==
    [plan |-> IF e.type = "deleted" THEN row.plan ELSE PlanOf(e.status),
     customer |-> row.customer, sub |-> e.sub, status |-> e.status]

\* The columns after the event, whatever they were before.
Target(e, row) ==
    IF e.type = "completed"
    THEN [plan |-> "pro", customer |-> e.customer, sub |-> e.sub,
          status |-> "active"]
    ELSE [plan |-> PlanOf(e.status), customer |-> row.customer,
          sub |-> IF PlanOf(e.status) = "free" THEN None ELSE e.sub,
          status |-> e.status]

Acknowledge(i) == acked' = acked \cup {i}

Receive(r) ==
    /\ req[r] = Idle /\ Alone(Webhooks)
    /\ \E i \in Deliverable :
          \/ /\ Known(log[i])
             /\ req' = [req EXCEPT ![r] =
                   [pc |-> "event", loaded |-> org, event |-> i]]
             /\ UNCHANGED acked
          \/ ~Known(log[i]) /\ Acknowledge(i) /\ UNCHANGED req
    /\ UNCHANGED <<org, stripe, regime>>

Apply(r) ==
    /\ r \in Webhooks
    /\ org' = Written(req[r].loaded, Target(log[req[r].event], req[r].loaded))
    /\ Acknowledge(req[r].event)
    /\ req' = [req EXCEPT ![r] = Idle]
    /\ UNCHANGED <<stripe, regime>>

\* The request dies or its commit fails; Stripe gets no answer and sends again.
ReceiveFails(r) ==
    /\ r \in Webhooks
    /\ req' = [req EXCEPT ![r] = Idle]
    /\ UNCHANGED <<org, stripe, acked, regime>>
-----------------------------------------------------------------------------
NewRow == [plan |-> "free", customer |-> None, sub |-> None, status |-> "null"]

Init ==
    /\ org = NewRow
    /\ req = [r \in Requests |-> Idle]
    /\ customers = 0
    /\ subs = <<>>
    /\ log = <<>>
    /\ acked = {}
    /\ regime \in Regimes

CheckoutStep(r) ==
    BeginCheckout(r) \/ CreateCustomer(r) \/ FinishCheckout(r) \/ CheckoutFails(r)
WebhookStep(r) == Receive(r) \/ Apply(r) \/ ReceiveFails(r)
StripeStep(s) == Pay(s) \/ ChangeStatus(s) \/ Cancel(s)

Next == \/ \E r \in Requests : CheckoutStep(r) \/ WebhookStep(r)
        \/ \E s \in DOMAIN subs : StripeStep(s)

Spec == Init /\ [][Next]_vars

\* Stripe repeats an event until it is acknowledged, and a delivery that is
\* tried again and again is not killed every time.
Fairness == /\ WF_vars(\E r \in Requests : Receive(r))
            /\ SF_vars(\E r \in Requests : Apply(r))

FairSpec == Spec /\ Fairness
-----------------------------------------------------------------------------
TypeOK ==
    /\ org \in Row
    /\ req \in [Requests -> {Idle} \cup Checkout \cup Webhook]
    /\ customers \in 0..MaxCustomers
    /\ subs \in Seq(Sub)
    /\ log \in Seq(Event)
    /\ acked \subseteq 1..Len(log)
    /\ regime \in Regimes

\* The plan is "pro" exactly while the stored status is one that counts as
\* paying, whatever is replayed or reordered, as long as two webhook requests
\* do not overlap (BillingService.handle_event).
PlanMatchesStatus ==
    regime # "parallel" => (org.plan = "pro" <=> org.status \in ACTIVE_STATUSES)

\* While checkouts run one at a time, every session and subscription belongs to
\* the customer in the row: its events find the organization, and the portal
\* lets the user end what they pay for (create_checkout_session,
\* create_portal_session).
PortalReaches ==
    regime # "parallel" => \A s \in DOMAIN subs : InPortal(s)

\* The plan never changes but by a webhook request: a checkout that was begun
\* before the payment and commits after it does not undo it, and does not give
\* the plan away (create_checkout_session commits the row it loaded long ago).
PlanOnlyByEvents ==
    [][org'.plan # org.plan \/ org'.status # org.status =>
          Webhooks' # Webhooks]_vars

\* Nobody is on the paid plan before a checkout was paid, in any order and with
\* any overlap (handle_event, the checkout.session.completed branch).
ProWasPaid ==
    org.plan = "pro" => \E i \in 1..Len(log) : log[i].type = "completed"

\* At most one subscription is alive at a time.
OneLive == \A s, t \in DOMAIN subs : subs[s].status \in LiveStatuses
                              /\ subs[t].status \in LiveStatuses => s = t

PlanIsCurrent ==
    org.plan = "pro" <=> \E s \in DOMAIN subs : subs[s].status \in ACTIVE_STATUSES

\* If events come in order, Stripe's last word about the only live subscription
\* becomes and stays the plan of the organization (handle_event).
Converges == (regime = "in order" /\ []OneLive) => <>[]PlanIsCurrent

\* Once every event was delivered, in whatever order and however often, the plan
\* is that of the one subscription: "replayed or out-of-order webhook deliveries
\* converge" (the docstring of handle_event).
QuietMeansCurrent ==
    acked = 1..Len(log) /\ Webhooks = {} => PlanIsCurrent

\* The row agrees with itself and with the customer at Stripe.
RowIsConsistent == TypeOK /\ PlanMatchesStatus /\ PortalReaches
=============================================================================
