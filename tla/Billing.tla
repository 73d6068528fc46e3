------------------------------ MODULE Billing -------------------------------
(***************************************************************************)
(* The subscription row of one organisation and the Stripe events that     *)
(* write it (integrations/billing_provider.py).  Stripe keeps the          *)
(* subscriptions that the organisation's checkouts made and sends an event *)
(* for each change; it delivers an event once or more, in any order.  The  *)
(* webhook endpoint does not await between reading and committing, so one  *)
(* API process handles one event at a time.                                *)
(*                                                                         *)
(* A webhook request has no tenant.  The subscription and checkout         *)
(* handlers set it from the event; the invoice handlers do not, and        *)
(* row-level security then shows them no row.                              *)
(***************************************************************************)
EXTENDS Integers, Sequences, FiniteSets

CONSTANTS
    Checkouts,         \* the organisation's subscriptions at Stripe, one to a checkout
    StripeStatuses,    \* the statuses that Stripe gives them
    MaxEvents,         \* bound: events sent
    MaxDeliveries      \* bound: deliveries

NotYet == "none"   \* a subscription Stripe does not have, and an id that is null

ASSUME BillingAssumption == NotYet \notin StripeStatuses

VARIABLES
    stripe,        \* Stripe's status of each of its subscriptions
    event,         \* events sent, oldest first
    subscription,  \* the row of the organisation
    delivered,     \* the newest event delivered so far
    deliveries,
    disordered     \* observer: an event came before, or again after, another that follows it

billingVars == <<stripe, event, subscription, delivered, deliveries, disordered>>

BillingInit ==
    /\ stripe = [s \in Checkouts |-> NotYet]
    /\ event = <<>>
    /\ subscription = [status |-> "TRIALING", stripe_subscription_id |-> NotYet]   \* signup
    /\ delivered = 0 /\ deliveries = 0 /\ disordered = FALSE

-----------------------------------------------------------------------------
\* Stripe.

Send(type, s, status) ==
    /\ Len(event) < MaxEvents
    /\ event' = Append(event, [type |-> type, id |-> s, status |-> status])
    /\ UNCHANGED <<subscription, delivered, deliveries, disordered>>

\* A checkout makes a subscription; one that was canceled does not come back.
StripeChanges(s, status) ==
    /\ stripe[s] # status /\ stripe[s] # "canceled"
    /\ stripe' = [stripe EXCEPT ![s] = status]
    /\ Send(IF stripe[s] = NotYet THEN "created" ELSE IF status = "canceled" THEN "deleted" ELSE "updated",
            s, status)

StripeNotifies(s, type) ==
    /\ stripe[s] # NotYet
    /\ Send(type, s, stripe[s])
    /\ UNCHANGED stripe

-----------------------------------------------------------------------------
\* The handlers.

\* Mutant: past_due and unpaid were left out.
STRIPE_STATUS_MAP_WITHOUT_FAILURES ==
    [trialing |-> "TRIALING", incomplete |-> "TRIALING", active |-> "ACTIVE",
     canceled |-> "CANCELLED", incomplete_expired |-> "CANCELLED", paused |-> "CANCELLED"]
_STRIPE_STATUS_MAP ==
    [trialing |-> "TRIALING", incomplete |-> "TRIALING", active |-> "ACTIVE",
     past_due |-> "PAST_DUE", unpaid |-> "PAST_DUE",
     canceled |-> "CANCELLED", incomplete_expired |-> "CANCELLED", paused |-> "CANCELLED"]

Mapped(status, default) ==
    IF status \in DOMAIN _STRIPE_STATUS_MAP THEN _STRIPE_STATUS_MAP[status] ELSE default

_on_checkout_session_completed(e) == [subscription EXCEPT !.stripe_subscription_id = e.id]

_on_subscription_created_or_updated(e) ==
    [status |-> Mapped(e.status, subscription.status), stripe_subscription_id |-> e.id]

\* Whichever of the organisation's subscriptions it is.
_on_subscription_deleted(e) == [subscription EXCEPT !.status = "CANCELLED"]

\* The row that a session with this tenant sees under this stripe_subscription_id, if any.
NoTenant == "no tenant"
RowSeen(tenant, id) == tenant # NoTenant /\ subscription.stripe_subscription_id = id

_on_invoice_payment_failed(e) ==
    IF RowSeen(NoTenant, e.id) THEN [subscription EXCEPT !.status = "PAST_DUE"] ELSE subscription

_on_invoice_payment_succeeded(e) ==
    IF RowSeen(NoTenant, e.id) /\ subscription.status = "PAST_DUE"
    THEN [subscription EXCEPT !.status = "ACTIVE"] ELSE subscription

handle_webhook_event(e) ==
    CASE e.type = "checkout"               -> _on_checkout_session_completed(e)
      [] e.type \in {"created", "updated"} -> _on_subscription_created_or_updated(e)
      [] e.type = "deleted"                -> _on_subscription_deleted(e)
      [] e.type = "payment_failed"         -> _on_invoice_payment_failed(e)
      [] e.type = "payment_succeeded"      -> _on_invoice_payment_succeeded(e)

\* In order: the next event, or the newest one again.
stripe_webhook(n) ==
    /\ deliveries < MaxDeliveries
    /\ subscription' = handle_webhook_event(event[n])
    /\ delivered'  = IF n > delivered THEN n ELSE delivered
    /\ disordered' = (disordered \/ n \notin {delivered, delivered + 1})
    /\ deliveries' = deliveries + 1
    /\ UNCHANGED <<stripe, event>>

BillingNext ==
    \/ \E s \in Checkouts, status \in StripeStatuses : StripeChanges(s, status)
    \/ \E s \in Checkouts, type \in {"checkout", "payment_failed", "payment_succeeded"} :
           StripeNotifies(s, type)
    \/ \E n \in 1..Len(event) : stripe_webhook(n)

BillingSpec == BillingInit /\ [][BillingNext]_billingVars

InvoiceNotices == {"payment_failed", "payment_succeeded"}
Changes        == {"created", "updated", "deleted"}

\* An invoice was notified after Stripe's last change.
InvoiceSince ==
    \E n \in 1..Len(event) :
        event[n].type \in InvoiceNotices /\ \A m \in n..Len(event) : event[m].type \notin Changes

\* All events have come and in order, and s is the one subscription that the organisation
\* ever made at Stripe.
InStep(s) ==
    /\ delivered = Len(event) /\ ~disordered
    /\ stripe[s] # NotYet /\ \A t \in Checkouts \ {s} : stripe[t] = NotYet

\* When all events have come and in order, the row says of the one subscription whether it
\* is paid for, owed or at an end, whatever checkouts and invoices were notified before
\* Stripe's last change.  With two subscriptions it follows the last event, and after the
\* change an invoice may have its say.
AgreesWithStripe ==
    \A s \in Checkouts :
        InStep(s) /\ ~InvoiceSince
        => /\ stripe[s] = "active" => subscription.status = "ACTIVE"
           /\ stripe[s] \in {"past_due", "unpaid"} => subscription.status = "PAST_DUE"
           /\ stripe[s] = "canceled" => subscription.status = "CANCELLED"

\* "payment failed -> past due" (billing_provider.py:20-21; test_billing.py:251-264): when
\* all events have come and in order, and the last one says that an invoice of the active
\* subscription failed, the row is past due.
PaymentFailureShows ==
    \A s \in Checkouts :
        /\ InStep(s) /\ stripe[s] = "active" /\ event[Len(event)].type = "payment_failed"
        => subscription.status = "PAST_DUE"
=============================================================================
