---------------------------- MODULE StripeBilling ----------------------------
(***************************************************************************)
(* services/stripe_billing_service.py: the checkout of a subscription and  *)
(* the webhook that applies Stripe's events to the organization.           *)
(*                                                                         *)
(* Events reach the webhook in any order and again until they are answered *)
(* well; two deliveries of one event are serialized by its receipt and two *)
(* events of one organization by the organization's lock, so a delivery is *)
(* one step, or none when it is rolled back.  created_at has the precision *)
(* of a second.  Signatures, payload hashes, customer ids and prices are   *)
(* left out; a subscription carries the request id of its own checkout.    *)
(* A time of 0 in the organization's columns stands for NULL.              *)
(***************************************************************************)
EXTENDS LocationAllowance

CONSTANTS
  Subs,            \* subscriptions the customer may take out, one per checkout
  NoSub,
  CheckoutPlan,    \* requested_plan_code of each of them
  Feeds            \* the sets of events Stripe may send, one is chosen

Active == {"active", "trialing"}
AccessEnding == {"canceled", "unpaid", "incomplete_expired"}
Recovery == {"past_due", "payment_action_required", "unpaid"}

SubscriptionKinds == {"created", "updated", "deleted"}
InvoiceKinds == {"paid", "action_required", "failed"}

Events == [sub : Subs, kind : SubscriptionKinds \cup InvoiceKinds \cup {"checkout"},
           status : STRING, at : Nat \ {0}, plan : Plans]

\* What Stripe sends: a subscription is created once, and a deleted one is read
\* as canceled whatever status its event carries.
ASSUME BillingAssumption ==
  /\ NoSub \notin Subs /\ CheckoutPlan \in [Subs -> Plans]
  /\ \A feed \in Feeds : IsFiniteSet(feed) /\ feed \subseteq Events
  /\ \A feed \in Feeds : \A e, f \in feed :
       /\ e.kind = "deleted" => e.status = "canceled"
       /\ (e.kind = "created" /\ f.kind = "created" /\ e.sub = f.sub) => e = f

VARIABLES
  sent,       \* the events of this behaviour
  receipt,    \* billing_webhook_events, by event
  billing,    \* the billing columns of the organization
  opened      \* subscriptions whose checkout was opened

billingVars == <<sent, receipt, billing, opened>>

NoBilling == [sub |-> NoSub, status |-> "none", at |-> 0, kind |-> "none",
              pay |-> "none", payAt |-> 0, payKind |-> "none",
              pending |-> NoSub, confirmed |-> NoSub]

BillingInit ==
  /\ sent \in Feeds
  /\ receipt = [e \in sent |-> "none"]
  /\ billing = NoBilling /\ opened = {}

Ended(b) == b.status \in AccessEnding

-------------------------------------------------------------------------------
\* create_checkout_session; the pending checkout of another request blocks it.
OpenCheckout(s) ==
  /\ Unlocked /\ s \notin opened
  /\ billing.sub = NoSub \/ Ended(billing)
  /\ billing.pending = NoSub
  /\ billing' = [billing EXCEPT !.pending = s]
  /\ opened' = opened \cup {s}
  /\ UNCHANGED <<sent, receipt>>

\* _assign_subscription_id: only the subscription of the pending checkout may
\* replace one that has ended.
Rotates(e) == Ended(billing) /\ e.sub = billing.pending /\ e.sub # billing.sub

MayBeAssigned(e) == billing.sub \in {NoSub, e.sub} \/ Rotates(e)

Assigned(e) ==
  IF Rotates(e) THEN [NoBilling EXCEPT !.sub = e.sub, !.pending = billing.pending,
                                       !.confirmed = billing.confirmed]
                ELSE [billing EXCEPT !.sub = e.sub]

\* _confirm_checkout and _confirm_checkout_from_subscription.
Confirmed(b, s) == IF s = b.pending THEN [b EXCEPT !.confirmed = s, !.pending = NoSub]
                                    ELSE b

MayBeConfirmed(s, plan) ==
  IF s = billing.pending THEN plan = CheckoutPlan[s]
                         ELSE s = billing.confirmed \/ billing.pending = NoSub

\* The key of _should_apply_subscription_event: the priority of the event, then
\* the name of its type.
Priority(kind, status) ==
  CASE kind = "deleted"                                -> 5
    [] kind = "updated" /\ status \in AccessEnding     -> 4
    [] kind = "created" /\ status \in AccessEnding     -> 3
    [] kind = "updated" /\ status \notin AccessEnding  -> 2
    [] OTHER                                           -> 1

\* The same key of two updates: _same_second_subscription_update_is_conservative.
Conservative(e) ==
  /\ e.status = billing.status /\ e.status \in Active
  /\ Included[e.plan] < Included[org.plan]

\* Mutant: events are applied in the order in which they arrive.
NewerThanSavedUnordered(e) == ~Ended(billing) \/ e.status \in AccessEnding

\* Mutant: the second alone decides, so that the first event of a second wins.
NewerThanSavedFirst(e) ==
  /\ ~Ended(billing) \/ e.status \in AccessEnding
  /\ billing.at < e.at

\* Mutant: the last update of a second wins.
NewerThanSavedLast(e) ==
  /\ ~Ended(billing) \/ e.status \in AccessEnding
  /\ \/ billing.at < e.at
     \/ /\ billing.at = e.at
        /\ Priority(e.kind, e.status) >= Priority(billing.kind, billing.status)

\* _should_apply_subscription_event, without a rotation.
NewerThanSaved(e) ==
  /\ ~Ended(billing) \/ e.status \in AccessEnding
  /\ \/ billing.at < e.at
     \/ /\ billing.at = e.at
        /\ Priority(e.kind, e.status) > Priority(billing.kind, billing.status)
     \/ /\ billing.at = e.at /\ e.kind = "updated" /\ billing.kind = "updated"
        /\ Priority(e.kind, e.status) = Priority(billing.kind, billing.status)
        /\ Conservative(e)

PlanAfter(e) == IF e.status \in Active THEN e.plan
                ELSE IF e.status \in AccessEnding THEN "solo" ELSE org.plan

PayPriority == [none |-> 0, paid |-> 1, action_required |-> 2, failed |-> 3]
PayStatus == [paid |-> "paid", action_required |-> "payment_action_required",
              failed |-> "past_due"]

\* _should_apply_payment_event.
NewerPayment(e) ==
  \/ billing.payAt < e.at
  \/ billing.payAt = e.at /\ PayPriority[e.kind] > PayPriority[billing.payKind]

Answer(e, status) == receipt' = [receipt EXCEPT ![e] = status]

\* What makes _apply_event raise, or the validation before it.
Refused(e) ==
  IF e.kind \in InvoiceKinds THEN e.sub # billing.sub
  ELSE \/ ~MayBeAssigned(e)
       \/ e.kind = "checkout" /\ e.sub \notin {billing.pending, billing.confirmed}
       \/ /\ e.kind \in SubscriptionKinds
          /\ Rotates(e) \/ NewerThanSaved(e)
          /\ ~MayBeConfirmed(e.sub, PlanAfter(e))

CheckoutCompleted(e) ==
  /\ e.kind = "checkout"
  /\ billing' = Confirmed(Assigned(e), e.sub) /\ UNCHANGED org
  /\ Answer(e, "processed")

SubscriptionChanged(e) ==
  /\ e.kind \in SubscriptionKinds
  /\ IF Rotates(e) \/ NewerThanSaved(e)
     THEN /\ billing' = [Confirmed(Assigned(e), e.sub)
                           EXCEPT !.status = e.status, !.at = e.at, !.kind = e.kind]
          /\ org' = IF e.status \in Active \cup AccessEnding
                    THEN WithPlan(org, PlanAfter(e)) ELSE org
          /\ Answer(e, "processed")
     ELSE Answer(e, "ignored") /\ UNCHANGED <<billing, org>>

InvoiceChanged(e) ==
  /\ e.kind \in InvoiceKinds /\ UNCHANGED org
  /\ IF NewerPayment(e)
     THEN /\ billing' = [billing EXCEPT !.pay = PayStatus[e.kind], !.payAt = e.at,
                                        !.payKind = e.kind]
          /\ Answer(e, "processed")
     ELSE Answer(e, "ignored") /\ UNCHANGED billing

\* Mutant: an event that cannot be applied yet is answered as if it was.
DeliverOnce(e) ==
  /\ Unlocked /\ e.sub \in opened /\ receipt[e] = "none"
  /\ IF Refused(e)
     THEN Answer(e, "failed") /\ UNCHANGED <<billing, org>>
     ELSE CheckoutCompleted(e) \/ SubscriptionChanged(e) \/ InvoiceChanged(e)
  /\ UNCHANGED <<sent, opened>>

\* process_webhook: an event not yet answered well is delivered, again and
\* again; a delivery of one that was is a duplicate and changes nothing.
Deliver(e) ==
  /\ Unlocked /\ e.sub \in opened /\ receipt[e] \in {"none", "failed"}
  /\ IF Refused(e)
     THEN Answer(e, "failed") /\ UNCHANGED <<billing, org>>
     ELSE CheckoutCompleted(e) \/ SubscriptionChanged(e) \/ InvoiceChanged(e)
  /\ UNCHANGED <<sent, opened>>

BillingNext ==
  /\ \/ \E s \in {e.sub : e \in sent} : OpenCheckout(s) /\ UNCHANGED org
     \/ \E e \in sent : Deliver(e)
  /\ UNCHANGED <<placeVars, orgLock, changes>>

everyVars == <<allowanceVars, billingVars>>

\* Stripe sends an event again until it is answered well.
Redelivered == (\E e \in sent : Deliver(e)) /\ UNCHANGED <<placeVars, orgLock, changes>>

BillingSpec ==
  AllowanceInit /\ BillingInit /\ [][BillingNext]_everyVars /\ WF_everyVars(Redelivered)

-------------------------------------------------------------------------------
BillingTypes ==
  /\ sent \in Feeds /\ opened \subseteq Subs
  /\ receipt \in [sent -> {"none", "failed", "processed", "ignored"}]
  /\ billing \in [sub : opened \cup {NoSub},
                  status : {e.status : e \in sent} \cup {"none"}, at : Nat,
                  kind : SubscriptionKinds \cup {"none"},
                  pay : {PayStatus[k] : k \in InvoiceKinds} \cup {"none"}, payAt : Nat,
                  payKind : InvoiceKinds \cup {"none"},
                  pending : opened \cup {NoSub}, confirmed : opened \cup {NoSub}]

Answered(e) == receipt[e] \in {"processed", "ignored"}

Stream(s, kinds) == {e \in sent : e.sub = s /\ e.kind \in kinds}

\* The event of a stream no other one comes after.
Newest(s, kinds, rank(_)) ==
  {e \in Stream(s, kinds) : \A f \in Stream(s, kinds) :
      \/ f.at < e.at
      \/ f.at = e.at /\ rank(f) <= rank(e)}

Rank(e) == Priority(e.kind, e.status)
PayRank(e) == PayPriority[e.kind]

\* What Stripe's timestamps leave open: a subscription that comes back after a
\* status that ends access, and two statuses of one second and one rank.
Unambiguous(s) ==
  \A e, f \in Stream(s, SubscriptionKinds) :
    /\ (e.status \in AccessEnding /\ e.at < f.at) => f.status \in AccessEnding
    /\ (e.at = f.at /\ Rank(e) = Rank(f)) => e.status = f.status

AllAnswered(s) == Stream(s, SubscriptionKinds) # {} /\
                  \A e \in sent : e.sub = s => Answered(e)

\* Once every event of the current subscription is answered, whatever the
\* order, repetitions and refusals, its status and its payment status are those
\* of the newest event of each stream.
NewestEventWins ==
  (AllAnswered(billing.sub) /\ Unambiguous(billing.sub)) =>
    /\ billing.status \in {e.status : e \in Newest(billing.sub, SubscriptionKinds, Rank)}
    /\ \A e \in Newest(billing.sub, InvoiceKinds, PayRank) : billing.pay = PayStatus[e.kind]

\* ...and, if it is active and no operator stepped in, the plan is the lowest one
\* that those newest events name, in whatever order they came.
PlanFollowsBilling ==
  LET newest == Newest(billing.sub, SubscriptionKinds, Rank) IN
  (AllAnswered(billing.sub) /\ Unambiguous(billing.sub)
   /\ billing.status \in Active /\ changes = 0) =>
    /\ \E e \in newest : org.plan = e.plan
    /\ \A e \in newest : Included[org.plan] <= Included[e.plan]

\* Runbook, step 8: a terminal cancellation cannot be resurrected by older events
\* or events of the same second.  From the answer to its last event, a deletion, the
\* current subscription ends access, and the plan is solo until an operator or
\* another subscription changes it; the other events may arrive before or after it,
\* again, and be refused in between.
DeletionStands ==
  \A e \in Stream(billing.sub, {"deleted"}) :
    (Answered(e) /\ \A f \in Stream(billing.sub, SubscriptionKinds) : f.at <= e.at) =>
      Ended(billing) /\ (changes = 0 => org.plan = "solo")

\* Every event of an opened checkout is in the end answered well, an invoice that
\* overtook its subscription included, unless another subscription replaced it.
EventsSettle ==
  <>[](\A e \in sent : e.sub \in opened =>
          Answered(e) \/ billing.sub \notin {e.sub, NoSub})

BillingStatus ==
  IF Ended(billing) THEN billing.status
  ELSE IF billing.pay \in {"past_due", "payment_action_required"} THEN billing.pay
  ELSE IF billing.status \in Active \/ billing.confirmed = NoSub THEN billing.status
  ELSE "checkout_completed"

\* Runbook, step 9: "the recovery warning clears after payment succeeds". With
\* every event answered, a subscription whose newest events are a paid invoice
\* and an active status shows no recovery message.
RecoveryClears ==
  LET s == billing.sub IN
  (AllAnswered(s)
   /\ (\E e \in Newest(s, SubscriptionKinds, Rank) : e.status \in Active)
  /\ (\E e \in Newest(s, InvoiceKinds, PayRank) : e.kind = "paid"))
    => BillingStatus \notin Recovery
==============================================================================
