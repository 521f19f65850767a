---------------------------- MODULE Billing_proofs ----------------------------
(***************************************************************************)
(* What the webhook of StripeBilling makes of a subscription's events, for *)
(* any feed and whatever else Commercial does in between: the columns of   *)
(* the organization are those of the greatest event answered so far, in    *)
(* the order of its second and its rank.                                   *)
(*                                                                         *)
(* A replacement starts with blank columns, so the invariant is about the  *)
(* events of the current subscription; that none of the next one's has     *)
(* been answered before it takes over is Identity.                         *)
(***************************************************************************)
EXTENDS Commercial_proofs

Done == {e \in sent : Answered(e)}
Updates == {e \in Done : e.sub = billing.sub /\ e.kind \in SubscriptionKinds}
Invoices == {e \in Done : e.sub = billing.sub /\ e.kind \in InvoiceKinds}

Blank == billing.status = "none" /\ billing.at = 0 /\ billing.kind = "none"
Unbilled == billing.pay = "none" /\ billing.payAt = 0 /\ billing.payKind = "none"

SavedOf(e) == billing.status = e.status /\ billing.at = e.at /\ billing.kind = e.kind
PaymentOf(e) ==
  billing.pay = PayStatus[e.kind] /\ billing.payAt = e.at /\ billing.payKind = e.kind

SavedRank == Priority(billing.kind, billing.status)

\* The events no later one and none of a higher rank has been answered after.
Greatest == {f \in Updates : f.at = billing.at /\ Rank(f) = SavedRank}

\* An answered event made its subscription the current one, or was one of its;
\* the pending checkout's has none yet.
Identity ==
  /\ \A e \in Done : e.sub \in opened /\ e.sub # billing.pending /\ billing.sub # NoSub
  /\ billing.pending # NoSub => billing.pending # billing.sub

StatusBook ==
  /\ Updates = {} => Blank
  /\ Updates # {} => \E e \in Updates : SavedOf(e)
  /\ Unambiguous(billing.sub) =>
       \A f \in Updates : f.at < billing.at \/ (f.at = billing.at /\ Rank(f) <= SavedRank)

PaymentBook ==
  /\ Invoices = {} => Unbilled
  /\ Invoices # {} => \E e \in Invoices : PaymentOf(e)
  /\ \A f \in Invoices :
       f.at < billing.payAt \/ (f.at = billing.payAt /\ PayRank(f) <= PayPriority[billing.payKind])

PlanBook ==
  (Unambiguous(billing.sub) /\ billing.status \in Active /\ changes = 0) =>
    /\ \E f \in Greatest : org.plan = f.plan
    /\ \A f \in Greatest : Included[org.plan] <= Included[f.plan]

\* Once its last event, a deletion, has been answered the subscription has ended,
\* and a subscription that has ended leaves the organization on solo.
DeletionBook ==
  /\ \A e \in Updates :
       (e.kind = "deleted" /\ \A f \in Stream(billing.sub, SubscriptionKinds) : f.at <= e.at)
         => Ended(billing)
  /\ (Ended(billing) /\ changes = 0) => org.plan = "solo"

BillingBook == Identity /\ StatusBook /\ PaymentBook /\ PlanBook /\ DeletionBook

-------------------------------------------------------------------------------
\* The order of two events of one second.
LEMMA Ranks == ASSUME NEW kind, NEW status PROVE Priority(kind, status) \in 1 .. 5
  BY DEF Priority

LEMMA EndingRanks ==
  ASSUME NEW e, NEW f, e.status \notin AccessEnding, e.kind \in {"created", "updated"},
         f.status \in AccessEnding, f.kind \in SubscriptionKinds
  PROVE  Rank(e) < Rank(f)
  BY DEF Rank, Priority, SubscriptionKinds

LEMMA ActiveRanks ==
  ASSUME NEW e, NEW f, e.status \in Active, e.kind \in {"created", "updated"},
         f.status \in Active, f.kind \in {"created", "updated"}, Rank(e) = Rank(f)
  PROVE  e.kind = f.kind
  BY DEF Rank, Priority, Active, AccessEnding

LEMMA PayRanks ==
  /\ \A k \in InvoiceKinds \cup {"none"} : PayPriority[k] \in Nat
  /\ \A k \in InvoiceKinds : PayPriority[k] > PayPriority["none"]
  /\ \A k, l \in InvoiceKinds : PayPriority[k] = PayPriority[l] => k = l
  BY DEF PayPriority, InvoiceKinds

LEMMA Sent ==
  ASSUME IInv
  PROVE  /\ billing \in Billings /\ \A e \in sent : e \in Events
         /\ \A e \in sent : e.sub # NoSub /\ e.at \in Nat /\ e.at > 0 /\ e.plan \in Plans
         /\ \A e \in sent : e.kind = "deleted" => e.status = "canceled"
         /\ \A e, f \in sent : e.kind = "created" /\ f.kind = "created" /\ e.sub = f.sub => e = f
         /\ receipt \in [sent -> {"none", "failed", "processed", "ignored"}]
         /\ opened \subseteq Subs /\ NoSub \notin Subs
<1>1. sent \in Feeds /\ billing \in Billings
  BY DEF IInv, TypeOK, BillingTypes, Billings
<1>2. \A e \in sent : e \in Events
  BY <1>1, BillingAssumption
<1>3. \A e \in sent : e.sub # NoSub /\ e.at \in Nat /\ e.at > 0 /\ e.plan \in Plans
  BY <1>2, BillingAssumption DEF Events
<1>. QED  BY <1>1, <1>2, <1>3, BillingAssumption DEF IInv, TypeOK, BillingTypes

-------------------------------------------------------------------------------
\* What a step can do to the subscription.
Opens(s) ==
  /\ s \in Subs \ opened /\ billing.pending = NoSub
  /\ opened' = opened \cup {s} /\ Done' = Done /\ org' = org
  /\ billing' = [billing EXCEPT !.pending = s]

Refuses == Done' = Done /\ billing' = billing /\ org' = org /\ opened' = opened

TakesIn(e) ==
  /\ e \in sent \ Done /\ e.sub \in opened
  /\ Done' = Done \cup {e} /\ opened' = opened
  /\ e.sub = billing.sub \/ \A f \in Done : f.sub # e.sub
  /\ billing'.sub = e.sub
  /\ billing'.pending \in {billing.pending, NoSub}
  /\ billing'.pending # e.sub

KeepsStatus == UNCHANGED <<billing.status, billing.at, billing.kind>>
KeepsPayment == UNCHANGED <<billing.pay, billing.payAt, billing.payKind>>

Confirms(e) ==
  /\ e.kind = "checkout" /\ org' = org
  /\ e.sub = billing.sub => KeepsStatus /\ KeepsPayment
  /\ e.sub # billing.sub => Blank' /\ Unbilled'

Applies(e) ==
  /\ e.kind \in SubscriptionKinds
  /\ e.sub = billing.sub => NewerThanSaved(e) /\ KeepsPayment
  /\ e.sub # billing.sub => Unbilled'
  /\ SavedOf(e)'
  /\ e.status \in Active => org'.plan = e.plan
  /\ e.status \in AccessEnding => org'.plan = "solo"

Skips(e) ==
  /\ e.kind \in SubscriptionKinds /\ e.sub = billing.sub /\ ~NewerThanSaved(e)
  /\ billing' = billing /\ org' = org

Bills(e) ==
  /\ e.kind \in InvoiceKinds /\ e.sub = billing.sub /\ org' = org
  /\ KeepsStatus
  /\ \/ NewerPayment(e) /\ PaymentOf(e)'
     \/ ~NewerPayment(e) /\ KeepsPayment

BillingOutcome ==
  \/ \E s \in Subs : Opens(s)
  \/ Refuses
  \/ \E e \in sent : TakesIn(e) /\ (Confirms(e) \/ Applies(e) \/ Skips(e) \/ Bills(e))

LEMMA Untouched ==
  ASSUME IInv, Next, ~BillingStep
  PROVE  UNCHANGED <<sent, receipt, billing, opened>>
<1>1. CASE AllowanceStep \/ RequestStep
  BY <1>1 DEF AllowanceStep, RequestStep, billingVars
<1>2. ASSUME NEW w \in Workers, Claim(w) \/ Drain(w) \/ Kill(w) \/ Serve(w)
      PROVE  UNCHANGED billingVars
  BY <1>2 DEF Claim, Drain, Kill, Serve
<1>3. CASE Refresh \/ Own
  BY <1>3 DEF Refresh, Own, billingVars
<1>. QED  BY <1>1, <1>2, <1>3 DEF Next, billingVars

\* An event that is answered: its receipt says so, and no other's changes.
LEMMA AnswerIsHeard ==
  ASSUME IInv, sent' = sent, NEW e \in sent, receipt[e] \in {"none", "failed"},
         NEW status \in {"processed", "ignored"}, Answer(e, status)
  PROVE  e \notin Done /\ Done' = Done \cup {e}
<1>1. receipt' = [receipt EXCEPT ![e] = status] /\ DOMAIN receipt = sent
  BY Sent DEF Answer
<1>2. ASSUME NEW f \in sent PROVE receipt'[f] = IF f = e THEN status ELSE receipt[f]
  BY <1>1
<1>. QED  BY <1>2 DEF Done, Answered

LEMMA RefusalIsNot ==
  ASSUME IInv, sent' = sent, NEW e \in sent, receipt[e] \in {"none", "failed"}, Answer(e, "failed")
  PROVE  Done' = Done
<1>1. receipt' = [receipt EXCEPT ![e] = "failed"] /\ DOMAIN receipt = sent
  BY Sent DEF Answer
<1>2. ASSUME NEW f \in sent PROVE receipt'[f] = IF f = e THEN "failed" ELSE receipt[f]
  BY <1>1
<1>. QED  BY <1>2 DEF Done, Answered

\* The event that takes the organization's subscription over is the first of its
\* own that is answered.
LEMMA FirstOfItsOwn ==
  ASSUME IInv, Identity, NEW e \in sent, MayBeAssigned(e), e.sub # billing.sub
  PROVE  /\ \A f \in Done : f.sub # e.sub
         /\ ~Rotates(e) => Done = {} /\ billing.sub = NoSub
  BY DEF Identity, MayBeAssigned, Rotates

LEMMA AssignedColumns ==
  ASSUME IInv, Identity, NEW e \in sent, e.sub \in opened, MayBeAssigned(e), NEW b,
         b = Confirmed(Assigned(e), e.sub)
  PROVE  /\ b \in Billings /\ b.sub = e.sub
         /\ b.pending = IF e.sub = billing.pending THEN NoSub ELSE billing.pending
         /\ ~Rotates(e) => /\ b.status = billing.status /\ b.at = billing.at /\ b.kind = billing.kind
                           /\ b.pay = billing.pay /\ b.payAt = billing.payAt
                           /\ b.payKind = billing.payKind
         /\ Rotates(e) => /\ b.status = "none" /\ b.at = 0 /\ b.kind = "none"
                          /\ b.pay = "none" /\ b.payAt = 0 /\ b.payKind = "none"
<1>1. billing \in Billings
  BY Sent
<1>2. CASE Rotates(e)
  BY <1>1, <1>2 DEF Assigned, Confirmed, NoBilling, Billings
<1>3. CASE ~Rotates(e)
  BY <1>1, <1>3 DEF Assigned, Confirmed, Billings
<1>. QED  BY <1>2, <1>3

LEMMA Outcome ==
  ASSUME IInv, Identity, StatusBook, PaymentBook, BillingStep
  PROVE  sent' = sent /\ changes' = changes /\ BillingOutcome
<1>1. sent' = sent /\ changes' = changes
  BY DEF BillingStep, BillingNext, OpenCheckout, Deliver
<1>2. CASE \E s \in {e.sub : e \in sent} : OpenCheckout(s) /\ UNCHANGED org
  <2>1. PICK s \in {e.sub : e \in sent} : OpenCheckout(s) /\ UNCHANGED org
    BY <1>2
  <2>2. s \in Subs
    BY <2>1, Sent DEF Events
  <2>3. Done' = Done
    BY <1>1, <2>1 DEF OpenCheckout, Done, Answered
  <2>. QED  BY <1>1, <2>1, <2>2, <2>3 DEF OpenCheckout, Opens, BillingOutcome
<1>3. CASE \E e \in sent : Deliver(e)
  <2>1. PICK e \in sent : Deliver(e)
    BY <1>3
  <2>2. receipt[e] \in {"none", "failed"} /\ e.sub \in opened /\ opened' = opened /\ e.sub # NoSub
    BY <2>1, Sent DEF Deliver
  <2>3. CASE Refused(e)
    BY <1>1, <2>1, <2>2, <2>3, RefusalIsNot DEF Deliver, Refuses, BillingOutcome
  <2>. SUFFICES ASSUME ~Refused(e) PROVE TakesIn(e) /\ (Confirms(e) \/ Applies(e) \/ Skips(e) \/ Bills(e))
    BY <1>1, <2>3 DEF BillingOutcome
  <2>4. e \in sent \ Done /\ Done' = Done \cup {e}
    BY <1>1, <2>1, <2>2, AnswerIsHeard DEF Deliver, CheckoutCompleted, SubscriptionChanged, InvoiceChanged
  <2>5. billing.sub = NoSub => Done = {} /\ Updates = {} /\ Invoices = {} /\ Blank /\ Unbilled
    BY DEF Identity, StatusBook, PaymentBook, Updates, Invoices
  <2>. PICK b : b = Confirmed(Assigned(e), e.sub)
    OBVIOUS
  <2>10. ASSUME MayBeAssigned(e)
         PROVE  /\ b \in Billings /\ b.sub = e.sub
                /\ b.pending = IF e.sub = billing.pending THEN NoSub ELSE billing.pending
    BY <2>2, <2>10, AssignedColumns
  <2>11. ASSUME MayBeAssigned(e), e.sub = billing.sub
         PROVE  /\ b.status = billing.status /\ b.at = billing.at /\ b.kind = billing.kind
                /\ b.pay = billing.pay /\ b.payAt = billing.payAt /\ b.payKind = billing.payKind
    <3>1. ~Rotates(e)
      BY <2>11 DEF Rotates
    <3>. QED  BY <2>2, <2>11, <3>1, AssignedColumns
  <2>12. ASSUME MayBeAssigned(e), e.sub # billing.sub
         PROVE  /\ b.status = "none" /\ b.at = 0 /\ b.kind = "none"
                /\ b.pay = "none" /\ b.payAt = 0 /\ b.payKind = "none"
                /\ \A f \in Done : f.sub # e.sub
    <3>1. CASE Rotates(e)
      BY <2>2, <2>12, <3>1, AssignedColumns, FirstOfItsOwn
    <3>2. CASE ~Rotates(e)
      <4>1. Blank /\ Unbilled
        BY <2>5, <2>12, <3>2, FirstOfItsOwn
      <4>2. /\ b.status = billing.status /\ b.at = billing.at /\ b.kind = billing.kind
            /\ b.pay = billing.pay /\ b.payAt = billing.payAt /\ b.payKind = billing.payKind
        BY <2>2, <2>12, <3>2, AssignedColumns
      <4>. QED  BY <2>12, <4>1, <4>2, FirstOfItsOwn DEF Blank, Unbilled
    <3>. QED  BY <3>1, <3>2
  <2>6. CASE CheckoutCompleted(e)
    <3>1. MayBeAssigned(e) /\ billing' = b /\ e.kind = "checkout" /\ org' = org
      BY <2>6 DEF CheckoutCompleted, Refused, InvoiceKinds
    <3>2. TakesIn(e)
      BY <2>2, <2>4, <2>10, <2>12, <3>1 DEF TakesIn
    <3>3. e.sub = billing.sub => KeepsStatus /\ KeepsPayment
      BY <2>11, <3>1 DEF KeepsStatus, KeepsPayment
    <3>4. e.sub # billing.sub => Blank' /\ Unbilled'
      BY <2>12, <3>1 DEF Blank, Unbilled
    <3>. QED  BY <3>1, <3>2, <3>3, <3>4 DEF Confirms
  <2>7. CASE SubscriptionChanged(e) /\ (Rotates(e) \/ NewerThanSaved(e))
    <3>2. e.kind \in SubscriptionKinds /\ MayBeAssigned(e)
          /\ billing' = [b EXCEPT !.status = e.status, !.at = e.at, !.kind = e.kind]
      BY <2>7 DEF SubscriptionChanged, Refused, SubscriptionKinds, InvoiceKinds
    <3>4. /\ billing'.sub = e.sub /\ billing'.pending = b.pending /\ SavedOf(e)'
          /\ billing'.pay = b.pay /\ billing'.payAt = b.payAt /\ billing'.payKind = b.payKind
      BY <2>10, <3>2 DEF Billings, SavedOf
    <3>5. TakesIn(e)
      BY <2>2, <2>4, <2>10, <2>12, <3>2, <3>4 DEF TakesIn
    <3>6. /\ e.status \in Active => org'.plan = e.plan
          /\ e.status \in AccessEnding => org'.plan = "solo"
      BY <2>7, Sent DEF SubscriptionChanged, PlanAfter, WithPlan, Active, AccessEnding, IInv, TypeOK,
                          AllowanceTypes
    <3>7. e.sub = billing.sub => NewerThanSaved(e) /\ KeepsPayment
      BY <2>7, <2>11, <3>2, <3>4 DEF Rotates, KeepsPayment
    <3>8. e.sub # billing.sub => Unbilled'
      BY <2>12, <3>2, <3>4 DEF Unbilled
    <3>. QED  BY <3>2, <3>4, <3>5, <3>6, <3>7, <3>8 DEF Applies
  <2>8. CASE SubscriptionChanged(e) /\ ~(Rotates(e) \/ NewerThanSaved(e))
    <3>1. e.kind \in SubscriptionKinds /\ MayBeAssigned(e) /\ billing' = billing /\ org' = org
      BY <2>8 DEF SubscriptionChanged, Refused, SubscriptionKinds, InvoiceKinds
    <3>2. e.sub = billing.sub
      <4>1. billing.sub = NoSub => NewerThanSaved(e)
        BY <2>5, Sent DEF NewerThanSaved, Blank, Ended, AccessEnding
      <4>. QED  BY <2>8, <3>1, <4>1 DEF MayBeAssigned
    <3>3. billing.pending # e.sub
      BY <2>2, <3>2 DEF Identity
    <3>. QED  BY <2>2, <2>4, <2>8, <3>1, <3>2, <3>3 DEF TakesIn, Skips
  <2>9. CASE InvoiceChanged(e)
    <3>1. e.kind \in InvoiceKinds /\ e.sub = billing.sub /\ org' = org
      BY <2>9 DEF InvoiceChanged, Refused
    <3>2. billing.pending # e.sub
      BY <2>2, <3>1 DEF Identity
    <3>3. /\ billing'.sub = billing.sub /\ billing'.pending = billing.pending /\ KeepsStatus
          /\ (NewerPayment(e) /\ PaymentOf(e)') \/ (~NewerPayment(e) /\ KeepsPayment)
      BY <2>9, Sent DEF InvoiceChanged, Billings, KeepsStatus, KeepsPayment, PaymentOf
    <3>. QED  BY <2>2, <2>4, <3>1, <3>2, <3>3 DEF TakesIn, Bills
  <2>. QED  BY <2>1, <2>6, <2>7, <2>8, <2>9 DEF Deliver
<1>. QED  BY <1>1, <1>2, <1>3 DEF BillingStep, BillingNext

-------------------------------------------------------------------------------
\* Steps that leave the columns and the answered events alone.
LEMMA SameQuestion ==
  ASSUME sent' = sent, billing'.sub = billing.sub
  PROVE  Unambiguous(billing.sub)' <=> Unambiguous(billing.sub)
<1>. PICK s : s = billing.sub
  OBVIOUS
<1>1. Unambiguous(s)' <=> Unambiguous(s)
  BY DEF Unambiguous, Stream
<1>2. Unambiguous(billing.sub)' <=> Unambiguous(s)'
  BY DEF Unambiguous, Stream
<1>3. Unambiguous(billing.sub) <=> Unambiguous(s)
  OBVIOUS
<1>. QED  BY <1>1, <1>2, <1>3

LEMMA StatusFrame ==
  ASSUME StatusBook, sent' = sent, billing'.sub = billing.sub, Updates' = Updates, KeepsStatus
  PROVE  StatusBook'
<1>1. SavedRank' = SavedRank
  BY DEF SavedRank, KeepsStatus
<1>2. \A f : f.at < billing'.at <=> f.at < billing.at
  BY DEF KeepsStatus
<1>. QED  BY <1>1, <1>2, SameQuestion DEF StatusBook, KeepsStatus, Blank, SavedOf

LEMMA PaymentFrame ==
  ASSUME PaymentBook, Invoices' = Invoices, KeepsPayment
  PROVE  PaymentBook'
  BY DEF PaymentBook, KeepsPayment, Unbilled, PaymentOf

LEMMA PlanFrame ==
  ASSUME PlanBook, sent' = sent, billing'.sub = billing.sub, Updates' = Updates, KeepsStatus,
         org'.plan = org.plan, changes' = 0 => changes = 0
  PROVE  PlanBook'
<1>1. SavedRank' = SavedRank
  BY DEF SavedRank, KeepsStatus
<1>2. Greatest' = Greatest
  BY <1>1 DEF Greatest, KeepsStatus
<1>3. billing'.status = billing.status
  BY DEF KeepsStatus
<1>. QED  BY <1>2, <1>3, SameQuestion DEF PlanBook

-------------------------------------------------------------------------------
\* The events of the subscription once e is answered.
LEMMA HeardEvents ==
  ASSUME NEW e \in sent, TakesIn(e), sent' = sent
  PROVE  /\ e.sub = billing.sub /\ e.kind \in SubscriptionKinds =>
              Updates' = Updates \cup {e} /\ Invoices' = Invoices
         /\ e.sub = billing.sub /\ e.kind \in InvoiceKinds =>
              Updates' = Updates /\ Invoices' = Invoices \cup {e}
         /\ e.sub = billing.sub /\ e.kind = "checkout" => Updates' = Updates /\ Invoices' = Invoices
         /\ e.sub # billing.sub /\ e.kind \in SubscriptionKinds => Updates' = {e} /\ Invoices' = {}
         /\ e.sub # billing.sub /\ e.kind = "checkout" => Updates' = {} /\ Invoices' = {}
<1>1. /\ Updates' = {f \in Done \cup {e} : f.sub = e.sub /\ f.kind \in SubscriptionKinds}
      /\ Invoices' = {f \in Done \cup {e} : f.sub = e.sub /\ f.kind \in InvoiceKinds}
  BY DEF TakesIn, Updates, Invoices
<1>2. SubscriptionKinds \cap InvoiceKinds = {} /\ "checkout" \notin SubscriptionKinds \cup InvoiceKinds
  BY DEF SubscriptionKinds, InvoiceKinds
<1>3. CASE e.sub = billing.sub
  BY <1>1, <1>2, <1>3 DEF Updates, Invoices
<1>4. CASE e.sub # billing.sub
  BY <1>1, <1>2, <1>4 DEF TakesIn
<1>. QED  BY <1>3, <1>4

LEMMA IdentityKept == ASSUME IInv, Identity, sent' = sent, BillingOutcome PROVE Identity'
<1>1. CASE \E s \in Subs : Opens(s)
  <2>1. PICK s \in Subs : Opens(s)
    BY <1>1
  <2>2. billing'.pending = s /\ billing'.sub = billing.sub /\ billing.sub \in opened \cup {NoSub}
    BY <2>1, Sent DEF Opens, Billings
  <2>3. s # billing.sub /\ s # NoSub
    BY <2>1, <2>2, Sent DEF Opens
  <2>. QED  BY <2>1, <2>2, <2>3 DEF Opens, Identity
<1>2. CASE Refuses
  BY <1>2 DEF Refuses, Identity
<1>3. ASSUME NEW e \in sent, TakesIn(e) PROVE Identity'
  <2>1. e.sub # NoSub /\ \A f \in Done : f.sub # NoSub
    BY Sent DEF Done
  <2>. QED  BY <1>3, <2>1 DEF TakesIn, Identity
<1>. QED  BY <1>1, <1>2, <1>3 DEF BillingOutcome

\* An event that is skipped is not greater than the one the columns are from.
LEMMA SkippedIsLower ==
  ASSUME IInv, StatusBook, NEW e \in sent, e \notin Done, Skips(e), Unambiguous(billing.sub)
  PROVE  /\ Updates # {}
         /\ e.at < billing.at \/ (e.at = billing.at /\ Rank(e) <= SavedRank)
<1>1. e.at \in Nat /\ e.at > 0 /\ billing.at \in Nat /\ Rank(e) \in Nat /\ SavedRank \in Nat
  BY Sent, Ranks DEF Billings, Rank, SavedRank
<1>2. Updates # {}
  BY <1>1 DEF StatusBook, Skips, Blank, NewerThanSaved, Ended, AccessEnding
<1>3. PICK g \in Updates : SavedOf(g)
  BY <1>2 DEF StatusBook
<1>4. Rank(g) = SavedRank /\ g \in Stream(billing.sub, SubscriptionKinds) /\ e \in Stream(billing.sub, SubscriptionKinds)
  BY <1>3 DEF SavedOf, Rank, SavedRank, Updates, Done, Stream, Skips
<1>5. CASE Ended(billing) /\ e.status \notin AccessEnding
  <2>1. g.status \in AccessEnding /\ g.at = billing.at /\ g.kind \in SubscriptionKinds
    BY <1>3, <1>5 DEF SavedOf, Ended, Updates
  <2>2. ~(g.at < e.at)
    BY <1>4, <1>5, <2>1 DEF Unambiguous
  <2>3. e.kind \in {"created", "updated"}
    BY <1>5, Sent DEF Skips, SubscriptionKinds, AccessEnding
  <2>4. Rank(e) < Rank(g)
    BY <1>5, <2>1, <2>3, EndingRanks
  <2>. QED  BY <1>1, <1>2, <1>4, <2>1, <2>2, <2>4
<1>6. CASE ~(Ended(billing) /\ e.status \notin AccessEnding)
  <2>1. ~(billing.at < e.at)
    BY <1>6 DEF Skips, NewerThanSaved
  <2>2. ~(billing.at = e.at /\ Rank(e) > SavedRank)
    BY <1>6 DEF Skips, NewerThanSaved, Rank, SavedRank
  <2>. QED  BY <1>1, <1>2, <2>1, <2>2
<1>. QED  BY <1>5, <1>6

\* One that is applied is not lower.
LEMMA AppliedIsGreater ==
  ASSUME IInv, NEW e \in sent, NewerThanSaved(e)
  PROVE  billing.at < e.at \/ (billing.at = e.at /\ SavedRank <= Rank(e))
<1>1. Rank(e) \in Nat /\ SavedRank \in Nat
  BY Ranks DEF Rank, SavedRank
<1>. QED  BY <1>1 DEF NewerThanSaved, Rank, SavedRank

LEMMA StatusKept ==
  ASSUME IInv, StatusBook, sent' = sent, BillingOutcome
  PROVE  StatusBook'
<1>1. CASE \E s \in Subs : Opens(s)
  <2>1. PICK s \in Subs : Opens(s)
    BY <1>1
  <2>2. billing'.sub = billing.sub /\ KeepsStatus
    BY <2>1, Sent DEF Opens, Billings, KeepsStatus
  <2>3. Updates' = Updates
    BY <2>1, <2>2 DEF Opens, Updates
  <2>. QED  BY <2>2, <2>3, StatusFrame
<1>2. CASE Refuses
  BY <1>2, StatusFrame DEF Refuses, Updates, KeepsStatus
<1>3. ASSUME NEW e \in sent, TakesIn(e), Confirms(e) PROVE StatusBook'
  <2>1. CASE e.sub = billing.sub
    BY <1>3, <2>1, HeardEvents, StatusFrame DEF Confirms, TakesIn
  <2>2. CASE e.sub # billing.sub
    BY <1>3, <2>2, HeardEvents DEF Confirms, StatusBook
  <2>. QED  BY <2>1, <2>2
<1>4. ASSUME NEW e \in sent, TakesIn(e), Applies(e) PROVE StatusBook'
  <2>0. /\ billing'.status = e.status /\ billing'.at = e.at /\ billing'.kind = e.kind
        /\ e.at \in Nat /\ billing.at \in Nat /\ SavedRank' = Rank(e) /\ Rank(e) \in Nat
        /\ SavedRank \in Nat /\ SavedOf(e)'
    BY <1>4, Sent, Ranks DEF Applies, SavedOf, SavedRank, Rank, Billings
  <2>1. e \in Updates' /\ (Updates' = Updates \cup {e} \/ Updates' = {e})
    BY <1>4, HeardEvents DEF Applies
  <2>2. CASE e.sub # billing.sub
    BY <1>4, <2>0, <2>2, HeardEvents DEF Applies, StatusBook
  <2>3. CASE e.sub = billing.sub
    <3>1. Updates' = Updates \cup {e} /\ billing'.sub = billing.sub
      BY <1>4, <2>3, HeardEvents DEF Applies, TakesIn
    <3>2. billing.at < e.at \/ (billing.at = e.at /\ SavedRank <= Rank(e))
      BY <1>4, <2>3, AppliedIsGreater DEF Applies
    <3>3. ASSUME Unambiguous(billing.sub), NEW f \in Updates
          PROVE  f.at < e.at \/ (f.at = e.at /\ Rank(f) <= Rank(e))
      <4>1. f.at \in Nat /\ Rank(f) \in Nat
        BY Sent, Ranks DEF Updates, Done, Rank
      <4>2. f.at < billing.at \/ (f.at = billing.at /\ Rank(f) <= SavedRank)
        BY <3>3 DEF StatusBook
      <4>. QED  BY <2>0, <3>2, <4>1, <4>2
    <3>4. ASSUME Unambiguous(billing.sub)', NEW f \in Updates'
          PROVE  f.at < e.at \/ (f.at = e.at /\ Rank(f) <= Rank(e))
      BY <2>0, <3>1, <3>3, <3>4, SameQuestion
    <3>. QED  BY <2>0, <2>1, <3>4 DEF StatusBook
  <2>. QED  BY <2>2, <2>3
<1>5. ASSUME NEW e \in sent, TakesIn(e), Skips(e) PROVE StatusBook'
  <2>1. Updates' = Updates \cup {e} /\ billing' = billing /\ e \notin Done
    BY <1>5, HeardEvents DEF Skips, TakesIn
  <2>2. SavedRank' = SavedRank
    BY <2>1 DEF SavedRank
  <2>3. Unambiguous(billing.sub)' <=> Unambiguous(billing.sub)
    BY <2>1, SameQuestion
  <2>4. \E g \in Updates' : SavedOf(g)
    <3>1. e.at > 0 /\ e.at \in Nat /\ billing.at \in Nat
      BY Sent DEF Billings
    <3>2. Updates # {}
      BY <1>5, <3>1 DEF StatusBook, Skips, Blank, NewerThanSaved, Ended, AccessEnding
    <3>. QED  BY <2>1, <3>2 DEF StatusBook
  <2>5. \E g \in Updates' : SavedOf(g)'
    BY <2>1, <2>4 DEF SavedOf
  <2>6. ASSUME Unambiguous(billing.sub), NEW f \in Updates'
        PROVE  f.at < billing.at \/ (f.at = billing.at /\ Rank(f) <= SavedRank)
    BY <1>5, <2>1, <2>6, SkippedIsLower DEF StatusBook
  <2>. QED  BY <2>1, <2>2, <2>3, <2>5, <2>6 DEF StatusBook
<1>6. ASSUME NEW e \in sent, TakesIn(e), Bills(e) PROVE StatusBook'
  BY <1>6, HeardEvents, StatusFrame DEF Bills, TakesIn
<1>. QED  BY <1>1, <1>2, <1>3, <1>4, <1>5, <1>6 DEF BillingOutcome

LEMMA PaymentKept ==
  ASSUME IInv, PaymentBook, sent' = sent, BillingOutcome
  PROVE  PaymentBook'
<1>1. CASE \E s \in Subs : Opens(s)
  <2>1. PICK s \in Subs : Opens(s)
    BY <1>1
  <2>2. billing'.sub = billing.sub /\ KeepsPayment
    BY <2>1, Sent DEF Opens, Billings, KeepsPayment
  <2>3. Invoices' = Invoices
    BY <2>1, <2>2 DEF Opens, Invoices
  <2>. QED  BY <2>2, <2>3, PaymentFrame
<1>2. CASE Refuses
  BY <1>2, PaymentFrame DEF Refuses, Invoices, KeepsPayment
<1>3. ASSUME NEW e \in sent, TakesIn(e), e.sub # billing.sub, Invoices' = {}, Unbilled'
      PROVE  PaymentBook'
  BY <1>3 DEF PaymentBook
<1>4. ASSUME NEW e \in sent, TakesIn(e), Confirms(e) \/ Applies(e) PROVE PaymentBook'
  <2>1. CASE e.sub = billing.sub
    BY <1>4, <2>1, HeardEvents, PaymentFrame DEF Confirms, Applies
  <2>2. CASE e.sub # billing.sub
    BY <1>3, <1>4, <2>2, HeardEvents DEF Confirms, Applies
  <2>. QED  BY <2>1, <2>2
<1>5. ASSUME NEW e \in sent, TakesIn(e), Skips(e) PROVE PaymentBook'
  BY <1>5, HeardEvents, PaymentFrame DEF Skips, KeepsPayment
<1>6. ASSUME NEW e \in sent, TakesIn(e), Bills(e) PROVE PaymentBook'
  <2>1. Invoices' = Invoices \cup {e} /\ e \notin Done
    BY <1>6, HeardEvents DEF Bills, TakesIn
  <2>2. /\ e.at \in Nat /\ e.at > 0 /\ billing.at \in Nat /\ billing.payAt \in Nat /\ PayRank(e) \in Nat
        /\ PayPriority[billing.payKind] \in Nat
    BY <1>6, Sent, PayRanks DEF Bills, Billings, PayRank
  <2>3. \A f \in Invoices : f.at \in Nat /\ PayRank(f) \in Nat
    BY Sent, PayRanks DEF Invoices, Done, PayRank
  <2>4. CASE NewerPayment(e) /\ PaymentOf(e)'
    <3>1. billing'.payAt = e.at /\ PayPriority[billing'.payKind] = PayRank(e)
      BY <2>4 DEF PaymentOf, PayRank
    <3>2. ASSUME NEW f \in Invoices PROVE f.at < e.at \/ (f.at = e.at /\ PayRank(f) <= PayRank(e))
      <4>1. f.at < billing.payAt \/ (f.at = billing.payAt /\ PayRank(f) <= PayPriority[billing.payKind])
        BY DEF PaymentBook
      <4>2. billing.payAt < e.at \/ (billing.payAt = e.at /\ PayRank(e) > PayPriority[billing.payKind])
        BY <2>4 DEF NewerPayment, PayRank
      <4>. QED  BY <2>2, <2>3, <4>1, <4>2
    <3>. QED  BY <2>1, <2>2, <2>4, <3>1, <3>2 DEF PaymentBook
  <2>5. CASE ~NewerPayment(e) /\ KeepsPayment
    <3>1. e.at < billing.payAt \/ (e.at = billing.payAt /\ PayRank(e) <= PayPriority[billing.payKind])
      BY <2>2, <2>5 DEF NewerPayment, PayRank
    <3>2. Invoices # {}
      BY <2>2, <3>1, <2>5 DEF PaymentBook, Unbilled, NewerPayment
    <3>3. PICK g \in Invoices : PaymentOf(g)
      BY <3>2 DEF PaymentBook
    <3>4. PaymentOf(g)'
      BY <2>5, <3>3 DEF PaymentOf, KeepsPayment
    <3>5. billing'.payAt = billing.payAt /\ PayPriority[billing'.payKind] = PayPriority[billing.payKind]
      BY <2>5 DEF KeepsPayment
    <3>. QED  BY <2>1, <3>1, <3>3, <3>4, <3>5 DEF PaymentBook
  <2>. QED  BY <1>6, <2>4, <2>5 DEF Bills
<1>. QED  BY <1>1, <1>2, <1>4, <1>5, <1>6 DEF BillingOutcome

-------------------------------------------------------------------------------
\* The plan after an event of the current subscription that is applied...
LEMMA PlanApplied ==
  ASSUME IInv, StatusBook, PlanBook, sent' = sent, changes' = changes, NEW e \in sent, TakesIn(e), Applies(e)
  PROVE  PlanBook'
<1>. SUFFICES ASSUME Unambiguous(billing.sub)', billing'.status \in Active, changes' = 0
              PROVE  /\ \E f \in Greatest' : org'.plan = f.plan
                     /\ \A f \in Greatest' : Included[org'.plan] <= Included[f.plan]
  BY DEF PlanBook
<1>1. /\ billing'.status = e.status /\ billing'.at = e.at /\ billing'.kind = e.kind
      /\ e.at \in Nat /\ billing.at \in Nat /\ SavedRank' = Rank(e) /\ Rank(e) \in Nat
      /\ SavedRank \in Nat /\ e.plan \in Plans
  BY Sent, Ranks DEF Applies, SavedOf, SavedRank, Rank, Billings
<1>2. org'.plan = e.plan
  BY <1>1 DEF Applies
<1>3. Greatest' = {f \in Updates' : f.at = e.at /\ Rank(f) = Rank(e)}
  BY <1>1 DEF Greatest
<1>4. e \in Greatest'
  BY <1>3, HeardEvents DEF Applies
<1>5. \A p \in Plans : Included[p] \in Nat
  BY AllowanceAssumption
<1>6. CASE e.sub # billing.sub
  <2>1. Greatest' = {e}
    BY <1>3, <1>4, <1>6, HeardEvents DEF Applies
  <2>. QED  BY <1>1, <1>2, <1>5, <2>1
<1>7. CASE e.sub = billing.sub
  <2>1. Updates' = Updates \cup {e} /\ billing'.sub = billing.sub /\ NewerThanSaved(e)
    BY <1>7, HeardEvents DEF Applies, TakesIn
  <2>2. Unambiguous(billing.sub)
    BY <2>1, SameQuestion
  <2>3. ASSUME NEW f \in Updates
        PROVE  /\ f.at \in Nat /\ Rank(f) \in Nat /\ f.plan \in Plans
               /\ f.at < billing.at \/ (f.at = billing.at /\ Rank(f) <= SavedRank)
    BY <2>2, Sent, Ranks DEF StatusBook, Updates, Done, Rank
  <2>4. CASE billing.at < e.at \/ (billing.at = e.at /\ SavedRank < Rank(e))
    <3>1. ASSUME NEW f \in Updates PROVE ~(f.at = e.at /\ Rank(f) = Rank(e))
      BY <1>1, <2>3, <2>4
    <3>2. Greatest' = {e}
      BY <1>3, <1>4, <2>1, <3>1
    <3>. QED  BY <1>1, <1>2, <1>5, <3>2
  <2>5. CASE ~(billing.at < e.at \/ (billing.at = e.at /\ SavedRank < Rank(e)))
    <3>1. billing.at = e.at /\ Rank(e) = SavedRank /\ Conservative(e)
      BY <1>1, <2>1, <2>5 DEF NewerThanSaved, Rank, SavedRank
    <3>2. Greatest' = Greatest \cup {e}
      BY <1>3, <1>4, <2>1, <3>1 DEF Greatest
    <3>3. billing.status \in Active /\ changes = 0 /\ Included[e.plan] < Included[org.plan]
      BY <3>1 DEF Conservative
    <3>4. \A f \in Greatest : Included[org.plan] <= Included[f.plan]
      BY <2>2, <3>3 DEF PlanBook
    <3>5. org.plan \in Plans
      BY DEF IInv, TypeOK, AllowanceTypes
    <3>6. ASSUME NEW f \in Greatest PROVE Included[e.plan] <= Included[f.plan]
      <4>1. f.plan \in Plans
        BY <2>3 DEF Greatest
      <4>. QED  BY <1>1, <1>5, <3>3, <3>4, <3>5, <4>1
    <3>. QED  BY <1>1, <1>2, <1>4, <1>5, <3>2, <3>6
  <2>. QED  BY <2>4, <2>5
<1>. QED  BY <1>6, <1>7

\* ...and after one that is skipped: it names no lower plan than the one in force.
LEMMA PlanSkipped ==
  ASSUME IInv, StatusBook, PlanBook, sent' = sent, changes' = changes, NEW e \in sent, TakesIn(e), Skips(e)
  PROVE  PlanBook'
<1>. SUFFICES ASSUME Unambiguous(billing.sub)', billing'.status \in Active, changes' = 0
              PROVE  /\ \E f \in Greatest' : org'.plan = f.plan
                     /\ \A f \in Greatest' : Included[org'.plan] <= Included[f.plan]
  BY DEF PlanBook
<1>1. Updates' = Updates \cup {e} /\ billing' = billing /\ org' = org /\ e \notin Done /\ e.sub = billing.sub
      /\ e.kind \in SubscriptionKinds
  BY HeardEvents DEF Skips, TakesIn
<1>2. Unambiguous(billing.sub)
  BY <1>1, SameQuestion
<1>3. billing.status \in Active /\ changes = 0
  BY <1>1
<1>4. /\ \E f \in Greatest : org.plan = f.plan
      /\ \A f \in Greatest : Included[org.plan] <= Included[f.plan]
  BY <1>2, <1>3 DEF PlanBook
<1>5. SavedRank' = SavedRank
  BY <1>1 DEF SavedRank
<1>6. Greatest' \subseteq Greatest \cup {e} /\ Greatest \subseteq Greatest'
  BY <1>1, <1>5 DEF Greatest
<1>7. ASSUME e \in Greatest' PROVE Included[org.plan] <= Included[e.plan]
  <2>1. e.at = billing.at /\ Rank(e) = SavedRank
    BY <1>1, <1>5, <1>7 DEF Greatest
  <2>2. Updates # {}
    BY <1>1, <1>2, SkippedIsLower
  <2>3. PICK g \in Updates : SavedOf(g)
    BY <2>2 DEF StatusBook
  <2>4. /\ g.status = billing.status /\ g.at = billing.at /\ g.kind = billing.kind /\ Rank(g) = SavedRank
        /\ g \in sent /\ g \in Done /\ g.sub = billing.sub /\ g.kind \in SubscriptionKinds
    BY <2>3 DEF SavedOf, Rank, SavedRank, Updates, Done
  <2>5. e.status = billing.status
    BY <1>1, <1>2, <2>1, <2>4 DEF Unambiguous, Stream
  <2>6. e.kind \in {"created", "updated"} /\ g.kind \in {"created", "updated"}
    BY <1>1, <1>3, <2>4, <2>5, Sent DEF SubscriptionKinds, Active
  <2>7. e.kind = g.kind
    BY <1>3, <2>1, <2>4, <2>5, <2>6, ActiveRanks
  <2>8. e.kind = "updated"
    BY <1>1, <2>4, <2>6, <2>7, Sent
  <2>9. ~Conservative(e)
    BY <1>3, <2>1, <2>4, <2>5, <2>7, <2>8 DEF Skips, NewerThanSaved, Rank, SavedRank, Ended, Active, AccessEnding
  <2>10. Included[e.plan] \in Nat /\ Included[org.plan] \in Nat
    BY Sent, AllowanceAssumption DEF IInv, TypeOK, AllowanceTypes
  <2>. QED  BY <1>3, <2>5, <2>9, <2>10 DEF Conservative
<1>. QED  BY <1>1, <1>4, <1>6, <1>7

LEMMA PlanKept ==
  ASSUME IInv, StatusBook, PlanBook, sent' = sent, changes' = changes, BillingOutcome
  PROVE  PlanBook'
<1>1. CASE \E s \in Subs : Opens(s)
  <2>1. PICK s \in Subs : Opens(s)
    BY <1>1
  <2>2. billing'.sub = billing.sub /\ KeepsStatus
    BY <2>1, Sent DEF Opens, Billings, KeepsStatus
  <2>3. Updates' = Updates
    BY <2>1, <2>2 DEF Opens, Updates
  <2>. QED  BY <2>1, <2>2, <2>3, PlanFrame DEF Opens
<1>2. CASE Refuses
  BY <1>2, PlanFrame DEF Refuses, Updates, KeepsStatus
<1>3. ASSUME NEW e \in sent, TakesIn(e), Confirms(e) PROVE PlanBook'
  <2>1. CASE e.sub = billing.sub
    BY <1>3, <2>1, HeardEvents, PlanFrame DEF Confirms, TakesIn
  <2>2. CASE e.sub # billing.sub
    BY <1>3, <2>2 DEF Confirms, Blank, PlanBook, Active
  <2>. QED  BY <2>1, <2>2
<1>4. ASSUME NEW e \in sent, TakesIn(e), Bills(e) PROVE PlanBook'
  BY <1>4, HeardEvents, PlanFrame DEF Bills, TakesIn
<1>. QED  BY <1>1, <1>2, <1>3, <1>4, PlanApplied, PlanSkipped DEF BillingOutcome

-------------------------------------------------------------------------------
\* A deletion that is answered last, or before or again among events of its second,
\* finds the subscription ended or ends it.
LEMMA DeletionFrame ==
  ASSUME DeletionBook, sent' = sent, billing'.sub = billing.sub, Updates' = Updates, KeepsStatus,
         org'.plan = org.plan, changes' = changes
  PROVE  DeletionBook'
<1>1. Ended(billing') = Ended(billing)
  BY DEF Ended, KeepsStatus
<1>2. \A s : Stream(s, SubscriptionKinds)' = Stream(s, SubscriptionKinds)
  BY DEF Stream
<1>. QED  BY <1>1, <1>2 DEF DeletionBook, Stream

LEMMA DeletionKept ==
  ASSUME IInv, StatusBook, DeletionBook, sent' = sent, changes' = changes, BillingOutcome
  PROVE  DeletionBook'
<1>0. \A s : Stream(s, SubscriptionKinds)' = Stream(s, SubscriptionKinds)
  BY DEF Stream
<1>1. CASE \E s \in Subs : Opens(s)
  <2>1. PICK s \in Subs : Opens(s)
    BY <1>1
  <2>2. billing'.sub = billing.sub /\ KeepsStatus
    BY <2>1, Sent DEF Opens, Billings, KeepsStatus
  <2>3. Updates' = Updates
    BY <2>1, <2>2 DEF Opens, Updates
  <2>. QED  BY <2>1, <2>2, <2>3, DeletionFrame DEF Opens
<1>2. CASE Refuses
  BY <1>2, DeletionFrame DEF Refuses, Updates, KeepsStatus
<1>3. ASSUME NEW e \in sent, TakesIn(e), Confirms(e) PROVE DeletionBook'
  <2>1. CASE e.sub = billing.sub
    BY <1>3, <2>1, HeardEvents, DeletionFrame DEF Confirms, TakesIn
  <2>2. CASE e.sub # billing.sub
    <3>1. Updates' = {} /\ ~Ended(billing')
      BY <1>3, <2>2, HeardEvents DEF Confirms, Blank, Ended, AccessEnding, SubscriptionKinds
    <3>. QED  BY <3>1 DEF DeletionBook
  <2>. QED  BY <2>1, <2>2
<1>4. ASSUME NEW e \in sent, TakesIn(e), Bills(e) PROVE DeletionBook'
  BY <1>4, HeardEvents, DeletionFrame DEF Bills, TakesIn
<1>5. ASSUME NEW e \in sent, TakesIn(e), Applies(e) PROVE DeletionBook'
  <2>1. /\ billing'.status = e.status /\ billing'.sub = e.sub /\ (Ended(billing') => org'.plan = "solo")
        /\ (e.kind = "deleted" => Ended(billing'))
    BY <1>5, Sent DEF Applies, SavedOf, TakesIn, Ended, AccessEnding
  <2>2. ASSUME NEW f \in Updates', f.kind = "deleted",
               \A g \in Stream(billing'.sub, SubscriptionKinds) : g.at <= f.at
        PROVE  Ended(billing')
    <3>1. CASE e.sub # billing.sub
      BY <1>5, <2>1, <2>2, <3>1, HeardEvents DEF Applies
    <3>2. CASE e.sub = billing.sub
      <4>1. f = e \/ Ended(billing)
        BY <1>5, <2>1, <2>2, <3>2, HeardEvents DEF Applies, DeletionBook
      <4>2. Ended(billing) => e.status \in AccessEnding
        BY <1>5, <3>2 DEF Applies, NewerThanSaved
      <4>. QED  BY <2>1, <2>2, <4>1, <4>2 DEF Ended
    <3>. QED  BY <3>1, <3>2
  <2>. QED  BY <1>0, <2>1, <2>2 DEF DeletionBook
<1>6. ASSUME NEW e \in sent, TakesIn(e), Skips(e) PROVE DeletionBook'
  <2>1. /\ Updates' = Updates \cup {e} /\ billing' = billing /\ org' = org /\ e.sub = billing.sub
        /\ e.kind \in SubscriptionKinds /\ ~NewerThanSaved(e)
    BY <1>6, HeardEvents DEF Skips
  <2>2. ASSUME e.kind = "deleted", \A g \in Stream(billing.sub, SubscriptionKinds) : g.at <= e.at
        PROVE  Ended(billing)
    <3>1. e.status \in AccessEnding /\ Priority(e.kind, e.status) = 5
      BY <2>2, Sent DEF AccessEnding, Priority
    <3>2. ~(billing.at < e.at) /\ ~(billing.at = e.at /\ 5 > SavedRank)
      BY <2>1, <3>1 DEF NewerThanSaved, SavedRank
    <3>3. billing.at \in Nat /\ e.at \in Nat /\ e.at > 0 /\ SavedRank \in 1 .. 5
      BY Sent, Ranks DEF Billings, SavedRank
    <3>4. Updates # {}
      BY <3>2, <3>3 DEF StatusBook, Blank
    <3>5. PICK g \in Updates : SavedOf(g)
      BY <3>4 DEF StatusBook
    <3>6. g \in Stream(billing.sub, SubscriptionKinds) /\ g \in sent
      BY <3>5 DEF Updates, Done, Stream
    <3>7. billing.at = e.at
      BY <2>2, <3>2, <3>3, <3>5, <3>6 DEF SavedOf
    <3>8. SavedRank = 5
      BY <3>2, <3>3, <3>7
    <3>9. billing.kind = "deleted"
      BY <3>8 DEF SavedRank, Priority
    <3>. QED  BY <3>5, <3>6, <3>9, Sent DEF SavedOf, Ended, AccessEnding
  <2>3. Ended(billing') = Ended(billing)
    BY <2>1
  <2>. QED  BY <1>0, <2>1, <2>2, <2>3 DEF DeletionBook
<1>. QED  BY <1>1, <1>2, <1>3, <1>4, <1>5, <1>6 DEF BillingOutcome

-------------------------------------------------------------------------------
\* Users and operators change the plan, but then the change is counted.
LEMMA PlanElsewhere ==
  ASSUME IInv, Next, ~BillingStep
  PROVE  (changes' = 0 => changes = 0) /\ (changes' = 0 => org'.plan = org.plan)
<1>1. changes \in Nat
  <2>1. quota \in Nat
    BY AllowanceAssumption DEF IInv, TypeOK, AllowanceTypes
  <2>. QED  BY <2>1 DEF IInv, TypeOK, AllowanceTypes
<1>2. CASE AllowanceStep
  <2>1. changes' = changes + 1 \/ (ActivatePlaces /\ changes' = changes)
    BY <1>2 DEF AllowanceStep, AllowanceNext, CheckCapacity, ActivatePlaces, ArchivePlace, PatchPlan,
       OldWorkerSetsPlan, PatchStatus, Enforce, Changed
  <2>2. ActivatePlaces => org'.plan = org.plan
    BY DEF ActivatePlaces, Reconciled, IInv, TypeOK, AllowanceTypes
  <2>. QED  BY <1>1, <2>1, <2>2
<1>3. CASE ~AllowanceStep
  <2>1. RequestStep \/ Refresh => changes' = changes
    BY DEF RequestStep, Refresh
  <2>2. ASSUME NEW w \in Workers, Claim(w) \/ Drain(w) \/ Kill(w) \/ Serve(w) PROVE changes' = changes
    BY <2>2 DEF Claim, Drain, Kill, Serve, allowanceVars
  <2>3. Own => changes' = changes + 1
    BY DEF Own, SetCanary, Changed
  <2>4. changes' \in {changes, changes + 1}
    BY <1>3, <2>1, <2>2, <2>3 DEF Next
  <2>. QED  BY <1>1, <1>3, <2>4, Elsewhere
<1>. QED  BY <1>2, <1>3

LEMMA BookInitially == Init => BillingBook
<1>. SUFFICES ASSUME Init PROVE BillingBook
  OBVIOUS
<1>1. Done = {} /\ billing = NoBilling
  BY DEF Init, BillingInit, Done, Answered
<1>2. Updates = {} /\ Invoices = {}
  BY <1>1 DEF Updates, Invoices
<1>3. Blank /\ Unbilled /\ billing.pending = NoSub /\ billing.status = "none"
  BY <1>1 DEF NoBilling, Blank, Unbilled
<1>. QED  BY <1>1, <1>2, <1>3 DEF BillingBook, Identity, StatusBook, PaymentBook, PlanBook, DeletionBook,
                                      Active, Ended, AccessEnding

LEMMA BookKept ==
  ASSUME IInv, BillingBook, [Next]_vars
  PROVE  BillingBook'
<1>1. CASE BillingStep
  BY <1>1, Outcome, IdentityKept, StatusKept, PaymentKept, PlanKept, DeletionKept DEF BillingBook
<1>2. CASE ~BillingStep
  <2>1. UNCHANGED <<sent, receipt, billing, opened>>
    BY <1>2, Untouched DEF vars, billingVars
  <2>2. (changes' = 0 => changes = 0) /\ (changes' = 0 => org'.plan = org.plan)
    BY <1>2, PlanElsewhere DEF vars, allowanceVars
  <2>3. Done' = Done
    BY <2>1 DEF Done, Answered
  <2>4. Updates' = Updates /\ Invoices' = Invoices /\ KeepsStatus /\ KeepsPayment
    BY <2>1, <2>3 DEF Updates, Invoices, KeepsStatus, KeepsPayment
  <2>5. Identity'
    BY <2>1, <2>3 DEF BillingBook, Identity
  <2>6. PlanBook'
    <3>1. CASE changes' = 0
      BY <2>1, <2>2, <2>4, <3>1, PlanFrame DEF BillingBook
    <3>2. CASE changes' # 0
      BY <3>2 DEF PlanBook
    <3>. QED  BY <3>1, <3>2
  <2>7. DeletionBook'
    <3>1. \A s : Stream(s, SubscriptionKinds)' = Stream(s, SubscriptionKinds)
      BY <2>1 DEF Stream
    <3>. QED  BY <2>1, <2>2, <2>4, <3>1 DEF BillingBook, DeletionBook
  <2>. QED  BY <2>1, <2>4, <2>5, <2>6, <2>7, StatusFrame, PaymentFrame DEF BillingBook
<1>. QED  BY <1>1, <1>2

LEMMA BookAlways == Spec => [](IInv /\ BillingBook)
<1>1. Init => IInv /\ BillingBook
  BY Initially, BookInitially
<1>2. (IInv /\ BillingBook) /\ [Next]_vars => (IInv /\ BillingBook)'
  BY NextKeeps, BookKept
<1>. QED  BY <1>1, <1>2, PTL DEF Spec

-------------------------------------------------------------------------------
\* With every event of the subscription answered, the greatest answered one is a
\* newest one of the feed, and the other way round.
LEMMA GreatestIsNewest ==
  ASSUME IInv, BillingBook, AllAnswered(billing.sub), Unambiguous(billing.sub)
  PROVE  /\ Newest(billing.sub, SubscriptionKinds, Rank) = Greatest
         /\ \E e \in Greatest : SavedOf(e)
<1>1. Updates = Stream(billing.sub, SubscriptionKinds) /\ Updates # {}
  BY DEF AllAnswered, Updates, Done, Stream
<1>2. PICK g \in Updates : SavedOf(g)
  BY <1>1 DEF BillingBook, StatusBook
<1>3. g.at = billing.at /\ Rank(g) = SavedRank
  BY <1>2 DEF SavedOf, Rank, SavedRank
<1>4. \A f \in Updates : f.at < billing.at \/ (f.at = billing.at /\ Rank(f) <= SavedRank)
  BY DEF BillingBook, StatusBook
<1>5. /\ billing.at \in Nat /\ SavedRank \in Nat
      /\ \A f \in Updates : f.at \in Nat /\ Rank(f) \in Nat
  BY Sent, Ranks DEF Billings, Updates, Done, Rank, SavedRank
<1>6. ASSUME NEW e \in Updates
      PROVE  (\A f \in Updates : f.at < e.at \/ (f.at = e.at /\ Rank(f) <= Rank(e))) <=>
                 (e.at = billing.at /\ Rank(e) = SavedRank)
  BY <1>2, <1>3, <1>4, <1>5
<1>7. Newest(billing.sub, SubscriptionKinds, Rank) = Greatest
  BY <1>1, <1>6 DEF Newest, Greatest
<1>. QED  BY <1>2, <1>3, <1>7 DEF Greatest

\* Whatever the order, the repetitions and the refusals, once every event of the
\* current subscription is answered its status and its payment status are those of
\* the newest event of each stream.
THEOREM NewestWins == Spec => []NewestEventWins
<1>1. ASSUME IInv, BillingBook, AllAnswered(billing.sub), Unambiguous(billing.sub)
      PROVE  /\ billing.status \in {e.status : e \in Newest(billing.sub, SubscriptionKinds, Rank)}
             /\ \A e \in Newest(billing.sub, InvoiceKinds, PayRank) : billing.pay = PayStatus[e.kind]
  <2>1. billing.status \in {e.status : e \in Newest(billing.sub, SubscriptionKinds, Rank)}
    BY <1>1, GreatestIsNewest DEF SavedOf
  <2>2. ASSUME NEW e \in Newest(billing.sub, InvoiceKinds, PayRank)
        PROVE  billing.pay = PayStatus[e.kind]
    <3>1. Invoices = Stream(billing.sub, InvoiceKinds) /\ e \in Invoices
      BY <1>1 DEF AllAnswered, Invoices, Done, Stream, Newest
    <3>2. PICK g \in Invoices : PaymentOf(g)
      BY <1>1, <3>1 DEF BillingBook, PaymentBook
    <3>3. g.at < e.at \/ (g.at = e.at /\ PayRank(g) <= PayRank(e))
      BY <3>1 DEF Newest
    <3>4. e.at < g.at \/ (e.at = g.at /\ PayRank(e) <= PayRank(g))
      BY <1>1, <3>1, <3>2 DEF BillingBook, PaymentBook, PaymentOf, PayRank
    <3>5. /\ e.kind \in InvoiceKinds /\ g.kind \in InvoiceKinds /\ e.at \in Nat /\ g.at \in Nat
          /\ PayRank(e) \in Nat /\ PayRank(g) \in Nat
      BY <1>1, Sent, PayRanks, <3>1 DEF Invoices, Done, PayRank
    <3>6. PayRank(e) = PayRank(g)
      BY <3>3, <3>4, <3>5
    <3>7. e.kind = g.kind
      BY <3>5, <3>6, PayRanks DEF PayRank
    <3>. QED  BY <3>2, <3>7 DEF PaymentOf
  <2>. QED  BY <2>1, <2>2
<1>2. IInv /\ BillingBook => NewestEventWins
  BY <1>1 DEF NewestEventWins
<1>. QED  BY <1>2, BookAlways, PTL

\* An active subscription gives the organization the lowest plan its newest events
\* name, unless an operator or a user stepped in.
THEOREM PlanFollows == Spec => []PlanFollowsBilling
<1>1. IInv /\ BillingBook => PlanFollowsBilling
  BY GreatestIsNewest DEF PlanFollowsBilling, BillingBook, PlanBook
<1>. QED  BY <1>1, BookAlways, PTL

\* Whatever arrives later, again, out of order or in the same second, a subscription
\* whose last event is its deletion stays ended once that has been answered, and the
\* organization stays on solo until a user or an operator steps in or another
\* subscription takes over.
THEOREM DeletionIsFinal == Spec => []DeletionStands
<1>1. ASSUME IInv, BillingBook, NEW e \in Stream(billing.sub, {"deleted"}), Answered(e),
             \A f \in Stream(billing.sub, SubscriptionKinds) : f.at <= e.at
      PROVE  Ended(billing) /\ (changes = 0 => org.plan = "solo")
  <2>1. e \in Updates /\ e.kind = "deleted"
    BY <1>1 DEF Stream, Updates, Done, SubscriptionKinds
  <2>. QED  BY <1>1, <2>1 DEF BillingBook, DeletionBook
<1>2. IInv /\ BillingBook => DeletionStands
  BY <1>1 DEF DeletionStands
<1>. QED  BY <1>2, BookAlways, PTL
===============================================================================
