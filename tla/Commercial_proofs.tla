-------------------------- MODULE Commercial_proofs --------------------------
(***************************************************************************)
(* Safety of Commercial for any locations, plans, feeds, workers, points,  *)
(* budgets and bounds.                                                     *)
(*                                                                         *)
(* Workers meet in three places, and the invariant IInv says for each what *)
(* its holder may rely on: the fence of a run (Fenced), the organization's *)
(* lock (Covered, Cleared, Seated) and the unique key of a brief (Keyed).  *)
(* The rest is what the run's own rows remember of the steps taken:        *)
(* GridBook, ListingBook, BriefBook.                                       *)
(***************************************************************************)
EXTENDS Commercial, FiniteSetTheorems, TLAPS

Dispatching == {"fenced", "first", "next", "calling", "landed", "ambiguous", "closing",
                "denying", "naming", "totalling", "summing"}
Buying == {"first", "next", "calling", "landed"}
Serving == {"opened", "held", "denied", "cleared", "private", "unfenced", "managed",
            "recording", "settling", "ending"}
Unsold == {"opened", "held", "denied", "cleared", "private", "unfenced"}

\* The run's job exists once its request has saved it, and only a behaviour that
\* wants briefs serves them.
Wanted ==
  /\ wanted \in {"nothing", "grid", "listing", "brief"}
  /\ request # "none" => wanted \in {"grid", "listing"}
  /\ job.status # "none" => request = "saved"
  /\ job.status \in {"queued", "running"} => job.retries <= MaxRetries
  /\ request # "saved" => grid = "none" /\ listing = "none"
  /\ wanted # "grid" => grid = "none"
  /\ wanted # "listing" => listing = "none"
  /\ \A w \in Workers :
       /\ at[w] \in Dispatching \cup {"waiting"} => request = "saved"
       /\ at[w] \in Serving \cup {"asking"} => wanted = "brief"
       /\ at[w] \in {"next", "denying", "totalling", "summing"} => wanted = "grid"

\* A dispatch under way holds its run's fence.
Fenced == \A w \in Workers : at[w] \in Dispatching => fence = w

\* What is about to be turned on fits, and the desk holds the organization.
Seated ==
  desk # {} => /\ orgLock = Desk
               /\ org.enforced => Cardinality(ActivePlaces \cup desk) <= LimitInForce(org)

RunPlace == IF wanted = "grid" THEN Site ELSE Shop

Covered ==
  \A w \in Workers : at[w] \in {"calling", "landed"} =>
    Owns(w) /\ orgLock = w /\ ~Terminal(wanted) /\ ProviderWorkAllowed(RunPlace)

Authorizing(w) == at[w] \in {"cleared", "private"} \/ (at[w] = "managed" /\ turn[w].event = 0)

Cleared ==
  \A w \in Workers :
    /\ Authorizing(w) => orgLock = w /\ ~Terminal(Key(w)) /\ ProviderWorkAllowed(Office)
    /\ at[w] = "private" => canary = [event |-> turn[w].event, on |-> TRUE]
    /\ at[w] \in {"private", "unfenced"} => turn[w].event # 0

\* A request past its first commit has the row of its key to itself.
Keyed ==
  \A w \in Workers : at[w] \in Serving =>
    /\ brief[Key(w)] = "running"
    /\ \A v \in Workers : v # w /\ at[v] \in Serving => Key(v) # Key(w)

\* While points are bought the run says submitting and what is left to submit is
\* what is queued; a queued point was sold only while the run says submitting.
GridBook ==
  /\ \A p \in Points : sold[p] <= 1
  /\ grid # "submitting" => \A p \in With("queued") : sold[p] = 0
  /\ grid \in {"completed", "failed"} => Terminal("grid") /\ With("queued") = {}
  /\ wanted = "grid" => \A w \in Workers :
       /\ at[w] \in Buying => left # {} /\ left = With("queued") /\ grid = "submitting"
       /\ at[w] \in {"first", "next", "calling"} => \A p \in left : sold[p] = 0
       /\ at[w] = "landed" => \A p \in left \ Batch : sold[p] = 0
       /\ at[w] \in {"totalling", "summing", "naming"} => With("queued") = {}
       /\ at[w] \in {"closing", "naming"} \/ (at[w] = "denying" /\ ~started) => Terminal("grid")

ListingBook ==
  /\ Len(charged) <= 1
  /\ listing \in {"none", "queued"} => charged = <<>>
  /\ listing \in {"completed", "failed"} => Terminal("listing")
  /\ wanted = "listing" => \A w \in Workers :
       /\ at[w] \in {"first", "calling"} => charged = <<>>
       /\ at[w] \in {"first", "calling", "landed", "ambiguous", "naming"} => listing = "running"
       /\ at[w] = "closing" => listing \in {"queued", "running"}
       /\ at[w] \in {"closing", "naming"} => Terminal("listing")

BriefBook ==
  /\ \A k \in BriefKeys :
       /\ bills[k].calls <= 1 /\ bills[k].sold <= MaxTries
       /\ brief[k] = "none" => bills[k] = NoBills /\ ledger[k].reserved = 0
       /\ brief[k] \in {"validated", "fallback"} => ledger[k].reserved = 0 \/ Terminal(k)
  /\ \A w \in Workers :
       /\ at[w] \in Unsold => bills[Key(w)] = NoBills
       /\ at[w] = "managed" => /\ bills[Key(w)].calls = 1
                               /\ bills[Key(w)].sold <= turn[w].tries /\ turn[w].tries < MaxTries
       /\ at[w] = "opened" => ledger[Key(w)].reserved = 0
       /\ at[w] \in {"denied", "ending"} => Terminal(Key(w))

\* With nobody killed and the canary as it was at first or started or stopped
\* once, the only private prompt is recorded, under way, or the canary is off.
Asked ==
  /\ canary.event > 0
  /\ kills = 0 /\ canary.event <= 2 =>
       \/ asked = 0
       \/ /\ asked = 1
          /\ \/ prompts >= 1
             \/ canary = [event |-> 2, on |-> FALSE]
             \/ \E w \in Workers : at[w] = "private"

IInv ==
  /\ TypeOK /\ Wanted /\ Fenced /\ Seated /\ Covered /\ Cleared /\ Keyed
  /\ GridBook /\ ListingBook /\ BriefBook /\ Asked

-------------------------------------------------------------------------------
\* What a part of the invariant does not mention cannot disturb it.
LEMMA AllowanceTypesFrame ==
  ASSUME AllowanceTypes, UNCHANGED <<org, place, desk, quota, changes>>
  PROVE  AllowanceTypes'
BY DEF AllowanceTypes

LEMMA BillingTypesFrame ==
  ASSUME BillingTypes, UNCHANGED <<sent, opened, receipt, billing>>
  PROVE  BillingTypes'
BY DEF BillingTypes

LEMMA SpendTypesFrame ==
  ASSUME SpendTypes, UNCHANGED <<ledger, request, job, fence, orgLock, at, started, kills, overlaps>>
  PROVE  SpendTypes'
BY DEF SpendTypes

LEMMA GridTypesFrame ==
  ASSUME GridTypes, UNCHANGED <<grid, point, view, left, void, sold>>
  PROVE  GridTypes'
BY DEF GridTypes

LEMMA ListingTypesFrame ==
  ASSUME ListingTypes, UNCHANGED <<listing, reported, charged>>
  PROVE  ListingTypes'
BY DEF ListingTypes

LEMMA BriefTypesFrame ==
  ASSUME BriefTypes, UNCHANGED <<brief, turn, canary, prompts, asked, bills>>
  PROVE  BriefTypes'
BY DEF BriefTypes

LEMMA WantedFrame ==
  ASSUME Wanted, UNCHANGED <<wanted, request, job, grid, listing, at>>
  PROVE  Wanted'
BY DEF Wanted

LEMMA FencedFrame ==
  ASSUME Fenced, UNCHANGED <<at, fence>>
  PROVE  Fenced'
BY DEF Fenced

LEMMA SeatedFrame ==
  ASSUME Seated, UNCHANGED <<desk, orgLock, org, place>>
  PROVE  Seated'
BY DEF Seated, ActivePlaces, LimitInForce

LEMMA CoveredFrame ==
  ASSUME Covered, UNCHANGED <<at, job, orgLock, ledger, wanted, org, place>>
  PROVE  Covered'
BY DEF Covered, Owns, Terminal, ProviderWorkAllowed, RunPlace, OverLimit, ActivePlaces,
       LimitInForce

LEMMA ClearedFrame ==
  ASSUME Cleared, UNCHANGED <<at, turn, orgLock, ledger, org, place, canary>>
  PROVE  Cleared'
BY DEF Cleared, Authorizing, Key, Terminal, ProviderWorkAllowed, OverLimit,
       ActivePlaces, LimitInForce

LEMMA KeyedFrame ==
  ASSUME Keyed, UNCHANGED <<at, brief, turn>>
  PROVE  Keyed'
BY DEF Keyed, Key

LEMMA GridBookFrame ==
  ASSUME GridBook, UNCHANGED <<sold, point, grid, ledger, wanted, at, left, started>>
  PROVE  GridBook'
BY DEF GridBook, With, Terminal, Batch

LEMMA ListingBookFrame ==
  ASSUME ListingBook, UNCHANGED <<charged, listing, ledger, wanted, at>>
  PROVE  ListingBook'
BY DEF ListingBook, Terminal

LEMMA BriefBookFrame ==
  ASSUME BriefBook, UNCHANGED <<bills, brief, ledger, at, turn>>
  PROVE  BriefBook'
BY DEF BriefBook, Key, Terminal

LEMMA AskedFrame ==
  ASSUME Asked, UNCHANGED <<canary, kills, asked, prompts, at>>
  PROVE  Asked'
BY DEF Asked

LEMMA Names ==
  /\ Nobody \notin Workers /\ Desk \notin Workers /\ Desk # Nobody
  /\ "grid" \in Kinds /\ "listing" \in Kinds /\ BriefKeys \subseteq Kinds
  /\ "grid" \notin BriefKeys /\ "listing" \notin BriefKeys
  /\ Site \in Locations /\ Shop \in Locations /\ Office \in Locations
BY SpendAssumption, AllowanceAssumption, GridAssumption, ListingAssumption, BriefAssumption
   DEF Kinds, BriefKeys

Ledgers == [Kinds -> [reserved : Nat, settled : SUBSET Nat, released : BOOLEAN]]

\* What an entry does to the ledger: it ends the reservation of its key and no
\* reservation that has ended is opened again.
Ends(k) ==
  /\ ledger' \in Ledgers
  /\ \A j \in Kinds : j # k => ledger'[j] = ledger[j]
  /\ \A j \in Kinds : /\ ledger'[j].reserved = ledger[j].reserved
                      /\ Terminal(j) => Terminal(j)'
  /\ Terminal(k)'

LEMMA ReleaseEnds ==
  ASSUME ledger \in Ledgers, NEW k \in Kinds, ledger' = Released(k)
  PROVE  Ends(k)
BY DEF Released, Ledgers, Terminal, Ends

LEMMA SettleEnds ==
  ASSUME ledger \in Ledgers, NEW k \in Kinds, NEW c \in Nat, ledger' = Settled(k, c)
  PROVE  Ends(k)
BY DEF Settled, Ledgers, Terminal, Ends

LEMMA ReservationFrame ==
  ASSUME ledger \in Ledgers, NEW k \in Kinds, NEW c \in Nat, ledger' = [ledger EXCEPT ![k].reserved = c]
  PROVE  /\ ledger' \in Ledgers
         /\ \A j \in Kinds : Terminal(j)' = Terminal(j) /\ (j # k => ledger'[j] = ledger[j])
BY DEF Ledgers, Terminal

Statuses == {"queued", "pending", "done", "failed"}

LEMMA Counted ==
  ASSUME NEW pts \in [Points -> Statuses], NEW s
  PROVE  /\ Count(pts, s) \in Nat
         /\ Count(pts, s) > 0 <=> \E p \in Points : pts[p] = s
<1> DEFINE S == {p \in Points : pts[p] = s}
<1>1. IsFiniteSet(S)
  BY GridAssumption, FS_Subset
<1>2. Cardinality(S) \in Nat /\ (Cardinality(S) = 0 <=> S = {})
  BY <1>1, FS_CardinalityType, FS_EmptySet
<1>. QED  BY <1>2 DEF Count

LEMMA EstimateNat == Estimate \in Nat
BY GridAssumption, FS_CardinalityType DEF Estimate

\* A refresh and the end of a dispatch: they close the run and its reservation
\* together, and neither while points are queued or pending.
LEMMA Totalled ==
  ASSUME ledger \in Ledgers, NEW pts \in [Points -> Statuses], ledger' = SettledTotals(pts)
  PROVE  /\ (\E p \in Points : pts[p] \in {"queued", "pending"}) => ledger' = ledger
         /\ (\A p \in Points : pts[p] \notin {"queued", "pending"}) => Ends("grid")
         /\ ledger' \in Ledgers /\ \A j \in Kinds : Terminal(j) => Terminal(j)'
         /\ \A j \in Kinds : j # "grid" => ledger'[j] = ledger[j]
<1>1. /\ Count(pts, "queued") \in Nat /\ Count(pts, "pending") \in Nat
      /\ Count(pts, "done") \in Nat /\ Count(pts, "failed") \in Nat
      /\ Count(pts, "queued") > 0 <=> \E p \in Points : pts[p] = "queued"
      /\ Count(pts, "pending") > 0 <=> \E p \in Points : pts[p] = "pending"
  BY Counted
<1>2. CASE \E p \in Points : pts[p] \in {"queued", "pending"}
  <2>1. ledger' = ledger
    BY <1>1, <1>2 DEF SettledTotals
  <2>. QED  BY <1>2, <2>1 DEF Terminal
<1>3. CASE \A p \in Points : pts[p] \notin {"queued", "pending"}
  <2>1. ledger' \in {Released("grid"), Settled("grid", Count(pts, "done"))}
    BY <1>1, <1>3 DEF SettledTotals
  <2>2. Ends("grid")
    BY <1>1, <2>1, ReleaseEnds, SettleEnds, Names
  <2>. QED  BY <1>3, <2>2 DEF Ends
<1>. QED  BY <1>2, <1>3

LEMMA TotalsNamed ==
  ASSUME NEW pts \in [Points -> Statuses], NEW status
  PROVE  /\ TotalsStatus(status, pts) \in {"submitting", "pending", "partial", "completed", "failed"}
         /\ TotalsStatus(status, pts) = "submitting" => status = "submitting"
         /\ status = "submitting" /\ (\E p \in Points : pts[p] = "queued")
              => TotalsStatus(status, pts) = "submitting"
         /\ TotalsStatus(status, pts) \in {"completed", "failed"}
              => \A p \in Points : pts[p] \notin {"queued", "pending"}
<1>1. /\ Count(pts, "queued") \in Nat /\ Count(pts, "pending") \in Nat
      /\ Count(pts, "queued") > 0 <=> \E p \in Points : pts[p] = "queued"
      /\ Count(pts, "pending") > 0 <=> \E p \in Points : pts[p] = "pending"
  BY Counted
<1>. QED  BY <1>1 DEF TotalsStatus, TotalsByPoints

-------------------------------------------------------------------------------
LEMMA Initially == Init => IInv
<1>. SUFFICES ASSUME Init PROVE IInv
  OBVIOUS
<1>. USE Names DEF Init, AllowanceInit, BillingInit, SpendInit, GridInit, ListingInit, BriefInit
<1>1. AllowanceTypes /\ Seated
  BY AllowanceAssumption DEF AllowanceTypes, Seated, Plans
<1>2. BillingTypes
  BY DEF BillingTypes, NoBilling
<1>3. SpendTypes
  <2>1. ledger \in [Kinds -> [reserved : Nat, settled : SUBSET Nat, released : BOOLEAN]]
    BY DEF NoEntries
  <2>2. at \in [Workers -> Steps] /\ 0 \in 0 .. MaxKills /\ 0 \in 0 .. MaxOverlaps
    BY SpendAssumption DEF Steps
  <2>3. job \in [status : {"none", "queued", "running", "completed", "dead_letter"},
                 owner : Workers \cup {Nobody}, retries : 0 .. (MaxRetries + 1)]
    BY DEF MaxRetries
  <2>. QED  BY <2>1, <2>2, <2>3 DEF SpendTypes
<1>4. GridTypes
  BY DEF GridTypes, Unread
<1>5. ListingTypes /\ ListingBook
  BY DEF ListingTypes, ListingBook
<1>6. BriefTypes
  BY DEF BriefTypes, NoTurn, NoBills, BriefKeys, Answers
<1>7. Wanted /\ Fenced /\ Covered /\ Cleared /\ Keyed
  BY DEF Wanted, Fenced, Covered, Cleared, Keyed, Dispatching, Serving, Authorizing
<1>8. GridBook
  BY DEF GridBook, Buying, With
<1>9. BriefBook
  BY BriefAssumption DEF BriefBook, Unsold, NoTurn, NoBills, BriefKeys, NoEntries, Kinds
<1>10. Asked
  BY DEF Asked
<1>. QED
  BY <1>1, <1>2, <1>3, <1>4, <1>5, <1>6, <1>7, <1>8, <1>9, <1>10 DEF IInv, TypeOK

\* With the organization free, or at the desk, nobody is inside a paid call.
LEMMA Calm ==
  ASSUME IInv, orgLock \notin Workers, UNCHANGED <<at, turn>>
  PROVE  Covered' /\ Cleared'
<1>1. \A w \in Workers : at[w] \notin {"calling", "landed"} /\ ~Authorizing(w)
  BY DEF IInv, Covered, Cleared
<1>2. Covered'
  BY <1>1 DEF Covered
<1>3. Cleared'
  BY <1>1 DEF IInv, Cleared, Authorizing
<1>. QED  BY <1>2, <1>3

LEMMA AllowanceKeeps == ASSUME IInv, AllowanceStep PROVE IInv'
<1>1. UNCHANGED <<sent, receipt, billing, opened, ledger, request, job, fence, at, started, kills,
                  overlaps, grid, point, left, view, sold, void, listing, reported, charged, brief,
                  turn, canary, prompts, asked, bills, wanted>>
  BY DEF AllowanceStep, billingVars, runVars, spendVars, gridVars, listingVars, briefVars
<1>2. AllowanceNext
  BY DEF AllowanceStep
<1>3. orgLock \in {Nobody, Desk} /\ (orgLock = Nobody => desk = {})
  BY <1>2, Names DEF AllowanceNext, CheckCapacity, ActivatePlaces, ArchivePlace, PatchPlan,
     OldWorkerSetsPlan, PatchStatus, Enforce, Unlocked, IInv, Seated
<1>4. AllowanceTypes'
  <2>1. ASSUME NEW plan \in Plans PROVE WithPlan(org, plan) \in [status : {"active", "suspended"}, plan : Plans,
                limit : {Included[p] : p \in Plans}, enforced : BOOLEAN]
    BY DEF WithPlan, IInv, TypeOK, AllowanceTypes
  <2>2. Reconciled(org) \in [status : {"active", "suspended"}, plan : Plans,
                limit : {Included[p] : p \in Plans}, enforced : BOOLEAN]
    BY DEF Reconciled, LimitInForce, IInv, TypeOK, AllowanceTypes
  <2>3. quota \in Nat /\ changes \in Nat
    BY AllowanceAssumption DEF IInv, TypeOK, AllowanceTypes
  <2>. USE <2>3 DEF Changed, IInv, TypeOK, AllowanceTypes
  <2>4. ASSUME NEW new \in SUBSET Locations, CheckCapacity(new) PROVE AllowanceTypes'
    BY <2>4 DEF CheckCapacity
  <2>5. CASE ActivatePlaces
    BY <2>2, <2>5 DEF ActivatePlaces
  <2>6. ASSUME NEW l \in Locations, ArchivePlace(l) PROVE AllowanceTypes'
    BY <2>6 DEF ArchivePlace
  <2>7. ASSUME NEW plan \in Plans, PatchPlan(plan) \/ OldWorkerSetsPlan(plan) PROVE AllowanceTypes'
    BY <2>1, <2>7 DEF PatchPlan, OldWorkerSetsPlan
  <2>8. ASSUME NEW status \in {"active", "suspended"}, PatchStatus(status) PROVE AllowanceTypes'
    BY <2>8 DEF PatchStatus
  <2>9. CASE Enforce
    <3>1. [org EXCEPT !.enforced = TRUE] \in [status : {"active", "suspended"}, plan : Plans,
                limit : {Included[p] : p \in Plans}, enforced : BOOLEAN]
      OBVIOUS
    <3>. QED  BY <2>9, <3>1 DEF Enforce
  <2>. QED  BY <1>2, <2>4, <2>5, <2>6, <2>7, <2>8, <2>9 DEF AllowanceNext
<1>5. Seated'
  <2>1. ASSUME NEW new \in SUBSET Locations, CheckCapacity(new) PROVE Seated'
    BY <2>1 DEF CheckCapacity, Seated, ActivePlaces, LimitInForce
  <2>2. CASE ActivatePlaces
    BY <2>2 DEF ActivatePlaces, Seated
  <2>3. CASE desk' = {}
    BY <2>3 DEF Seated
  <2>4. desk' = {} \/ ActivatePlaces \/ \E new \in SUBSET Locations : CheckCapacity(new)
    BY <1>2, <1>3 DEF AllowanceNext, ArchivePlace, PatchPlan, OldWorkerSetsPlan, PatchStatus, Enforce, Unlocked
  <2>. QED  BY <2>1, <2>2, <2>3, <2>4
<1>6. SpendTypes'
  <2>1. orgLock' \in Workers \cup {Nobody, Desk}
    BY <1>2, <1>3 DEF AllowanceNext, CheckCapacity, ActivatePlaces, ArchivePlace, PatchPlan,
       OldWorkerSetsPlan, PatchStatus, Enforce
  <2>. QED  BY <1>1, <2>1 DEF IInv, TypeOK, SpendTypes
<1>7. Covered' /\ Cleared'
  BY <1>1, <1>3, Calm, Names
<1>. QED
  BY <1>1, <1>4, <1>5, <1>6, <1>7, BillingTypesFrame, GridTypesFrame, ListingTypesFrame,
     BriefTypesFrame, WantedFrame, FencedFrame, KeyedFrame, GridBookFrame, ListingBookFrame,
     BriefBookFrame, AskedFrame DEF IInv, TypeOK

Billings == [sub : opened \cup {NoSub}, status : {e.status : e \in sent} \cup {"none"}, at : Nat,
             kind : SubscriptionKinds \cup {"none"}, payAt : Nat,
             pay : {PayStatus[k] : k \in InvoiceKinds} \cup {"none"},
             payKind : InvoiceKinds \cup {"none"},
             pending : opened \cup {NoSub}, confirmed : opened \cup {NoSub}]

LEMMA BillingKeeps == ASSUME IInv, BillingStep PROVE IInv'
<1>1. UNCHANGED <<place, desk, quota, changes, orgLock, sent, ledger, request, job, fence, at, started,
                  kills, overlaps, grid, point, left, view, sold, void, listing, reported, charged,
                  brief, turn, canary, prompts, asked, bills, wanted>>
  BY DEF BillingStep, BillingNext, OpenCheckout, Deliver, placeVars, runVars, spendVars, gridVars,
     listingVars, briefVars
<1>2. orgLock = Nobody /\ desk = {}
  BY Names DEF BillingStep, BillingNext, OpenCheckout, Deliver, Unlocked, IInv, Seated
<1>3. BillingTypes' /\ AllowanceTypes'
  <2>1. CASE \E s \in {e.sub : e \in sent} : OpenCheckout(s) /\ UNCHANGED org
    <3>1. PICK s \in {e.sub : e \in sent} : OpenCheckout(s) /\ UNCHANGED org
      BY <2>1
    <3>2. s \in Subs
      BY <3>1, BillingAssumption DEF IInv, TypeOK, BillingTypes, Events
    <3>3. /\ billing' = [billing EXCEPT !.pending = s] /\ opened' = opened \cup {s}
          /\ receipt' = receipt
      BY <3>1 DEF OpenCheckout
    <3>5. BillingTypes'
      BY <1>1, <3>2, <3>3 DEF IInv, TypeOK, BillingTypes
    <3>. QED  BY <1>1, <3>1, <3>5, AllowanceTypesFrame DEF IInv, TypeOK
  <2>2. CASE \E e \in sent : Deliver(e)
    <3>1. PICK e \in sent : Deliver(e)
      BY <2>2
    <3>2. e \in Events /\ e.sub \in opened /\ e.plan \in Plans
      BY <3>1, BillingAssumption DEF IInv, TypeOK, BillingTypes, Events, Deliver
    <3>3. opened' = opened /\ receipt' \in [sent -> {"none", "failed", "processed", "ignored"}]
      BY <3>1 DEF Deliver, CheckoutCompleted, SubscriptionChanged, InvoiceChanged, Answer, IInv,
         TypeOK, BillingTypes
    <3>4. billing' \in Billings
      <4>1. billing \in Billings /\ NoBilling \in Billings /\ e.status \in {f.status : f \in sent} /\ e.at \in Nat
        BY <3>2 DEF NoBilling, IInv, TypeOK, BillingTypes, Billings, Events
      <4>2. Assigned(e) \in Billings
        BY <3>2, <4>1 DEF Assigned, Billings
      <4>3. Confirmed(Assigned(e), e.sub) \in Billings
        BY <3>2, <4>2 DEF Confirmed, Billings
      <4>4. e.kind \in InvoiceKinds => PayStatus[e.kind] \in {PayStatus[k] : k \in InvoiceKinds}
        OBVIOUS
      <4>5. CASE Refused(e)
        BY <3>1, <4>1, <4>5 DEF Deliver
      <4>6. CASE CheckoutCompleted(e)
        BY <4>3, <4>6 DEF CheckoutCompleted
      <4>7. CASE SubscriptionChanged(e)
        <5>1. PICK b \in Billings : b = Confirmed(Assigned(e), e.sub)
          BY <4>3
        <5>2. billing' = billing \/ (/\ e.kind \in SubscriptionKinds
                /\ billing' = [b EXCEPT !.status = e.status, !.at = e.at, !.kind = e.kind])
          BY <4>7, <5>1 DEF SubscriptionChanged
        <5>3. e.kind \in SubscriptionKinds =>
                [b EXCEPT !.status = e.status, !.at = e.at, !.kind = e.kind] \in Billings
          BY <4>1 DEF Billings
        <5>. QED  BY <4>1, <5>2, <5>3
      <4>8. CASE InvoiceChanged(e)
        BY <4>1, <4>4, <4>8 DEF InvoiceChanged, Billings
      <4>. QED  BY <3>1, <4>5, <4>6, <4>7, <4>8 DEF Deliver
    <3>5. BillingTypes'
      BY <1>1, <3>2, <3>3, <3>4 DEF IInv, TypeOK, BillingTypes, Billings
    <3>6. org' = org \/ \E plan \in Plans : org' = WithPlan(org, plan)
      <4>1. PlanAfter(e) \in Plans
        BY <3>2 DEF PlanAfter, IInv, TypeOK, AllowanceTypes, Plans
      <4>. QED  BY <3>1, <4>1 DEF Deliver, CheckoutCompleted, SubscriptionChanged, InvoiceChanged
    <3>7. org' \in [status : {"active", "suspended"}, plan : Plans,
                    limit : {Included[p] : p \in Plans}, enforced : BOOLEAN]
      <4>1. org \in [status : {"active", "suspended"}, plan : Plans,
                     limit : {Included[p] : p \in Plans}, enforced : BOOLEAN]
        BY DEF IInv, TypeOK, AllowanceTypes
      <4>2. ASSUME NEW plan \in Plans
            PROVE  WithPlan(org, plan) \in [status : {"active", "suspended"}, plan : Plans,
                                            limit : {Included[p] : p \in Plans}, enforced : BOOLEAN]
        BY <4>1 DEF WithPlan
      <4>. QED  BY <3>6, <4>1, <4>2
    <3>8. AllowanceTypes'
      BY <1>1, <3>7 DEF IInv, TypeOK, AllowanceTypes
    <3>. QED  BY <3>5, <3>8
  <2>. QED  BY <2>1, <2>2 DEF BillingStep, BillingNext
<1>4. Seated'
  BY <1>1, <1>2 DEF Seated
<1>5. Covered' /\ Cleared'
  BY <1>1, <1>2, Calm, Names
<1>. QED
  BY <1>1, <1>3, <1>4, <1>5, SpendTypesFrame, GridTypesFrame, ListingTypesFrame,
     BriefTypesFrame, WantedFrame, FencedFrame, KeyedFrame, GridBookFrame, ListingBookFrame,
     BriefBookFrame, AskedFrame DEF IInv, TypeOK

-------------------------------------------------------------------------------
LEMMA ReserveKeeps ==
  ASSUME IInv, NEW k \in {"grid", "listing"}, wanted = k, NEW c \in Nat, NEW l, Reserve(k, c, l),
         UNCHANGED <<orgLock, gridVars, listingVars, placeVars, changes, billingVars, briefVars, wanted>>
  PROVE  IInv'
<1>1. UNCHANGED <<place, desk, quota, changes, orgLock, sent, receipt, billing, opened, job, fence, at,
                  started, kills, overlaps, grid, point, left, view, sold, void, listing, reported,
                  charged, brief, turn, canary, prompts, asked, bills, wanted>>
  BY DEF Reserve, placeVars, billingVars, gridVars, listingVars, briefVars
<1>2. /\ request = "none" /\ request' = "reserved" /\ orgLock = Nobody /\ desk = {}
      /\ org' = Reconciled(org)
  BY Names DEF Reserve, Unlocked, IInv, Seated
<1>3. ledger \in Ledgers /\ k \in Kinds /\ k \notin BriefKeys
  BY Names DEF IInv, TypeOK, SpendTypes, Ledgers
<1>4. /\ ledger' \in Ledgers /\ \A j \in Kinds : Terminal(j)' = Terminal(j)
      /\ \A j \in BriefKeys : ledger'[j] = ledger[j]
  <2>1. CASE ledger' = [ledger EXCEPT ![k].reserved = c]
    BY <1>3, <2>1, ReservationFrame, Names
  <2>2. CASE ledger' = ledger
    BY <1>3, <2>2 DEF Terminal
  <2>. QED  BY <2>1, <2>2 DEF Reserve
<1>5. SpendTypes'
  BY <1>1, <1>2, <1>4 DEF IInv, TypeOK, SpendTypes, Ledgers
<1>6. AllowanceTypes'
  BY <1>1, <1>2 DEF Reconciled, LimitInForce, IInv, TypeOK, AllowanceTypes
<1>7. Seated' /\ Covered' /\ Cleared'
  BY <1>1, <1>2, Calm, Names DEF Seated
<1>8. Wanted'
  BY <1>1, <1>2 DEF IInv, Wanted
<1>9. GridBook'
  BY <1>1, <1>4, Names DEF IInv, GridBook, With, Batch
<1>10. ListingBook'
  BY <1>1, <1>4, Names DEF IInv, ListingBook
<1>11. BriefBook'
  <2>1. \A w \in Workers : Key(w) \in BriefKeys /\ Key(w)' = Key(w)
    BY <1>1 DEF IInv, TypeOK, BriefTypes, Key
  <2>. QED  BY <1>1, <1>4, <2>1, Names DEF IInv, BriefBook
<1>. QED
  BY <1>1, <1>5, <1>6, <1>7, <1>8, <1>9, <1>10, <1>11, BillingTypesFrame, GridTypesFrame,
     ListingTypesFrame, BriefTypesFrame, FencedFrame, KeyedFrame, AskedFrame DEF IInv, TypeOK

LEMMA SaveKeeps ==
  ASSUME IInv, SaveRequest,
         \/ wanted = "grid" /\ grid' = "queued" /\ UNCHANGED listing
         \/ wanted = "listing" /\ listing' = "queued" /\ UNCHANGED grid,
         UNCHANGED <<point, left, view, sold, void, reported, charged, org, orgLock, placeVars, changes,
                     billingVars, briefVars, wanted>>
  PROVE  IInv'
<1>1. UNCHANGED <<org, place, desk, quota, changes, orgLock, sent, receipt, billing, opened, ledger,
                  fence, at, started, kills, overlaps, point, left, view, sold, void, reported,
                  charged, brief, turn, canary, prompts, asked, bills, wanted>>
  BY DEF SaveRequest, placeVars, billingVars, briefVars
<1>2. /\ request = "reserved" /\ request' = "saved" /\ grid = "none" /\ listing = "none"
      /\ job.status = "none" /\ job' = [status |-> "queued", owner |-> Nobody, retries |-> 0]
      /\ grid' \in {"none", "queued"} /\ listing' \in {"none", "queued"}
      /\ \A w \in Workers : at[w] \notin Dispatching \cup {"waiting"}
  BY DEF SaveRequest, IInv, Wanted, TypeOK, SpendTypes
<1>3. SpendTypes'
  <2>1. job' \in [status : {"none", "queued", "running", "completed", "dead_letter"},
                  owner : Workers \cup {Nobody}, retries : 0..(MaxRetries + 1)]
    BY <1>2 DEF MaxRetries
  <2>. QED  BY <1>1, <1>2, <2>1 DEF IInv, TypeOK, SpendTypes
<1>4. GridTypes' /\ ListingTypes'
  BY <1>1, <1>2 DEF IInv, TypeOK, GridTypes, ListingTypes
<1>5. Wanted'
  BY <1>1, <1>2 DEF IInv, Wanted, MaxRetries
<1>6. Covered'
  BY <1>1, <1>2 DEF Covered, Dispatching
<1>7. GridBook'
  BY <1>1, <1>2 DEF IInv, GridBook, With, Batch, Buying, Dispatching, Terminal
<1>8. ListingBook'
  BY <1>1, <1>2 DEF IInv, ListingBook, Dispatching, Terminal
<1>. QED
  BY <1>1, <1>3, <1>4, <1>5, <1>6, <1>7, <1>8, AllowanceTypesFrame, BillingTypesFrame, BriefTypesFrame,
     FencedFrame, SeatedFrame, ClearedFrame, KeyedFrame, BriefBookFrame, AskedFrame DEF IInv, TypeOK

LEMMA LoseKeeps ==
  ASSUME IInv, LoseRequest,
         UNCHANGED <<org, orgLock, gridVars, listingVars, placeVars, changes, billingVars, briefVars, wanted>>
  PROVE  IInv'
<1>1. UNCHANGED <<org, place, desk, quota, changes, orgLock, sent, receipt, billing, opened, ledger,
                  job, fence, at, started, overlaps, grid, point, left, view, sold, void, listing,
                  reported, charged, brief, turn, canary, prompts, asked, bills, wanted>>
  BY DEF LoseRequest, placeVars, billingVars, gridVars, listingVars, briefVars
<1>2. request = "reserved" /\ request' = "none" /\ kills \in Nat /\ kills' = kills + 1
      /\ kills < MaxKills
  BY DEF LoseRequest, IInv, TypeOK, SpendTypes
<1>3. SpendTypes'
  BY <1>1, <1>2, SpendAssumption DEF IInv, TypeOK, SpendTypes
<1>4. Wanted'
  BY <1>1, <1>2 DEF IInv, Wanted
<1>5. Asked'
  BY <1>1, <1>2 DEF IInv, Asked
<1>. QED
  BY <1>1, <1>3, <1>4, <1>5, AllowanceTypesFrame, BillingTypesFrame, GridTypesFrame, ListingTypesFrame,
     BriefTypesFrame, FencedFrame, SeatedFrame, CoveredFrame, ClearedFrame, KeyedFrame, GridBookFrame,
     ListingBookFrame, BriefBookFrame DEF IInv, TypeOK

LEMMA RequestKeeps == ASSUME IInv, RequestStep PROVE IInv'
<1>1. CASE wanted = "grid" /\ Reserve("grid", Estimate, Site) /\ UNCHANGED <<orgLock, gridVars, listingVars>>
  BY <1>1, ReserveKeeps, EstimateNat DEF RequestStep
<1>2. CASE wanted = "listing" /\ Reserve("listing", 1, Shop) /\ UNCHANGED <<orgLock, gridVars, listingVars>>
  BY <1>2, ReserveKeeps DEF RequestStep
<1>3. CASE wanted = "grid" /\ SaveGrid /\ UNCHANGED listingVars
  BY <1>3, SaveKeeps DEF RequestStep, SaveGrid, listingVars
<1>4. CASE wanted = "listing" /\ SaveListing /\ UNCHANGED gridVars
  BY <1>4, SaveKeeps DEF RequestStep, SaveListing, gridVars
<1>5. CASE LoseRequest /\ UNCHANGED <<org, orgLock, gridVars, listingVars>>
  BY <1>5, LoseKeeps DEF RequestStep
<1>. QED  BY <1>1, <1>2, <1>3, <1>4, <1>5 DEF RequestStep

Outside == {"idle", "waiting", "done", "raised"}

\* A worker between its claim and its report that holds nothing.
LEMMA Aside ==
  ASSUME IInv, NEW w \in Workers, at[w] \in Outside, NEW s \in Outside, at' = [at EXCEPT ![w] = s],
         UNCHANGED <<org, place, desk, orgLock, ledger, fence, started, kills, grid, point,
                     left, sold, listing, charged, brief, turn, canary, prompts, asked, bills, wanted>>
  PROVE  /\ at' \in [Workers -> Steps] /\ \A v \in Workers : v # w => at'[v] = at[v]
         /\ at'[w] = s
         /\ Fenced' /\ Seated' /\ Cleared' /\ Keyed' /\ GridBook' /\ ListingBook' /\ BriefBook' /\ Asked'
<1>1. /\ at' \in [Workers -> Steps] /\ at'[w] = s
      /\ \A v \in Workers : v # w => at'[v] = at[v]
  BY DEF IInv, TypeOK, SpendTypes, Steps, Outside
<1>2. \A v \in Workers : at'[v] = at[v] \/ at'[v] \in Outside
  BY <1>1
<1>. USE <1>2 DEF Outside, IInv
<1>3. Fenced'
  BY DEF Fenced, Dispatching
<1>4. Cleared'
  BY DEF Cleared, Authorizing, Key, Terminal, ProviderWorkAllowed, OverLimit, ActivePlaces, LimitInForce
<1>5. Keyed'
  BY DEF Keyed, Key, Serving
<1>6. GridBook'
  BY DEF GridBook, With, Batch, Buying, Terminal
<1>7. ListingBook'
  BY DEF ListingBook, Terminal
<1>8. BriefBook'
  BY DEF BriefBook, Key, Unsold, Terminal
<1>9. Asked'
  <2>1. ASSUME NEW v \in Workers, at[v] = "private" PROVE at'[v] = "private"
    BY <1>1, <2>1
  <2>. QED  BY <2>1 DEF Asked
<1>. QED  BY <1>1, <1>3, <1>4, <1>5, <1>6, <1>7, <1>8, <1>9, SeatedFrame

LEMMA ClaimKeeps == ASSUME IInv, NEW w \in Workers, Claim(w) PROVE IInv'
<1>1. UNCHANGED <<org, place, desk, quota, changes, orgLock, sent, receipt, billing, opened, ledger,
                  request, fence, started, kills, grid, point, left, view, sold, void, listing,
                  reported, charged, brief, turn, canary, prompts, asked, bills, wanted>>
  BY DEF Claim, ClaimJob, allowanceVars, billingVars, gridVars, listingVars, briefVars
<1>2. /\ at[w] = "idle" /\ ~RowLocked /\ job.status \in {"queued", "running"}
      /\ job' = [job EXCEPT !.status = "running", !.owner = w]
      /\ at' = [at EXCEPT ![w] = "waiting"]
      /\ overlaps' \in 0 .. MaxOverlaps
  BY SpendAssumption DEF Claim, ClaimJob, Take, IInv, TypeOK, SpendTypes
<1>3. /\ at' \in [Workers -> Steps] /\ \A v \in Workers : v # w => at'[v] = at[v]
      /\ at'[w] = "waiting" /\ Fenced' /\ Seated' /\ Cleared' /\ Keyed' /\ GridBook' /\ ListingBook'
      /\ BriefBook' /\ Asked'
  BY <1>1, <1>2, Aside DEF Outside
<1>4. \A v \in Workers : at[v] \notin {"calling", "landed"}
  BY <1>2 DEF RowLocked, IInv, Covered
<1>5. Covered'
  BY <1>3, <1>4 DEF Covered
<1>6. SpendTypes'
  BY <1>1, <1>2, <1>3 DEF IInv, TypeOK, SpendTypes
<1>7. Wanted'
  BY <1>1, <1>2, <1>3 DEF IInv, Wanted, TypeOK, SpendTypes, Dispatching, Serving
<1>. QED
  BY <1>1, <1>3, <1>5, <1>6, <1>7, AllowanceTypesFrame, BillingTypesFrame, GridTypesFrame,
     ListingTypesFrame, BriefTypesFrame DEF IInv, TypeOK

\* What the steps of a drain leave alone.
DrainRest == UNCHANGED <<placeVars, changes, billingVars, briefVars, wanted>>

LEMMA ReportKeeps ==
  ASSUME IInv, NEW w \in Workers, Report(w), DrainRest, UNCHANGED <<org, orgLock, gridVars, listingVars>>
  PROVE  IInv'
<1>1. UNCHANGED <<org, place, desk, quota, changes, orgLock, sent, receipt, billing, opened, ledger,
                  request, fence, started, kills, overlaps, grid, point, left, view, sold, void,
                  listing, reported, charged, brief, turn, canary, prompts, asked, bills, wanted>>
  BY DEF Report, DrainRest, placeVars, billingVars, gridVars, listingVars, briefVars
<1>2. at[w] \in {"done", "raised"} /\ at' = [at EXCEPT ![w] = "idle"]
  BY DEF Report
<1>3. /\ at' \in [Workers -> Steps] /\ \A v \in Workers : v # w => at'[v] = at[v]
      /\ at'[w] = "idle" /\ Fenced' /\ Seated' /\ Cleared' /\ Keyed' /\ GridBook' /\ ListingBook'
      /\ BriefBook' /\ Asked'
  BY <1>1, <1>2, Aside DEF Outside
<1>4. /\ ~Owns(w) => job' = job
      /\ job.status = "none" => job'.status = "none"
      /\ job'.status \in {"queued", "running"} => job'.retries <= MaxRetries
      /\ job' \in [status : {"none", "queued", "running", "completed", "dead_letter"},
                   owner : Workers \cup {Nobody}, retries : 0..(MaxRetries + 1)]
  <2>. USE DEF Report, Owns, IInv, TypeOK, SpendTypes, Wanted, MaxRetries
  <2>1. CASE ~Owns(w)
    BY <2>1
  <2>2. CASE Owns(w) /\ at[w] = "done"
    BY <2>2
  <2>3. CASE Owns(w) /\ at[w] = "raised"
    <3>1. job.retries \in 0 .. 2
      BY <2>3
    <3>. QED  BY <2>3, <3>1
  <2>. QED  BY <1>2, <2>1, <2>2, <2>3
<1>5. Covered'
  <2>1. ASSUME NEW v \in Workers, at[v] \in {"calling", "landed"} PROVE job' = job
    <3>1. Owns(v) /\ v # w
      BY <1>2, <2>1 DEF IInv, Covered
    <3>. QED  BY <1>4, <3>1 DEF Owns
  <2>. QED
    BY <1>1, <1>3, <2>1 DEF IInv, Covered, Owns, Terminal, ProviderWorkAllowed, RunPlace, OverLimit,
                           ActivePlaces, LimitInForce
<1>6. SpendTypes'
  BY <1>1, <1>3, <1>4 DEF IInv, TypeOK, SpendTypes
<1>7. Wanted'
  BY <1>1, <1>3, <1>4 DEF IInv, Wanted, TypeOK, SpendTypes, Dispatching, Serving
<1>. QED
  BY <1>1, <1>3, <1>5, <1>6, <1>7, AllowanceTypesFrame, BillingTypesFrame, GridTypesFrame,
     ListingTypesFrame, BriefTypesFrame DEF IInv, TypeOK

LEMMA BusyKeeps ==
  ASSUME IInv, NEW w \in Workers, FenceBusy(w), DrainRest, UNCHANGED <<org, orgLock, gridVars, listingVars>>
  PROVE  IInv'
<1>1. UNCHANGED <<org, place, desk, quota, changes, orgLock, sent, receipt, billing, opened, ledger,
                  request, job, fence, started, kills, overlaps, grid, point, left, view, sold, void,
                  listing, reported, charged, brief, turn, canary, prompts, asked, bills, wanted>>
  BY DEF FenceBusy, DrainRest, placeVars, billingVars, gridVars, listingVars, briefVars
<1>2. at[w] = "waiting" /\ at' = [at EXCEPT ![w] = "raised"]
  BY DEF FenceBusy
<1>3. /\ at' \in [Workers -> Steps] /\ \A v \in Workers : v # w => at'[v] = at[v]
      /\ at'[w] = "raised" /\ Fenced' /\ Seated' /\ Cleared' /\ Keyed' /\ GridBook' /\ ListingBook'
      /\ BriefBook' /\ Asked'
  BY <1>1, <1>2, Aside DEF Outside
<1>4. Covered'
  BY <1>1, <1>3 DEF IInv, Covered, Owns, Terminal, ProviderWorkAllowed, RunPlace, OverLimit,
                   ActivePlaces, LimitInForce
<1>5. SpendTypes'
  BY <1>1, <1>3 DEF IInv, TypeOK, SpendTypes
<1>6. Wanted'
  BY <1>1, <1>3 DEF IInv, Wanted, Dispatching, Serving
<1>. QED
  BY <1>1, <1>3, <1>4, <1>5, <1>6, AllowanceTypesFrame, BillingTypesFrame, GridTypesFrame,
     ListingTypesFrame, BriefTypesFrame DEF IInv, TypeOK

LEMMA TakeFenceKeeps ==
  ASSUME IInv, NEW w \in Workers, TakeFence(w), DrainRest, UNCHANGED <<org, orgLock, gridVars, listingVars>>
  PROVE  IInv'
<1>1. UNCHANGED <<org, place, desk, quota, changes, orgLock, sent, receipt, billing, opened, ledger,
                  request, job, kills, overlaps, grid, point, left, view, sold, void,
                  listing, reported, charged, brief, turn, canary, prompts, asked, bills, wanted>>
  BY DEF TakeFence, DrainRest, placeVars, billingVars, gridVars, listingVars, briefVars
<1>2. at[w] = "waiting" /\ at' = [at EXCEPT ![w] = "fenced"] /\ fence = Nobody /\ fence' = w
      /\ started' = FALSE
  BY DEF TakeFence
<1>3. /\ at' \in [Workers -> Steps] /\ at'[w] = "fenced"
      /\ \A v \in Workers : v # w => at'[v] = at[v]
  BY <1>2 DEF IInv, TypeOK, SpendTypes, Steps
<1>4. request = "saved" /\ wanted \in {"grid", "listing"} /\ \A v \in Workers : at[v] \notin Serving \cup {"asking"}
  BY <1>2 DEF IInv, Wanted
<1>5. \A v \in Workers : at[v] \notin Dispatching
  BY <1>2, Names DEF IInv, Fenced
<1>. USE <1>1, <1>2, <1>3, <1>4, <1>5 DEF IInv
<1>6. SpendTypes'
  BY DEF TypeOK, SpendTypes
<1>7. Wanted'
  BY DEF Wanted, Dispatching, Serving
<1>8. Fenced' /\ Covered'
  BY DEF Fenced, Covered, Dispatching
<1>9. Cleared' /\ Keyed'
  BY DEF Cleared, Authorizing, Keyed, Serving
<1>10. GridBook'
  BY DEF GridBook, With, Terminal, Buying, Dispatching
<1>11. ListingBook'
  BY DEF ListingBook, Terminal, Dispatching
<1>12. BriefBook'
  BY DEF BriefBook, Unsold, Serving, Key, Terminal
<1>13. Asked'
  BY DEF Asked, Serving
<1>. QED
  BY <1>6, <1>7, <1>8, <1>9, <1>10, <1>11, <1>12, <1>13, AllowanceTypesFrame, BillingTypesFrame,
     GridTypesFrame, ListingTypesFrame, BriefTypesFrame, SeatedFrame DEF TypeOK

LEMMA KillKeeps == ASSUME IInv, NEW w \in Workers, Kill(w) PROVE IInv'
<1>1. UNCHANGED <<org, place, desk, quota, changes, sent, receipt, billing, opened, ledger, request,
                  job, overlaps, grid, point, left, view, sold, void, listing, reported, charged, brief,
                  canary, prompts, asked, bills, wanted>>
  BY DEF Kill, KillDrain, placeVars, billingVars, gridVars, listingVars
<1>2. /\ at' = [at EXCEPT ![w] = "idle"] /\ turn' = [turn EXCEPT ![w] = NoTurn]
      /\ fence' = IF fence = w THEN Nobody ELSE fence
      /\ started' = IF fence = w THEN FALSE ELSE started
      /\ orgLock' = IF orgLock = w THEN Nobody ELSE orgLock
      /\ kills < MaxKills /\ kills' = kills + 1
  BY DEF Kill, KillDrain
<1>3. /\ at' \in [Workers -> Steps] /\ at'[w] = "idle"
      /\ \A v \in Workers : v # w => at'[v] = at[v] /\ turn'[v] = turn[v]
      /\ turn'[w] = NoTurn
      /\ kills \in Nat /\ kills' # 0
  BY <1>2 DEF IInv, TypeOK, SpendTypes, BriefTypes, Steps
<1>4. BriefTypes'
  BY <1>1, <1>2 DEF IInv, TypeOK, BriefTypes, NoTurn, BriefKeys, Answers
<1>. USE <1>1, <1>2, <1>3 DEF IInv
<1>5. SpendTypes'
  <2>1. kills' \in 0 .. MaxKills
    BY SpendAssumption DEF TypeOK, SpendTypes
  <2>2. fence' \in Workers \cup {Nobody} /\ orgLock' \in Workers \cup {Nobody, Desk} /\ started' \in BOOLEAN
    BY DEF TypeOK, SpendTypes
  <2>. QED  BY <2>1, <2>2 DEF TypeOK, SpendTypes
<1>6. Wanted'
  BY DEF Wanted, Dispatching, Serving
<1>7. Fenced' /\ Seated'
  BY Names DEF Fenced, Seated, Dispatching, ActivePlaces, LimitInForce
<1>8. Covered'
  BY DEF Covered, Owns, Terminal, ProviderWorkAllowed, RunPlace, OverLimit, ActivePlaces, LimitInForce
<1>9. Cleared'
  BY DEF Cleared, Authorizing, Key, Terminal, ProviderWorkAllowed, OverLimit, ActivePlaces, LimitInForce
<1>10. Keyed'
  BY DEF Keyed, Key, Serving
<1>11. GridBook'
  BY DEF GridBook, With, Batch, Terminal, Buying, Fenced, Dispatching
<1>12. ListingBook'
  BY DEF ListingBook, Terminal
<1>13. BriefBook'
  BY DEF BriefBook, Unsold, Key, Terminal, NoTurn
<1>14. Asked'
  BY DEF Asked
<1>. QED
  BY <1>4, <1>5, <1>6, <1>7, <1>8, <1>9, <1>10, <1>11, <1>12, <1>13, <1>14, AllowanceTypesFrame,
     BillingTypesFrame, GridTypesFrame, ListingTypesFrame DEF TypeOK

-------------------------------------------------------------------------------
\* The worker of a dispatch goes from its step to step s, or leaves the dispatch.
DispatchStep(w, s) ==
  /\ at' = [at EXCEPT ![w] = s]
  /\ fence' = IF s \in {"done", "raised"} THEN Nobody ELSE fence
  /\ started' \in BOOLEAN
  /\ DrainRest /\ Spends

After == Dispatching \cup {"done", "raised"}

\* It is alone: every other worker is outside, and no briefs are served.
LEMMA Alone ==
  ASSUME IInv, NEW w \in Workers, at[w] \in Dispatching, NEW s \in After, DispatchStep(w, s)
  PROVE  /\ at' \in [Workers -> Steps] /\ at'[w] = s /\ fence = w
         /\ \A v \in Workers : v # w => at'[v] = at[v] /\ at[v] \notin Dispatching
         /\ \A v \in Workers : at[v] \notin Serving \cup {"asking"}
         /\ wanted \in {"grid", "listing"} /\ request = "saved"
         /\ wanted' = wanted /\ UNCHANGED <<place, desk, quota, changes, sent, receipt, billing, opened,
                              brief, turn, canary, prompts, asked, bills, request, job, kills, overlaps>>
<1>1. /\ at' \in [Workers -> Steps] /\ at'[w] = s /\ \A v \in Workers : v # w => at'[v] = at[v]
  BY DEF DispatchStep, IInv, TypeOK, SpendTypes, After, Dispatching, Steps
<1>2. fence = w /\ \A v \in Workers : v # w => at[v] \notin Dispatching
  BY DEF IInv, Fenced
<1>3. /\ wanted \in {"grid", "listing"} /\ request = "saved"
      /\ \A v \in Workers : at[v] \notin Serving \cup {"asking"}
  BY DEF IInv, Wanted
<1>. QED
  BY <1>1, <1>2, <1>3 DEF DispatchStep, DrainRest, Spends, placeVars, billingVars, briefVars

LEMMA DispatchKeeps ==
  ASSUME IInv, NEW w \in Workers, at[w] \in Dispatching, NEW s \in After, DispatchStep(w, s),
         ledger' \in Ledgers, \A k \in BriefKeys : ledger'[k] = ledger[k],
         org' \in {org, Reconciled(org)}, orgLock' \in Workers \cup {Nobody, Desk},
         orgLock \in Workers \cup {Nobody} \/ UNCHANGED <<org, orgLock>>,
         wanted = "grid" \/ (UNCHANGED grid /\ s \notin {"next", "denying", "totalling", "summing"}),
         wanted = "listing" \/ UNCHANGED listing
  PROVE  /\ AllowanceTypes' /\ BillingTypes' /\ SpendTypes' /\ BriefTypes'
         /\ Wanted' /\ Fenced' /\ Seated' /\ Cleared' /\ Keyed' /\ BriefBook' /\ Asked'
         /\ s \notin {"calling", "landed"} => Covered'
<1>1. AllowanceTypes'
  BY Alone DEF Reconciled, LimitInForce, IInv, TypeOK, AllowanceTypes
<1>2. BillingTypes' /\ BriefTypes'
  BY Alone, BillingTypesFrame, BriefTypesFrame DEF IInv, TypeOK
<1>3. SpendTypes'
  BY Alone DEF DispatchStep, Ledgers, IInv, TypeOK, SpendTypes
<1>4. Wanted'
  BY Alone DEF After, Dispatching, Serving, IInv, Wanted
<1>5. Fenced'
  BY Alone DEF DispatchStep, After, Dispatching, Fenced
<1>6. Seated'
  BY Alone, Names, SeatedFrame DEF IInv, Seated
<1>7. \A v \in Workers : at'[v] \notin Serving
  BY Alone DEF After, Dispatching, Serving
<1>8. Cleared' /\ Keyed'
  BY <1>7 DEF Cleared, Authorizing, Keyed, Serving
<1>9. BriefBook'
  BY <1>7, Alone, Names DEF IInv, BriefBook, Unsold, Serving, Key, Terminal
<1>10. Asked'
  BY Alone DEF IInv, Asked, Serving
<1>11. s \notin {"calling", "landed"} => Covered'
  BY Alone DEF Covered, Dispatching
<1>. QED  BY <1>1, <1>2, <1>3, <1>4, <1>5, <1>6, <1>8, <1>9, <1>10, <1>11

LEMMA GridStep ==
  ASSUME IInv, wanted = "grid", NEW w \in Workers, at[w] \in Dispatching, NEW s \in After,
         DispatchStep(w, s), UNCHANGED listingVars,
         ledger' \in Ledgers, \A k \in Kinds : k # "grid" => ledger'[k] = ledger[k],
         org' \in {org, Reconciled(org)}, orgLock' \in Workers \cup {Nobody, Desk},
         orgLock \in Workers \cup {Nobody} \/ UNCHANGED <<org, orgLock>>,
         s \in {"calling", "landed"} => Covered', GridTypes', GridBook'
  PROVE  IInv'
<1>1. \A k \in BriefKeys : ledger'[k] = ledger[k]
  BY Names
<1>2. ListingTypes'
  BY ListingTypesFrame DEF IInv, TypeOK, listingVars
<1>3. ListingBook'
  BY Alone DEF IInv, ListingBook, listingVars, Wanted
<1>. QED  BY <1>1, <1>2, <1>3, DispatchKeeps DEF IInv, TypeOK, listingVars

LEMMA ListingStep ==
  ASSUME IInv, wanted = "listing", NEW w \in Workers, at[w] \in Dispatching,
         NEW s \in After \ {"next", "denying", "totalling", "summing"},
         DispatchStep(w, s), UNCHANGED gridVars,
         ledger' \in Ledgers, \A k \in Kinds : k # "listing" => ledger'[k] = ledger[k],
         org' \in {org, Reconciled(org)}, orgLock' \in Workers \cup {Nobody, Desk},
         orgLock \in Workers \cup {Nobody} \/ UNCHANGED <<org, orgLock>>,
         s \in {"calling", "landed"} => Covered', ListingTypes', ListingBook'
  PROVE  IInv'
<1>1. \A k \in BriefKeys : ledger'[k] = ledger[k]
  BY Names
<1>2. GridTypes'
  BY GridTypesFrame DEF IInv, TypeOK, gridVars
<1>3. GridBook'
  BY Alone DEF IInv, GridBook, gridVars, Wanted, With
<1>. QED  BY <1>1, <1>2, <1>3, DispatchKeeps DEF IInv, TypeOK, gridVars

\* A worker that holds the organization for its call goes on with it.
LEMMA StillCovered ==
  ASSUME IInv, NEW w \in Workers, at[w] \in Dispatching, NEW s \in After, DispatchStep(w, s),
         Owns(w), orgLock' = w, ledger' = ledger, org' = org,
         ~Terminal(wanted), ProviderWorkAllowed(RunPlace)
  PROVE  Covered'
BY Alone DEF Covered, Dispatching, Owns, Terminal, ProviderWorkAllowed, RunPlace, OverLimit,
             ActivePlaces, LimitInForce


-------------------------------------------------------------------------------
\* What the steps of a grid's dispatch have in common.
GridTurn(w) == IInv /\ wanted = "grid" /\ DrainRest /\ UNCHANGED listingVars

LEMMA Failed ==
  ASSUME GridTypes, point' = QueuedFailed
  PROVE  /\ point' \in [Points -> Statuses] /\ With("queued")' = {}
         /\ With("pending")' = With("pending")
BY DEF GridTypes, QueuedFailed, With, Statuses

LEMMA EnterGridKeeps == ASSUME NEW w \in Workers, GridTurn(w), EnterGrid(w) PROVE IInv'
<1>. USE Names DEF GridTurn
<1>1. /\ at[w] = "fenced" /\ at[w] \in Dispatching
      /\ UNCHANGED <<ledger, point, view, sold, void, org, orgLock>>
      /\ ledger \in Ledgers /\ orgLock \in Workers \cup {Nobody, Desk} /\ started \in BOOLEAN
  BY DEF EnterGrid, Dispatching, IInv, TypeOK, SpendTypes, Ledgers
<1>2. CASE grid = "submitting" /\ Goes(w, "ambiguous") /\ UNCHANGED <<fence, grid, left>> /\ started' = TRUE
  <2>1. DispatchStep(w, "ambiguous") /\ "ambiguous" \in After
    BY <1>2 DEF EnterGrid, Goes, DispatchStep, After, Dispatching
  <2>2. GridTypes'
    BY <1>1, <1>2, GridTypesFrame DEF IInv, TypeOK
  <2>3. GridBook'
    BY <1>1, <1>2, <2>1, Alone DEF IInv, GridBook, With, Batch, Buying, Terminal, Dispatching
  <2>. QED  BY <1>1, <2>1, <2>2, <2>3, GridStep
<1>3. CASE grid # "submitting" /\ With("queued") = {} /\ Leave(w, "done") /\ UNCHANGED <<grid, left>>
  <2>1. DispatchStep(w, "done") /\ "done" \in After
    BY <1>3 DEF EnterGrid, Leave, DispatchStep, After, Dispatching
  <2>2. GridTypes'
    BY <1>1, <1>3, GridTypesFrame DEF IInv, TypeOK
  <2>3. GridBook'
    BY <1>1, <1>3, <2>1, Alone DEF IInv, GridBook, With, Batch, Buying, Terminal, Dispatching
  <2>. QED  BY <1>1, <2>1, <2>2, <2>3, GridStep
<1>4. CASE /\ grid # "submitting" /\ With("queued") # {}
           /\ grid' = "submitting" /\ left' = With("queued")
           /\ Goes(w, "first") /\ UNCHANGED <<fence, started>>
  <2>1. DispatchStep(w, "first") /\ "first" \in After
    BY <1>1, <1>4 DEF EnterGrid, Goes, DispatchStep, After, Dispatching
  <2>2. GridTypes'
    BY <1>1, <1>4 DEF IInv, TypeOK, GridTypes, With
  <2>3. GridBook'
    BY <1>1, <1>4, <2>1, Alone DEF IInv, GridBook, With, Batch, Buying, Terminal, Dispatching
  <2>. QED  BY <1>1, <2>1, <2>2, <2>3, GridStep
<1>. QED  BY <1>2, <1>3, <1>4 DEF EnterGrid

\* A step that neither buys nor saves points.
LEMMA GridWaits ==
  ASSUME NEW w \in Workers, GridTurn(w), at[w] \in {"first", "next", "ambiguous"},
         NEW s \in {"raised", "ambiguous", "denying", "closing"}, DispatchStep(w, s),
         UNCHANGED <<gridVars, org, orgLock>>, ledger' = ledger \/ Ends("grid"),
         s = "closing" \/ (s = "denying" /\ ~started') => Terminal("grid")'
  PROVE  IInv'
<1>. USE Names DEF GridTurn
<1>1. /\ at[w] \in Dispatching /\ s \in After /\ ledger' \in Ledgers
      /\ \A k \in Kinds : (k # "grid" => ledger'[k] = ledger[k]) /\ (Terminal(k) => Terminal(k)')
      /\ orgLock \in Workers \cup {Nobody, Desk}
  BY DEF Dispatching, After, IInv, TypeOK, SpendTypes, Ledgers, Ends, Terminal
<1>2. GridTypes'
  BY GridTypesFrame DEF gridVars, IInv, TypeOK
<1>3. GridBook'
  BY <1>1, Alone DEF gridVars, IInv, GridBook, With, Buying, Dispatching
<1>. QED  BY <1>1, <1>2, <1>3, GridStep

LEMMA GridJobLostKeeps == ASSUME NEW w \in Workers, GridTurn(w), GridJobLost(w) PROVE IInv'
<1>. USE DEF GridTurn
<1>1. started \in BOOLEAN
  BY DEF IInv, TypeOK, SpendTypes
<1>2. CASE at[w] = "first"
  <2>1. DispatchStep(w, "raised")
    BY <1>2 DEF GridJobLost, Leave, DispatchStep
  <2>. QED  BY <1>2, <2>1, GridWaits DEF GridJobLost
<1>3. CASE at[w] = "next"
  <2>1. DispatchStep(w, "ambiguous")
    BY <1>1, <1>3 DEF GridJobLost, Goes, DispatchStep
  <2>. QED  BY <1>3, <2>1, GridWaits DEF GridJobLost
<1>. QED  BY <1>2, <1>3 DEF GridJobLost

LEMMA GridDeniedKeeps == ASSUME NEW w \in Workers, GridTurn(w), GridDenied(w) PROVE IInv'
<1>. USE DEF GridTurn
<1>1. DispatchStep(w, "denying") /\ at[w] \in {"first", "next"} /\ started' = started
  BY DEF GridDenied, Goes, DispatchStep, IInv, TypeOK, SpendTypes
<1>2. /\ ledger' = ledger \/ Ends("grid")
      /\ ~started => Ends("grid")
  BY ReleaseEnds, Names DEF GridDenied, IInv, TypeOK, SpendTypes, Ledgers
<1>. QED  BY <1>1, <1>2, GridWaits DEF GridDenied, Ends

LEMMA GridUnavailableKeeps == ASSUME NEW w \in Workers, GridTurn(w), GridUnavailable(w) PROVE IInv'
<1>. USE DEF GridTurn
<1>1. DispatchStep(w, "ambiguous") /\ at[w] = "first"
  BY DEF GridUnavailable, Goes, DispatchStep, IInv, TypeOK, SpendTypes
<1>. QED  BY <1>1, GridWaits DEF GridUnavailable

LEMMA SettleAmbiguousKeeps == ASSUME NEW w \in Workers, GridTurn(w), SettleAmbiguous(w) PROVE IInv'
<1>. USE DEF GridTurn
<1>1. DispatchStep(w, "closing") /\ at[w] = "ambiguous"
  BY DEF SettleAmbiguous, Goes, DispatchStep, IInv, TypeOK, SpendTypes
<1>2. Ends("grid")
  BY ReleaseEnds, SettleEnds, EstimateNat, Names DEF SettleAmbiguous, IInv, TypeOK, SpendTypes, Ledgers
<1>. QED  BY <1>1, <1>2, GridWaits DEF SettleAmbiguous, Ends

LEMMA GridCallsKeeps == ASSUME NEW w \in Workers, GridTurn(w), GridCalls(w) PROVE IInv'
<1>. USE Names DEF GridTurn
<1>1. /\ at[w] \in {"first", "next"} /\ at[w] \in Dispatching /\ "calling" \in After
      /\ DispatchStep(w, "calling") /\ orgLock = Nobody /\ orgLock' = w
      /\ UNCHANGED <<ledger, gridVars, org>> /\ ledger \in Ledgers
  BY DEF GridCalls, Goes, Unlocked, DispatchStep, Dispatching, After, IInv, TypeOK, SpendTypes, Ledgers
<1>2. Covered'
  BY <1>1, StillCovered DEF GridCalls, Authorized, RunPlace
<1>3. GridTypes'
  BY <1>1, GridTypesFrame DEF gridVars, IInv, TypeOK
<1>4. GridBook'
  BY <1>1, Alone DEF gridVars, IInv, GridBook, With, Batch, Buying, Terminal, Dispatching
<1>. QED  BY <1>1, <1>2, <1>3, <1>4, GridStep

LEMMA GridSubmitsKeeps == ASSUME NEW w \in Workers, GridTurn(w), GridSubmits(w) PROVE IInv'
<1>. USE Names DEF GridTurn
<1>1. /\ at[w] = "calling" /\ at[w] \in Dispatching /\ {"landed", "ambiguous"} \subseteq After
      /\ UNCHANGED <<ledger, grid, point, left, view, void, org>> /\ ledger \in Ledgers
      /\ orgLock = w
  BY DEF GridSubmits, Dispatching, After, IInv, TypeOK, SpendTypes, Ledgers, Covered
<1>2. PICK s \in {"landed", "ambiguous"} :
        /\ DispatchStep(w, s) /\ orgLock' = IF s = "landed" THEN orgLock ELSE Nobody
  BY DEF GridSubmits, Goes, DispatchStep, IInv, TypeOK, SpendTypes
<1>3. PICK taken \in SUBSET Batch :
        sold' = [p \in Points |-> IF p \in taken THEN sold[p] + 1 ELSE sold[p]]
  BY DEF GridSubmits
<1>4. s = "landed" => Covered'
  BY <1>1, <1>2, StillCovered DEF IInv, Covered
<1>5. GridTypes'
  BY <1>1, <1>3 DEF IInv, TypeOK, GridTypes
<1>6. GridBook'
  <2>0. \A p \in left : sold[p] = 0
    BY <1>1 DEF IInv, GridBook
  <2>1. ASSUME NEW p \in Points PROVE sold'[p] <= 1
    <3>1. sold[p] \in Nat /\ sold[p] <= 1 /\ taken \subseteq left
      BY DEF Batch, IInv, TypeOK, GridTypes, GridBook
    <3>2. sold'[p] = IF p \in taken THEN sold[p] + 1 ELSE sold[p]
      BY <1>3
    <3>. QED  BY <2>0, <3>1, <3>2
  <2>2. \A p \in left \ Batch : sold'[p] = 0
    BY <1>1, <1>3 DEF Batch, IInv, TypeOK, GridTypes, GridBook
  <2>3. /\ grid = "submitting" /\ left # {} /\ left = With("queued")
        /\ With("queued")' = With("queued") /\ Batch' = Batch /\ Terminal("grid")' = Terminal("grid")
    BY <1>1 DEF IInv, GridBook, Buying, With, Batch, Terminal
  <2>4. \A v \in Workers : v # w => at'[v] \notin Dispatching
    BY <1>1, <1>2, Alone
  <2>5. at'[w] = s /\ wanted' = wanted
    BY <1>1, <1>2, Alone
  <2>. QED
    BY <1>1, <1>2, <2>1, <2>2, <2>3, <2>4, <2>5 DEF GridBook, Buying, Dispatching
<1>. QED  BY <1>1, <1>2, <1>4, <1>5, <1>6, GridStep

LEMMA GridSavesKeeps == ASSUME NEW w \in Workers, GridTurn(w), GridSaves(w) PROVE IInv'
<1>. USE Names DEF GridTurn
<1>1. /\ at[w] = "landed" /\ at[w] \in Dispatching /\ {"totalling", "next"} \subseteq After
      /\ UNCHANGED <<ledger, grid, sold, view, void>> /\ ledger \in Ledgers
      /\ orgLock = w /\ orgLock' = Nobody /\ org' = Reconciled(org) /\ left' = left \ Batch
  BY DEF GridSaves, Dispatching, After, IInv, TypeOK, SpendTypes, Ledgers, Covered
<1>2. PICK s \in {"totalling", "next"} :
        DispatchStep(w, s) /\ (s = "totalling" <=> left' = {})
  BY DEF GridSaves, Goes, DispatchStep, IInv, TypeOK, SpendTypes
<1>3. /\ point' \in [Points -> Statuses] /\ With("queued")' = With("queued") \ Batch
      /\ left = With("queued") /\ grid = "submitting"
  BY <1>1 DEF GridSaves, With, Statuses, IInv, TypeOK, GridTypes, GridBook, Buying
<1>4. GridTypes'
  BY <1>1, <1>3 DEF IInv, TypeOK, GridTypes, Statuses
<1>5. GridBook'
  BY <1>1, <1>2, <1>3, Alone DEF IInv, GridBook, Batch, Buying, Terminal, Dispatching
<1>. QED  BY <1>1, <1>2, <1>4, <1>5, GridStep

LEMMA ReadTotalsKeeps == ASSUME NEW w \in Workers, GridTurn(w), ReadTotals(w) PROVE IInv'
<1>. USE Names DEF GridTurn
<1>1. /\ at[w] = "totalling" /\ at[w] \in Dispatching /\ "summing" \in After
      /\ DispatchStep(w, "summing") /\ UNCHANGED <<ledger, grid, point, left, sold, void, org, orgLock>>
      /\ view' = point /\ ledger \in Ledgers /\ orgLock \in Workers \cup {Nobody, Desk}
  BY DEF ReadTotals, Goes, DispatchStep, Dispatching, After, IInv, TypeOK, SpendTypes, Ledgers
<1>2. GridTypes'
  BY <1>1 DEF IInv, TypeOK, GridTypes
<1>3. GridBook'
  BY <1>1, Alone DEF IInv, GridBook, With, Batch, Buying, Terminal, Dispatching
<1>. QED  BY <1>1, <1>2, <1>3, GridStep

LEMMA WriteTotalsKeeps == ASSUME NEW w \in Workers, GridTurn(w), WriteTotals(w) PROVE IInv'
<1>. USE Names DEF GridTurn
<1>1. /\ at[w] = "summing" /\ at[w] \in Dispatching /\ "done" \in After
      /\ DispatchStep(w, "done") /\ UNCHANGED <<point, left, sold, void, org, orgLock>>
      /\ view' = Unread /\ ledger \in Ledgers /\ orgLock \in Workers \cup {Nobody, Desk}
      /\ view \in [Points -> Statuses]
      /\ grid' = TotalsStatus(grid, view) /\ ledger' = SettledTotals(view)
  BY DEF WriteTotals, Leave, DispatchStep, Dispatching, After, IInv, TypeOK, SpendTypes, Ledgers,
         GridTypes, Statuses
<1>2. /\ grid' \in {"submitting", "pending", "partial", "completed", "failed"}
      /\ grid' \in {"completed", "failed"} => Ends("grid")
  BY <1>1, TotalsNamed, Totalled
<1>3. GridTypes'
  BY <1>1, <1>2 DEF IInv, TypeOK, GridTypes, Unread
<1>4. GridBook'
  BY <1>1, <1>2, Alone DEF Ends, IInv, GridBook, With, Batch, Buying, Dispatching
<1>5. ledger' \in Ledgers /\ \A k \in Kinds : k # "grid" => ledger'[k] = ledger[k]
  BY <1>1, Totalled
<1>. QED  BY <1>1, <1>3, <1>4, <1>5, GridStep

LEMMA CloseAmbiguousKeeps == ASSUME NEW w \in Workers, GridTurn(w), CloseAmbiguous(w) PROVE IInv'
<1>. USE Names DEF GridTurn
<1>1. /\ at[w] = "closing" /\ at[w] \in Dispatching /\ "done" \in After
      /\ DispatchStep(w, "done") /\ UNCHANGED <<ledger, left, view, sold, void, org, orgLock>>
      /\ point' = QueuedFailed /\ grid' \in {"partial", "failed"}
      /\ ledger \in Ledgers /\ orgLock \in Workers \cup {Nobody, Desk}
  BY DEF CloseAmbiguous, Leave, DispatchStep, Dispatching, After, IInv, TypeOK, SpendTypes, Ledgers
<1>2. point' \in [Points -> Statuses] /\ With("queued")' = {}
  BY <1>1, Failed DEF IInv, TypeOK
<1>3. GridTypes'
  BY <1>1, <1>2 DEF IInv, TypeOK, GridTypes, Statuses
<1>4. GridBook'
  BY <1>1, <1>2, Alone DEF IInv, GridBook, Buying, Terminal, Dispatching
<1>. QED  BY <1>1, <1>3, <1>4, GridStep

LEMMA DenyGridKeeps == ASSUME NEW w \in Workers, GridTurn(w), DenyGrid(w) PROVE IInv'
<1>. USE Names DEF GridTurn
<1>1. /\ at[w] = "denying" /\ at[w] \in Dispatching /\ {"naming", "done"} \subseteq After
      /\ UNCHANGED <<left, view, sold, void, org, orgLock>> /\ point' = QueuedFailed
      /\ ledger \in Ledgers /\ orgLock \in Workers \cup {Nobody, Desk} /\ started \in BOOLEAN
  BY DEF DenyGrid, Dispatching, After, IInv, TypeOK, SpendTypes, Ledgers
<1>2. /\ point' \in [Points -> Statuses] /\ With("queued")' = {}
      /\ With("pending")' = With("pending")
  BY <1>1, Failed DEF IInv, TypeOK
<1>3. CASE started /\ With("pending") = {}
  <2>1. DispatchStep(w, "naming") /\ grid' = grid /\ ledger' = SettledTotals(point')
    BY <1>1, <1>3 DEF DenyGrid, Goes, DispatchStep
  <2>2. Ends("grid")
    BY <1>1, <1>2, <1>3, <2>1, Totalled DEF With
  <2>3. GridTypes'
    BY <1>1, <1>2, <2>1 DEF IInv, TypeOK, GridTypes, Statuses
  <2>4. GridBook'
    BY <1>1, <1>2, <2>1, <2>2, Alone DEF Ends, IInv, GridBook, Buying, Dispatching
  <2>. QED  BY <1>1, <2>1, <2>2, <2>3, <2>4, GridStep DEF Ends
<1>4. CASE ~(started /\ With("pending") = {})
  <2>1. /\ DispatchStep(w, "done") /\ grid' = (IF started THEN "partial" ELSE "failed") /\ ledger' = ledger
    BY <1>1, <1>4 DEF DenyGrid, Leave, DispatchStep
  <2>2. GridTypes'
    BY <1>1, <1>2, <2>1 DEF IInv, TypeOK, GridTypes, Statuses
  <2>3. GridBook'
    BY <1>1, <1>2, <2>1, Alone DEF IInv, GridBook, Buying, Terminal, Dispatching
  <2>. QED  BY <1>1, <2>1, <2>2, <2>3, GridStep
<1>. QED  BY <1>3, <1>4

LEMMA NameDeniedKeeps == ASSUME NEW w \in Workers, GridTurn(w), NameDenied(w) PROVE IInv'
<1>. USE Names DEF GridTurn
<1>1. /\ at[w] = "naming" /\ at[w] \in Dispatching /\ "done" \in After
      /\ DispatchStep(w, "done") /\ UNCHANGED <<ledger, point, left, view, sold, void, org, orgLock>>
      /\ grid' \in {"partial", "failed", "completed"}
      /\ ledger \in Ledgers /\ orgLock \in Workers \cup {Nobody, Desk}
  BY DEF NameDenied, Leave, DispatchStep, Dispatching, After, IInv, TypeOK, SpendTypes, Ledgers
<1>2. GridTypes'
  BY <1>1 DEF IInv, TypeOK, GridTypes
<1>3. GridBook'
  BY <1>1, Alone DEF IInv, GridBook, With, Buying, Terminal, Dispatching
<1>. QED  BY <1>1, <1>2, <1>3, GridStep

LEMMA DispatchGridKeeps == ASSUME NEW w \in Workers, GridTurn(w), DispatchGrid(w) PROVE IInv'
BY EnterGridKeeps, GridJobLostKeeps, GridDeniedKeeps, GridUnavailableKeeps, GridCallsKeeps,
   GridSubmitsKeeps, GridSavesKeeps, ReadTotalsKeeps, WriteTotalsKeeps, SettleAmbiguousKeeps,
   CloseAmbiguousKeeps, DenyGridKeeps, NameDeniedKeeps DEF DispatchGrid

\* A refresh ends tasks that are pending: what is queued, and what a dispatch
\* relies on, stays.
LEMMA RefreshKeeps == ASSUME IInv, Refresh PROVE IInv'
<1>. USE Names
<1>1. UNCHANGED <<org, place, desk, quota, changes, orgLock, sent, receipt, billing, opened, request,
                  job, fence, at, started, kills, overlaps, left, view, sold, listing, reported,
                  charged, brief, turn, canary, prompts, asked, bills, wanted>>
  BY DEF Refresh, RefreshGrid, Spends, placeVars, billingVars, listingVars, briefVars
<1>2. /\ request = "saved" /\ grid # "none" /\ wanted = "grid"
      /\ grid' = TotalsStatus(grid, point') /\ ledger' = SettledTotals(point')
  BY DEF Refresh, RefreshGrid, IInv, Wanted
<1>3. /\ point' \in [Points -> Statuses] /\ With("queued")' = With("queued")
      /\ void' \subseteq Points
  <2>1. PICK ready \in SUBSET With("pending") : \E failed \in SUBSET (With("pending") \ ready) :
          /\ point' = [p \in Points |-> IF p \in ready THEN "done"
                                        ELSE IF p \in failed THEN "failed" ELSE point[p]]
          /\ void' = void \cup failed
    BY DEF Refresh, RefreshGrid
  <2>. QED  BY <2>1 DEF With, Statuses, IInv, TypeOK, GridTypes
<1>4. ledger \in Ledgers /\ grid \in {"queued", "submitting", "pending", "partial", "completed", "failed"}
  BY <1>2 DEF IInv, TypeOK, SpendTypes, GridTypes, Ledgers
<1>5. /\ (\E p \in Points : point'[p] \in {"queued", "pending"}) => ledger' = ledger
      /\ ledger' \in Ledgers /\ \A j \in Kinds : Terminal(j) => Terminal(j)'
      /\ \A j \in Kinds : j # "grid" => ledger'[j] = ledger[j]
      /\ grid' \in {"completed", "failed"} => Terminal("grid")' /\ With("queued") = {}
  BY <1>2, <1>3, <1>4, Totalled, TotalsNamed DEF Ends, With
<1>6. /\ grid' \in {"submitting", "pending", "partial", "completed", "failed"}
      /\ grid' = "submitting" => grid = "submitting"
      /\ grid = "submitting" /\ With("queued") # {} => grid' = "submitting"
  BY <1>2, <1>3, TotalsNamed DEF With
<1>7. SpendTypes' /\ GridTypes'
  BY <1>1, <1>3, <1>5, <1>6 DEF IInv, TypeOK, SpendTypes, GridTypes, Ledgers, Statuses
<1>8. \A v \in Workers : at[v] \notin Serving
  BY <1>2 DEF IInv, Wanted
<1>9. Wanted'
  BY <1>1, <1>2 DEF IInv, Wanted
<1>10. Covered'
  <2>1. ASSUME NEW v \in Workers, at[v] \in {"calling", "landed"} PROVE ledger' = ledger
    <3>1. left # {} /\ left = With("queued")
      BY <1>2, <2>1 DEF IInv, GridBook, Buying
    <3>2. \E p \in Points : point'[p] = "queued"
      BY <1>3, <3>1 DEF With
    <3>. QED  BY <1>5, <3>2
  <2>. QED
    BY <1>1, <2>1 DEF IInv, Covered, Owns, Terminal, ProviderWorkAllowed, RunPlace, OverLimit,
                      ActivePlaces, LimitInForce
<1>11. Cleared' /\ Keyed'
  BY <1>1, <1>8 DEF Cleared, Authorizing, Keyed, Serving
<1>12. GridBook'
  <2>1. \A v \in Workers : at[v] \in Buying => grid = "submitting" /\ With("queued") # {}
    BY <1>2 DEF IInv, GridBook
  <2>2. Batch' = Batch
    BY <1>1 DEF Batch
  <2>3. grid' # "submitting" => \A p \in With("queued") : sold[p] = 0
    BY <1>6 DEF IInv, GridBook
  <2>4. \A v \in Workers : at[v] \in {"closing", "naming"} \/ (at[v] = "denying" /\ ~started) => Terminal("grid")'
    BY <1>2, <1>5 DEF IInv, GridBook
  <2>. QED
    BY <1>1, <1>2, <1>3, <1>5, <1>6, <2>1, <2>2, <2>3, <2>4 DEF IInv, GridBook
<1>13. ListingBook'
  BY <1>1, <1>2, <1>5 DEF IInv, ListingBook
<1>14. BriefBook'
  <2>1. ASSUME NEW k \in BriefKeys PROVE ledger'[k] = ledger[k] /\ Terminal(k)' = Terminal(k)
    BY <1>5, <2>1 DEF Terminal
  <2>. QED  BY <1>1, <1>8, <2>1 DEF IInv, BriefBook, Unsold, Serving, Key
<1>. QED
  BY <1>1, <1>7, <1>9, <1>10, <1>11, <1>12, <1>13, <1>14, AllowanceTypesFrame, BillingTypesFrame,
     ListingTypesFrame, BriefTypesFrame, FencedFrame, SeatedFrame, AskedFrame DEF IInv, TypeOK

-------------------------------------------------------------------------------
\* What the steps of a listing check's dispatch have in common.
ListingTurn(w) == IInv /\ wanted = "listing" /\ DrainRest /\ UNCHANGED gridVars

LEMMA Prices == ListingTypes => reported \in Nat
BY ListingAssumption DEF ListingTypes

LEMMA EnterListingKeeps == ASSUME NEW w \in Workers, ListingTurn(w), EnterListing(w) PROVE IInv'
<1>. USE Names DEF ListingTurn
<1>1. /\ at[w] = "fenced" /\ at[w] \in Dispatching /\ reported' = 0
      /\ UNCHANGED <<charged, org, orgLock>>
      /\ ledger \in Ledgers /\ orgLock \in Workers \cup {Nobody, Desk} /\ started \in BOOLEAN
      /\ {"done", "ambiguous", "closing", "first"} \subseteq After \ {"next", "denying", "totalling", "summing"}
  BY DEF EnterListing, Dispatching, After, IInv, TypeOK, SpendTypes, Ledgers
<1>2. CASE listing \in {"completed", "failed"} /\ Leave(w, "done") /\ UNCHANGED <<ledger, listing>>
  <2>1. DispatchStep(w, "done")
    BY <1>2 DEF EnterListing, Leave, DispatchStep
  <2>2. ListingTypes'
    BY <1>1, <1>2 DEF IInv, TypeOK, ListingTypes
  <2>3. ListingBook'
    BY <1>1, <1>2, <2>1, Alone DEF IInv, ListingBook, Terminal, Dispatching
  <2>. QED  BY <1>1, <1>2, <2>1, <2>2, <2>3, ListingStep
<1>3. CASE /\ listing = "running" /\ Goes(w, "ambiguous") /\ started' = TRUE
           /\ UNCHANGED <<fence, ledger, listing>>
  <2>1. DispatchStep(w, "ambiguous")
    BY <1>3 DEF EnterListing, Goes, DispatchStep
  <2>2. ListingTypes'
    BY <1>1, <1>3 DEF IInv, TypeOK, ListingTypes
  <2>3. ListingBook'
    BY <1>1, <1>3, <2>1, Alone DEF IInv, ListingBook, Terminal, Dispatching
  <2>. QED  BY <1>1, <1>3, <2>1, <2>2, <2>3, ListingStep
<1>4. CASE /\ listing = "queued" /\ ledger' = Released("listing")
           /\ Goes(w, "closing") /\ UNCHANGED <<fence, started, listing>>
  <2>1. DispatchStep(w, "closing")
    BY <1>1, <1>4 DEF EnterListing, Goes, DispatchStep
  <2>2. Ends("listing")
    BY <1>1, <1>4, ReleaseEnds
  <2>3. ListingTypes'
    BY <1>1, <1>4 DEF IInv, TypeOK, ListingTypes
  <2>4. ListingBook'
    BY <1>1, <1>4, <2>1, <2>2, Alone DEF Ends, IInv, ListingBook, Dispatching
  <2>. QED  BY <1>1, <1>4, <2>1, <2>2, <2>3, <2>4, ListingStep DEF Ends
<1>5. CASE /\ listing = "queued" /\ listing' = "running"
           /\ Goes(w, "first") /\ UNCHANGED <<fence, started, ledger>>
  <2>1. DispatchStep(w, "first")
    BY <1>1, <1>5 DEF EnterListing, Goes, DispatchStep
  <2>2. ListingTypes'
    BY <1>1, <1>5 DEF IInv, TypeOK, ListingTypes
  <2>3. ListingBook'
    BY <1>1, <1>5, <2>1, Alone DEF IInv, ListingBook, Terminal, Dispatching
  <2>. QED  BY <1>1, <1>5, <2>1, <2>2, <2>3, ListingStep
<1>. QED  BY <1>2, <1>3, <1>4, <1>5 DEF EnterListing

\* A step that does not search.
LEMMA ListingWaits ==
  ASSUME NEW w \in Workers, ListingTurn(w),
         NEW r \in Dispatching, at[w] = r,
         NEW s \in {"raised", "ambiguous", "closing", "naming", "done"}, DispatchStep(w, s),
         UNCHANGED <<reported, charged>>, org' \in {org, Reconciled(org)},
         orgLock' \in Workers \cup {Nobody, Desk}, orgLock \in Workers \cup {Nobody} \/ UNCHANGED <<org, orgLock>>,
         ledger' = ledger \/ Ends("listing"),
         s \in {"closing", "naming"} => listing = "running" /\ Terminal("listing")',
         s = "ambiguous" => listing = "running",
         \/ listing' = listing
         \/ s = "done" /\ listing' \in {"completed", "failed"} /\ Terminal("listing")
  PROVE  IInv'
<1>. USE Names DEF ListingTurn
<1>1. /\ s \in After \ {"next", "denying", "totalling", "summing"} /\ ledger' \in Ledgers
      /\ \A k \in Kinds : (k # "listing" => ledger'[k] = ledger[k]) /\ (Terminal(k) => Terminal(k)')
  BY DEF Dispatching, After, IInv, TypeOK, SpendTypes, Ledgers, Ends, Terminal
<1>2. ListingTypes'
  BY DEF IInv, TypeOK, ListingTypes
<1>3. ListingBook'
  BY <1>1, Alone DEF IInv, ListingBook, Dispatching
<1>. QED  BY <1>1, <1>2, <1>3, ListingStep

LEMMA ListingJobLostKeeps == ASSUME NEW w \in Workers, ListingTurn(w), ListingJobLost(w) PROVE IInv'
<1>. USE DEF ListingTurn
<1>1. /\ DispatchStep(w, "raised") /\ at[w] = "first" /\ "first" \in Dispatching
      /\ orgLock \in Workers \cup {Nobody, Desk} /\ UNCHANGED <<ledger, listing, reported, charged, org, orgLock>>
  BY DEF ListingJobLost, Leave, DispatchStep, Dispatching, IInv, TypeOK, SpendTypes, listingVars
<1>. QED  BY <1>1, ListingWaits

LEMMA ListingDeniedKeeps == ASSUME NEW w \in Workers, ListingTurn(w), ListingDenied(w) PROVE IInv'
<1>. USE DEF ListingTurn
<1>1. /\ DispatchStep(w, "closing") /\ at[w] = "first" /\ "first" \in Dispatching
      /\ orgLock \in Workers \cup {Nobody, Desk} /\ UNCHANGED <<listing, reported, charged, org, orgLock>>
  BY DEF ListingDenied, Goes, DispatchStep, Dispatching, IInv, TypeOK, SpendTypes, listingVars
<1>2. Ends("listing")
  BY ReleaseEnds, Names DEF ListingDenied, IInv, TypeOK, SpendTypes, Ledgers
<1>3. listing = "running"
  BY <1>1 DEF IInv, ListingBook
<1>. QED  BY <1>1, <1>2, <1>3, ListingWaits DEF Ends

LEMMA SettleListingKeeps == ASSUME NEW w \in Workers, ListingTurn(w), SettleListing(w) PROVE IInv'
<1>. USE DEF ListingTurn
<1>1. /\ DispatchStep(w, "closing") /\ at[w] = "ambiguous" /\ "ambiguous" \in Dispatching
      /\ orgLock \in Workers \cup {Nobody, Desk} /\ UNCHANGED <<listing, reported, charged, org, orgLock>>
  BY DEF SettleListing, Goes, DispatchStep, Dispatching, IInv, TypeOK, SpendTypes, listingVars
<1>2. Ends("listing")
  BY SettleEnds, Prices, Names DEF SettleListing, IInv, TypeOK, SpendTypes, Ledgers
<1>3. listing = "running"
  BY <1>1 DEF IInv, ListingBook
<1>. QED  BY <1>1, <1>2, <1>3, ListingWaits DEF Ends

LEMMA CompleteListingKeeps == ASSUME NEW w \in Workers, ListingTurn(w), CompleteListing(w) PROVE IInv'
<1>. USE DEF ListingTurn
<1>1. /\ DispatchStep(w, "done") /\ at[w] = "naming" /\ "naming" \in Dispatching /\ listing' = "completed"
      /\ orgLock \in Workers \cup {Nobody, Desk} /\ UNCHANGED <<ledger, reported, charged, org, orgLock>>
  BY DEF CompleteListing, Leave, DispatchStep, Dispatching, IInv, TypeOK, SpendTypes
<1>2. Terminal("listing")
  BY <1>1 DEF IInv, ListingBook
<1>. QED  BY <1>1, <1>2, ListingWaits

LEMMA FailListingKeeps == ASSUME NEW w \in Workers, ListingTurn(w), FailListing(w) PROVE IInv'
<1>. USE DEF ListingTurn
<1>1. /\ DispatchStep(w, "done") /\ at[w] = "closing" /\ "closing" \in Dispatching /\ listing' = "failed"
      /\ orgLock \in Workers \cup {Nobody, Desk} /\ UNCHANGED <<ledger, reported, charged, org, orgLock>>
  BY DEF FailListing, Leave, DispatchStep, Dispatching, IInv, TypeOK, SpendTypes
<1>2. Terminal("listing")
  BY <1>1 DEF IInv, ListingBook
<1>. QED  BY <1>1, <1>2, ListingWaits

LEMMA ListingCallsKeeps == ASSUME NEW w \in Workers, ListingTurn(w), ListingCalls(w) PROVE IInv'
<1>. USE Names DEF ListingTurn
<1>1. /\ at[w] = "first" /\ at[w] \in Dispatching
      /\ "calling" \in After \ {"next", "denying", "totalling", "summing"}
      /\ DispatchStep(w, "calling") /\ orgLock = Nobody /\ orgLock' = w
      /\ UNCHANGED <<ledger, listingVars, org>> /\ ledger \in Ledgers
  BY DEF ListingCalls, Goes, Unlocked, DispatchStep, Dispatching, After, IInv, TypeOK, SpendTypes, Ledgers
<1>2. Covered'
  BY <1>1, StillCovered DEF ListingCalls, Authorized, RunPlace
<1>3. ListingTypes'
  BY <1>1, ListingTypesFrame DEF listingVars, IInv, TypeOK
<1>4. ListingBook'
  BY <1>1, Alone DEF listingVars, IInv, ListingBook, Terminal, Dispatching
<1>. QED  BY <1>1, <1>2, <1>3, <1>4, ListingStep

LEMMA ListingSearchesKeeps == ASSUME NEW w \in Workers, ListingTurn(w), ListingSearches(w) PROVE IInv'
<1>. USE Names DEF ListingTurn
<1>1. /\ at[w] = "calling" /\ at[w] \in Dispatching
      /\ {"landed", "ambiguous"} \subseteq After \ {"next", "denying", "totalling", "summing"}
      /\ UNCHANGED <<ledger, listing, org>> /\ ledger \in Ledgers
      /\ orgLock = w /\ listing = "running" /\ charged = <<>>
  BY DEF ListingSearches, Dispatching, After, IInv, TypeOK, SpendTypes, Ledgers, Covered, ListingBook
<1>2. PICK s \in {"landed", "ambiguous"} :
        /\ DispatchStep(w, s) /\ orgLock' = IF s = "landed" THEN orgLock ELSE Nobody
  BY DEF ListingSearches, Goes, DispatchStep, IInv, TypeOK, SpendTypes
<1>3. /\ charged' = charged \/ \E c \in Costs : charged' = Append(charged, c)
      /\ reported' = reported \/ reported' \in Costs
  BY DEF ListingSearches
<1>4. charged' \in Seq(Costs) /\ Len(charged') <= 1
  <2>1. CASE charged' = charged
    BY <1>1, <2>1 DEF IInv, TypeOK, ListingTypes
  <2>2. ASSUME NEW c \in Costs, charged' = Append(charged, c) PROVE charged' \in Seq(Costs) /\ Len(charged') <= 1
    BY <1>1, <2>2
  <2>. QED  BY <1>3, <2>1, <2>2
<1>5. s = "landed" => Covered'
  BY <1>1, <1>2, StillCovered DEF IInv, Covered
<1>6. ListingTypes'
  BY <1>1, <1>3, <1>4 DEF IInv, TypeOK, ListingTypes
<1>7. ListingBook'
  BY <1>1, <1>2, <1>4, Alone DEF IInv, ListingBook, Terminal, Dispatching
<1>. QED  BY <1>1, <1>2, <1>5, <1>6, <1>7, ListingStep

LEMMA ListingSavesKeeps == ASSUME NEW w \in Workers, ListingTurn(w), ListingSaves(w) PROVE IInv'
<1>. USE Names DEF ListingTurn
<1>1. /\ at[w] = "landed" /\ "landed" \in Dispatching /\ orgLock = w /\ orgLock' = Nobody
      /\ UNCHANGED <<listing, reported, charged>> /\ listing = "running"
  BY DEF ListingSaves, Dispatching, IInv, Covered, ListingBook, listingVars
<1>2. CASE ledger' = Settled("listing", reported) /\ org' = Reconciled(org) /\ Goes(w, "naming")
  <2>1. DispatchStep(w, "naming")
    BY <1>2 DEF ListingSaves, Goes, DispatchStep, IInv, TypeOK, SpendTypes
  <2>2. Ends("listing")
    BY <1>2, SettleEnds, Prices DEF IInv, TypeOK, SpendTypes, Ledgers
  <2>. QED  BY <1>1, <1>2, <2>1, <2>2, ListingWaits DEF Ends
<1>3. CASE Goes(w, "ambiguous") /\ UNCHANGED <<ledger, org>>
  <2>1. DispatchStep(w, "ambiguous")
    BY <1>3 DEF ListingSaves, Goes, DispatchStep, IInv, TypeOK, SpendTypes
  <2>. QED  BY <1>1, <1>3, <2>1, ListingWaits
<1>. QED  BY <1>2, <1>3 DEF ListingSaves

LEMMA DispatchListingKeeps == ASSUME NEW w \in Workers, ListingTurn(w), DispatchListing(w) PROVE IInv'
BY EnterListingKeeps, ListingJobLostKeeps, ListingDeniedKeeps, ListingCallsKeeps, ListingSearchesKeeps,
   ListingSavesKeeps, CompleteListingKeeps, SettleListingKeeps, FailListingKeeps DEF DispatchListing

-------------------------------------------------------------------------------
\* What the steps of a request for a brief have in common.
BriefTurn(w) ==
  /\ IInv /\ wanted = "brief"
  /\ UNCHANGED <<placeVars, changes, billingVars, gridVars, listingVars, wanted>> /\ BriefSpends

Turns == [key : BriefKeys, event : Nat, prompted : BOOLEAN, answer : Answers, tries : Nat]
BillRows == [calls : Nat, sold : Nat, priced : Nat]

\* What the invariant says of one request and of one key.
TurnBook(w) ==
  /\ Authorizing(w) => orgLock = w /\ ~Terminal(Key(w)) /\ ProviderWorkAllowed(Office)
  /\ at[w] = "private" => canary = [event |-> turn[w].event, on |-> TRUE]
  /\ at[w] \in {"private", "unfenced"} => turn[w].event # 0
  /\ at[w] \in Serving => brief[Key(w)] = "running"
  /\ at[w] \in Unsold => bills[Key(w)] = NoBills
  /\ at[w] = "managed" => /\ bills[Key(w)].calls = 1
                          /\ bills[Key(w)].sold <= turn[w].tries /\ turn[w].tries < MaxTries
  /\ at[w] = "opened" => ledger[Key(w)].reserved = 0
  /\ at[w] \in {"denied", "ending"} => Terminal(Key(w))

KeyBook(k) ==
  /\ bills[k].calls <= 1 /\ bills[k].sold <= MaxTries
  /\ brief[k] = "none" => bills[k] = NoBills /\ ledger[k].reserved = 0
  /\ brief[k] \in {"validated", "fallback"} => ledger[k].reserved = 0 \/ Terminal(k)

Sole(w) == at[w] \in Serving \/ brief[Key(w)] = "none"

LEMMA Booked ==
  ASSUME IInv
  PROVE  /\ \A w \in Workers : TurnBook(w) /\ Key(w) \in BriefKeys /\ turn[w].event \in Nat
         /\ \A k \in BriefKeys : KeyBook(k)
         /\ \A w \in Workers : Sole(w) =>
              \A v \in Workers : v # w /\ at[v] \in Serving => Key(v) # Key(w)
BY DEF IInv, TypeOK, BriefTypes, Key, TurnBook, KeyBook, Cleared, Keyed, BriefBook, Sole

\* A step of one request disturbs no other: it changes the rows of its own key,
\* and the canary only with the organization locked.
LEMMA BriefStep ==
  ASSUME NEW w \in Workers, BriefTurn(w),
         at[w] \in Serving \cup {"asking", "idle"}, NEW s \in Serving \cup {"asking", "idle"},
         at' = [at EXCEPT ![w] = s],
         NEW t \in Turns,
         turn' = [turn EXCEPT ![w] = t], s \in Serving => t.key = Key(w) /\ Sole(w),
         brief' = brief \/ (Sole(w) /\ \E b \in {"running", "validated", "fallback"} :
                                         brief' = [brief EXCEPT ![Key(w)] = b]),
         bills' = bills \/ (at[w] \in Serving /\ \E b \in BillRows :
                              bills' = [bills EXCEPT ![Key(w)] = b]),
         ledger' = ledger \/ at[w] \in Serving,
         ledger' \in Ledgers, \A j \in Kinds : j # Key(w) => ledger'[j] = ledger[j],
         org' = org \/ (org' = Reconciled(org) /\ orgLock # Desk),
         orgLock' = orgLock \/ (orgLock \in {w, Nobody} /\ orgLock' \in {w, Nobody}),
         canary' = canary \/ (orgLock = w /\ canary' \in [event : Nat, on : BOOLEAN]),
         prompts' \in Nat, asked' \in Nat,
         Asked' \/ (at[w] # "private" /\ UNCHANGED <<canary, asked, prompts>>),
         TurnBook(w)', \A k \in BriefKeys : k = Key(w) => KeyBook(k)'
  PROVE  IInv'
<1>. USE Names
<1>1. /\ IInv /\ UNCHANGED <<place, desk, quota, changes, sent, receipt, billing, opened, request, job,
            kills, overlaps, fence, started, grid, point, left, view, sold, void, listing, reported,
            charged, wanted>>
  BY DEF BriefTurn, placeVars, billingVars, gridVars, listingVars, BriefSpends, Spends
<1>2. /\ at' \in [Workers -> Steps] /\ at'[w] = s
      /\ \A v \in Workers : v # w => at'[v] = at[v]
  BY <1>1 DEF IInv, TypeOK, SpendTypes, Serving, Steps
<1>3. /\ turn' \in [Workers -> Turns]
      /\ turn'[w] = t /\ \A v \in Workers : v # w => turn'[v] = turn[v]
  BY <1>1 DEF Turns, IInv, TypeOK, BriefTypes
<1>4. /\ Key(w) \in BriefKeys /\ Key(w)' = t.key
      /\ \A v \in Workers : v # w => Key(v)' = Key(v)
  BY <1>1, <1>3, Booked DEF Key
<1>5. /\ request = "none" /\ grid = "none" /\ listing = "none"
      /\ \A v \in Workers : at[v] \notin Dispatching \cup {"waiting"}
  BY <1>1 DEF BriefTurn, IInv, Wanted
<1>6. \A v \in Workers : at'[v] \notin Dispatching \cup {"waiting"}
  BY <1>2, <1>5 DEF Serving, Dispatching
<1>7. \A k \in BriefKeys : k # Key(w) => brief'[k] = brief[k] /\ bills'[k] = bills[k] /\ ledger'[k] = ledger[k]
  BY <1>1 DEF IInv, TypeOK, BriefTypes
<1>8. \A j \in Kinds : j # Key(w) => Terminal(j)' = Terminal(j)
  BY DEF Terminal
<1>9. /\ AllowanceTypes' /\ SpendTypes'
  <2>1. AllowanceTypes'
    BY <1>1 DEF Reconciled, LimitInForce, IInv, TypeOK, AllowanceTypes
  <2>2. orgLock' \in Workers \cup {Nobody, Desk}
    BY <1>1 DEF IInv, TypeOK, SpendTypes
  <2>3. SpendTypes'
    BY <1>1, <1>2, <2>2 DEF IInv, TypeOK, SpendTypes, Ledgers
  <2>. QED  BY <2>1, <2>3
<1>10. BriefTypes'
  <2>1. brief' \in [BriefKeys -> {"none", "running", "validated", "fallback"}]
    BY <1>1, <1>4 DEF IInv, TypeOK, BriefTypes
  <2>2. bills' \in [BriefKeys -> BillRows]
    BY <1>1, <1>4 DEF BillRows, IInv, TypeOK, BriefTypes
  <2>. QED  BY <1>1, <1>3, <2>1, <2>2 DEF Turns, BillRows, IInv, TypeOK, BriefTypes
<1>11. Wanted'
  BY <1>1, <1>2, <1>5, <1>6 DEF BriefTurn, IInv, Wanted, Serving
<1>12. Fenced' /\ Covered'
  BY <1>6 DEF Fenced, Covered, Dispatching
<1>13. Seated'
  <2>1. desk # {} => UNCHANGED <<org, orgLock>>
    BY <1>1 DEF IInv, Seated
  <2>. QED  BY <1>1, <2>1 DEF IInv, Seated, ActivePlaces, LimitInForce
<1>14. \A v \in Workers : v # w /\ at[v] \in Serving /\ Sole(w) => Key(v) # Key(w)
  BY <1>1, Booked
<1>15. ASSUME NEW v \in Workers, v # w PROVE TurnBook(v)'
  <2>1. TurnBook(v) /\ at'[v] = at[v] /\ turn'[v] = turn[v] /\ Key(v)' = Key(v) /\ Key(v) \in BriefKeys
    BY <1>1, <1>2, <1>3, <1>4, <1>15, Booked
  <2>2. Authorizing(v)' = Authorizing(v)
    BY <2>1 DEF Authorizing
  <2>3. Authorizing(v) => at[v] \in Serving /\ orgLock = v
    BY <2>1 DEF TurnBook, Authorizing, Serving
  <2>4. Authorizing(v) => orgLock' = v /\ canary' = canary
    BY <1>15, <2>3
  <2>5. at[v] \in Serving => (Key(v) # Key(w) \/ (brief' = brief /\ bills' = bills /\ ledger' = ledger))
    BY <1>14, <1>15 DEF Sole
  <2>6. at[v] \in Serving => /\ brief'[Key(v)] = brief[Key(v)] /\ bills'[Key(v)] = bills[Key(v)]
                             /\ ledger'[Key(v)] = ledger[Key(v)] /\ Terminal(Key(v))' = Terminal(Key(v))
    BY <1>7, <2>1, <2>5 DEF Terminal
  <2>8. ProviderWorkAllowed(Office) => ProviderWorkAllowed(Office)'
    BY <1>1 DEF ProviderWorkAllowed, OverLimit, ActivePlaces, LimitInForce, Reconciled, IInv, TypeOK,
                AllowanceTypes
  <2>9. at[v] \in Unsold \cup {"private", "unfenced", "denied", "ending", "opened", "managed"} => at[v] \in Serving
    BY DEF Unsold, Serving
  <2>10. at[v] = "private" => Authorizing(v)
    BY DEF Authorizing
  <2>. QED  BY <2>1, <2>2, <2>3, <2>4, <2>6, <2>8, <2>9, <2>10 DEF TurnBook
<1>16. Cleared'
  BY <1>15 DEF Cleared, TurnBook
<1>17. Keyed'
  <2>1. \A v \in Workers : at'[v] \in Serving => brief'[Key(v)'] = "running"
    BY <1>15 DEF TurnBook
  <2>2. ASSUME NEW u \in Workers, at'[u] \in Serving, NEW v \in Workers, v # u, at'[v] \in Serving
        PROVE  Key(v)' # Key(u)'
    BY <1>1, <1>2, <1>4, <1>14, <2>2 DEF IInv, Keyed
  <2>. QED  BY <2>1, <2>2 DEF Keyed
<1>18. BriefBook'
  <2>1. ASSUME NEW k \in BriefKeys PROVE KeyBook(k)'
    <3>1. CASE k = Key(w)
      BY <3>1
    <3>2. CASE k # Key(w)
      BY <1>1, <1>7, <1>8, <2>1, <3>2, Booked DEF KeyBook
    <3>. QED  BY <3>1, <3>2
  <2>. QED  BY <1>15, <2>1 DEF BriefBook, TurnBook, KeyBook
<1>19. GridBook' /\ ListingBook'
  BY <1>1, <1>4, <1>5, <1>8 DEF BriefTurn, IInv, GridBook, ListingBook, With
<1>20. Asked'
  BY <1>1, <1>2 DEF IInv, Asked
<1>. QED
  BY <1>1, <1>9, <1>10, <1>11, <1>12, <1>13, <1>16, <1>17, <1>18, <1>19, <1>20, BillingTypesFrame,
     GridTypesFrame, ListingTypesFrame DEF IInv, TypeOK

\* What a request knows before its step.
LEMMA BriefFacts ==
  ASSUME NEW w \in Workers, BriefTurn(w)
  PROVE  /\ ledger \in Ledgers /\ prompts \in Nat /\ asked \in Nat
         /\ canary \in [event : Nat, on : BOOLEAN]
         /\ turn \in [Workers -> Turns]
         /\ turn = [turn EXCEPT ![w] = turn[w]]
         /\ NoTurn \in Turns
         /\ Key(w) \in BriefKeys /\ BriefKeys \subseteq Kinds /\ TurnBook(w) /\ KeyBook(Key(w))
         /\ bills \in [BriefKeys -> BillRows] /\ NoBills \in BillRows /\ MaxTries \in Nat \ {0}
         /\ brief \in [BriefKeys -> {"none", "running", "validated", "fallback"}]
         /\ IInv /\ BriefSpends /\ BriefEstimate \in Nat
<1>1. IInv /\ BriefSpends
  BY DEF BriefTurn
<1>2. NoTurn \in Turns /\ NoBills \in BillRows
  BY DEF Turns, NoTurn, BriefKeys, Answers, BillRows, NoBills
<1>. QED
  BY <1>1, <1>2, Booked, Names, BriefAssumption DEF Turns, BillRows, IInv, TypeOK, SpendTypes, BriefTypes, Ledgers

LEMMA AskBriefKeeps ==
  ASSUME NEW w \in Workers, BriefTurn(w), NEW k \in BriefKeys, AskBrief(w, k) PROVE IInv'
<1>1. PICK event \in {0, canary.event} :
        turn' = [turn EXCEPT ![w] = [NoTurn EXCEPT !.key = k, !.event = event]]
  BY DEF AskBrief
<1>2. /\ at[w] = "idle" /\ at' = [at EXCEPT ![w] = "asking"]
      /\ UNCHANGED <<ledger, brief, canary, prompts, asked, bills, org, orgLock>>
  BY DEF AskBrief, Goes
<1> DEFINE t == [NoTurn EXCEPT !.key = k, !.event = event]
<1>3. /\ t \in Turns
      /\ t.answer = "none"
  <2>1. canary.event \in Nat /\ event \in Nat
    BY BriefFacts
  <2>. QED  BY <2>1, BriefFacts DEF Turns, NoTurn
<1>4. at'[w] = "asking" /\ turn'[w] = t
  BY <1>1, <1>2, BriefFacts DEF IInv, TypeOK, SpendTypes
<1>5. TurnBook(w)'
  BY <1>3, <1>4 DEF TurnBook, Authorizing, Serving, Unsold
<1>6. KeyBook(Key(w))' \/ \A j \in BriefKeys : KeyBook(j)'
  BY <1>2, BriefFacts, Booked DEF KeyBook, Terminal
<1>7. \A j \in BriefKeys : KeyBook(j)'
  BY <1>2, BriefFacts, Booked DEF KeyBook, Terminal
<1>8. "asking" \notin Serving
  BY DEF Serving
<1>. QED  BY <1>1, <1>2, <1>3, <1>5, <1>7, <1>8, BriefFacts, BriefStep DEF Terminal

\* A step that leaves the ledger, the rows and the bills alone.
LEMMA BriefGoesOn ==
  ASSUME NEW w \in Workers, BriefTurn(w), at[w] \in Serving, NEW s \in Serving,
         s \notin {"opened", "denied", "ending", "managed"}, s \in Unsold => at[w] \in Unsold,
         Goes(w, s), UNCHANGED <<ledger, brief, bills>>,
         NEW t \in Turns, turn' = [turn EXCEPT ![w] = t], t.key = Key(w), t.event = turn[w].event,
         org' = org \/ (org' = Reconciled(org) /\ orgLock # Desk),
         orgLock' = orgLock \/ (orgLock \in {w, Nobody} /\ orgLock' \in {w, Nobody}),
         canary' = canary \/ (orgLock = w /\ canary' \in [event : Nat, on : BOOLEAN]),
         prompts' \in Nat, asked' \in Nat,
         Asked' \/ (at[w] # "private" /\ UNCHANGED <<canary, asked, prompts>>),
         s \in {"cleared", "private"} => Authorizing(w) /\ orgLock' = w /\ org' = org,
         s = "private" => canary' = [event |-> turn[w].event, on |-> TRUE],
         s \in {"private", "unfenced"} => turn[w].event # 0
  PROVE  IInv'
<1>1. /\ at' = [at EXCEPT ![w] = s] /\ at'[w] = s /\ turn'[w] = t /\ Key(w)' = Key(w)
  BY BriefFacts DEF Goes, Key, IInv, TypeOK, SpendTypes
<1>2. /\ Authorizing(w) => ~Terminal(Key(w)) /\ ProviderWorkAllowed(Office)
      /\ brief[Key(w)] = "running" /\ (at[w] \in Unsold => bills[Key(w)] = NoBills)
  BY BriefFacts DEF TurnBook
<1>3. org' = org => ProviderWorkAllowed(Office)' = ProviderWorkAllowed(Office)
  BY DEF BriefTurn, placeVars, ProviderWorkAllowed, OverLimit, ActivePlaces, LimitInForce
<1>4. Terminal(Key(w))' = Terminal(Key(w))
  BY <1>1 DEF Terminal
<1>5. TurnBook(w)'
  BY <1>1, <1>2, <1>3, <1>4 DEF TurnBook, Authorizing
<1>6. \A k \in BriefKeys : KeyBook(k)'
  BY BriefFacts, Booked DEF KeyBook, Terminal
<1>. QED
  BY <1>1, <1>4, <1>5, <1>6, BriefFacts, BriefStep DEF Sole, Terminal

\* A step at the end of which the request has returned.
LEMMA BriefReturns ==
  ASSUME NEW w \in Workers, BriefTurn(w), at[w] \in Serving \cup {"asking"}, Returns(w),
         UNCHANGED <<ledger, canary, prompts, asked, bills, org, orgLock>>,
         \/ brief' = brief
         \/ /\ at[w] \in {"opened", "denied", "ending"}
            /\ \E b \in {"validated", "fallback"} : brief' = [brief EXCEPT ![Key(w)] = b],
         at[w] # "private"
  PROVE  IInv'
<1>1. /\ at' = [at EXCEPT ![w] = "idle"] /\ turn' = [turn EXCEPT ![w] = NoTurn]
      /\ at'[w] = "idle" /\ turn'[w] = NoTurn
  BY BriefFacts DEF Returns, Goes, IInv, TypeOK, SpendTypes
<1>2. TurnBook(w)'
  BY <1>1 DEF TurnBook, Authorizing, Serving, Unsold, NoTurn
<1>3. ASSUME NEW k \in BriefKeys, k = Key(w) PROVE KeyBook(k)'
  <2>1. CASE brief' = brief
    BY <1>3, <2>1, BriefFacts DEF KeyBook, Terminal
  <2>2. CASE /\ at[w] \in {"opened", "denied", "ending"}
             /\ \E b \in {"validated", "fallback"} : brief' = [brief EXCEPT ![Key(w)] = b]
    <3>1. ledger[k].reserved = 0 \/ Terminal(k)
      BY <1>3, <2>2, BriefFacts DEF TurnBook
    <3>2. brief'[k] \in {"validated", "fallback"}
      BY <1>3, <2>2, BriefFacts
    <3>. QED  BY <1>3, <3>1, <3>2, BriefFacts DEF KeyBook, Terminal
  <2>. QED  BY <2>1, <2>2
<1>4. "idle" \notin Serving /\ {"opened", "denied", "ending"} \subseteq Serving
  BY DEF Serving
<1>5. brief' = brief \/ (Sole(w) /\ \E b \in {"running", "validated", "fallback"} :
                                      brief' = [brief EXCEPT ![Key(w)] = b])
  BY <1>4 DEF Sole
<1>. QED
  BY <1>1, <1>2, <1>3, <1>4, <1>5, BriefFacts, BriefStep DEF Terminal

LEMMA OpenBriefKeeps == ASSUME NEW w \in Workers, BriefTurn(w), OpenBrief(w) PROVE IInv'
<1>1. CASE brief[Key(w)] = "none"
  <2>1. /\ at[w] = "asking" /\ at' = [at EXCEPT ![w] = "opened"] /\ turn' = turn
        /\ brief' = [brief EXCEPT ![Key(w)] = "running"]
        /\ UNCHANGED <<ledger, canary, prompts, asked, bills, org, orgLock>>
        /\ "opened" \in Serving /\ Sole(w)
    BY <1>1 DEF OpenBrief, Goes, Serving, Sole
  <2>2. at'[w] = "opened" /\ Key(w)' = Key(w) /\ brief'[Key(w)] = "running"
    BY <2>1, BriefFacts DEF Key, IInv, TypeOK, SpendTypes
  <2>3. bills[Key(w)] = NoBills /\ ledger[Key(w)].reserved = 0
    BY <1>1, BriefFacts DEF KeyBook
  <2>4. TurnBook(w)'
    BY <2>1, <2>2, <2>3, BriefFacts DEF TurnBook, Authorizing
  <2>5. \A k \in BriefKeys : k = Key(w) => KeyBook(k)'
    BY <2>1, <2>2, <2>3, BriefFacts DEF KeyBook, NoBills
  <2>6. turn[w] \in Turns /\ turn[w].key = Key(w)
    BY BriefFacts DEF Key
  <2>. QED
    BY <2>1, <2>4, <2>5, <2>6, BriefFacts, BriefStep DEF Terminal
<1>2. CASE brief[Key(w)] # "none"
  <2>1. /\ at[w] = "asking" /\ Returns(w)
        /\ UNCHANGED <<brief, ledger, canary, prompts, asked, bills, org, orgLock>>
    BY <1>2 DEF OpenBrief
  <2>. QED  BY <2>1, BriefReturns
<1>. QED  BY <1>1, <1>2

LEMMA FallBackKeeps == ASSUME NEW w \in Workers, BriefTurn(w), FallBack(w) PROVE IInv'
<1>1. at[w] \in {"opened", "denied"} /\ at[w] \in Serving
  BY DEF FallBack, Serving
<1>. QED  BY <1>1, BriefReturns DEF FallBack

LEMMA EndBriefKeeps == ASSUME NEW w \in Workers, BriefTurn(w), EndBrief(w) PROVE IInv'
<1>1. at[w] = "ending" /\ at[w] \in Serving
  BY DEF EndBrief, Serving
<1>2. \E b \in {"validated", "fallback"} : brief' = [brief EXCEPT ![Key(w)] = b]
  BY DEF EndBrief
<1>. QED  BY <1>1, <1>2, BriefReturns DEF EndBrief

LEMMA ReserveBriefKeeps == ASSUME NEW w \in Workers, BriefTurn(w), ReserveBrief(w) PROVE IInv'
<1>1. /\ at[w] = "opened" /\ at' = [at EXCEPT ![w] = "held"] /\ orgLock = Nobody
      /\ ledger' = [ledger EXCEPT ![Key(w)].reserved = BriefEstimate] /\ org' = Reconciled(org)
      /\ UNCHANGED <<brief, turn, canary, prompts, asked, bills, orgLock>>
      /\ {"held", "opened"} \subseteq Serving /\ "opened" \in Unsold
  BY DEF ReserveBrief, Goes, Unlocked, briefVars, Serving, Unsold
<1>2. at'[w] = "held" /\ Key(w)' = Key(w) /\ turn[w].key = Key(w)
  BY <1>1, BriefFacts DEF Key, IInv, TypeOK, SpendTypes
<1>3. /\ ledger' \in Ledgers
      /\ \A j \in Kinds : Terminal(j)' = Terminal(j) /\ (j # Key(w) => ledger'[j] = ledger[j])
  <2>1. Key(w) \in Kinds /\ BriefEstimate \in Nat /\ ledger \in Ledgers
    BY BriefFacts
  <2>. QED  BY <1>1, <2>1, ReservationFrame
<1>4. TurnBook(w)'
  BY <1>1, <1>2, BriefFacts DEF TurnBook, Authorizing
<1>5. \A k \in BriefKeys : k = Key(w) => KeyBook(k)'
  BY <1>1, BriefFacts DEF KeyBook, TurnBook
<1>6. orgLock # Desk /\ turn[w] \in Turns
  BY <1>1, BriefFacts, Names
<1>. QED  BY <1>1, <1>2, <1>3, <1>4, <1>5, <1>6, BriefFacts, BriefStep DEF Sole

LEMMA AuthorizeBriefKeeps == ASSUME NEW w \in Workers, BriefTurn(w), AuthorizeBrief(w) PROVE IInv'
<1>1. /\ at[w] = "held" /\ orgLock = Nobody
      /\ UNCHANGED <<brief, turn, canary, prompts, asked, bills, org>>
      /\ {"held", "cleared", "denied"} \subseteq Serving /\ {"held", "cleared", "denied"} \subseteq Unsold
  BY DEF AuthorizeBrief, Unlocked, briefVars, Serving, Unsold
<1>2. Key(w)' = Key(w) /\ turn[w].key = Key(w) /\ ProviderWorkAllowed(Office)' = ProviderWorkAllowed(Office)
  BY <1>1 DEF Key, BriefTurn, placeVars, ProviderWorkAllowed, OverLimit, ActivePlaces, LimitInForce
<1>3. turn[w] \in Turns
  BY BriefFacts
<1>4. CASE Authorized(Key(w), Office)
  <2>1. at' = [at EXCEPT ![w] = "cleared"] /\ orgLock' = w /\ ledger' = ledger
    BY <1>4 DEF AuthorizeBrief, Goes
  <2>2. at'[w] = "cleared"
    BY <2>1, BriefFacts DEF IInv, TypeOK, SpendTypes
  <2>3. TurnBook(w)'
    BY <1>1, <1>2, <1>4, <2>1, <2>2, BriefFacts DEF TurnBook, Authorizing, Authorized, Terminal
  <2>4. \A k \in BriefKeys : k = Key(w) => KeyBook(k)'
    BY <1>1, <2>1, BriefFacts DEF KeyBook, Terminal
  <2>. QED  BY <1>1, <1>2, <1>3, <2>1, <2>3, <2>4, BriefFacts, BriefStep DEF Sole, Terminal
<1>5. CASE ~Authorized(Key(w), Office)
  <2>1. at' = [at EXCEPT ![w] = "denied"] /\ orgLock' = orgLock /\ ledger' = Released(Key(w))
    BY <1>5 DEF AuthorizeBrief, Goes
  <2>2. at'[w] = "denied"
    BY <2>1, BriefFacts DEF IInv, TypeOK, SpendTypes
  <2>3. Ends(Key(w))
    BY <2>1, BriefFacts, ReleaseEnds
  <2>4. TurnBook(w)'
    BY <1>1, <1>2, <2>2, <2>3, BriefFacts DEF Ends, TurnBook, Authorizing
  <2>5. \A k \in BriefKeys : k = Key(w) => KeyBook(k)'
    BY <1>1, <2>3, BriefFacts DEF Ends, KeyBook, TurnBook
  <2>. QED  BY <1>1, <1>2, <1>3, <2>1, <2>3, <2>4, <2>5, BriefFacts, BriefStep DEF Sole, Ends
<1>. QED  BY <1>4, <1>5

\* The rollback of the canary, and what it leaves of the day's private prompts.
LEMMA RolledBack ==
  ASSUME NEW w \in Workers, BriefTurn(w), RollBack(w),
         canary = [event |-> turn[w].event, on |-> TRUE], orgLock = w, UNCHANGED <<asked, prompts>>
  PROVE  /\ canary' = [event |-> canary.event + 1, on |-> FALSE]
         /\ canary' \in [event : Nat, on : BOOLEAN] /\ Goes(w, "unfenced")
         /\ org' = Reconciled(org) /\ orgLock' = Nobody /\ orgLock # Desk
         /\ Asked'
<1>1. /\ canary' = [event |-> canary.event + 1, on |-> FALSE] /\ Goes(w, "unfenced")
      /\ org' = Reconciled(org) /\ orgLock' = Nobody
  BY DEF RollBack, Commit
<1>2. canary.event \in Nat /\ Asked /\ kills' = kills
  BY BriefFacts DEF IInv, BriefSpends, Spends
<1>3. canary' \in [event : Nat, on : BOOLEAN] /\ canary'.event = canary.event + 1
  BY <1>1, <1>2
<1>4. kills = 0 /\ canary.event <= 1 => asked = 0 \/ asked = 1
  BY <1>2 DEF Asked
<1>5. canary'.event <= 2 => canary' = [event |-> 2, on |-> FALSE] /\ canary.event <= 1
  <2>1. canary.event >= 1
    BY <1>2 DEF Asked
  <2>2. canary'.event <= 2 => canary.event + 1 = 2
    BY <1>2, <1>3, <2>1
  <2>3. canary'.event <= 2 => canary' = [event |-> 2, on |-> FALSE]
    BY <1>1, <2>2
  <2>4. canary'.event <= 2 => canary.event <= 1
    BY <1>2, <2>2
  <2>. QED  BY <2>3, <2>4
<1>6. Asked'
  BY <1>2, <1>3, <1>4, <1>5 DEF Asked
<1>. QED  BY <1>1, <1>3, <1>6, Names

LEMMA AskPrivatelyKeeps == ASSUME NEW w \in Workers, BriefTurn(w), AskPrivately(w) PROVE IInv'
<1>1. /\ at[w] = "cleared" /\ turn[w].event # 0 /\ canary = [event |-> turn[w].event, on |-> TRUE]
      /\ prompts < 1 /\ UNCHANGED <<ledger, brief, prompts, bills>>
      /\ {"cleared", "private", "unfenced"} \subseteq Serving /\ {"cleared", "private", "unfenced"} \subseteq Unsold
  BY BriefFacts DEF AskPrivately, MayTryPrivate, DailyPrompts, Serving, Unsold
<1>2. Authorizing(w) /\ orgLock = w /\ kills' = kills
  BY <1>1, BriefFacts DEF TurnBook, Authorizing, BriefSpends, Spends
<1>3. turn[w] \in Turns /\ turn[w].key = Key(w)
  BY BriefFacts DEF Key
<1>4. CASE /\ Goes(w, "private") /\ asked' = asked + 1
           /\ turn' = [turn EXCEPT ![w].prompted = TRUE] /\ UNCHANGED <<canary, org, orgLock>>
  <2> DEFINE t == [turn[w] EXCEPT !.prompted = TRUE]
  <2>1. /\ t \in Turns /\ t.key = Key(w) /\ t.event = turn[w].event /\ t.answer = turn[w].answer
        /\ turn' = [turn EXCEPT ![w] = t]
    BY <1>3, <1>4, BriefFacts DEF Turns
  <2> HIDE DEF t
  <2>2. at'[w] = "private"
    BY <1>4, BriefFacts DEF Goes, IInv, TypeOK, SpendTypes
  <2>3. kills = 0 /\ canary.event <= 2 => asked = 0
    <3>1. \A v \in Workers : at[v] # "private"
      BY <1>1, <1>2, BriefFacts DEF IInv, Cleared, Authorizing
    <3>2. ~(prompts >= 1) /\ canary # [event |-> 2, on |-> FALSE]
      BY <1>1, BriefFacts
    <3>. QED  BY <3>1, <3>2, BriefFacts DEF IInv, Asked
  <2>4. Asked'
    BY <1>2, <1>4, <2>2, <2>3, BriefFacts DEF IInv, Asked
  <2>5. asked' \in Nat
    BY <1>4, BriefFacts
  <2>6. /\ canary' = [event |-> turn[w].event, on |-> TRUE] /\ orgLock' = w /\ prompts' \in Nat
    BY <1>1, <1>2, <1>4, BriefFacts
  <2>. QED  BY <1>1, <1>2, <1>4, <2>1, <2>4, <2>5, <2>6, BriefGoesOn
<1>5. CASE RollBack(w) /\ UNCHANGED <<turn, asked>>
  <2>1. turn' = [turn EXCEPT ![w] = turn[w]]
    BY <1>5, BriefFacts
  <2>2. /\ canary' \in [event : Nat, on : BOOLEAN] /\ Goes(w, "unfenced")
        /\ org' = Reconciled(org) /\ orgLock' = Nobody /\ orgLock # Desk /\ Asked'
        /\ prompts' \in Nat /\ asked' \in Nat
    BY <1>1, <1>2, <1>5, RolledBack, BriefFacts
  <2>. QED  BY <1>1, <1>2, <1>3, <2>1, <2>2, BriefGoesOn
<1>. QED  BY <1>4, <1>5 DEF AskPrivately

LEMMA Committed ==
  ASSUME NEW w \in Workers, Commit(w)
  PROVE  /\ org' = org \/ (org' = Reconciled(org) /\ orgLock # Desk)
         /\ orgLock' = orgLock \/ (orgLock \in {w, Nobody} /\ orgLock' \in {w, Nobody})
BY Names DEF Commit

\* An attempt that is recorded counts whatever was asked.
LEMMA Recorded ==
  ASSUME NEW w \in Workers, BriefTurn(w), prompts' = prompts + 1, UNCHANGED <<canary, asked>>
  PROVE  prompts' \in Nat /\ Asked'
<1>1. prompts \in Nat /\ Asked /\ kills' = kills
  BY BriefFacts DEF IInv, BriefSpends, Spends
<1>2. prompts' >= 1
  BY <1>1
<1>. QED  BY <1>1, <1>2 DEF Asked

LEMMA Heard ==
  ASSUME NEW w \in Workers, BriefTurn(w), NEW a \in Answers, Hears(w, a)
  PROVE  \E t \in Turns : /\ turn' = [turn EXCEPT ![w] = t] /\ t.key = Key(w)
                          /\ t.event = turn[w].event /\ t.answer = a
<1> DEFINE t == [turn[w] EXCEPT !.answer = a, !.tries = 0]
<1>1. t \in Turns /\ t.key = Key(w) /\ t.event = turn[w].event /\ t.answer = a
  BY BriefFacts DEF Turns, Key
<1>2. turn' = [turn EXCEPT ![w] = t]
  BY BriefFacts DEF Hears
<1>. QED  BY <1>1, <1>2

LEMMA PrivateAnswersKeeps == ASSUME NEW w \in Workers, BriefTurn(w), PrivateAnswers(w) PROVE IInv'
<1>1. /\ at[w] = "private" /\ prompts' = prompts + 1 /\ Commit(w) /\ Goes(w, "settling")
      /\ UNCHANGED <<ledger, brief, canary, asked, bills>> /\ {"private", "settling"} \subseteq Serving
      /\ "settling" \notin Unsold /\ "private" \in Answers
  BY DEF PrivateAnswers, Serving, Unsold, Answers
<1>2. PICK t \in Turns : turn' = [turn EXCEPT ![w] = t] /\ t.key = Key(w) /\ t.event = turn[w].event
  BY <1>1, Heard DEF PrivateAnswers
<1>. QED  BY <1>1, <1>2, Committed, Recorded, BriefFacts, BriefGoesOn

LEMMA RecordFallbackKeeps == ASSUME NEW w \in Workers, BriefTurn(w), RecordFallback(w) PROVE IInv'
<1>1. /\ at[w] = "recording" /\ prompts' = prompts + 1 /\ Commit(w) /\ Goes(w, "settling")
      /\ UNCHANGED <<ledger, brief, canary, asked, bills>> /\ {"recording", "settling"} \subseteq Serving
      /\ "settling" \notin Unsold
  BY DEF RecordFallback, Serving, Unsold
<1>2. turn[w] \in Turns /\ turn[w].key = Key(w) /\ turn' = [turn EXCEPT ![w] = turn[w]]
  BY BriefFacts DEF RecordFallback, Key
<1>. QED  BY <1>1, <1>2, Committed, Recorded, BriefFacts, BriefGoesOn

LEMMA PrivateFailsKeeps == ASSUME NEW w \in Workers, BriefTurn(w), PrivateFails(w) PROVE IInv'
<1>1. /\ at[w] = "private" /\ RollBack(w) /\ UNCHANGED <<ledger, brief, turn, prompts, asked, bills>>
      /\ {"private", "unfenced"} \subseteq Serving /\ {"private", "unfenced"} \subseteq Unsold
  BY DEF PrivateFails, Serving, Unsold
<1>2. /\ orgLock = w /\ canary = [event |-> turn[w].event, on |-> TRUE] /\ turn[w].event # 0
  BY <1>1, BriefFacts DEF TurnBook, Authorizing
<1>3. turn[w] \in Turns /\ turn[w].key = Key(w) /\ turn' = [turn EXCEPT ![w] = turn[w]]
  BY <1>1, BriefFacts DEF Key
<1>4. /\ canary' \in [event : Nat, on : BOOLEAN] /\ Goes(w, "unfenced")
      /\ org' = Reconciled(org) /\ orgLock' = Nobody /\ orgLock # Desk /\ Asked'
      /\ prompts' \in Nat /\ asked' \in Nat
  BY <1>1, <1>2, RolledBack, BriefFacts
<1>5. /\ at[w] \in Serving /\ at[w] \in Unsold /\ "unfenced" \in Serving
      /\ UNCHANGED <<ledger, brief, bills>>
  BY <1>1
<1>. QED  BY <1>2, <1>3, <1>4, <1>5, BriefGoesOn

\* A step that asks for the managed prompt, or posts it.
LEMMA ManagedGoesOn ==
  ASSUME NEW w \in Workers, BriefTurn(w), at[w] \in {"cleared", "unfenced", "managed"},
         UNCHANGED <<ledger, brief, canary, prompts, asked, org, orgLock>>,
         NEW s \in {"managed", "recording", "settling"}, at' = [at EXCEPT ![w] = s],
         NEW t \in Turns, turn' = [turn EXCEPT ![w] = t], t.key = Key(w), t.event = turn[w].event,
         NEW b \in BillRows, bills' = [bills EXCEPT ![Key(w)] = b], b.calls = 1, b.sold <= MaxTries,
         s = "managed" => b.sold <= t.tries /\ t.tries < MaxTries
  PROVE  IInv'
<1>1. /\ {"cleared", "unfenced", "managed", "recording", "settling"} \subseteq Serving
      /\ {"managed", "recording", "settling"} \cap (Unsold \cup {"opened", "denied", "ending"}) = {}
  BY DEF Serving, Unsold
<1>2. /\ at'[w] = s /\ turn'[w] = t /\ Key(w)' = Key(w) /\ bills'[Key(w)] = b
      /\ brief[Key(w)] = "running" /\ ProviderWorkAllowed(Office)' = ProviderWorkAllowed(Office)
  <2>1. at'[w] = s /\ turn'[w] = t /\ Key(w)' = Key(w) /\ bills'[Key(w)] = b
    BY BriefFacts DEF Key, IInv, TypeOK, SpendTypes
  <2>2. brief[Key(w)] = "running"
    BY <1>1, BriefFacts DEF TurnBook
  <2>3. ProviderWorkAllowed(Office)' = ProviderWorkAllowed(Office)
    BY DEF BriefTurn, placeVars, ProviderWorkAllowed, OverLimit, ActivePlaces, LimitInForce
  <2>. QED  BY <2>1, <2>2, <2>3
<1>3. Terminal(Key(w))' = Terminal(Key(w))
  BY <1>2 DEF Terminal
<1>4. (s = "managed" /\ turn[w].event = 0) => Authorizing(w)
  BY BriefFacts DEF TurnBook, Authorizing
<1>5. TurnBook(w)'
  <2>1. Authorizing(w)' => Authorizing(w)
    BY <1>2, <1>4 DEF Authorizing
  <2>2. Authorizing(w) => orgLock = w /\ ~Terminal(Key(w)) /\ ProviderWorkAllowed(Office)
    BY BriefFacts DEF TurnBook
  <2>3. Authorizing(w)' => orgLock' = w /\ ~Terminal(Key(w))' /\ ProviderWorkAllowed(Office)'
    BY <1>2, <1>3, <2>1, <2>2
  <2>. QED  BY <1>1, <1>2, <2>3 DEF TurnBook
<1>6. \A k \in BriefKeys : k = Key(w) => KeyBook(k)'
  BY <1>2 DEF KeyBook
<1>7. /\ s \in Serving /\ at[w] \in Serving /\ Sole(w) /\ at[w] # "private"
      /\ prompts' \in Nat /\ asked' \in Nat /\ ledger' \in Ledgers
  BY <1>1, BriefFacts DEF Sole
<1>. QED
  BY <1>5, <1>6, <1>7, BriefStep

\* What asking for the prompt, or posting it, writes into the row of bills and the
\* turn of the request.
LEMMA Asks ==
  ASSUME NEW w \in Workers, BriefTurn(w), AskManaged(w)
  PROVE  \E t \in Turns, b \in BillRows :
           /\ turn' = [turn EXCEPT ![w] = t] /\ t.key = Key(w) /\ t.event = turn[w].event /\ t.tries = 0
           /\ bills' = [bills EXCEPT ![Key(w)] = b] /\ b.calls = 1 /\ b.sold = 0 /\ b.priced = 0
<1>1. at[w] \in Unsold
  BY DEF AskManaged, Unsold
<1> DEFINE t == [turn[w] EXCEPT !.tries = 0]
           b == [bills[Key(w)] EXCEPT !.calls = @ + 1]
<1>2. t \in Turns /\ t.key = Key(w) /\ t.event = turn[w].event /\ t.tries = 0
      /\ turn' = [turn EXCEPT ![w] = t]
  BY BriefFacts DEF AskManaged, Turns, Key
<1>3. /\ bills[Key(w)] \in BillRows /\ bills[Key(w)].calls = 0 /\ bills[Key(w)].sold = 0
      /\ bills[Key(w)].priced = 0
  <2>1. bills[Key(w)] = NoBills
    BY <1>1, BriefFacts DEF TurnBook
  <2>. QED  BY <2>1, BriefFacts DEF NoBills
<1>4. b \in BillRows /\ b.calls = 1 /\ b.sold = 0 /\ b.priced = 0
  BY <1>3 DEF BillRows
<1>5. bills' = [bills EXCEPT ![Key(w)] = b]
  BY BriefFacts DEF AskManaged
<1> HIDE DEF t, b
<1>. QED  BY <1>2, <1>4, <1>5

LEMMA Posts ==
  ASSUME NEW w \in Workers, BriefTurn(w), bills' = bills \/ Sold(Key(w))
  PROVE  \E b \in BillRows : /\ bills' = [bills EXCEPT ![Key(w)] = b]
                             /\ b.calls = bills[Key(w)].calls /\ b.priced = bills[Key(w)].priced
                             /\ b.sold \in {bills[Key(w)].sold, bills[Key(w)].sold + 1}
<1>0. bills[Key(w)] \in BillRows
  BY BriefFacts
<1>1. CASE bills' = bills
  <2>1. bills' = [bills EXCEPT ![Key(w)] = bills[Key(w)]]
    BY <1>1, BriefFacts
  <2>. QED  BY <1>0, <2>1
<1>2. CASE Sold(Key(w))
  <2> DEFINE b == [bills[Key(w)] EXCEPT !.sold = @ + 1]
  <2>1. /\ b \in BillRows /\ b.calls = bills[Key(w)].calls /\ b.sold = bills[Key(w)].sold + 1
        /\ b.priced = bills[Key(w)].priced
    BY <1>0 DEF BillRows
  <2>2. bills' = [bills EXCEPT ![Key(w)] = b]
    BY <1>2, BriefFacts DEF Sold
  <2> HIDE DEF b
  <2>. QED  BY <2>1, <2>2
<1>. QED  BY <1>1, <1>2

LEMMA PostPriced ==
  ASSUME NEW w \in Workers, BriefTurn(w), NEW c \in Nat,
         SoldAt(Key(w), c)
  PROVE  \E b \in BillRows : /\ bills' = [bills EXCEPT ![Key(w)] = b]
                             /\ b.calls = bills[Key(w)].calls /\ b.priced = c
                             /\ b.sold = bills[Key(w)].sold + 1
<1>0. bills[Key(w)] \in BillRows
  BY BriefFacts DEF SoldAt
<1> DEFINE a == [bills[Key(w)] EXCEPT !.sold = @ + 1]
           b == [bills[Key(w)] EXCEPT !.sold = @ + 1, !.priced = c]
<1>1. bills' = [bills EXCEPT ![Key(w)] = b]
  BY BriefFacts DEF SoldAt
<1>2. a \in BillRows /\ a.calls = bills[Key(w)].calls /\ a.sold = bills[Key(w)].sold + 1
  BY <1>0 DEF BillRows
<1>3. b = [a EXCEPT !.priced = c]
  OBVIOUS
<1> HIDE DEF a, b
<1>4. b \in BillRows /\ b.calls = a.calls /\ b.sold = a.sold /\ b.priced = c
  BY <1>2, <1>3 DEF BillRows
<1>. QED  BY <1>1, <1>2, <1>4

LEMMA AskManagedKeeps == ASSUME NEW w \in Workers, BriefTurn(w), AskManaged(w) PROVE IInv'
<1>1. /\ at[w] \in {"cleared", "unfenced"} /\ at' = [at EXCEPT ![w] = "managed"]
      /\ UNCHANGED <<ledger, brief, canary, prompts, asked, org, orgLock>>
  BY DEF AskManaged, Goes
<1>2. PICK t \in Turns, b \in BillRows :
        /\ turn' = [turn EXCEPT ![w] = t] /\ t.key = Key(w) /\ t.event = turn[w].event /\ t.tries = 0
        /\ bills' = [bills EXCEPT ![Key(w)] = b] /\ b.calls = 1 /\ b.sold = 0
  BY Asks
<1>3. b.sold <= MaxTries /\ b.sold <= t.tries /\ t.tries < MaxTries
  BY <1>2, BriefFacts
<1>. QED  BY <1>1, <1>2, <1>3, ManagedGoesOn

\* What a post leaves behind: it was sold, or it was not.
LEMMA PostKeeps ==
  ASSUME NEW w \in Workers, BriefTurn(w), at[w] = "managed",
         UNCHANGED <<ledger, brief, canary, prompts, asked, org, orgLock>>,
         NEW s \in {"managed", "recording", "settling"}, at' = [at EXCEPT ![w] = s],
         NEW t \in Turns, turn' = [turn EXCEPT ![w] = t], t.key = Key(w), t.event = turn[w].event,
         s = "managed" => t.tries = turn[w].tries + 1 /\ t.tries < MaxTries,
         \/ bills' = bills \/ Sold(Key(w))
         \/ \E c \in Nat : SoldAt(Key(w), c)
  PROVE  IInv'
<1>1. /\ bills[Key(w)] \in BillRows /\ bills[Key(w)].calls = 1 /\ turn[w].tries \in Nat
      /\ bills[Key(w)].sold <= turn[w].tries /\ turn[w].tries < MaxTries /\ MaxTries \in Nat
  BY BriefFacts DEF TurnBook, Turns
<1>2. PICK b \in BillRows :
        /\ bills' = [bills EXCEPT ![Key(w)] = b] /\ b.calls = 1
        /\ b.sold \in {bills[Key(w)].sold, bills[Key(w)].sold + 1}
  BY <1>1, Posts, PostPriced
<1>3. b.sold <= MaxTries /\ (s = "managed" => b.sold <= t.tries /\ t.tries < MaxTries)
  BY <1>1, <1>2 DEF BillRows
<1>. QED  BY <1>2, <1>3, ManagedGoesOn

LEMMA ManagedTryFailsKeeps == ASSUME NEW w \in Workers, BriefTurn(w), ManagedTryFails(w) PROVE IInv'
<1>1. /\ at[w] = "managed" /\ UNCHANGED <<ledger, brief, canary, prompts, asked, org, orgLock>>
      /\ bills' = bills \/ Sold(Key(w))
  BY DEF ManagedTryFails
<1>2. CASE turn[w].tries + 1 < MaxTries
  <2> DEFINE t == [turn[w] EXCEPT !.tries = @ + 1]
  <2>1. t \in Turns /\ t.key = Key(w) /\ t.event = turn[w].event /\ t.tries = turn[w].tries + 1
    BY BriefFacts DEF Turns, Key
  <2>2. turn' = [turn EXCEPT ![w] = t] /\ at' = [at EXCEPT ![w] = "managed"]
    BY <1>1, <1>2, BriefFacts DEF ManagedTryFails, IInv, TypeOK, SpendTypes
  <2> HIDE DEF t
  <2>. QED  BY <1>1, <1>2, <2>1, <2>2, PostKeeps
<1>3. CASE ~(turn[w].tries + 1 < MaxTries)
  <2>1. PICK a \in {"unsure", "refused"} : Hears(w, a) /\ HandsOver(w)
    BY <1>3 DEF ManagedTryFails
  <2>2. PICK t \in Turns : turn' = [turn EXCEPT ![w] = t] /\ t.key = Key(w) /\ t.event = turn[w].event
    BY <2>1, Heard DEF Answers
  <2>3. PICK s \in {"recording", "settling"} : at' = [at EXCEPT ![w] = s]
    BY <2>1 DEF HandsOver, Goes
  <2>. QED  BY <1>1, <2>2, <2>3, PostKeeps
<1>. QED  BY <1>2, <1>3

LEMMA ManagedAnswersKeeps == ASSUME NEW w \in Workers, BriefTurn(w), ManagedAnswers(w) PROVE IInv'
<1>1. /\ at[w] = "managed" /\ UNCHANGED <<ledger, brief, canary, prompts, asked, org, orgLock>>
      /\ HandsOver(w)
  BY DEF ManagedAnswers
<1>2. PICK a \in {"priced", "unsure", "refused"} : Hears(w, a)
  BY DEF ManagedAnswers
<1>3. PICK t \in Turns : turn' = [turn EXCEPT ![w] = t] /\ t.key = Key(w) /\ t.event = turn[w].event
  BY <1>2, Heard DEF Answers
<1>4. PICK s \in {"recording", "settling"} : at' = [at EXCEPT ![w] = s]
  BY <1>1 DEF HandsOver, Goes
<1>5. \/ bills' = bills \/ Sold(Key(w))
      \/ \E c \in Nat : SoldAt(Key(w), c)
  BY BriefAssumption DEF ManagedAnswers
<1>. QED  BY <1>1, <1>3, <1>4, <1>5, PostKeeps

LEMMA SettleBriefKeeps == ASSUME NEW w \in Workers, BriefTurn(w), SettleBrief(w) PROVE IInv'
<1>1. /\ at[w] = "settling" /\ Commit(w) /\ at' = [at EXCEPT ![w] = "ending"]
      /\ UNCHANGED <<brief, turn, canary, prompts, asked, bills>>
      /\ {"settling", "ending"} \subseteq Serving /\ "ending" \notin Unsold
  BY DEF SettleBrief, Goes, briefVars, Serving, Unsold
<1>2. at'[w] = "ending" /\ Key(w)' = Key(w) /\ turn[w].key = Key(w)
  BY <1>1, BriefFacts DEF Key, IInv, TypeOK, SpendTypes
<1>3. bills[Key(w)].priced \in Nat
  BY BriefFacts DEF BillRows
<1>4. Ends(Key(w))
  <2>1. CASE turn[w].answer = "priced"
    BY <1>3, <2>1, BriefFacts, SettleEnds DEF SettleBrief
  <2>2. CASE turn[w].answer = "unsure"
    BY <2>2, BriefFacts, SettleEnds DEF SettleBrief
  <2>3. CASE turn[w].answer \notin {"priced", "unsure"}
    BY <2>3, BriefFacts, ReleaseEnds DEF SettleBrief
  <2>. QED  BY <2>1, <2>2, <2>3
<1>5. TurnBook(w)'
  BY <1>1, <1>2, <1>4, BriefFacts DEF Ends, TurnBook, Authorizing
<1>6. \A k \in BriefKeys : k = Key(w) => KeyBook(k)'
  BY <1>1, <1>4, BriefFacts DEF Ends, KeyBook, TurnBook
<1>7. turn[w] \in Turns
  BY BriefFacts
<1>. QED
  BY <1>1, <1>2, <1>4, <1>5, <1>6, <1>7, Committed, BriefFacts, BriefStep DEF Sole, Ends

LEMMA ServeKeeps == ASSUME IInv, NEW w \in Workers, Serve(w) PROVE IInv'
<1>1. BriefTurn(w)
  BY DEF Serve, ServeBrief, BriefTurn, AskBrief, OpenBrief, FallBack, ReserveBrief, AuthorizeBrief,
     AskPrivately, PrivateAnswers, PrivateFails, AskManaged, ManagedTryFails, ManagedAnswers, RecordFallback,
     SettleBrief, EndBrief
<1>. QED
  BY <1>1, AskBriefKeeps, OpenBriefKeeps, FallBackKeeps, ReserveBriefKeeps, AuthorizeBriefKeeps,
     AskPrivatelyKeeps, PrivateAnswersKeeps, PrivateFailsKeeps, AskManagedKeeps,
     ManagedTryFailsKeeps, ManagedAnswersKeeps, RecordFallbackKeeps, SettleBriefKeeps, EndBriefKeeps DEF Serve, ServeBrief

\* The owner's switch waits for the organization, so no private prompt is out.
LEMMA OwnKeeps == ASSUME IInv, Own PROVE IInv'
<1>1. /\ orgLock = Nobody /\ quota' = quota /\ changes < quota /\ changes' = changes + 1
      /\ canary' = [event |-> canary.event + 1, on |-> ~canary.on]
      /\ UNCHANGED <<org, place, desk, orgLock, sent, receipt, billing, opened, ledger, request, job,
                     fence, at, started, kills, overlaps, grid, point, left, view, sold, void, listing,
                     reported, charged, brief, turn, prompts, asked, bills, wanted>>
  BY DEF Own, SetCanary, Unlocked, Changed, spendVars, billingVars, gridVars, listingVars
<1>2. canary \in [event : Nat, on : BOOLEAN] /\ canary.event > 0
  BY DEF IInv, TypeOK, BriefTypes, Asked
<1>3. BriefTypes'
  BY <1>1, <1>2 DEF IInv, TypeOK, BriefTypes
<1>4. AllowanceTypes'
  <2>1. quota \in Nat /\ changes \in 0 .. quota
    BY AllowanceAssumption DEF IInv, TypeOK, AllowanceTypes
  <2>2. changes' \in 0 .. quota
    BY <1>1, <2>1
  <2>. QED  BY <1>1, <2>2 DEF IInv, TypeOK, AllowanceTypes
<1>5. \A w \in Workers : ~Authorizing(w)
  BY <1>1, Names DEF IInv, Cleared
<1>6. Covered' /\ Cleared'
  BY <1>1, Calm, Names
<1>7. Asked'
  <2>1. canary'.event = canary.event + 1 /\ (canary'.event <= 2 => canary.event = 1)
    BY <1>1, <1>2
  <2>2. \A w \in Workers : at[w] # "private"
    BY <1>5 DEF Authorizing
  <2>. QED  BY <1>1, <1>2, <2>1, <2>2 DEF IInv, Asked
<1>. QED
  BY <1>1, <1>3, <1>4, <1>6, <1>7, BillingTypesFrame, SpendTypesFrame, GridTypesFrame,
     ListingTypesFrame, WantedFrame, FencedFrame, SeatedFrame, KeyedFrame, GridBookFrame,
     ListingBookFrame, BriefBookFrame DEF IInv, TypeOK

LEMMA DrainKeeps == ASSUME IInv, NEW w \in Workers, Drain(w) PROVE IInv'
<1>1. DrainRest
  BY DEF Drain, DrainRest
<1>2. CASE wanted = "grid" /\ DispatchGrid(w) /\ UNCHANGED listingVars
  BY <1>1, <1>2, DispatchGridKeeps DEF GridTurn
<1>3. CASE wanted = "listing" /\ DispatchListing(w) /\ UNCHANGED gridVars
  BY <1>1, <1>3, DispatchListingKeeps DEF ListingTurn
<1>. QED  BY <1>1, <1>2, <1>3, TakeFenceKeeps, BusyKeeps, ReportKeeps DEF Drain

LEMMA StutterKeeps == ASSUME IInv, UNCHANGED vars PROVE IInv'
<1>1. UNCHANGED <<org, place, desk, quota, changes, orgLock, sent, receipt, billing, opened, ledger,
                  request, job, fence, at, started, kills, overlaps, grid, point, left, view, sold, void,
                  listing, reported, charged, brief, turn, canary, prompts, asked, bills, wanted>>
  BY DEF vars, allowanceVars, billingVars, runVars, spendVars, gridVars, listingVars, briefVars
<1>. QED
  BY <1>1, AllowanceTypesFrame, BillingTypesFrame, SpendTypesFrame, GridTypesFrame, ListingTypesFrame,
     BriefTypesFrame, WantedFrame, FencedFrame, SeatedFrame, CoveredFrame, ClearedFrame, KeyedFrame,
     GridBookFrame, ListingBookFrame, BriefBookFrame, AskedFrame DEF IInv, TypeOK

LEMMA NextKeeps == ASSUME IInv, [Next]_vars PROVE IInv'
BY AllowanceKeeps, BillingKeeps, RequestKeeps, ClaimKeeps, DrainKeeps, KillKeeps, ServeKeeps,
   RefreshKeeps, OwnKeeps, StutterKeeps DEF Next

LEMMA Invariance == Spec => []IInv
<1>1. IInv /\ [Next]_vars => IInv'
  BY NextKeeps
<1>. QED  BY <1>1, Initially, PTL DEF Spec

-------------------------------------------------------------------------------
\* The rows of the commercial part keep their types through every mix of desk,
\* Stripe, drains, requests for briefs and kills.
THEOREM Typed == Spec => []TypeOK
<1>1. IInv => TypeOK
  BY DEF IInv
<1>. QED  BY <1>1, Invariance, PTL

\* A paid call is out only while its worker owns the job, the run's fence and the
\* organization, and the plan, the status, the location and the reservation it
\* was authorized by all hold; a private prompt only under the canary running.
THEOREM Allowed == Spec => []CallIsCovered
<1>1. IInv => CallIsCovered
  BY DEF IInv, Covered, Cleared, Fenced, Dispatching, Authorizing, RunPlace, CallIsCovered
<1>. QED  BY <1>1, Invariance, PTL

\* A point, a search and a managed prompt are bought at most once, for any grid,
\* batch size and number of workers, kills and expired leases.
THEOREM Once == Spec => []BoughtOnce
<1>1. ASSUME IInv, asked > DailyPrompts PROVE kills > 0 \/ canary.event > 2
  <2>1. asked \notin {0, 1}
    BY <1>1 DEF DailyPrompts
  <2>2. ~(kills = 0 /\ canary.event <= 2)
    BY <1>1, <2>1 DEF IInv, Asked
  <2>3. kills \in Nat /\ canary.event \in Nat
    BY <1>1, SpendAssumption DEF IInv, TypeOK, SpendTypes, BriefTypes
  <2>. QED  BY <2>2, <2>3
<1>2. IInv => BoughtOnce
  BY <1>1 DEF IInv, GridBook, ListingBook, BriefBook, BoughtOnce
<1>. QED  BY <1>2, Invariance, PTL

\* No run and no brief ends with its reservation open.
THEOREM Closed == Spec => []EndedRunsAreSettled
<1>1. IInv => EndedRunsAreSettled
  BY DEF IInv, GridBook, ListingBook, BriefBook, EndedRunsAreSettled
<1>. QED  BY <1>1, Invariance, PTL

\* Where a run's status changes.
LEMMA RunChanges ==
  ASSUME Next
  PROVE  /\ listing' = listing \/ (wanted = "listing" /\ (SaveListing \/ \E w \in Workers : DispatchListing(w)))
         /\ grid' = grid \/ (wanted = "grid" /\ (SaveGrid \/ \E w \in Workers : DispatchGrid(w))) \/ Refresh
<1>1. CASE AllowanceStep \/ BillingStep
  BY <1>1 DEF AllowanceStep, BillingStep, runVars, gridVars, listingVars
<1>2. CASE RequestStep
  BY <1>2 DEF RequestStep, SaveGrid, SaveListing, gridVars, listingVars
<1>3. ASSUME NEW w \in Workers, Claim(w) \/ Kill(w) \/ Serve(w)
      PROVE  UNCHANGED <<listing, grid>>
  BY <1>3 DEF Claim, Kill, Serve, gridVars, listingVars
<1>4. ASSUME NEW w \in Workers, Drain(w)
      PROVE  /\ listing' = listing \/ (wanted = "listing" /\ DispatchListing(w))
             /\ grid' = grid \/ (wanted = "grid" /\ DispatchGrid(w))
  BY <1>4 DEF Drain, gridVars, listingVars
<1>5. CASE Refresh \/ Own
  BY <1>5 DEF Refresh, Own, gridVars, listingVars
<1>. QED  BY <1>1, <1>2, <1>3, <1>4, <1>5 DEF Next

\* A run that concluded stays concluded: no late worker, expired lease or refresh
\* opens it again.
THEOREM Concluded == Spec => ConcludedForGood
<1>1. ASSUME IInv, Next, listing \in {"completed", "failed"} PROVE listing' = listing
  <2>1. request = "saved"
    BY <1>1 DEF IInv, Wanted
  <2>2. ~SaveListing
    BY <2>1 DEF SaveListing, SaveRequest
  <2>3. ASSUME NEW w \in Workers, wanted = "listing", DispatchListing(w) PROVE listing' = listing
    <3>1. at[w] \notin {"first", "calling", "landed", "ambiguous", "naming", "closing"}
      BY <1>1, <2>3 DEF IInv, ListingBook
    <3>2. EnterListing(w)
      BY <2>3, <3>1 DEF DispatchListing, ListingJobLost, ListingDenied, ListingCalls, ListingSearches,
         ListingSaves, CompleteListing, SettleListing, FailListing
    <3>. QED  BY <1>1, <3>2 DEF EnterListing
  <2>. QED  BY <1>1, <2>2, <2>3, RunChanges
<1>2. ASSUME IInv, Next, grid \in {"completed", "failed"} PROVE grid' \notin {"queued", "submitting"}
  <2>1. request = "saved" /\ With("queued") = {}
    BY <1>2 DEF IInv, Wanted, GridBook
  <2>2. ~SaveGrid
    BY <2>1 DEF SaveGrid, SaveRequest
  <2>3. ASSUME NEW w \in Workers, wanted = "grid", DispatchGrid(w) PROVE grid' \notin {"queued", "submitting"}
    <3>1. CASE EnterGrid(w)
      BY <1>2, <2>1, <3>1 DEF EnterGrid
    <3>2. CASE WriteTotals(w)
      <4>1. view \in [Points -> Statuses] /\ grid' = TotalsStatus(grid, view)
        BY <1>2, <3>2 DEF WriteTotals, IInv, TypeOK, GridTypes, Statuses
      <4>. QED  BY <1>2, <4>1, TotalsNamed
    <3>3. CASE CloseAmbiguous(w) \/ NameDenied(w)
      BY <3>3 DEF CloseAmbiguous, NameDenied
    <3>4. CASE DenyGrid(w)
      BY <1>2, <3>4 DEF DenyGrid
    <3>5. CASE GridJobLost(w) \/ GridDenied(w) \/ GridUnavailable(w) \/ GridCalls(w) \/ GridSubmits(w)
               \/ GridSaves(w) \/ ReadTotals(w) \/ SettleAmbiguous(w)
      BY <1>2, <3>5 DEF GridJobLost, GridDenied, GridUnavailable, GridCalls, GridSubmits, GridSaves,
         ReadTotals, SettleAmbiguous, gridVars
    <3>. QED  BY <2>3, <3>1, <3>2, <3>3, <3>4, <3>5 DEF DispatchGrid
  <2>4. CASE Refresh
    <3>1. grid' = TotalsStatus(grid, point') /\ GridTypes'
      BY <1>2, <2>4, RefreshKeeps DEF Refresh, RefreshGrid, IInv, TypeOK
    <3>2. point' \in [Points -> Statuses]
      BY <3>1 DEF GridTypes, Statuses
    <3>. QED  BY <1>2, <3>1, <3>2, TotalsNamed
  <2>. QED  BY <1>2, <2>2, <2>3, <2>4, RunChanges
<1>3. IInv /\ [Next]_vars =>
        [/\ listing \in {"completed", "failed"} => listing' = listing
         /\ grid \in {"completed", "failed"} => grid' \notin {"queued", "submitting"}]_vars
  BY <1>1, <1>2
<1>. QED  BY <1>3, Invariance, PTL DEF Spec, ConcludedForGood

\* Most steps touch neither a place nor the subscription, and the plan only by
\* bringing the entitlement in line.
LEMMA Elsewhere ==
  ASSUME IInv, Next, ~AllowanceStep, ~BillingStep
  PROVE  place' = place /\ billing' = billing /\ org'.plan = org.plan
<1>1. Reconciled(org).plan = org.plan
  BY DEF Reconciled, IInv, TypeOK, AllowanceTypes
<1>2. CASE RequestStep
  BY <1>1, <1>2 DEF RequestStep, Reserve, SaveGrid, SaveListing, placeVars, billingVars
<1>3. ASSUME NEW w \in Workers, Claim(w) \/ Kill(w) PROVE place' = place /\ billing' = billing /\ org' = org
  BY <1>3 DEF Claim, Kill, allowanceVars, placeVars, billingVars
<1>4. ASSUME NEW w \in Workers, Drain(w) PROVE place' = place /\ billing' = billing /\ org' \in {org, Reconciled(org)}
  <2>1. place' = place /\ billing' = billing
    BY <1>4 DEF Drain, placeVars, billingVars
  <2>2. DispatchGrid(w) => org' \in {org, Reconciled(org)}
    BY DEF DispatchGrid, EnterGrid, GridJobLost, GridDenied, GridUnavailable, GridCalls, GridSubmits,
       GridSaves, ReadTotals, WriteTotals, SettleAmbiguous, CloseAmbiguous, DenyGrid, NameDenied
  <2>3. DispatchListing(w) => org' \in {org, Reconciled(org)}
    BY DEF DispatchListing, EnterListing, ListingJobLost, ListingDenied, ListingCalls, ListingSearches,
       ListingSaves, CompleteListing, SettleListing, FailListing
  <2>. QED  BY <1>4, <2>1, <2>2, <2>3 DEF Drain
<1>5. ASSUME NEW w \in Workers, Serve(w) PROVE place' = place /\ billing' = billing /\ org' \in {org, Reconciled(org)}
  <2>1. place' = place /\ billing' = billing
    BY <1>5 DEF Serve, placeVars, billingVars
  <2>2. ServeBrief(w) => org' \in {org, Reconciled(org)}
    BY DEF ServeBrief, AskBrief, OpenBrief, FallBack, ReserveBrief, AuthorizeBrief, AskPrivately, RollBack,
       Commit, PrivateAnswers, PrivateFails, AskManaged, ManagedTryFails, ManagedAnswers, RecordFallback, SettleBrief, EndBrief
  <2>. QED  BY <1>5, <2>1, <2>2 DEF Serve
<1>6. CASE Refresh \/ Own
  BY <1>6 DEF Refresh, RefreshGrid, Own, SetCanary, placeVars, billingVars
<1>. QED  BY <1>1, <1>2, <1>3, <1>4, <1>5, <1>6 DEF Next

\* Under an enforced allowance a request turns on no more locations than the plan
\* of that moment includes: what it counted still holds when it commits.
THEOREM Fits == Spec => NeverGrowsPastPlan
<1>1. ASSUME IInv, Next, org.enforced, ActivePlaces' \ ActivePlaces # {}
      PROVE  Cardinality(ActivePlaces') <= Included[org'.plan]
  <2>1. AllowanceStep /\ ~BillingStep
    <3>1. place' # place
      BY <1>1 DEF ActivePlaces
    <3>2. ~BillingStep
      BY <3>1 DEF BillingStep, BillingNext, placeVars
    <3>. QED  BY <1>1, <3>1, <3>2, Elsewhere
  <2>2. \A l \in Locations : ~ArchivePlace(l)
    BY <1>1 DEF ArchivePlace, ActivePlaces, IInv, TypeOK, AllowanceTypes
  <2>3. place' # place
    BY <1>1 DEF ActivePlaces
  <2>4. ActivatePlaces /\ org' = Reconciled(org)
    BY <2>1, <2>2, <2>3 DEF AllowanceStep, AllowanceNext, CheckCapacity, ActivatePlaces, PatchPlan,
       OldWorkerSetsPlan, PatchStatus, Enforce
  <2>5. ActivePlaces' = ActivePlaces \cup desk
    BY <1>1, <2>3, <2>4 DEF ActivatePlaces, ActivePlaces, IInv, TypeOK, AllowanceTypes
  <2>6. org'.plan = org.plan
    BY <1>1, <2>4 DEF Reconciled, IInv, TypeOK, AllowanceTypes
  <2>7. Cardinality(ActivePlaces \cup desk) <= Included[org.plan]
    BY <1>1, <2>4 DEF ActivatePlaces, IInv, Seated, LimitInForce
  <2>. QED  BY <2>5, <2>6, <2>7
<1>2. UNCHANGED vars => UNCHANGED allowanceVars
  BY DEF vars
<1>3. IInv /\ [Next]_vars =>
        [org.enforced /\ ActivePlaces' \ ActivePlaces # {}
           => Cardinality(ActivePlaces') <= Included[org'.plan]]_allowanceVars
  BY <1>1, <1>2
<1>. QED  BY <1>3, Invariance, PTL DEF Spec, NeverGrowsPastPlan
==============================================================================
