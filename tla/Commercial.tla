----------------------------- MODULE Commercial ------------------------------
(***************************************************************************)
(* The commercial side of one organization: its locations and plan, its    *)
(* Stripe subscription, and paid provider work that depends on both.       *)
(*                                                                         *)
(* The parts meet in the organization row and its lock: a provider call is *)
(* made while its worker holds the row, so that the plan, the status and   *)
(* the locations it was authorized by hold until it returns.               *)
(***************************************************************************)
EXTENDS StripeBilling, GridRuns, ListingRuns, GovernedBriefs

\* Each scenario: the events Stripe sends, the kind of run the customer asks
\* for, the locations first active, whether the allowance is enforced from the
\* start, and how many changes users and operators make.
CONSTANT Scenarios

VARIABLE wanted   \* the kind of paid work of this behaviour, or "nothing"

runVars == <<spendVars, gridVars, listingVars, briefVars, wanted>>
vars == <<allowanceVars, billingVars, runVars>>

Init ==
  /\ wanted \in {"nothing", "grid", "listing", "brief"}
  /\ AllowanceInit /\ BillingInit /\ SpendInit /\ GridInit /\ ListingInit /\ BriefInit
  /\ canary.on => wanted = "brief"
  /\ [feed |-> sent, wanted |-> wanted, active |-> ActivePlaces,
      enforced |-> org.enforced, changes |-> quota] \in Scenarios

AllowanceStep == AllowanceNext /\ UNCHANGED <<billingVars, runVars>>

BillingStep == BillingNext /\ UNCHANGED runVars

RequestStep ==
  /\ \/ wanted = "grid" /\ Reserve("grid", Estimate, Site) /\ UNCHANGED orgLock
        /\ UNCHANGED <<gridVars, listingVars>>
     \/ wanted = "listing" /\ Reserve("listing", 1, Shop) /\ UNCHANGED orgLock
        /\ UNCHANGED <<gridVars, listingVars>>
     \/ wanted = "grid" /\ SaveGrid /\ UNCHANGED listingVars
     \/ wanted = "listing" /\ SaveListing /\ UNCHANGED gridVars
     \/ LoseRequest /\ UNCHANGED <<org, orgLock, gridVars, listingVars>>
  /\ UNCHANGED <<placeVars, changes, billingVars, briefVars, wanted>>

\* What one drain does with the run's job when it is not killed.
Drain(w) ==
  /\ \/ TakeFence(w) /\ UNCHANGED <<org, orgLock, gridVars, listingVars>>
     \/ FenceBusy(w) /\ UNCHANGED <<org, orgLock, gridVars, listingVars>>
     \/ Report(w) /\ UNCHANGED <<org, orgLock, gridVars, listingVars>>
     \/ wanted = "grid" /\ DispatchGrid(w) /\ UNCHANGED listingVars
     \/ wanted = "listing" /\ DispatchListing(w) /\ UNCHANGED gridVars
  /\ UNCHANGED <<placeVars, changes, billingVars, briefVars, wanted>>

Claim(w) ==
  /\ ClaimJob(w)
  /\ UNCHANGED <<allowanceVars, billingVars, gridVars, listingVars, briefVars, wanted>>

Kill(w) ==
  /\ KillDrain(w) /\ turn' = [turn EXCEPT ![w] = NoTurn]
  /\ UNCHANGED <<org, placeVars, changes, billingVars, gridVars, listingVars, wanted,
                 brief, canary, prompts, asked, bills>>

\* A customer asks for a brief, and a thread of the API serves the request.
Serve(w) ==
  /\ wanted = "brief" /\ ServeBrief(w)
  /\ UNCHANGED <<placeVars, changes, billingVars, gridVars, listingVars, wanted>>

Own == wanted = "brief" /\ SetCanary /\ UNCHANGED <<billingVars, gridVars, listingVars, wanted>>

Refresh == RefreshGrid /\ UNCHANGED <<placeVars, changes, billingVars, listingVars, briefVars, wanted>>

Next ==
  \/ AllowanceStep \/ BillingStep \/ RequestStep
  \/ \E w \in Workers : Claim(w) \/ Drain(w) \/ Kill(w) \/ Serve(w)
  \/ Refresh \/ Own

\* Stripe sends an event again until it is answered well; the database answers
\* the request at the desk; cron drains claim what is due and run to their end
\* unless they are killed.
Fairness ==
  /\ WF_vars(Redelivered /\ UNCHANGED runVars)
  /\ WF_vars(ActivatePlaces /\ UNCHANGED <<billingVars, runVars>>)
  /\ WF_vars(\E w \in Workers : Claim(w))
  /\ \A w \in Workers : WF_vars(Drain(w))

Spec == Init /\ [][Next]_vars /\ Fairness

-------------------------------------------------------------------------------
TypeOK ==
  /\ AllowanceTypes /\ BillingTypes /\ SpendTypes /\ GridTypes /\ ListingTypes
  /\ BriefTypes

\* While a paid call is out: its worker owns the job, the fence and the
\* organization row; the workspace is active and within its plan, the location
\* is active, and the reservation still stands for it.  So it is for the prompts
\* of a brief, except a managed one of a request chosen for the canary (see
\* ManagedPromptIsAllowed); a private one is sent only under the canary the owner
\* has running.
CallIsCovered ==
  \A w \in Workers :
    /\ at[w] \in {"calling", "landed"} =>
         /\ Owns(w) /\ fence = w /\ orgLock = w
         /\ ~Terminal(wanted)
         /\ ProviderWorkAllowed(IF wanted = "grid" THEN Site ELSE Shop)
    /\ at[w] = "private" \/ (at[w] = "managed" /\ turn[w].event = 0) =>
         orgLock = w /\ ~Terminal(Key(w)) /\ ProviderWorkAllowed(Office)
    /\ at[w] = "private" => canary = [event |-> turn[w].event, on |-> TRUE]

\* No point of a grid is submitted to the supplier twice, and the search of a
\* listing check runs at most once, through kills, expired leases, refreshes in
\* the middle of a dispatch and retries of the job.  Requests that race under one
\* key ask for one managed prompt, so that no more is sold for a brief than the
\* posts of one prompt (a repeated post may be sold again); the private provider
\* gets one prompt a day unless its request was killed or the owner started the
\* canary again in between.
BoughtOnce ==
  /\ (\A p \in Points : sold[p] <= 1) /\ Len(charged) <= 1
  /\ \A k \in BriefKeys : bills[k].calls <= 1 /\ bills[k].sold <= MaxTries
  /\ asked > DailyPrompts => kills > 0 \/ canary.event > 2

\* What was or may have been bought is counted against the plan's budget.  For a
\* grid the ledger never counts less than the points sold, also when the answer
\* was lost.  A listing check counts at least its estimate, and what it cost once
\* completed.  A brief counts its estimate until its prompt is settled, then the
\* cost of the answer it got; if a post of it was sold without an answer, the
\* estimate stands or was released.  A validated brief counts the cost of its
\* answer, and nothing if the answer was the private provider's.
SpendIsCharged ==
  /\ Exposure("grid") >= Cardinality({p \in Points : sold[p] > 0} \ void)
  /\ charged # <<>> => Exposure("listing") >= 1
  /\ listing = "completed" => charged # <<>> /\ ledger["listing"].settled = {charged[1]}
  /\ \A k \in BriefKeys :
       /\ bills[k].priced > 0 =>
            Exposure(k) = IF Terminal(k) THEN bills[k].priced ELSE BriefEstimate
       /\ bills[k].sold > 0 /\ bills[k].priced = 0 =>
            Exposure(k) = BriefEstimate \/ ledger[k].released
       /\ brief[k] = "validated" => Exposure(k) = bills[k].priced

\* A run that ended holds no open reservation: it was settled or released, by a
\* commit before or with the one that ended it.
EndedRunsAreSettled ==
  /\ grid \in {"completed", "failed"} => Terminal("grid")
  /\ listing \in {"completed", "failed"} => Terminal("listing")
  /\ \A k \in BriefKeys : brief[k] \in {"validated", "fallback"} =>
       ledger[k].reserved = 0 \/ Terminal(k)

\* A saved run is in the end dispatched to a conclusion, or its job is given up:
\* no kill, lost lease or busy fence leaves it queued or half submitted for ever.
RunsConclude ==
  request = "saved" ~> \/ job.status = "dead_letter"
                       \/ /\ grid \notin {"queued", "submitting"}
                          /\ listing \notin {"queued", "running"}

\* A dispatched run that concluded is not opened again by a late worker, except
\* that a refresh may still name a partial run.
ConcludedForGood ==
  [][/\ listing \in {"completed", "failed"} => listing' = listing
     /\ grid \in {"completed", "failed"} => grid' \notin {"queued", "submitting"}]_vars

\* services/cost_economics_service.py:339: every provider boundary authorizes
\* after its last commit, so that no downgrade or archive is committed before the
\* call returns.  A managed prompt is out only while its location may be worked
\* for.
ManagedPromptIsAllowed ==
  \A w \in Workers : at[w] = "managed" => ProviderWorkAllowed(Office)
==============================================================================
