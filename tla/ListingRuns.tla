----------------------------- MODULE ListingRuns -----------------------------
(***************************************************************************)
(* One run of services/listing_discovery_service.py: a single paid search  *)
(* whose cost the provider reports.  The estimate is 1.                    *)
(***************************************************************************)
EXTENDS ProviderSpend, Sequences

CONSTANTS
  Costs,        \* what the supplier may charge for the search
  Shop          \* the run's location

ASSUME ListingAssumption == Costs \subseteq Nat \ {0} /\ Shop \in Locations

VARIABLES
  listing,    \* status of the run
  reported,   \* the cost a returned call reported, as the dispatch holds it
  charged     \* what the supplier charged for each search it ran

listingVars == <<listing, reported, charged>>

ListingInit == listing = "none" /\ reported = 0 /\ charged = <<>>

\* create_run, after its reservation.
SaveListing ==
  /\ SaveRequest /\ listing' = "queued" /\ UNCHANGED <<reported, charged, org, orgLock>>

\* Mutant: a failed check is tried again with its job.
EnterListingFailed(w) ==
  /\ at[w] = "fenced" /\ reported' = 0
  /\ \/ /\ listing = "completed" /\ Leave(w, "done") /\ UNCHANGED <<ledger, listing>>
     \/ /\ listing = "running" /\ Goes(w, "ambiguous") /\ started' = TRUE
        /\ UNCHANGED <<fence, ledger, listing>>
     \/ /\ listing \in {"queued", "failed"} /\ listing' = "running"
        /\ Goes(w, "first") /\ UNCHANGED <<fence, started, ledger>>
  /\ Spends /\ UNCHANGED <<charged, org, orgLock>>

\* The first commit of a dispatch, under the run's row lock: a run somebody left
\* running may have been bought, and one without coordinates is not.
EnterListing(w) ==
  /\ at[w] = "fenced" /\ reported' = 0
  /\ \/ /\ listing \in {"completed", "failed"} /\ Leave(w, "done")
        /\ UNCHANGED <<ledger, listing>>
     \/ /\ listing = "running" /\ Goes(w, "ambiguous") /\ started' = TRUE
        /\ UNCHANGED <<fence, ledger, listing>>
     \/ /\ listing = "queued" /\ ledger' = Released("listing")
        /\ Goes(w, "closing") /\ UNCHANGED <<fence, started, listing>>
     \/ /\ listing = "queued" /\ listing' = "running"
        /\ Goes(w, "first") /\ UNCHANGED <<fence, started, ledger>>
  /\ Spends /\ UNCHANGED <<charged, org, orgLock>>

\* JobClaimOwnershipLost is raised out of the dispatch, the run stays running.
ListingJobLost(w) ==
  /\ at[w] = "first" /\ ~Owns(w) /\ Leave(w, "raised")
  /\ Spends /\ UNCHANGED <<ledger, listingVars, org, orgLock>>

\* Refused, or allowed but without coordinates or credentials: released.
ListingDenied(w) ==
  /\ at[w] = "first" /\ Owns(w) /\ Unlocked
  /\ ledger' = Released("listing") /\ Goes(w, "closing")
  /\ Spends /\ UNCHANGED <<fence, started, listingVars, org, orgLock>>

\* Authorized: the search is made while the organization is locked.
ListingCalls(w) ==
  /\ at[w] = "first" /\ Owns(w) /\ Unlocked /\ Authorized("listing", Shop)
  /\ orgLock' = w /\ started' = TRUE /\ Goes(w, "calling")
  /\ Spends /\ UNCHANGED <<ledger, fence, listingVars, org>>

\* provider.search: it never arrives, is charged and answered, or is charged and
\* raises here.
ListingSearches(w) ==
  /\ at[w] = "calling"
  /\ \/ Goes(w, "ambiguous") /\ orgLock' = Nobody /\ UNCHANGED <<charged, reported>>
     \/ \E c \in Costs :
          /\ charged' = Append(charged, c)
          /\ \/ Goes(w, "landed") /\ reported' = c /\ UNCHANGED orgLock
             \/ Goes(w, "ambiguous") /\ orgLock' = Nobody /\ UNCHANGED reported
  /\ Spends /\ UNCHANGED <<ledger, fence, started, listing, org>>

\* The listings and the reconciliation are one commit; saving them may fail.
ListingSaves(w) ==
  /\ at[w] = "landed" /\ orgLock' = Nobody
  /\ \/ /\ ledger' = Settled("listing", reported) /\ org' = Reconciled(org)
        /\ Goes(w, "naming")
     \/ Goes(w, "ambiguous") /\ UNCHANGED <<ledger, org>>
  /\ Spends /\ UNCHANGED <<fence, started, listingVars>>

CompleteListing(w) ==
  /\ at[w] = "naming" /\ listing' = "completed" /\ Leave(w, "done")
  /\ Spends /\ UNCHANGED <<ledger, reported, charged, org, orgLock>>

\* Mutant: an answer that could not be saved costs nothing.
SettleListingUnsold(w) ==
  /\ at[w] = "ambiguous" /\ ledger' = Released("listing")
  /\ Goes(w, "closing")
  /\ Spends /\ UNCHANGED <<fence, started, listingVars, org, orgLock>>

\* The exception path and _fail_stale_dispatch_claim: what the provider reported,
\* or else the estimate.
SettleListing(w) ==
  /\ at[w] = "ambiguous"
  /\ ledger' = Settled("listing", IF reported > 0 THEN reported ELSE 1)
  /\ Goes(w, "closing")
  /\ Spends /\ UNCHANGED <<fence, started, listingVars, org, orgLock>>

\* The last commit of _fail_run.
FailListing(w) ==
  /\ at[w] = "closing" /\ listing' = "failed" /\ Leave(w, "done")
  /\ Spends /\ UNCHANGED <<ledger, reported, charged, org, orgLock>>

DispatchListing(w) ==
  \/ EnterListing(w) \/ ListingJobLost(w) \/ ListingDenied(w) \/ ListingCalls(w)
  \/ ListingSearches(w) \/ ListingSaves(w) \/ CompleteListing(w)
  \/ SettleListing(w) \/ FailListing(w)

-------------------------------------------------------------------------------
ListingTypes ==
  /\ listing \in {"none", "queued", "running", "completed", "failed"}
  /\ reported \in Costs \cup {0} /\ charged \in Seq(Costs)
==============================================================================
