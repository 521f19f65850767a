------------------------------ MODULE GridRuns -------------------------------
(***************************************************************************)
(* One run of services/local_rank_grid_service.py: a grid of points, each  *)
(* a task bought from the supplier, submitted in batches by the dispatch   *)
(* job and finished by the user's refreshes.  A point costs 1; completed   *)
(* and not_found results are both "done".                                  *)
(***************************************************************************)
EXTENDS ProviderSpend

CONSTANTS
  Points,       \* the grid, as numbers in submission order
  BatchSize,    \* points of one provider.submit call
  Site          \* the run's location

ASSUME GridAssumption ==
  Points \subseteq Nat /\ IsFiniteSet(Points) /\ BatchSize \in Nat \ {0} /\ Site \in Locations

VARIABLES
  grid,     \* status of the run
  point,    \* status of each point
  left,     \* queued_ids the dispatch has still to submit
  view,     \* the points as the dispatch read them for its totals
  sold,     \* tasks the supplier accepted, by point
  void      \* points whose task the supplier failed

gridVars == <<grid, point, left, view, sold, void>>

With(s) == {p \in Points : point[p] = s}
Unread == [p \in Points |-> "queued"]
Estimate == Cardinality(Points)

GridInit ==
  /\ grid = "none" /\ point = [p \in Points |-> "queued"]
  /\ left = {} /\ view = Unread
  /\ sold = [p \in Points |-> 0] /\ void = {}

\* create_run, after its reservation.
SaveGrid ==
  /\ SaveRequest /\ grid' = "queued"
  /\ UNCHANGED <<point, left, view, sold, void, org, orgLock>>

-------------------------------------------------------------------------------
\* Mutant: a run somebody left while submitting is left to its worker.
EnterGridReturns(w) ==
  /\ at[w] = "fenced"
  /\ \/ /\ (grid = "submitting" \/ With("queued") = {}) /\ Leave(w, "done")
        /\ UNCHANGED <<grid, left>>
     \/ /\ grid # "submitting" /\ With("queued") # {}
        /\ grid' = "submitting" /\ left' = With("queued")
        /\ Goes(w, "first") /\ UNCHANGED <<fence, started>>
  /\ Spends /\ UNCHANGED <<ledger, point, view, sold, void, org, orgLock>>

\* The first commit of a dispatch under the run's row lock: a run somebody left
\* while submitting is closed, never submitted again.
EnterGrid(w) ==
  /\ at[w] = "fenced"
  /\ \/ /\ grid = "submitting" /\ Goes(w, "ambiguous") /\ started' = TRUE
        /\ UNCHANGED <<fence, grid, left>>
     \/ /\ grid # "submitting" /\ With("queued") = {} /\ Leave(w, "done")
        /\ UNCHANGED <<grid, left>>
     \/ /\ grid # "submitting" /\ With("queued") # {}
        /\ grid' = "submitting" /\ left' = With("queued")
        /\ Goes(w, "first") /\ UNCHANGED <<fence, started>>
  /\ Spends /\ UNCHANGED <<ledger, point, view, sold, void, org, orgLock>>

Batch == {p \in left : Cardinality({q \in left : q < p}) < BatchSize}

\* The job is no longer this drain's: it raises out of the dispatch before the
\* first batch, and is caught as an ambiguous result after it.
GridJobLost(w) ==
  /\ at[w] \in {"first", "next"} /\ ~Owns(w)
  /\ IF at[w] = "first" THEN Leave(w, "raised")
                        ELSE Goes(w, "ambiguous") /\ UNCHANGED <<fence, started>>
  /\ Spends /\ UNCHANGED <<ledger, gridVars, org, orgLock>>

\* Mutant: a refusal keeps the reservation for a later attempt.
GridDeniedKept(w) ==
  /\ at[w] \in {"first", "next"} /\ Owns(w) /\ Unlocked /\ ~Authorized("grid", Site)
  /\ Goes(w, "denying")
  /\ Spends /\ UNCHANGED <<ledger, fence, started, gridVars, org, orgLock>>

\* The authorization is refused: with no call made, the reservation is released.
GridDenied(w) ==
  /\ at[w] \in {"first", "next"} /\ Owns(w) /\ Unlocked /\ ~Authorized("grid", Site)
  /\ ledger' = IF started THEN ledger ELSE Released("grid")
  /\ Goes(w, "denying")
  /\ Spends /\ UNCHANGED <<fence, started, gridVars, org, orgLock>>

\* No credentials: nothing was sent.
GridUnavailable(w) ==
  /\ at[w] = "first" /\ Owns(w) /\ Unlocked /\ Authorized("grid", Site)
  /\ Goes(w, "ambiguous")
  /\ Spends /\ UNCHANGED <<ledger, fence, started, gridVars, org, orgLock>>

\* Mutant: only the first batch is authorized.
GridCallsOnce(w) ==
  /\ at[w] \in {"first", "next"} /\ Owns(w) /\ Unlocked
  /\ started \/ Authorized("grid", Site)
  /\ orgLock' = w /\ started' = TRUE /\ Goes(w, "calling")
  /\ Spends /\ UNCHANGED <<ledger, fence, gridVars, org>>

\* Every batch is authorized, and its call made while the organization is locked.
GridCalls(w) ==
  /\ at[w] \in {"first", "next"} /\ Owns(w) /\ Unlocked /\ Authorized("grid", Site)
  /\ orgLock' = w /\ started' = TRUE /\ Goes(w, "calling")
  /\ Spends /\ UNCHANGED <<ledger, fence, gridVars, org>>

\* provider.submit: the supplier accepts some tasks, and the answer comes back,
\* or the call raises and the transaction is rolled back.
GridSubmits(w) ==
  /\ at[w] = "calling"
  /\ \E taken \in SUBSET Batch :
        sold' = [p \in Points |-> IF p \in taken THEN sold[p] + 1 ELSE sold[p]]
  /\ \/ Goes(w, "landed") /\ UNCHANGED orgLock
     \/ Goes(w, "ambiguous") /\ orgLock' = Nobody
  /\ Spends /\ UNCHANGED <<ledger, fence, started, grid, point, left, view, void, org>>

\* The answers are saved by the commit that ends the authorized transaction.
GridSaves(w) ==
  /\ at[w] = "landed"
  /\ point' = [p \in Points |-> IF p \notin Batch THEN point[p]
                                ELSE IF sold[p] > 0 THEN "pending" ELSE "failed"]
  /\ left' = left \ Batch
  /\ org' = Reconciled(org) /\ orgLock' = Nobody
  /\ Goes(w, IF left \ Batch = {} THEN "totalling" ELSE "next")
  /\ Spends /\ UNCHANGED <<ledger, fence, started, grid, view, sold, void>>

-------------------------------------------------------------------------------
Count(pts, s) == Cardinality({p \in Points : pts[p] = s})

\* Mutant: a refresh names the run by its points alone.
TotalsByPoints(status, pts) ==
  IF Count(pts, "queued") + Count(pts, "pending") > 0
  THEN IF Count(pts, "done") + Count(pts, "failed") > 0 THEN "partial" ELSE "pending"
  ELSE IF Count(pts, "failed") = Estimate THEN "failed" ELSE "completed"

\* The status _refresh_run_totals gives: a run with points still to be submitted
\* keeps the mark that a takeover must not submit them again.
TotalsStatus(status, pts) ==
  IF status = "submitting" /\ Count(pts, "queued") > 0 THEN "submitting"
  ELSE TotalsByPoints(status, pts)

\* ...and, when every point is terminal, its settlement: the known cost.
SettledTotals(pts) ==
  IF Count(pts, "queued") + Count(pts, "pending") > 0 THEN ledger
  ELSE IF Count(pts, "failed") = Estimate THEN Released("grid")
  ELSE Settled("grid", Count(pts, "done"))

\* The dispatch ends with the totals of the points as it reads them...
ReadTotals(w) ==
  /\ at[w] = "totalling" /\ view' = point /\ Goes(w, "summing")
  /\ Spends /\ UNCHANGED <<ledger, fence, started, grid, point, left, sold, void, org, orgLock>>

\* ...and writes them over what a refresh may have written since.
WriteTotals(w) ==
  /\ at[w] = "summing"
  /\ grid' = TotalsStatus(grid, view) /\ ledger' = SettledTotals(view)
  /\ Leave(w, "done") /\ view' = Unread
  /\ Spends /\ UNCHANGED <<point, left, sold, void, org, orgLock>>

\* refresh_run, by a user and under the run's row lock: each pending task is
\* fetched and is open, ready or failed.
RefreshGrid ==
  /\ request = "saved" /\ grid # "none"
  /\ \E ready \in SUBSET With("pending") : \E failed \in SUBSET (With("pending") \ ready) :
       /\ point' = [p \in Points |-> IF p \in ready THEN "done"
                                     ELSE IF p \in failed THEN "failed" ELSE point[p]]
       /\ void' = void \cup failed
  /\ grid' = TotalsStatus(grid, point') /\ ledger' = SettledTotals(point')
  /\ Spends /\ UNCHANGED <<fence, at, started, left, view, sold, org, orgLock>>

\* _fail_ambiguous_grid_dispatch: the estimate is settled once a call may have
\* been made, in a commit of its own...
SettleAmbiguous(w) ==
  /\ at[w] = "ambiguous"
  /\ ledger' = IF started THEN Settled("grid", Estimate) ELSE Released("grid")
  /\ Goes(w, "closing")
  /\ Spends /\ UNCHANGED <<fence, started, gridVars, org, orgLock>>

QueuedFailed == [p \in Points |-> IF point[p] = "queued" THEN "failed" ELSE point[p]]

\* ...and the run is closed by the next.
CloseAmbiguous(w) ==
  /\ at[w] = "closing"
  /\ point' = QueuedFailed
  /\ grid' = IF Count(point', "failed") < Estimate THEN "partial" ELSE "failed"
  /\ Leave(w, "done")
  /\ Spends /\ UNCHANGED <<ledger, left, view, sold, void, org, orgLock>>

\* _deny_queued_dispatch: queued points fail; with earlier batches all terminal
\* their cost is settled by a commit before the one that names the run.
DenyGrid(w) ==
  /\ at[w] = "denying"
  /\ point' = QueuedFailed
  /\ IF started /\ With("pending") = {}
     THEN /\ ledger' = SettledTotals(point')
          /\ Goes(w, "naming") /\ UNCHANGED <<grid, fence, started>>
     ELSE /\ grid' = IF started THEN "partial" ELSE "failed"
          /\ Leave(w, "done") /\ UNCHANGED ledger
  /\ Spends /\ UNCHANGED <<left, view, sold, void, org, orgLock>>

NameDenied(w) ==
  /\ at[w] = "naming"
  /\ grid' = IF Count(point, "failed") = Estimate THEN "failed"
             ELSE IF Count(point, "failed") > 0 THEN "partial" ELSE "completed"
  /\ Leave(w, "done")
  /\ Spends /\ UNCHANGED <<ledger, point, left, view, sold, void, org, orgLock>>

DispatchGrid(w) ==
  \/ EnterGrid(w) \/ GridJobLost(w) \/ GridDenied(w) \/ GridUnavailable(w)
  \/ GridCalls(w) \/ GridSubmits(w) \/ GridSaves(w)
  \/ ReadTotals(w) \/ WriteTotals(w)
  \/ SettleAmbiguous(w) \/ CloseAmbiguous(w) \/ DenyGrid(w) \/ NameDenied(w)

-------------------------------------------------------------------------------
GridTypes ==
  /\ grid \in {"none", "queued", "submitting", "pending", "partial", "completed", "failed"}
  /\ point \in [Points -> {"queued", "pending", "done", "failed"}]
  /\ view \in [Points -> {"queued", "pending", "done", "failed"}]
  /\ left \subseteq Points /\ void \subseteq Points
  /\ sold \in [Points -> Nat]
==============================================================================
