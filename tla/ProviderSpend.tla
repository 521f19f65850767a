---------------------------- MODULE ProviderSpend ----------------------------
(***************************************************************************)
(* What the kinds of paid provider work share: the cost ledger             *)
(* (services/cost_economics_service.py), the durable dispatch job of a run *)
(* and the session advisory lock of its dispatch (services/job_service.py).*)
(*                                                                         *)
(* A worker's step "calling" or "landed" is inside the transaction in which*)
(* it authorized the call: it holds the job row and the organization row.  *)
(* A kill rolls that transaction back and frees the fence.  Backoff        *)
(* between retries is left out: a queued job may be claimed at once.       *)
(***************************************************************************)
EXTENDS LocationAllowance, FiniteSetsExt

CONSTANTS
  Workers,       \* drains; each claims under a token of its own
  Budget,        \* platform spend the plan allows in the period
  MaxKills,      \* bound: killed drains and lost requests
  MaxOverlaps    \* bound: leases that expire under a live drain

BriefKeys == {"brief", "other"}   \* of governed AI briefs
Kinds == {"grid", "listing"} \cup BriefKeys
MaxRetries == 2

ASSUME SpendAssumption ==
  /\ Nobody \notin Workers /\ Desk \notin Workers
  /\ Budget \in Nat /\ MaxKills \in Nat /\ MaxOverlaps \in Nat

VARIABLES
  ledger,      \* by kind: the entries under the idempotency key of its run
  request,     \* create_run: nothing, cost reserved, run saved
  job,         \* the run's dispatch job
  fence,       \* holder of the run's advisory lock
  at,          \* where each drain stands
  started,     \* provider_call_started of the drain that holds the fence
  kills, overlaps

spendVars == <<ledger, request, job, fence, at, started, kills, overlaps>>

Steps == {"idle", "waiting", "fenced", "first", "next", "calling", "landed",
          "ambiguous", "closing", "denying", "naming", "totalling", "summing",
          "done", "raised", "asking", "opened", "held", "denied", "cleared",
          "private", "unfenced", "managed", "recording", "settling", "ending"}

NoEntries == [reserved |-> 0, settled |-> {}, released |-> FALSE]

SpendInit ==
  /\ ledger = [k \in Kinds |-> NoEntries]
  /\ request = "none"
  /\ job = [status |-> "none", owner |-> Nobody, retries |-> 0]
  /\ fence = Nobody
  /\ at = [w \in Workers |-> "idle"]
  /\ started = FALSE /\ kills = 0 /\ overlaps = 0

-------------------------------------------------------------------------------
\* The sum of budget_impact_cost of one key: a reconciliation adds what the
\* cost differs from the estimate, a release takes the estimate back.
Exposure(k) ==
  LET e == ledger[k] IN
  e.reserved + (IF e.settled = {} THEN 0 ELSE (CHOOSE c \in e.settled : TRUE) - e.reserved)
             - (IF e.released THEN e.reserved ELSE 0)

TotalExposure == FoldSet(LAMBDA k, sum : sum + Exposure(k), 0, Kinds)
Terminal(k) == ledger[k].settled # {} \/ ledger[k].released

\* reconcile_provider_cost; a release is not looked at.
Settled(k, cost) ==
  IF ledger[k].settled # {} THEN ledger ELSE [ledger EXCEPT ![k].settled = {cost}]

\* release_provider_cost; nothing is released after a reconciliation.
Released(k) ==
  IF ledger[k].settled # {} THEN ledger ELSE [ledger EXCEPT ![k].released = TRUE]

\* reserve_provider_cost of the request that creates a run at location l: the
\* reservation of an earlier attempt is used again, whatever became of it.
Reserve(k, estimate, l) ==
  /\ request = "none" /\ Unlocked /\ ProviderWorkAllowed(l)
  /\ \/ ledger[k].reserved > 0 /\ UNCHANGED ledger
     \/ /\ ledger[k].reserved = 0 /\ TotalExposure + estimate <= Budget
        /\ ledger' = [ledger EXCEPT ![k].reserved = estimate]
  /\ org' = Reconciled(org)
  /\ request' = "reserved"
  /\ UNCHANGED <<job, fence, at, started, kills, overlaps>>

\* The request commits its run and the run's dispatch job.
SaveRequest ==
  /\ request = "reserved" /\ request' = "saved"
  /\ job' = [status |-> "queued", owner |-> Nobody, retries |-> 0]
  /\ UNCHANGED <<ledger, fence, at, started, kills, overlaps>>

\* The process of the request ends between its two commits.
LoseRequest ==
  /\ request = "reserved" /\ request' = "none"
  /\ kills < MaxKills /\ kills' = kills + 1
  /\ UNCHANGED <<ledger, job, fence, at, started, overlaps>>

-------------------------------------------------------------------------------
Owns(w) == job.status = "running" /\ job.owner = w

\* claim_jobs skips a row that a call holds locked.
RowLocked == \E w \in Workers : at[w] \in {"calling", "landed"} /\ Owns(w)

Take(w) == job' = [job EXCEPT !.status = "running", !.owner = w]

\* claim_jobs: the job is queued, or the lease of a drain that died, or of one
\* that still runs, has expired.
ClaimJob(w) ==
  /\ at[w] = "idle" /\ ~RowLocked
  /\ \/ job.status = "queued" /\ UNCHANGED overlaps
     \/ job.status = "running" /\ at[job.owner] = "idle" /\ UNCHANGED overlaps
     \/ /\ job.status = "running" /\ at[job.owner] # "idle"
        /\ overlaps < MaxOverlaps /\ overlaps' = overlaps + 1
  /\ Take(w)
  /\ at' = [at EXCEPT ![w] = "waiting"]
  /\ UNCHANGED <<ledger, request, fence, started, kills>>

\* serialized_provider_run_dispatch: the lock is taken within its wait...
TakeFence(w) ==
  /\ at[w] = "waiting" /\ fence = Nobody
  /\ fence' = w /\ started' = FALSE
  /\ at' = [at EXCEPT ![w] = "fenced"]
  /\ UNCHANGED <<ledger, request, job, kills, overlaps>>

\* ...or ProviderRunDispatchBusy is raised.
FenceBusy(w) ==
  /\ at[w] = "waiting" /\ fence # Nobody
  /\ at' = [at EXCEPT ![w] = "raised"]
  /\ UNCHANGED <<ledger, request, job, fence, started, kills, overlaps>>

\* The dispatch returns or raises: the advisory lock goes.
Leave(w, how) ==
  /\ at' = [at EXCEPT ![w] = how]
  /\ fence' = Nobody /\ started' = FALSE

\* complete_job or record_job_failure, by the owner of the job only.
Report(w) ==
  /\ at[w] \in {"done", "raised"}
  /\ job' = IF ~Owns(w) THEN job
            ELSE IF at[w] = "done" THEN [job EXCEPT !.status = "completed", !.owner = Nobody]
            ELSE [status |-> IF job.retries + 1 > MaxRetries THEN "dead_letter" ELSE "queued",
                  owner |-> Nobody, retries |-> job.retries + 1]
  /\ at' = [at EXCEPT ![w] = "idle"]
  /\ UNCHANGED <<ledger, request, fence, started, kills, overlaps>>

\* A drain is killed at any point of it.
KillDrain(w) ==
  /\ at[w] # "idle" /\ kills < MaxKills /\ kills' = kills + 1
  /\ at' = [at EXCEPT ![w] = "idle"]
  /\ fence' = IF fence = w THEN Nobody ELSE fence
  /\ started' = IF fence = w THEN FALSE ELSE started
  /\ orgLock' = IF orgLock = w THEN Nobody ELSE orgLock
  /\ UNCHANGED <<ledger, request, job, overlaps>>

\* authorize_reserved_provider_dispatch for kind k at location l: nothing has
\* ended the reservation and the work is allowed by what holds now.
Authorized(k, l) == ~Terminal(k) /\ ProviderWorkAllowed(l)

\* The drain's own step: it goes on at step s and leaves the rest of spendVars.
Goes(w, s) == at' = [at EXCEPT ![w] = s]

Spends == UNCHANGED <<request, job, kills, overlaps>>

-------------------------------------------------------------------------------
SpendTypes ==
  /\ ledger \in [Kinds -> [reserved : Nat, settled : SUBSET Nat, released : BOOLEAN]]
  /\ request \in {"none", "reserved", "saved"}
  /\ job \in [status : {"none", "queued", "running", "completed", "dead_letter"},
              owner : Workers \cup {Nobody}, retries : 0..(MaxRetries + 1)]
  /\ fence \in Workers \cup {Nobody} /\ orgLock \in Workers \cup {Nobody, Desk}
  /\ at \in [Workers -> Steps] /\ started \in BOOLEAN
  /\ kills \in 0..MaxKills /\ overlaps \in 0..MaxOverlaps
==============================================================================
