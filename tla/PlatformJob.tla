----------------------------- MODULE PlatformJob -----------------------------
(***************************************************************************)
(* One row of the platform_jobs table and what each function of            *)
(* services/job_service.py writes into it.  Time is relative: lease and    *)
(* due count the ticks left until lease_expires_at and available_at, so    *)
(* "lease_expires_at <= now" reads lease = 0 and "available_at <= now"     *)
(* reads due <= 0.  started_at, finished_at, error, payload and result     *)
(* carry no control and are left out.                                      *)
(***************************************************************************)
EXTENDS Integers

CONSTANTS
  Workers,      \* worker ids (uuids, or the x-vercel-id of a drain)
  NoWorker,     \* locked_by IS NULL
  Lease,        \* durable_job_lease_seconds, in ticks
  RetryBase,    \* durable_job_retry_base_seconds, in ticks
  BackoffCap,   \* the 3600 s ceiling of record_job_failure, in ticks
  MaxWait       \* bound: how long past available_at a row is still ordered by it

ASSUME JobTimesAssumption ==
  /\ Lease \in Nat \ {0} /\ RetryBase \in Nat \ {0}
  /\ BackoffCap \in Nat /\ MaxWait \in Nat
ASSUME NoWorkerAssumption == NoWorker \notin Workers

Statuses == {"absent", "queued", "running", "completed", "failed",
             "dead_letter", "cancelled"}

Rows == [status  : Statuses,
         owner   : Workers \cup {NoWorker},
         lease   : 0..Lease,
         due     : (-MaxWait)..BackoffCap,
         retries : Nat]

\* A row that nobody works on: locked_by and lease_expires_at are NULL.
Freed(status, due, retries) ==
  [status |-> status, owner |-> NoWorker, lease |-> 0,
   due |-> due, retries |-> retries]

AbsentRow == Freed("absent", 0, 0)

\* create_job: a new row is queued and available now.
Created == Freed("queued", 0, 0)

OwnedBy(row, w) == row.status = "running" /\ row.owner = w

\* Mutant: a claim that ignores the lease of a running row.
ClaimableAnyRunning(row) ==
  \/ row.status = "queued" /\ row.due <= 0
  \/ row.status = "running"

\* Mutant: a claim that never takes over an expired lease.
ClaimableQueuedOnly(row) == row.status = "queued" /\ row.due <= 0

\* The filter of claim_jobs.
Claimable(row) ==
  \/ row.status = "queued" /\ row.due <= 0
  \/ row.status = "running" /\ row.lease = 0

\* claim_jobs and start_job write the same columns.  Neither counts a retry.
Taken(row, w) ==
  [status |-> "running", owner |-> w, lease |-> Lease,
   due |-> row.due, retries |-> row.retries]

Completed(row) == Freed("completed", row.due, row.retries)

Cancelled(row) == Freed("cancelled", row.due, row.retries)

Released(row) == Freed("queued", 0, row.retries)

\* fail_job adds one to the retry_count its session has read before.
Failed(row, seen) == Freed("failed", row.due, seen + 1)

\* Mutant: the 3600 s ceiling dropped.
BackoffUncapped(n) == RetryBase * 2^(n - 1)

\* min(3600, base * 2^(n-1)) for the n-th recorded failure.
Backoff(n) ==
  LET delay == RetryBase * 2^(n - 1)
  IN  IF delay \in 0..BackoffCap THEN delay ELSE BackoffCap

\* Mutant: the failure is not counted.
FailureRecordedUncounted(row, maxRetries) ==
  IF row.retries + 1 > maxRetries
  THEN Freed("dead_letter", row.due, row.retries)
  ELSE Freed("queued", Backoff(row.retries + 1), row.retries)

\* Mutant: one retry too many before the dead letter.
FailureRecordedLate(row, maxRetries) ==
  LET n == row.retries + 1 IN
  IF n > maxRetries + 1 THEN Freed("dead_letter", row.due, n)
                        ELSE Freed("queued", Backoff(n), n)

\* record_job_failure, once its owner check has found the row.
FailureRecorded(row, maxRetries) ==
  LET n == row.retries + 1 IN
  IF n > maxRetries THEN Freed("dead_letter", row.due, n)
                    ELSE Freed("queued", Backoff(n), n)

Lowered(n, floor) == IF n > floor THEN n - 1 ELSE floor

\* One tick of the clock, seen by a row.
Aged(row) == [row EXCEPT !.lease = Lowered(row.lease, 0),
                         !.due = Lowered(row.due, -MaxWait)]
==============================================================================
