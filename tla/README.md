# Verification of the InsightOS backend

TLA+ models of the parts of `backend/app` (FastAPI, Postgres, Vercel functions and a
daily cron) where concurrency, failures and retries decide whether the product does
what it says. Paths are relative to `src/`; `services/` stands for
`backend/app/services/`.

## 1. The system

Every customer action or cron call is a serverless invocation (killed after 60 s,
`backend/vercel.json`) with a Postgres session in READ COMMITTED. Invocations share
nothing but the database. Rows are often read without a lock and written when the
session flushes, by primary key and only in the columns that changed; the models
split such operations into a read step and a write step. Background work goes
through one table, `platform_jobs`: a cron drain claims a batch under `FOR UPDATE
SKIP LOCKED`, runs the handlers one after the other, and releases what its 40 s
budget leaves.

| component | state | operations | what is hard | correct when |
|---|---|---|---|---|
| durable job queue (`services/job_service.py`, `services/durable_job_service.py`) | `platform_jobs`: status, owner, lease, available_at, retry_count | enqueue, drain (claim, execute, release), run-now, retry, dead letter, cancel | overlapping drains, kills, leases, unlocked writes | one handler at a time, failures counted once, outcomes final, every job settled |
| report schedules (`services/reporting_service.py`) | `report_schedules`, reports | upsert, enqueue due, run, advance, mark failure | a schedule and a job per occurrence, each with its own counter | no period skipped, repeats paid for, never stuck, nothing made while closed |
| organization closure (`services/organization_closure_service.py`) | closure row with a snapshot | close, reopen, finalize | acts on rows that handlers hold | closed stays quiet; what is restored works |
| provider disconnect | connections, jobs | cancel queued jobs, revoke | jobs already claimed | only unclaimed jobs are cancelled |
| review replies (`services/reputation_response_execution_service.py`) | execution, capability, review copy | queue, dispatch, pause/resume/cancel, authorize/revoke, sync | stale syncs, an ambiguous call to Google, blind writes of several actors | posted means posted, nothing sent after it was stopped |
| paid provider runs (`services/local_rank_grid_service.py`, `listing_discovery_service.py`, `cost_economics_service.py`) | runs and their points, cost ledger, the run's job | reserve, authorize, dispatch, settle, release, refresh | ambiguous paid calls, locks that end with a commit, takeover of a killed drain | bought once, only under a reservation and a plan that hold, charged, and settled when it ends |
| governed AI briefs (`services/governed_ai_service.py`, `governed_ai_provider_canary_service.py`) | brief rows by unique key, reservation, canary | reserve, private prompt, rollback, managed prompt, settle | requests racing under one key, unlocked reads, fallback after a commit, posts repeated after a timeout | one managed prompt per key, private prompts only under a running canary |
| event outbox and stream (`backend/app/events`, `intelligence/workers/outbox_worker.py`) | `event_outbox`, Redis stream | emit, drain, fan out | failed rows, redelivery | each committed event is fanned out |
| automation delivery (`services/automation_webhook_service.py`) | deliveries, their jobs, connections | test, attempt, retry, recover, pause, rotate, disconnect | timeouts that were received, two counters of attempts, errors that only one of them counts | bounded attempts, without a job only after errors, none while paused |
| Stripe webhooks (`services/stripe_billing_service.py`) | receipts, billing columns of the organization | claim receipt, apply | duplicates, reordering, one-second timestamps | the newest event decides, a deletion is final |
| location allowance (`services/location_allowance_service.py`) | plan, status, entitlement, locations | create, import, activate, archive, change plan | races at a limit, a stale copy of the plan | no request grows past the plan |
| execution keys, rate limits, automation commands | keys, counters, receipts | claim, recover, consume, approve | late results | one result per key |
| analytics, other AI, portfolio, content, HTTP, frontend, WordPress plugin | data | CRUD and computation | little control | not modelled |

`PROJECT.json` lists each of them under `components` and the places where they can
go wrong under `hazards`.

## 2. The plan

Done, in this order: `PlatformJob`, `DurableJobs`, `JobContract` (everything else is
scheduled by the queue); two clients whose own state can part from that of their
job, `ReportSchedules` and `ReviewReplies`; the way of a product event to a
customer's tool, `AutomationDelivery`; and the commercial side of one organization,
`LocationAllowance`, `StripeBilling`, `ProviderSpend`, `GridRuns`, `ListingRuns` and
`GovernedBriefs`, composed in `Commercial`.

What is left, in order of what it would add:

1. Execution keys of the strategy engine (`services/idempotency_service.py`): claim,
   recovery of a stale execution, late result and late failure of one key.
2. Automation commands (`services/automation_command_service.py`): approval,
   execution and receipt of one command, on top of the runs it starts.
3. The unique-key race of `create_job` in the outbox worker, and deduplication in
   `emit_event`.
4. The Redis event stream, should a deployment start its consumers.
5. Proofs: every safety and action property of the passing runs has its theorem
   (section 5), so what is to be proved next comes with the modules above.

## 3. The modules

```
PlatformJob <- DurableJobs <- MCDurableJobs, DurableJobs_proofs <- DurableContract_proofs
                   | INSTANCE (refinement)
                   v
               JobContract
                   ^ INSTANCE (its moves drive the jobs)
                   |
           ReportSchedules <- ReportSchedules_proofs
ReviewReplies <- MCReviewReplies, ReviewReplies_proofs
AutomationDelivery <- MCAutomationDelivery, AutomationDelivery_proofs

LocationAllowance <- StripeBilling <- MCStripeBilling
                  <- ProviderSpend <- GridRuns, ListingRuns, GovernedBriefs
StripeBilling, GridRuns, ListingRuns, GovernedBriefs
                  <- Commercial <- MCCommercial, Commercial_proofs
                                    Commercial_proofs <- Billing_proofs, Spend_proofs
```

(`A <- B`: `B` extends `A`.)

### PlatformJob
One row of the table and what each function of `job_service.py` writes into it, as
pure operators. Time is relative: `lease` and `due` are the ticks left until
`lease_expires_at` and `available_at`. Columns without influence on control
(payload, result, error, started_at, finished_at) are left out.

### DurableJobs
`inv` holds the live invocations, `task` what each has read of the row it works on,
`job` the table. A step is one transaction, or one statement where the code reads
first and writes later: `ReleaseScan`/`ReleaseWrite` (`release_jobs`),
`RunNowRead`/`RunNowStart` (the run-now requests without a lock; one that takes over
an expired running row leaves the status column alone, `retaking`),
`ClosureRead`/`ClosureWrite`. `Begin` takes the ownership token from the row, as
`execute_claimed_job` does, and not from the claim. `Crash` kills an invocation
anywhere. `attempts` is history. `Tame` are the jobs nothing writes blindly: neither
an unlocked run-now nor a closure is possible for them. The model has the others
too; section 6 says what can happen to them.

### JobContract
The lifecycle the queue promises of a job, without clock, leases or workers.
`DurableJobs` implements it for tame jobs (`ImplementsContract`, an instance over
`Tame`: checked by a run and proved for all constants); `ReportSchedules`
uses its moves as its queue, each in the transaction of the handler step it belongs
to.

### ReportSchedules
One schedule and one job per occurrence. `run` is what a handler has read and
whether it has committed its report: `HandlerReads`, `HandlerReports` (with the
commit inside `generate_report`), `HandlerAdvances`, `HandlerFails` (rollback, then
schedule and job in one transaction, the hook possibly failing itself),
`HandlerLost` (the closure has cancelled its job).
A user saves the schedule in three steps: `EditAdmitted` (the check that a closed
workspace is read-only), `EditReads`, `EditWrites`. The closure reads the schedule
(`ClosureReads`), then the waiting jobs (`ClosureFinds`), and commits both with the
snapshot (`ClosureWrites`); the reopening is `ReopenReads`, `ReopenWrites`. None of
them locks the row: what is written is what differs from what was read (`Flushed`).
`retry_count` survives a save, as in the code: a schedule saved again after it was
exhausted is disabled by its next failure.

### ReviewReplies
One execution row, its job, two workers, one control request in flight, the
capability, the draft, the local copy of the review and what Google shows. `Post` is
the flush of `posting`, which keeps the row locked until the commit unless the
access token had to be refreshed. `CallGoogle` puts the reply or not, and answers
with a receipt, a refusal or a timeout that says nothing. `puts` is history. A sync
fetches from Google (`SyncFetches`) and writes what it fetched later (`SyncWrites`),
in any order with other syncs: `fetched` says whether one still holds the review as
unanswered. The
lease is abstracted: a running job may be taken over once its worker is gone, which
is what `DurableJobs` shows under `Hosted`.

### AutomationDelivery
The outbox row of an event, its fan-out job, a delivery per event and per test, and
one job per delivery and recovery (`JobKeys`, the idempotency key of the code).
`Start` is `_attempt_delivery` up to the POST: it takes the locks of the delivery
and of the connection, which are held until `Finish`. What the tool does with a POST
is `ok`: accepted, or refused or lost. `signed` is the version of the secret on its
way, `accepted` the one the tool has last taken. A handler raises where the code
does, because the delivery has no attempts left or its connection is gone, and
anywhere for a reason of its own (`Break`: the plan lost the feature, the database
failed); the queue counts that as a failure of the job, and the delivery does not
(`errors`). `Kill` ends a handler anywhere,
`KillRequest` an owner's request between sending and recording. The fan-out reads
the connection without a lock (`Match`, then `FanOut`) and may raise, each time or
once (`FanOutRaises`, `refusals`), until its job is a dead letter.

### LocationAllowance
The organization's plan, status, saved entitlement (`limit`) and its lock, and the
locations. `CheckCapacity` takes the lock and counts, `ActivatePlaces` is the
commit; the other requests are one transaction each. `OldWorkerSetsPlan` is a worker
of the previous release, against which the code brings the entitlement in line
whenever it is used (`Reconciled`). `Enforce` turns the observed allowance into an
enforced one.

### StripeBilling
Each delivery of a webhook event is one transaction under its receipt and the
organization's lock. The events of a behaviour (`sent`) are delivered in any order,
and again for as long as they fail. `billing` holds the billing columns; the plan it
stands for is written through `WithPlan` of `LocationAllowance`. A time of 0 in the
columns is the NULL of the code, so events have times above 0. `BillingAssumption`
says two things of what Stripe sends: a subscription is created once, and a deleted
event is read as canceled, which the code does itself whatever status it carries.

### ProviderSpend
What every paid run shares: `ledger` (reservation, reconciliation, release by key),
the run's job, the advisory fence of `serialized_provider_run_dispatch`, and `at`,
where each drain or request is. `Authorized` is
`authorize_reserved_provider_dispatch`: the caller holds the organization's lock
from there until its next commit. `ClaimJob` also takes over the job of a worker
whose lease has expired, alive or not.

### GridRuns, ListingRuns
The dispatch of an area search, point by point in batches, and of a listing check,
with each commit a step of its own, an answer of the supplier that may be lost after
the purchase, a takeover that must not buy again, and the refresh a user asks for
meanwhile. `sold` and `charged` are what the supplier remembers.

### GovernedBriefs
Two brief keys, served by the same threads. A request reads row, limits and canary
unlocked, commits the row under its unique key, is authorized, may send a private
prompt to the canary provider, rolls it back in a commit of its own when it fails,
sends the managed prompt, settles and ends. The managed prompt is up to `MaxTries`
posts: one that timed out, broke off or was answered 429 or 5xx is repeated
(`ManagedTryFails`), each may have been sold, and the last decides what the request
hears (`ManagedAnswers`). `prompts`, `asked` and `bills` are what the providers
remember; `bills` has, per brief, the prompts, the posts sold and the price of the
answer that came.

### Commercial
The composition: one organization on which desk, Stripe, drains and requests act.
They meet in `org` and `orgLock`. A scenario (`Scenarios`) fixes which paid work a
behaviour has, which events Stripe sends and how many changes users make.

## 4. The runs

| run | shows |
|---|---|
| `durable_hosted` | two jobs, one of a type without handler, two invocations, two kills, one retry, locked run-now and disconnect: `ClaimInv`, `OneHandlerAtATime`, `AttemptsAccounted`, `RetryBudget`, the refinement of `JobContract` (`ImplementsContract`), and under fairness `EventuallySettled` |
| `durable_shared` | a job written blindly by run-now, takeover and closure does not harm its neighbour in the same batches: `ClaimInv`, `SettledIsFinal` |
| `schedule_steady` | nobody edits: `RetriesInStep`, `NeverStranded`, `NoPeriodSkipped`, `RepeatsPaidFor`, and under fairness `DueOccurrenceIsServed` |
| `schedule_users` | a save, a closure and its reopening at any moment, each split into its reads and its writes, a failing failure hook: `ClosedIsQuiet` |
| `schedule_reopened` | violated: `DueOccurrenceIsServed`, a restored due schedule is served (its job key is taken by the cancelled job) |
| `reply` | two workers, timeouts that landed, a kill, a revocation, a changed draft, the owner's own reply, late syncs, pause, resume and cancel: `PostedReachedGoogle`, `PutsAccounted`, `AnsweredIsLeftAlone`, `CancelledForGood`, and under fairness `EveryReplyConcludes` |
| `reply_cancelled` | violated: `CancelledBeforePosting`, what is cancelled was not posted |
| `reply_revoked` | violated: `RevocationHolds`, a revocation by an operator holds |
| `automation` | one product event and one test, two attempts, one recovery, two changes of the connection, one kill or error of a delivery, fan-outs that raise: `QuietWhilePaused`, `VerifiedSecret`, `OpenHasJob`, `NeverSentAgain`, and under fairness `EventsAreServed` |
| `commercial` | ten scenarios of one organization: `NewestEventWins`, `PlanFollowsBilling`, `DeletionStands`, `EventsSettle` (billing); `NeverGrowsPastPlan` (allowance); `CallIsCovered`, `BoughtOnce`, `SpendIsCharged`, `EndedRunsAreSettled`, `ConcludedForGood`, `RunsConclude` (paid work) |
| `stripe_unpaid` | violated: `RecoveryClears`, a subscription that is active again loses its recovery warning |
| `brief_fallback` | violated: `ManagedPromptIsAllowed`, a managed prompt is out only while its location may be worked for |

Each module has one type invariant, `TypeOK`, checked by its first passing run.
`CHECK_DEADLOCK FALSE` is set wherever the system may really stop: nothing due
before the horizon, the reply, deliveries or runs concluded, and the bounded
environment used up. `DurableJobs` never stops, its clock goes on.

**Bounds.** Two invocations and two jobs give every pairing of actors on one row and
a batch with a rest; a worker id is reused once nothing stores it, so six ids are
enough for two slots, their tokens and two rows. `Lease` 3 against `MaxDuration` 2
keeps the deployed order (120 s against 60 s), a `Budget` of 2 (1 in
`durable_shared`) lets a drain run out of time, `BackoffCap` 1 below `RetryBase` 2
reaches the ceiling. One retry makes both outcomes of a failure reachable; two kills
hit a job on both of its tries. `RetryCap` only cuts jobs that blind writes can
revive, `AttemptCap` saturates history.

`ReportSchedules` has three occurrences (past, current, next) and three failures
with two kills when nobody edits; with users, one save and one closure with its
reopening and no kill, which is enough for every order of a handler, the parts of a
save and the parts of a closure. `ReviewReplies` has two workers, one retry, two
control requests (pause and resume, or pause and cancel) and one change by each
outsider.

`AutomationDelivery` scales three attempts to two, so that a failure before the
last, the last and a recovery all occur, and the two retries of a fan-out to one;
two changes of the connection are pause and resume, or rotate and another one. One
fault (a kill or an error) with one refused attempt already gives a job up before
its delivery. `FanOutRaises` is bounded by its own retries.

`Commercial` has two locations against plans that include one and two, two
subscriptions (a replaced one and its successor), two workers of which one may lose
its lease alive (`MaxOverlaps`) and one may be killed, and a grid of two points in
batches of one: a batch that is first and last, and one that is neither first nor
the only one (`BatchSize` scales 100). A budget of 4 holds the largest single
reservation and its repetition. `Costs` {1, 2} are what a listing check may cost
against its estimate of 1; `BriefCosts` {3} is above `BriefEstimate` 2, because the
estimate is not a bound. `MaxTries` 2 is the default number of posts. One part moves
freely in each scenario: three changes at the desk without paid work; Stripe's feeds
with none; a paid run with one change, or with the events that end its subscription.
Symmetry is used on invocations in `durable_shared` only.

**Fairness.** The cron calls the drain for ever, so claims and starts are weakly
fair; an invocation that is not killed goes on, so each of its steps is weakly fair;
kills are bounded. `Begin` (and `HandlerReads`) is strongly fair, because a spent
budget disables it again and again: this says that the time budget is not spent
before the first job every time, which holds as long as outbox and enqueueing leave
part of it (`ClaimBy < Budget`). In `AutomationDelivery` the outbox is drained, due
jobs are taken, their handlers and fan-outs go on, because a POST has a timeout. In
`Commercial` Stripe sends an event again until it is answered well, a transaction
that holds the organization commits or is rolled back, some worker claims a due job,
and a drain that is not killed goes on. No fairness is assumed of users, owners,
edits, closures or customers' requests; handlers and suppliers may always fail.

## 5. The proofs

Checked by TLAPS for all values of the constants. An inductive invariant is in each
case preserved action by action, and the theorems follow from it.

`DurableJobs_proofs`, any jobs, invocations, limits:

* `TypeCorrect`.
* `ClaimsAreHeld` (`ClaimInv`), `HandlersExclude`, `SettledForGood`,
  `RetriesAreBudgeted`, under `Hosted == MaxDuration < Lease`. `ClaimInv` is the
  inductive invariant: an invocation that acts on a tame job owns the row, and
  *lease left + own age >= Lease*. The second part is what makes it inductive: it
  says that the lease cannot run out before the invocation does. Exclusion follows
  because two executing invocations would own one row under two ids; finality,
  because only owned rows (running) or rows checked under their lock are written.

`DurableContract_proofs`, on those claims and under the same `Hosted`:

* `ExecutionsArePaidFor` (`AttemptsAccounted`): a step does one of a few things to
  the row of a tame job (`RowStep`) and leaves its handler alone, enters it, or
  leaves it for a recorded outcome or a kill (`TameRowSteps`). Each entry is covered
  by the one handler that is then going on (`Busy`), and each exit that is not a
  completion adds a failure or a kill. Inductive only with `AbsentIsClean`.
* `QueueImplementsContract` (`ImplementsContract`): the refinement mapping reads the
  phase of a job off its row and the invocations. Every step of `DurableJobs` is
  followed job by job to the move of `JobContract` that it is, or to a stutter: an
  expired lease, a late release and a run-now on a busy job change nothing that the
  contract sees.

`ReportSchedules_proofs`, any horizon, retries and kills. Four theorems are about a
schedule left alone (`LeftAlone`: no edits, no closures, no failing hook):
`ScheduleNeverStranded`, `RetriesAgree`, `EveryPeriodReported`,
`RepeatsCostFailures` (`RepeatsPaidFor`). `NeverStranded` is
not inductive: that the job of the current occurrence is alive needs that later ones
have no job, earlier ones are completed, and both counters agree up to the same
limit (`Timeline`), and that a handler's read is still current (`HandlersCurrent`).
`RepeatsPaidFor` needs the same timeline and one part more
(`Paid`): what an occurrence has been reported beyond its counted failures and the
kills is the report of the handler at work, or that of its completed job. With
edits and closures the first three are false, and TLC finds an edit that breaks
each; `schedule_reopened` shows what a closure does to the first. Two theorems hold
whatever users, closures and failing hooks do: `SchedulesTyped`, and
`ClosedStaysQuiet` (`ClosedIsQuiet`), from the state predicate `Quiet`, which only a
reopening ends.

`ReviewReplies_proofs`, any finite set of workers, any retries, controls, kills and
changes from outside: `RepliesTyped`, `PostedIsOnGoogle` (`PostedReachedGoogle`),
`PutsArePaidFor` (`PutsAccounted`), `OwnersReplyStands` (`AnsweredIsLeftAlone`),
`CancelledStandsForGood` (`CancelledForGood`).

* `PutsAccounted` compares a history with counters and is far from inductive. The
  invariant (`Account`) also charges the replies still to come: each needs an
  attempt under way, a job that can be claimed, a control request that may queue the
  job again, or a reply not yet queued, and whatever creates one of these is a
  counted failure, a kill or a control request. Attempts under way are counted by
  `Cardinality`, with the library's lemmas on finite sets.
* The two properties of the form *once, then for ever* are proved from a state
  predicate that no step leaves: for the owner's reply, the copy says responded, no
  attempt has passed its check and no sync still holds the review as unanswered; for
  the cancelled reply, its job is failed and nothing queues it again. That a
  cancelled row has a failed job whenever no control is in flight is an invariant of
  its own (`CancelledShape`).

`AutomationDelivery_proofs`, any events, tests, limits and bounds: `Typed`, `Quiet`
(`QuietWhilePaused`), `Verified` (`VerifiedSecret`), `Driven` (`OpenHasJob`),
`SentOnce` (`NeverSentAgain`). `OpenHasJob` is what needs the work. Attempts are
counted by the delivery, which owners' requests advance too, and failures by the
job, which starts anew at each recovery; a kill after an attempt is counted by
neither, an error that no attempt counts by the job alone. The invariant relates
them (`CountedOf`, part of `Book`): the last job of a delivery never has more
failures than the delivery has attempts since its last recovery and the job has
uncounted errors, so without errors the job cannot be given up first. `FutureOf`
says that the keys of coming recoveries are free, `PairedOf` which phases of the job
go with which status, `Fenced` and `Alone` that an attempt holds the connection.

`Commercial_proofs`, any locations, plans, feeds, workers, points, batches, costs
and bounds, on `AllowanceAssumption`, `BillingAssumption` and `SpendAssumption` and
those of the run modules (the constants have their types and the distinguished
values are distinct): `Typed`, `Allowed` (`CallIsCovered`), `Once` (`BoughtOnce`),
`Closed` (`EndedRunsAreSettled`), `Concluded` (`ConcludedForGood`), `Fits`
(`NeverGrowsPastPlan`). Actors meet in three
places, and the invariant has a part for what each lets its holder rely on:

* the fence of a run (`Fenced`): one worker dispatches, however many claim;
* the organization's lock (`Covered`, `Cleared`, `Seated`): what a call was
  authorized by, and what the desk has counted, holds while the row is held;
* the unique key of a brief (`Keyed`): one request serves it, so what is sold for it
  are the posts of one prompt.

The rest of it is what the rows remember, so that a takeover can tell what happened
before the kill: while points are bought the run says submitting and has left queued
for good, and a queued point was sold only in a batch still under way (`GridBook`);
in the same way for listings and briefs (`ListingBook`, `BriefBook`, `Asked`).

`Billing_proofs`, on the same assumptions: `NewestWins` (`NewestEventWins`),
`PlanFollows` (`PlanFollowsBilling`) and `DeletionIsFinal` (`DeletionStands`), for
any feed. `Newest` picks the events that
nothing outranks among all those of a subscription; no induction over the feed is
needed, because the invariant (`BillingBook`) says of every prefix of the deliveries
what the property says of the whole: the columns are those of some event answered so
far, and none answered is later or, in the same second, of a higher rank
(`StatusBook`, `PaymentBook`); the plan is the lowest that the greatest of them name
(`PlanBook`). A replacement starts with blank columns, so it also needs that none of
the next subscription's events was answered before its checkout (`Identity`). A
deletion that nothing of its subscription is later than has ended it, although
events of its second may come before, after and again (`DeletionBook`).

`Spend_proofs`, on the same assumptions: `Charged` (`SpendIsCharged`). A reservation
counts in full until it is settled or released, so `SpendBook` says when that can
be. A grid is released only while nothing was bought, settled at its results only
when no point is open, and a point that failed without the supplier's word keeps its
entry at the estimate (`GridLedger`, `GridPoints`); a listing check is released only
before its search; the entry of a brief is ended once, by the thread that holds its
key, at the price of the answer that came (`priced`), at the estimate, or by a
release, and never released once there is such an answer (`KeySpend`). That is all
the code gives: what else was sold for the brief is in section 6. Between its
commits a worker acts on what it has read, so each step of a dispatch has a clause
of its own (`GridTurnAt`, `ListingTurnAt`, `TurnSpend`): what it took for not bought
when it read it still is so when it commits. There the fence and the fact that
points never return to queued are used.

With these, each safety invariant and each action property of a passing run is
stated by a theorem. Only model-checked are the six liveness properties, which are
beyond the proof system: `EventuallySettled`, `DueOccurrenceIsServed`,
`EveryReplyConcludes`, `EventsAreServed`, `EventsSettle`, `RunsConclude`; and, of
course, the counterexamples of section 6. The bounds on users, kills, controls and
events are constants, and the theorems hold for any value of them; what the proofs
assume of the constants is named in the modules that declare them, and TLC evaluates
it on the values of every run.

No module declares a RECURSIVE operator, which would cost the prover its arithmetic.

## 6. What the violations mean

Each is a disagreement between the code and a sentence of the repository, quoted in
`findings`: a schedule that never runs after its workspace is reopened; a reply
cancelled "before posting" that was posted; a revocation overwritten by the worker
it should stop; a subscription whose saved `unpaid` blocks the events that make it
active again; a managed prompt sent on an authorization that the rollback of the
private one has ended.

The models also contain behaviours that no sentence of the repository excludes in
this form, so no run counts them as violations; the properties are stated around
them. Paths are those of `services/`.

*Durable queue*

* A run-now without a lock (`durable_job_service.py:802`) decides on what it read;
  `start_job` then restarts a job completed meanwhile, or a drain that had claimed
  the job continues under the new token (line 1694) and completes a claim that is
  not its own. `ClaimInv` and `SettledIsFinal` therefore speak of tame jobs.
* A job that kills its worker is claimed again without counting a retry
  (`job_service.py:87`), as often as it kills: `AttemptsAccounted` bounds attempts
  by failures and kills together.

*Report schedules*

* A kill after the commit inside `generate_report` (`reporting_service.py:329`)
  leaves the report and repeats the period: `NoPeriodSkipped` promises one report at
  least, `RepeatsPaidFor` bounds the others by failures and kills.
* An exhausted schedule that a user saves again keeps its `retry_count`, so its next
  failure disables it (`reporting_service.py:974`).
* A save admitted before a closure is written after it and turns the schedule of a
  closed workspace on (`reporting_service.py:956`); a handler that read it as on
  before the closure still reports. `ClosedIsQuiet` therefore begins when neither is
  left.
* The closure takes its snapshot without a lock
  (`organization_closure_service.py:472`): a schedule that is exhausted or disabled
  before the closure commits is turned on again by the reopening.
* The reopening writes back the snapshot's `next_run_at` over what a handler advanced
  meanwhile, so that the period is reported again; and an advance or a failure that
  read the schedule before a user rescheduled it overwrites the user's choice.
* A job the closure cancels under its handler loses what the handler has not
  committed ("claim_lost"). A hook that fails (`MarkMayFail`) leaves the schedule's
  counter behind the job's.

*Review replies*

* After the last failure the row says retrying while its job is a dead letter; two
  controls that race can leave the row queued beside a completed job.
* A failure recorded while the row says paused is counted by the job and not by the
  row (`reputation_response_execution_service.py:659`), so after a pause and a resume
  the row's attempts and the job's retries differ. `EveryReplyConcludes` makes an
  exception where two controls were used: it does not catch what they part.
* A slow sync writes an "unanswered" that it fetched before the owner replied over
  the "responded" of a later one (`upsert_reviews` takes no lock); an attempt that
  then passes its check overwrites the owner's reply. `AnsweredIsLeftAlone` begins
  when no such sync is left.

*Paid runs*

* A kill between the commit of a reservation and that of its run leaves an open
  reservation, until the customer repeats the request with the same key.
* A drain killed between the release and the end of a run lets the takeover add a
  reconciliation after the release: two terminal entries, of no effect on the sum.
* A first drain that dies before it has bought anything leaves the run submitting,
  and the takeover charges the full estimate; one that dies while it names a listing
  check that was saved and charged leaves it failed.
* The dispatcher writes the totals of a grid from what it read: a refresh may see a
  completed run as pending or partial until the next one (`ConcludedForGood` makes
  this exception).

*Governed briefs*

* A killed request leaves its row running and its reservation open; the same key
  then answers 409.
* A kill during the private prompt, or an owner who starts the canary again between
  the rollback and the end, lets a second private prompt go out that day:
  `BoughtOnce` states exactly this exception.
* A managed prompt is up to two posts (`governed_ai_provider.py:376`), and only the
  last one decides. A post that timed out may have been sold in addition to the
  answered one, and one price is settled; a timeout followed by a 429, or a transport
  error that is not a timeout, releases the reservation though a post may have been
  sold. `BoughtOnce` counts a brief's prompts as one and its posts as up to
  `MaxTries`.
* The estimate of a prompt is not a bound of its price
  (`governed_ai_service.py:348`): what is settled for a lost answer may be less than
  it cost, and a validated answer may cost more than was reserved.
  `SpendIsCharged` says what is settled, not that it covers each post.
* `content_draft_ai_service.py` has the fallback of `brief_fallback` too.

*Automation*

* An event fanned out while the connection is paused, pending or unhealthy is not
  delivered later; pausing cancels a delivery when it comes due, not at once.
* Rotation of the secret un-pauses a paused connection, and a product event that
  succeeds verifies the new secret without a test.
* A POST whose process dies is sent again without a trace: delivery is at least
  once. It may also still arrive when the lock has gone with the process, after a
  pause, a rotation or a disconnect; `QuietWhilePaused` and `VerifiedSecret` speak of
  the attempts of live processes.
* An exception that no attempt counts (a failed commit, a plan that lost the feature,
  `automation_webhook_service.py:1018`, a recovered test on a tool disconnected
  meanwhile) is a failure of the job alone (`durable_job_service.py:1718`): the job
  may be given up while the delivery stays open. Its owner can retry one that is
  failed or was never attempted; a recovered one that stays pending can neither be
  retried nor recovered again. `OpenHasJob` and `EventsAreServed` make this
  exception, and only for jobs that had such an error.
* A fan-out that raises is retried twice and then a dead letter: its event is never
  delivered (`EventsAreServed`, the same).

*Stripe*

* Of two updates of one second with different statuses the first taken wins; a late
  event of a replaced subscription fails for as long as Stripe repeats it.

## 7. Not modelled

Of the modelled components: what handlers compute and store; the unique-index race
of two creations under one key (one of the drains fails, the next one proceeds); the
final closure and deletion of a workspace; price cards, credits and budgets; the
Stripe portal and the 24 h expiry of a checkout; backoff, which is an arbitrary
delay outside `DurableJobs`. A run-now request for a paid run is one
more drain with its own worker id. The modules take from each other what their
comments say: outside `DurableJobs` a running job may be taken over once its worker
is gone (in `Commercial` also before), which is what `DurableJobs` shows of leases.

Of the others: execution keys and automation commands have state worth modelling and
are next in the plan; the strategy engine that uses the keys runs only from the
Celery path. A request killed between the commit of the run it starts and that of
its command's receipt may, retried after a change of scope, answer "denied" although
the run exists. A rate-limit window is one row changed by one database function. The
other AI services follow the protocol of a brief under other keys; the synchronous
paid calls of rank, competitor, keyword and authority services hold one request and
release their reservation on any exception. Celery runs the same services from
another scheduler. Analytics, portfolio, content, HTTP, frontend and plugin code
make up most of the repository and keep little control state: what they compute is
data, better tested than model-checked.
