----------------------------- MODULE DurableJobs -----------------------------
(***************************************************************************)
(* The durable job queue: services/durable_job_service.py over the row     *)
(* operations of services/job_service.py.                                  *)
(*                                                                         *)
(* A slot is a serverless invocation: a cron drain (claim a batch, execute *)
(* each job while the time budget lasts, release the rest) or a tenant's   *)
(* "run now" request.  A step of a slot is one database transaction, or    *)
(* one statement where the code reads rows without locking them and writes *)
(* them later.  A slot may be killed at any time.  The handlers themselves *)
(* (what a sync or a report does) end well or raise; nothing else of them  *)
(* is modelled here.                                                       *)
(*                                                                         *)
(* A row locked by another transaction is skipped by a claim; transactions *)
(* being atomic steps here, a claim sees it after that transaction.        *)
(***************************************************************************)
EXTENDS PlatformJob, FiniteSets

CONSTANTS
  Jobs,            \* jobs, one per idempotency key
  NoJob,
  Slots,           \* invocations that may be alive at once
  Budget,          \* time_budget_seconds of a drain, in ticks
  MaxDuration,     \* the platform's limit on one invocation, in ticks
  ClaimBy,         \* ticks the work of a drain before its claim may take
  BatchLimit,      \* durable_job_batch_size
  MaxRetries,      \* [Jobs -> Nat]
  Unsupported,     \* jobs whose type has no handler
  RunNowLocked,    \* jobs whose run-now locks the row (listing, rank grid)
  RunNowUnlocked,  \* jobs whose run-now does not (syncs, reviews, speed)
  RunNowTakeover,  \* those of them that also take an expired lease (intelligence)
  Disconnectable,  \* queued jobs a provider disconnect may cancel
  Closable,        \* jobs of a tenant whose organization may be closed
  MaxCrashes,      \* bound: invocations killed half-way
  AttemptCap,      \* bound: where the history of handler starts saturates
  RetryCap         \* bound: retry_count a run-now may drive a job to

ASSUME SlotsAssumption == IsFiniteSet(Slots) /\ IsFiniteSet(Jobs) /\ NoJob \notin Jobs
ASSUME DrainAssumption ==
  /\ Budget \in Nat /\ MaxDuration \in Nat /\ ClaimBy \in Nat /\ BatchLimit \in 1..25
  /\ MaxCrashes \in Nat /\ AttemptCap \in Nat
  /\ MaxRetries \in [Jobs -> Nat] /\ RetryCap \in Nat
  /\ \A j \in Jobs : MaxRetries[j] < RetryCap
ASSUME JobKindsAssumption ==
  /\ RunNowUnlocked \cup RunNowLocked \cup Unsupported \subseteq Jobs
  /\ Closable \subseteq Jobs /\ Disconnectable \subseteq Jobs
  /\ RunNowTakeover \subseteq RunNowUnlocked
  /\ RunNowLocked \cap RunNowUnlocked = {}
  /\ Unsupported \cap (RunNowLocked \cup RunNowUnlocked) = {}

VARIABLES
  job,       \* the platform_jobs table
  inv,       \* the live invocations
  task,      \* the job each of them is at, with what it read of the row
  closing,   \* jobs an organization closure has read as queued
  attempts,  \* history: handler executions started, per job
  crashes    \* invocations killed so far

vars == <<job, inv, task, closing, attempts, crashes>>

(***************************************************************************)
(* pc of a slot: "drain" before the claim, "batch" between two jobs,       *)
(* "exec" inside a handler, "unsupported" about to fail a job, "release"   *)
(* between the two statements of release_jobs, "called" after a run-now    *)
(* has read its row ("retaking" if it was an expired running one),         *)
(* "started" after it has taken it.                                        *)
(***************************************************************************)
Pcs == {"idle", "drain", "batch", "exec", "unsupported", "release",
        "called", "retaking", "started"}

Invocations == [pc    : Pcs,
                wid   : Workers \cup {NoWorker},   \* its own worker id
                age   : 0..MaxDuration,
                batch : SUBSET Jobs]               \* claimed ids still to do

Invoked(pc, w) == [pc |-> pc, wid |-> w, age |-> 0, batch |-> {}]
Idle == Invoked("idle", NoWorker)

Tasks == [job   : Jobs \cup {NoJob},
          token : Workers \cup {NoWorker},         \* expected_worker_id
          seen  : Nat]                             \* retry_count it read

TaskOf(j, w, n) == [job |-> j, token |-> w, seen |-> n]
NoTask == TaskOf(NoJob, NoWorker, 0)

Live(s) == inv[s].pc # "idle"

\* Ids stored nowhere any more compare equal to nothing: a new uuid is one of
\* them, always the same one, so that the state space stays small.
Stored == {job[j].owner : j \in Jobs} \cup {inv[s].wid : s \in Slots}
             \cup {task[s].token : s \in Slots}
Fresh(w) == Workers \ Stored # {} /\ w = CHOOSE v \in Workers \ Stored : TRUE

Min2(a, b) == IF a <= b THEN a ELSE b

\* A drain goes on with the rest of its batch, a run-now request is over.
AfterJob(s, rest) ==
  /\ inv' = [inv EXCEPT ![s] = IF rest = {} THEN Idle
                               ELSE [@ EXCEPT !.pc = "batch", !.batch = rest]]
  /\ task' = [task EXCEPT ![s] = NoTask]

Init ==
  /\ job = [j \in Jobs |-> AbsentRow]
  /\ inv = [s \in Slots |-> Idle]
  /\ task = [s \in Slots |-> NoTask]
  /\ closing = {}
  /\ attempts = [j \in Jobs |-> 0]
  /\ crashes = 0

-------------------------------------------------------------------------------
\* create_job under a new key; an existing key returns its row unchanged.
Enqueue(j) ==
  /\ job[j].status = "absent"
  /\ job' = [job EXCEPT ![j] = Created]
  /\ UNCHANGED <<inv, task, closing, attempts, crashes>>

\* drain_durable_jobs: the cron calls, the invocation gets its worker id.
StartDrain(s) ==
  /\ ~Live(s)
  /\ \E w \in Workers :
       /\ Fresh(w)
       /\ inv' = [inv EXCEPT ![s] = Invoked("drain", w)]
  /\ UNCHANGED <<job, task, closing, attempts, crashes>>

ClaimableJobs == {j \in Jobs : Claimable(job[j])}

\* The first BatchLimit claimable rows by available_at.
FirstDue(batch) ==
  /\ batch \subseteq ClaimableJobs
  /\ Cardinality(batch) = Min2(BatchLimit, Cardinality(ClaimableJobs))
  /\ \A j \in batch, k \in ClaimableJobs \ batch : job[j].due <= job[k].due

Claim(s) ==
  /\ inv[s].pc = "drain"
  /\ \E batch \in SUBSET ClaimableJobs :
       /\ FirstDue(batch)
       /\ job' = [j \in Jobs |-> IF j \in batch THEN Taken(job[j], inv[s].wid)
                                                ELSE job[j]]
       /\ AfterJob(s, batch)
  /\ UNCHANGED <<closing, attempts, crashes>>

\* The next claimed job while the budget lasts, or the job of a run-now.
NextJob(s, j) ==
  \/ inv[s].pc = "batch" /\ j \in inv[s].batch /\ inv[s].age < Budget
  \/ inv[s].pc = "started" /\ j = task[s].job

\* execute_claimed_job up to the handler call.  The ownership token is the
\* locked_by that this read finds, whoever it belongs to.
Begin(s, j) ==
  LET rest == inv[s].batch \ {j}
      Enter(pc) ==
        /\ inv' = [inv EXCEPT ![s] = [@ EXCEPT !.pc = pc, !.batch = rest]]
        /\ task' = [task EXCEPT ![s] = TaskOf(j, job[j].owner, job[j].retries)]
  IN
  /\ NextJob(s, j)
  /\ \/ job[j].status # "running" /\ AfterJob(s, rest) /\ UNCHANGED attempts
     \/ /\ job[j].status = "running" /\ j \in Unsupported
        /\ Enter("unsupported") /\ UNCHANGED attempts
     \/ /\ job[j].status = "running" /\ j \notin Unsupported
        /\ Enter("exec")
        /\ attempts' = [attempts EXCEPT ![j] = Min2(@ + 1, AttemptCap)]
  /\ UNCHANGED <<job, closing, crashes>>

\* fail_job: no owner check, and a retry_count read before.
FailUnsupported(s) ==
  /\ inv[s].pc = "unsupported"
  /\ job' = [job EXCEPT ![task[s].job] = Failed(@, task[s].seen)]
  /\ AfterJob(s, inv[s].batch)
  /\ UNCHANGED <<closing, attempts, crashes>>

\* The row is written only if it still carries the ownership token; the
\* outcome is claim_lost, with a rollback, otherwise.
IfStillOwned(s, row) ==
  LET j == task[s].job IN
  job' = [job EXCEPT ![j] = IF OwnedBy(@, task[s].token) THEN row ELSE @]

\* The handler returned: complete_job.
HandlerOk(s) ==
  /\ inv[s].pc = "exec"
  /\ IfStillOwned(s, Completed(job[task[s].job]))
  /\ AfterJob(s, inv[s].batch)
  /\ UNCHANGED <<closing, attempts, crashes>>

\* The handler raised: record_job_failure.
HandlerFail(s) ==
  LET j == task[s].job IN
  /\ inv[s].pc = "exec" /\ job[j].retries < RetryCap
  /\ IfStillOwned(s, FailureRecorded(job[j], MaxRetries[j]))
  /\ AfterJob(s, inv[s].batch)
  /\ UNCHANGED <<closing, attempts, crashes>>

\* The budget is spent: release_jobs reads the deferred rows it still owns...
ReleaseScan(s) ==
  LET owned == {j \in inv[s].batch : OwnedBy(job[j], inv[s].wid)} IN
  /\ inv[s].pc = "batch" /\ inv[s].age >= Budget
  /\ inv' = [inv EXCEPT ![s] = IF owned = {} THEN Idle
                               ELSE [@ EXCEPT !.pc = "release", !.batch = owned]]
  /\ UNCHANGED <<job, task, closing, attempts, crashes>>

\* ...and writes them by primary key.
ReleaseWrite(s) ==
  /\ inv[s].pc = "release"
  /\ job' = [j \in Jobs |-> IF j \in inv[s].batch THEN Released(job[j]) ELSE job[j]]
  /\ inv' = [inv EXCEPT ![s] = Idle]
  /\ UNCHANGED <<task, closing, attempts, crashes>>

-------------------------------------------------------------------------------
\* The early returns of run_*_now: completed, running and dead-lettered jobs
\* are answered from the row.
MayRunNow(j) ==
  \/ job[j].status \in {"queued", "failed", "cancelled"}
  \/ j \in RunNowTakeover /\ Claimable(job[j])

\* The request gets a worker id and is about to take, or has taken, job j.
Request(s, j, w, pc) ==
  /\ ~Live(s) /\ Fresh(w)
  /\ inv' = [inv EXCEPT ![s] = Invoked(pc, w)]
  /\ task' = [task EXCEPT ![s] = TaskOf(j, NoWorker, 0)]
  /\ UNCHANGED <<closing, attempts, crashes>>

\* A run-now that creates its job if need be, commits and reads it unlocked.
RunNowRead(s, j) ==
  /\ j \in RunNowUnlocked
  /\ job[j].status = "absent" \/ MayRunNow(j)
  /\ job' = [job EXCEPT ![j] = IF @.status = "absent" THEN Created ELSE @]
  /\ \E w \in Workers :
       Request(s, j, w, IF job[j].status = "running" THEN "retaking" ELSE "called")

\* start_job then takes the row whatever it holds by now.  A status it has read
\* as running is no change to its session, which leaves that column as it is.
RunNowStart(s) ==
  /\ inv[s].pc \in {"called", "retaking"}
  /\ job' = [job EXCEPT ![task[s].job] =
               [Taken(@, inv[s].wid) EXCEPT !.status =
                  IF inv[s].pc = "called" THEN "running" ELSE job[task[s].job].status]]
  /\ inv' = [inv EXCEPT ![s].pc = "started"]
  /\ UNCHANGED <<task, closing, attempts, crashes>>

\* A run-now that reads its row FOR UPDATE and takes it in one transaction.
RunNowUnderLock(s, j) ==
  /\ j \in RunNowLocked
  /\ MayRunNow(j)
  /\ \E w \in Workers :
       Request(s, j, w, "started") /\ job' = [job EXCEPT ![j] = Taken(@, w)]

-------------------------------------------------------------------------------
\* Provider disconnect cancels a queued job under its row lock.
CancelQueued(j) ==
  /\ j \in Disconnectable /\ job[j].status = "queued"
  /\ job' = [job EXCEPT ![j] = Cancelled(@)]
  /\ UNCHANGED <<inv, task, closing, attempts, crashes>>

\* Mutant: the closure forgets to filter by tenant.
ClosureReadAnyTenant ==
  /\ closing = {}
  /\ closing' = {j \in Jobs : job[j].status = "queued"}
  /\ closing' # {}
  /\ UNCHANGED <<job, inv, task, attempts, crashes>>

\* An organization closure reads the queued jobs of the tenant...
ClosureRead ==
  /\ closing = {}
  /\ closing' = {j \in Closable : job[j].status = "queued"}
  /\ closing' # {}
  /\ UNCHANGED <<job, inv, task, attempts, crashes>>

\* ...and at its commit writes the columns that differ from what it read.
ClosureWrite ==
  /\ closing # {}
  /\ job' = [j \in Jobs |-> IF j \in closing
                            THEN [job[j] EXCEPT !.status = "cancelled"] ELSE job[j]]
  /\ closing' = {}
  /\ UNCHANGED <<inv, task, attempts, crashes>>

\* The platform kills an invocation: its open transaction is rolled back.
Crash(s) ==
  /\ Live(s) /\ crashes < MaxCrashes
  /\ inv' = [inv EXCEPT ![s] = Idle]
  /\ task' = [task EXCEPT ![s] = NoTask]
  /\ crashes' = crashes + 1
  /\ UNCHANGED <<job, closing, attempts>>

\* No invocation outlives MaxDuration: it has ended or is killed by then.
Tick ==
  /\ \A s \in Slots : Live(s) => inv[s].age < MaxDuration
  /\ \A s \in Slots : inv[s].pc = "drain" => inv[s].age < ClaimBy
  /\ job' = [j \in Jobs |-> Aged(job[j])]
  /\ inv' = [s \in Slots |-> IF Live(s) THEN [inv[s] EXCEPT !.age = @ + 1]
                                        ELSE inv[s]]
  /\ UNCHANGED <<task, closing, attempts, crashes>>

SlotStep(s) ==
  \/ StartDrain(s)
  \/ Claim(s)
  \/ \E j \in Jobs : Begin(s, j)
  \/ FailUnsupported(s)
  \/ HandlerOk(s)
  \/ HandlerFail(s)
  \/ ReleaseScan(s)
  \/ ReleaseWrite(s)
  \/ \E j \in Jobs : RunNowRead(s, j)
  \/ RunNowStart(s)
  \/ \E j \in Jobs : RunNowUnderLock(s, j)
  \/ Crash(s)

Next ==
  \/ \E s \in Slots : SlotStep(s)
  \/ \E j \in Jobs : Enqueue(j) \/ CancelQueued(j)
  \/ ClosureRead
  \/ ClosureWrite
  \/ Tick

Spec == Init /\ [][Next]_vars

(***************************************************************************)
(* What the deployment gives: the clock runs; the cron keeps calling; an   *)
(* invocation that is not killed goes on, and does not lose its budget     *)
(* between two jobs every time (SF on Begin).  That outbox and enqueueing  *)
(* leave part of the budget is ClaimBy < Budget.                           *)
(***************************************************************************)
Fairness ==
  /\ WF_vars(Tick)
  /\ WF_vars(ClosureWrite)
  /\ WF_vars(\E s \in Slots : StartDrain(s))
  /\ \A s \in Slots :
       /\ WF_vars(Claim(s))
       /\ SF_vars(\E j \in Jobs : Begin(s, j))
       /\ WF_vars(HandlerOk(s) \/ HandlerFail(s))
       /\ WF_vars(FailUnsupported(s))
       /\ WF_vars(ReleaseScan(s)) /\ WF_vars(ReleaseWrite(s))
       /\ WF_vars(RunNowStart(s))

FairSpec == Spec /\ Fairness

-------------------------------------------------------------------------------
\* No invocation outlives a lease (60 s against 120 s in the deployment).
Hosted == MaxDuration < Lease

\* The jobs nothing writes blindly: every other path checks the row it writes
\* under a lock, or holds an unexpired claim on it.
Tame == Jobs \ (RunNowUnlocked \cup Closable)

\* The jobs a slot acts on as their owner.
Held(s) ==
  inv[s].batch \cup
  (IF inv[s].pc \in {"exec", "unsupported", "started"} THEN {task[s].job} ELSE {})

Executing(s, j) == inv[s].pc = "exec" /\ task[s].job = j

\* Rows, invocations and counters keep their types.
TypeOK ==
  /\ job \in [Jobs -> Rows]
  /\ inv \in [Slots -> Invocations]
  /\ task \in [Slots -> Tasks]
  /\ closing \subseteq Jobs
  /\ attempts \in [Jobs -> 0..AttemptCap]
  /\ crashes \in 0..MaxCrashes

\* The shape of an invocation at each pc, and who may be written blindly.
WellFormed ==
  /\ closing \subseteq Closable
  /\ \A s \in Slots :
       /\ Live(s) => inv[s].wid \in Workers
       /\ inv[s].pc \in {"idle", "drain", "called", "retaking", "started"} => inv[s].batch = {}
       /\ inv[s].pc \in {"exec", "unsupported", "called", "retaking", "started"}
            => task[s].job \in Jobs \ inv[s].batch
       /\ inv[s].pc \in {"called", "retaking"} => task[s].job \in RunNowUnlocked
       /\ inv[s].pc = "exec" => task[s].job \notin Unsupported
       /\ inv[s].pc = "unsupported" => task[s].job \in Unsupported

\* A worker id names one live invocation.
UniqueWorkers ==
  \A s, t \in Slots : Live(s) /\ Live(t) /\ inv[s].wid = inv[t].wid => s = t

\* The claim a slot has on a job it acts on.
Owns(s, j) ==
  /\ OwnedBy(job[j], inv[s].wid)
  /\ job[j].lease + inv[s].age >= Lease
  /\ inv[s].pc \in {"exec", "unsupported"} /\ task[s].job = j
       => task[s].token = inv[s].wid /\ task[s].seen = job[j].retries

\* As long as an invocation works on a job it claimed, the row is running
\* under that invocation's own worker id, the ownership token and the retry
\* count it read are still the row's, and the lease has not run out:
\* complete_job and record_job_failure never report claim_lost to a live
\* worker, and no other drain can take the job from under it.
ClaimHeld == \A s \in Slots : \A j \in Held(s) \cap Tame : Owns(s, j)

ClaimInv == WellFormed /\ UniqueWorkers /\ ClaimHeld

\* Two invocations never run the handler of one job at the same time.
OneHandlerAtATime ==
  \A s, t \in Slots : \A j \in Tame :
    Executing(s, j) /\ Executing(t, j) => s = t

\* Every handler execution is paid for: by a recorded failure, by the kill of
\* an invocation, or it is the one that completed or is still going on.
AttemptsAccounted ==
  \A j \in Tame :
    attempts[j] <= job[j].retries + crashes +
       (IF job[j].status = "completed" \/ \E s \in Slots : Executing(s, j)
        THEN 1 ELSE 0)

\* A job is dead-lettered by exactly one failure more than its max_retries,
\* and never waits, runs or ends otherwise beyond them.
RetryBudget ==
  \A j \in Tame \ Unsupported :
    IF job[j].status = "dead_letter" THEN job[j].retries = MaxRetries[j] + 1
                                     ELSE job[j].retries <= MaxRetries[j]

Settled(j) == job[j].status \in {"completed", "dead_letter"}

\* A completed or dead-lettered job stays as it is, whatever workers, late
\* releases, run-now requests and cancellations do afterwards.
SettledIsFinal ==
  [][\A j \in Tame : Settled(j) => job'[j].status = job[j].status]_vars

\* Every queued job is eventually completed, dead-lettered, failed or cancelled,
\* although invocations are killed and drains run out of time.
EventuallySettled ==
  \A j \in Jobs : job[j].status = "queued" ~>
    job[j].status \in {"completed", "dead_letter", "failed", "cancelled"}

-------------------------------------------------------------------------------
\* The phase a job is in: a running row is being worked on while an invocation
\* is inside its handler, and merely taken otherwise.
Phase(j) ==
  IF job[j].status = "queued" THEN "waiting"
  ELSE IF job[j].status # "running" THEN job[j].status
  ELSE IF \E s \in Slots : Executing(s, j) THEN "working" ELSE "taken"

Contract == INSTANCE JobContract
              WITH Jobs <- Tame,
                   phase <- [j \in Tame |-> Phase(j)],
                   failures <- [j \in Tame |-> job[j].retries]

\* The queue implements its contract for the tame jobs: leases, tokens, batches
\* and kills are ways to give each job to one handler at a time and to count
\* its failures.
ImplementsContract == Contract!ContractSpec
==============================================================================
