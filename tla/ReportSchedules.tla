--------------------------- MODULE ReportSchedules ---------------------------
(***************************************************************************)
(* One campaign's report schedule and the durable jobs that serve it:      *)
(* services/reporting_service.py (schedule, handler, failure marking),     *)
(* the enqueueing and failure hooks of services/durable_job_service.py and *)
(* the pause and restore of services/organization_closure_service.py.      *)
(*                                                                         *)
(* A job is keyed by the occurrence (next_run_at) it was created for, but  *)
(* its handler serves whatever occurrence the schedule is at when it runs. *)
(* The queue is the contract DurableJobs is shown to implement; its moves  *)
(* happen in the transaction of the handler they belong to.                *)
(*                                                                         *)
(* A user's save and the closure read rows without a lock and write, when  *)
(* they commit, the columns that differ from what they read: reading and   *)
(* writing are steps of their own.  One save and one closure are under way *)
(* at a time.                                                              *)
(***************************************************************************)
EXTENDS Naturals

CONSTANTS
  LastTime,     \* bound: the last occurrence that is modelled
  MaxRetries,   \* REPORT_SCHEDULE_MAX_RETRIES
  MarkMayFail,  \* whether the failure hook itself may raise
  MaxEdits,     \* bound: PUT /reports/schedule calls
  MaxClosures,  \* bound: closures of the workspace
  MaxKills      \* bound: invocations killed inside a handler

ASSUME ScheduleAssumption ==
  /\ LastTime \in Nat /\ MaxRetries \in Nat \ {0} /\ MarkMayFail \in BOOLEAN
  /\ MaxEdits \in Nat /\ MaxClosures \in Nat /\ MaxKills \in Nat

VARIABLES
  now,        \* the clock, in periods of the cadence
  schedule,   \* the report_schedules row
  phase,      \* per occurrence, the job created for it
  failures,   \* their retry_count
  run,        \* per job, what its handler has read and done so far
  reports,    \* per occurrence, the monthly reports committed
  edit,       \* the save under way and the row it has read
  closing,    \* the closure or reopening under way and the rows it has read
  saved,      \* the operational snapshot of a closure
  edits, closures, kills

vars == <<now, schedule, phase, failures, run, reports, edit, closing, saved,
          edits, closures, kills>>
users == <<edit, closing, saved, edits, closures>>

Times == 0..LastTime
Beyond == LastTime + 1            \* next_run_at has left the model
Occurrences == 0..Beyond

Queue == INSTANCE JobContract
           WITH Jobs <- Times, MaxRetries <- [t \in Times |-> MaxRetries - 1]

Schedules == [next    : Occurrences,
              enabled : BOOLEAN,
              retries : Nat,
              status  : {"scheduled", "disabled", "retry_pending",
                         "max_retries_exceeded", "success"}]

ScheduleRow(next, enabled, retries, status) ==
  [next |-> next, enabled |-> enabled, retries |-> retries, status |-> status]

\* What a handler holds between its read of the schedule and its end.
Runs == [pc : {"none", "read", "reported"}, enabled : BOOLEAN, next : Occurrences]
RunOf(pc, enabled, next) == [pc |-> pc, enabled |-> enabled, next |-> next]
NoRun == RunOf("none", FALSE, 0)

NoRow == ScheduleRow(0, FALSE, 0, "disabled")
Edits == [pc : {"none", "admitted", "read"}, seen : Schedules]
NoEdit == [pc |-> "none", seen |-> NoRow]

Closings == [pc : {"none", "reading", "closing", "reopening"}, seen : Schedules,
             waiting : SUBSET Times]
NoClosing == [pc |-> "none", seen |-> NoRow, waiting |-> {}]

Open == [open |-> TRUE, enabled |-> FALSE, next |-> 0]   \* no closure pending
Closed(s) == [open |-> FALSE, enabled |-> s.enabled, next |-> s.next]

Init ==
  /\ now = 0
  /\ schedule = ScheduleRow(0, TRUE, 0, "scheduled")
  /\ Queue!ContractInit
  /\ run = [t \in Times |-> NoRun]
  /\ reports = [t \in Times |-> 0]
  /\ edit = NoEdit /\ closing = NoClosing /\ saved = Open
  /\ edits = 0 /\ closures = 0 /\ kills = 0

IsDue(next) == next \in Times /\ next <= now

\* A flush writes a column when its value differs from the one that was read.
Flushed(value, seen, current) == IF value = seen THEN current ELSE value

-------------------------------------------------------------------------------
\* enqueue_due_report_schedule_jobs: a key that exists already keeps its job.
EnqueueDue ==
  /\ schedule.enabled /\ schedule.status # "max_retries_exceeded"
  /\ IsDue(schedule.next)
  /\ Queue!Submit(schedule.next)
  /\ UNCHANGED <<now, schedule, run, reports, kills, users>>

Claim(t) ==
  /\ phase[t] = "waiting"
  /\ Queue!Take({t})
  /\ UNCHANGED <<now, schedule, run, reports, kills, users>>

\* The drain's budget is spent before it comes to the job.
Release(t) ==
  /\ phase[t] = "taken"
  /\ Queue!GiveBack({t})
  /\ UNCHANGED <<now, schedule, run, reports, kills, users>>

\* The handler starts: run_due_report_schedule reads the row, without a lock.
HandlerReads(t) ==
  /\ Queue!Work(t)
  /\ run' = [run EXCEPT ![t] = RunOf("read", schedule.enabled, schedule.next)]
  /\ UNCHANGED <<now, schedule, reports, kills, users>>

\* "disabled" and "not_due" are results: the job completes.
HandlerSkips(t) ==
  /\ run[t].pc = "read"
  /\ ~run[t].enabled \/ ~IsDue(run[t].next)
  /\ Queue!Finish(t)
  /\ run' = [run EXCEPT ![t] = NoRun]
  /\ UNCHANGED <<now, schedule, reports, kills, users>>

\* Mutant: the handler does not look whether the schedule is enabled.
HandlerReportsUnasked(t) ==
  /\ run[t].pc = "read"
  /\ IsDue(run[t].next)
  /\ reports' = [reports EXCEPT ![run[t].next] = @ + 1]
  /\ run' = [run EXCEPT ![t] = RunOf("reported", TRUE, run[t].next)]
  /\ UNCHANGED <<now, schedule, phase, failures, kills, users>>

\* generate_report commits the report, whatever its caller commits later.
HandlerReports(t) ==
  /\ run[t].pc = "read"
  /\ run[t].enabled /\ IsDue(run[t].next)
  /\ reports' = [reports EXCEPT ![run[t].next] = @ + 1]
  /\ run' = [run EXCEPT ![t] = RunOf("reported", TRUE, run[t].next)]
  /\ UNCHANGED <<now, schedule, phase, failures, kills, users>>

\* Mutant: the schedule advances past the occurrence that is due by now.
HandlerAdvancesToNow(t) ==
  /\ run[t].pc = "reported"
  /\ schedule' = ScheduleRow(now + 1, schedule.enabled, 0, "success")
  /\ Queue!Finish(t)
  /\ run' = [run EXCEPT ![t] = NoRun]
  /\ UNCHANGED <<now, reports, kills, users>>

\* Mutant: the schedule advances twice, in the handler and at its completion.
HandlerAdvancesTwice(t) ==
  /\ run[t].pc = "reported"
  /\ schedule' = ScheduleRow(run[t].next + 2, schedule.enabled, 0, "success")
  /\ Queue!Finish(t)
  /\ run' = [run EXCEPT ![t] = NoRun]
  /\ UNCHANGED <<now, reports, kills, users>>

\* The schedule advances from the occurrence that was read at the start, and
\* the job completes, in one transaction.
HandlerAdvances(t) ==
  /\ run[t].pc = "reported"
  /\ schedule' = ScheduleRow(run[t].next + 1, schedule.enabled, 0, "success")
  /\ Queue!Finish(t)
  /\ run' = [run EXCEPT ![t] = NoRun]
  /\ UNCHANGED <<now, reports, kills, users>>

\* Mutant: one failure more before the schedule is disabled.
AttemptFailedLate(s) ==
  IF ~s.enabled \/ s.status = "max_retries_exceeded" THEN s
  ELSE IF s.retries + 1 > MaxRetries
       THEN ScheduleRow(s.next, FALSE, s.retries + 1, "max_retries_exceeded")
       ELSE ScheduleRow(s.next, TRUE, s.retries + 1, "retry_pending")

\* Mutant: the failure is not counted by the schedule.
AttemptFailedUncounted(s) ==
  IF ~s.enabled \/ s.status = "max_retries_exceeded" THEN s
  ELSE IF s.retries + 1 >= MaxRetries
       THEN ScheduleRow(s.next, FALSE, s.retries, "max_retries_exceeded")
       ELSE ScheduleRow(s.next, TRUE, s.retries, "retry_pending")

\* mark_schedule_attempt_failure.
AttemptFailed(s) ==
  IF ~s.enabled \/ s.status = "max_retries_exceeded" THEN s
  ELSE IF s.retries + 1 >= MaxRetries
       THEN ScheduleRow(s.next, FALSE, s.retries + 1, "max_retries_exceeded")
       ELSE ScheduleRow(s.next, TRUE, s.retries + 1, "retry_pending")

\* Mutant: a failed attempt goes back to the queue without being counted.
HandlerFailsUncounted(t) ==
  /\ run[t].pc # "none"
  /\ Queue!Move(t, "working", "waiting") /\ UNCHANGED failures
  /\ run' = [run EXCEPT ![t] = NoRun]
  /\ UNCHANGED <<now, schedule, reports, kills, users>>

\* The handler raises: rollback, then the schedule and the job are marked in
\* one transaction; a hook that raises is rolled back and the job still counted.
HandlerFails(t) ==
  /\ run[t].pc # "none"
  /\ Queue!Retry(t) \/ Queue!GiveUp(t)
  /\ \/ schedule' = AttemptFailed(schedule)
     \/ MarkMayFail /\ UNCHANGED schedule
  /\ run' = [run EXCEPT ![t] = NoRun]
  /\ UNCHANGED <<now, reports, kills, users>>

\* A closure has cancelled the job under its handler: what it has not committed
\* is rolled back ("claim_lost").
HandlerLost(t) ==
  /\ run[t].pc # "none" /\ phase[t] # "working"
  /\ run' = [run EXCEPT ![t] = NoRun]
  /\ UNCHANGED <<now, schedule, phase, failures, reports, kills, users>>

\* The invocation dies; the job is claimed again when its lease expires.
Kill(t) ==
  /\ kills < MaxKills
  /\ Queue!Abandon(t)
  /\ run' = [run EXCEPT ![t] = NoRun]
  /\ kills' = kills + 1
  /\ UNCHANGED <<now, schedule, reports, users>>

-------------------------------------------------------------------------------
jobs == <<phase, failures, run, reports, kills>>

\* A request to save the schedule passes the check that a closed workspace is
\* read-only...
EditAdmitted ==
  /\ edits < MaxEdits /\ edit.pc = "none" /\ saved.open
  /\ edit' = [NoEdit EXCEPT !.pc = "admitted"]
  /\ edits' = edits + 1
  /\ UNCHANGED <<now, schedule, jobs, closing, saved, closures>>

\* ...reads the row...
EditReads ==
  /\ edit.pc = "admitted"
  /\ edit' = [pc |-> "read", seen |-> schedule]
  /\ UNCHANGED <<now, schedule, jobs, closing, saved, edits, closures>>

\* ...and writes what the user asked for; retry_count stays.
EditWrites(next, enabled) ==
  /\ edit.pc = "read"
  /\ schedule' =
       ScheduleRow(Flushed(next, edit.seen.next, schedule.next),
                   Flushed(enabled, edit.seen.enabled, schedule.enabled),
                   schedule.retries,
                   Flushed(IF enabled THEN "scheduled" ELSE "disabled",
                           edit.seen.status, schedule.status))
  /\ edit' = NoEdit
  /\ UNCHANGED <<now, jobs, closing, saved, edits, closures>>

\* _pause_workspace reads the schedule...
ClosureReads ==
  /\ closures < MaxClosures /\ closing.pc = "none" /\ saved.open
  /\ closing' = [NoClosing EXCEPT !.pc = "reading", !.seen = schedule]
  /\ closures' = closures + 1
  /\ UNCHANGED <<now, schedule, jobs, edit, saved, edits>>

\* ...then the jobs that wait...
ClosureFinds ==
  /\ closing.pc = "reading"
  /\ closing' = [closing EXCEPT !.pc = "closing",
                                !.waiting = {t \in Times : phase[t] = "waiting"}]
  /\ UNCHANGED <<now, schedule, jobs, edit, saved, edits, closures>>

\* ...and commits: the snapshot is what it read, the schedule is disabled, and
\* those jobs are cancelled, whatever they do by now.
ClosureWrites ==
  /\ closing.pc = "closing"
  /\ saved' = Closed(closing.seen)
  /\ schedule' = [schedule EXCEPT !.enabled = Flushed(FALSE, closing.seen.enabled, @)]
  /\ phase' = [t \in Times |-> IF t \in closing.waiting THEN "cancelled" ELSE phase[t]]
  /\ closing' = NoClosing
  /\ UNCHANGED <<now, failures, run, reports, kills, edit, edits, closures>>

\* _restore_workspace: back to the snapshot; cancelled jobs stay cancelled.
ReopenReads ==
  /\ ~saved.open /\ closing.pc = "none"
  /\ closing' = [NoClosing EXCEPT !.pc = "reopening", !.seen = schedule]
  /\ UNCHANGED <<now, schedule, jobs, edit, saved, edits, closures>>

ReopenWrites ==
  /\ closing.pc = "reopening"
  /\ schedule' = [schedule EXCEPT
                    !.enabled = Flushed(saved.enabled, closing.seen.enabled, @),
                    !.next = Flushed(saved.next, closing.seen.next, @)]
  /\ saved' = Open
  /\ closing' = NoClosing
  /\ UNCHANGED <<now, jobs, edit, edits, closures>>

Tick ==
  /\ now < LastTime
  /\ now' = now + 1
  /\ UNCHANGED <<schedule, phase, failures, run, reports, kills, users>>

HandlerEnds(t) ==
  HandlerSkips(t) \/ HandlerAdvances(t) \/ HandlerFails(t) \/ HandlerLost(t)

JobStep(t) ==
  \/ Claim(t)
  \/ Release(t)
  \/ HandlerReads(t)
  \/ HandlerReports(t)
  \/ HandlerEnds(t)
  \/ Kill(t)

Next ==
  \/ EnqueueDue
  \/ \E t \in Times : JobStep(t)
  \/ EditAdmitted
  \/ EditReads
  \/ \E next \in Times, enabled \in BOOLEAN : EditWrites(next, enabled)
  \/ ClosureReads
  \/ ClosureFinds
  \/ ClosureWrites
  \/ ReopenReads
  \/ ReopenWrites
  \/ Tick

Spec == Init /\ [][Next]_vars

(***************************************************************************)
(* The cron keeps draining: due schedules are enqueued, jobs claimed and   *)
(* begun again and again, whatever a spent budget gives back; a handler    *)
(* that is not killed ends.                                                *)
(***************************************************************************)
Fairness ==
  /\ WF_vars(EnqueueDue)
  /\ \A t \in Times :
       /\ WF_vars(Claim(t)) /\ SF_vars(HandlerReads(t))
       /\ WF_vars(HandlerReports(t) \/ HandlerEnds(t))

FairSpec == Spec /\ Fairness

-------------------------------------------------------------------------------
JobEnded(t) == phase[t] \in {"completed", "dead_letter", "cancelled"}

\* Rows, jobs and counters keep their types, and a job that is worked on has its
\* handler.
TypeOK ==
  /\ now \in Times
  /\ schedule \in Schedules
  /\ phase \in [Times -> Queue!Phases]
  /\ failures \in [Times -> Nat]
  /\ run \in [Times -> Runs]
  /\ \A t \in Times : phase[t] = "working" => run[t].pc # "none"
  /\ reports \in [Times -> Nat]
  /\ edit \in Edits /\ closing \in Closings
  /\ saved \in [open : BOOLEAN, enabled : BOOLEAN, next : Occurrences]
  /\ edits \in 0..MaxEdits /\ closures \in 0..MaxClosures /\ kills \in 0..MaxKills

\* The retry_count of the schedule is that of the job of its occurrence, so
\* both give up at the same failure (create_job with MAX_RETRIES - 1).
RetriesInStep ==
  schedule.next \in Times => schedule.retries = failures[schedule.next]

\* The job of the occurrence an enabled schedule waits for has not ended:
\* the idempotency key of create_job never shuts the schedule out.
NeverStranded ==
  schedule.enabled /\ schedule.next \in Times => ~JobEnded(schedule.next)

\* No occurrence the schedule has moved past was left without its report.
NoPeriodSkipped == \A t \in Times : t < schedule.next => reports[t] > 0

\* generate_report commits before the schedule advances, so an occurrence may
\* be reported again; every repetition costs a counted failure or a kill.
RepeatsPaidFor == \A t \in Times : reports[t] <= 1 + failures[t] + kills

\* A closed workspace in which nothing is left of the time before: the schedule
\* is off, no save is under way, and no handler has read the schedule as on.
Quiet ==
  /\ ~saved.open /\ ~schedule.enabled /\ edit.pc = "none"
  /\ \A t \in Times : run[t].pc = "read" => ~run[t].enabled

\* Once quiet, a closed workspace stays so until its owner reopens it: no job the
\* closure did not find, no handler or failure hook still running produces a
\* report or turns the schedule on again.
ClosedIsQuiet == [][Quiet => saved'.open \/ (Quiet' /\ reports' = reports)]_vars

\* A due occurrence of an enabled schedule is left behind or the schedule is
\* disabled, although handlers fail and invocations are killed.
DueOccurrenceIsServed ==
  \A t \in Times :
    schedule.enabled /\ schedule.next = t /\ t <= now
      ~> schedule.next # t \/ ~schedule.enabled
==============================================================================
