------------------------- MODULE ReportSchedules_proofs -------------------------
(***************************************************************************)
(* Theorems about ReportSchedules, for any horizon, any number of retries  *)
(* and any number of killed invocations.                                   *)
(*                                                                         *)
(* Left alone - nobody edits the schedule or closes the workspace, and the *)
(* failure hook does not fail itself - the schedule and the job of its     *)
(* occurrence move in step: earlier occurrences have completed jobs, later *)
(* ones none, and the schedule is disabled by the very failure that        *)
(* dead-letters its job.  Timeline says so, and is inductive.              *)
(***************************************************************************)
EXTENDS ReportSchedules, TLAPS

LeftAlone == MaxEdits = 0 /\ MaxClosures = 0 /\ ~MarkMayFail

JobAlive(t) == phase[t] \in {"absent", "waiting", "taken", "working"}

\* The jobs of the occurrences before, at and after next_run_at.
Timeline ==
  /\ \A t \in Times :
       /\ t < schedule.next => phase[t] = "completed" /\ reports[t] > 0
       /\ t > schedule.next => phase[t] = "absent"
       /\ phase[t] = "absent" => failures[t] = 0
       /\ phase[t] # "absent" => t <= now
  /\ schedule.next \in Times =>
       /\ schedule.retries = failures[schedule.next]
       /\ IF schedule.enabled
          THEN JobAlive(schedule.next) /\ failures[schedule.next] < MaxRetries
          ELSE phase[schedule.next] = "dead_letter"
  /\ schedule.next = Beyond => schedule.enabled /\ schedule.retries = 0

\* What a handler has read is still so.
HandlersCurrent ==
  \A t \in Times : run[t].pc # "none" =>
    /\ phase[t] = "working"
    /\ t = schedule.next /\ run[t].next = t /\ run[t].enabled
    /\ run[t].pc = "reported" => reports[t] > 0

\* After the last failure the failure hook disabled it.
GivenUpIsOff == schedule.status = "max_retries_exceeded" => ~schedule.enabled

Undisturbed ==
  /\ saved.open /\ edits = 0 /\ closures = 0 /\ GivenUpIsOff
  /\ edit.pc = "none" /\ closing.pc = "none"

IInv == TypeOK /\ Undisturbed /\ Timeline /\ HandlersCurrent

-------------------------------------------------------------------------------
\* The bounds on time and retries as numbers.
LEMMA ConstantFacts ==
  /\ LastTime \in Nat /\ Beyond \in Nat /\ MaxRetries \in Nat /\ MaxRetries > 0
  /\ Times \subseteq Nat /\ Occurrences \subseteq Nat
  /\ \A t \in Occurrences : t \in Times \/ t = Beyond
  /\ \A t \in Times : t + 1 \in Occurrences /\ t # Beyond
BY ScheduleAssumption DEF ScheduleAssumption, Times, Beyond, Occurrences

\* A schedule left alone is initially in step with its (absent) jobs.
LEMMA InitInStep == Init => IInv
<1> SUFFICES ASSUME Init PROVE IInv
  OBVIOUS
<1>1. TypeOK
  BY ConstantFacts, ScheduleAssumption
  DEF ScheduleAssumption, Init, TypeOK, Queue!ContractInit, Queue!Phases, Schedules, ScheduleRow,
      Runs, RunOf, NoRun, NoRow, Edits, NoEdit, Closings, NoClosing, Open, Times, Occurrences,
      Beyond
<1>2. Undisturbed
  BY DEF Init, Undisturbed, GivenUpIsOff, ScheduleRow, NoEdit, NoClosing, Open
<1>3. Timeline
  BY ConstantFacts DEF Init, Timeline, Queue!ContractInit, ScheduleRow, JobAlive, Times, Beyond
<1>4. HandlersCurrent
  BY DEF Init, HandlersCurrent, NoRun, RunOf
<1> QED BY <1>1, <1>2, <1>3, <1>4 DEF IInv
\* A step that leaves the users' counters and the schedule alone disturbs neither.
LEMMA StillLeftAlone ==
  LeftAlone /\ Undisturbed /\ schedule' = schedule /\ UNCHANGED users => Undisturbed'
BY DEF Undisturbed, GivenUpIsOff, users

\* What the queue's moves write.
LEMMA MoveFacts ==
  ASSUME NEW t \in Times, NEW from \in Queue!Phases, NEW to \in Queue!Phases,
         TypeOK, Queue!Move(t, from, to)
  PROVE  /\ phase[t] = from /\ phase'[t] = to
         /\ \A u \in Times \ {t} : phase'[u] = phase[u]
         /\ phase' \in [Times -> Queue!Phases]
BY DEF TypeOK, Queue!Move

\* What a handler's step writes into its run.
LEMMA RunFacts ==
  ASSUME NEW t \in Times, NEW r \in Runs, TypeOK, run' = [run EXCEPT ![t] = r]
  PROVE  /\ run'[t] = r
         /\ \A u \in Times \ {t} : run'[u] = run[u]
         /\ run' \in [Times -> Runs]
BY DEF TypeOK

LEMMA EnqueueStep == LeftAlone /\ IInv /\ EnqueueDue => IInv'
<1> SUFFICES ASSUME LeftAlone, IInv, EnqueueDue PROVE IInv'
  OBVIOUS
<1> USE ConstantFacts
<1>1. PICK t \in Times : t = schedule.next /\ t <= now
  BY DEF EnqueueDue, IsDue
<1>2. /\ phase[t] = "absent" /\ phase'[t] = "waiting"
      /\ \A u \in Times \ {t} : phase'[u] = phase[u]
      /\ phase' \in [Times -> Queue!Phases]
  BY <1>1, MoveFacts DEF EnqueueDue, Queue!Submit, Queue!Phases, IInv
<1>3. UNCHANGED <<now, schedule, failures, run, reports, kills, users>>
  BY DEF EnqueueDue, Queue!Submit
<1>4. TypeOK'
  BY <1>1, <1>2, <1>3 DEF IInv, TypeOK, users
<1>5. Undisturbed'
  BY <1>3, StillLeftAlone DEF IInv
<1>6. Timeline'
  BY <1>1, <1>2, <1>3 DEF IInv, TypeOK, Timeline, JobAlive
<1>7. HandlersCurrent'
  BY <1>1, <1>2, <1>3 DEF IInv, HandlersCurrent
<1> QED BY <1>4, <1>5, <1>6, <1>7 DEF IInv

\* A job moved between phases in which it is alive leaves the timeline as it was.
LEMMA StaysAlive ==
  ASSUME IInv, NEW t \in Times, UNCHANGED <<now, schedule, failures, reports>>,
         phase[t] \in {"waiting", "taken", "working"},
         phase'[t] \in {"waiting", "taken", "working"},
         \A u \in Times \ {t} : phase'[u] = phase[u]
  PROVE  Timeline'
<1> USE ConstantFacts
<1>1. \A u \in Times :
        /\ phase'[u] \in {"absent", "completed", "dead_letter"} => phase'[u] = phase[u]
        /\ phase[u] \in {"absent", "completed", "dead_letter"} => phase'[u] = phase[u]
  OBVIOUS
<1>2. \A u \in Times :
        /\ u < schedule.next => phase'[u] = "completed" /\ reports[u] > 0
        /\ u > schedule.next => phase'[u] = "absent"
        /\ phase'[u] = "absent" => failures[u] = 0
        /\ phase'[u] # "absent" => u <= now
  BY <1>1 DEF IInv, Timeline
<1>3. schedule.next \in Times =>
        IF schedule.enabled
        THEN phase'[schedule.next] \in {"absent", "waiting", "taken", "working"}
        ELSE phase'[schedule.next] = "dead_letter"
  BY <1>1 DEF IInv, Timeline, JobAlive
<1> QED BY <1>2, <1>3 DEF IInv, Timeline, JobAlive

\* A job that is claimed or given back stays alive at its occurrence.
LEMMA QueueStep ==
  ASSUME LeftAlone, IInv, NEW t \in Times, Claim(t) \/ Release(t)
  PROVE  IInv'
<1> USE ConstantFacts
<1>1. /\ phase[t] \in {"waiting", "taken"} /\ phase'[t] \in {"waiting", "taken"}
      /\ phase' \in [Times -> Queue!Phases]
      /\ \A u \in Times \ {t} : phase'[u] = phase[u]
  BY DEF Claim, Release, Queue!Take, Queue!GiveBack, Queue!MoveAll, Queue!Phases,
         IInv, TypeOK
<1>2. UNCHANGED <<now, schedule, failures, run, reports, kills, users>>
  BY DEF Claim, Release, Queue!Take, Queue!GiveBack
<1>3. TypeOK'
  BY <1>1, <1>2 DEF IInv, TypeOK, users
<1>4. Undisturbed'
  BY <1>2, StillLeftAlone DEF IInv
<1>5. Timeline'
  BY <1>1, <1>2, StaysAlive
<1>6. HandlersCurrent'
  BY <1>1, <1>2 DEF IInv, HandlersCurrent
<1> QED BY <1>3, <1>4, <1>5, <1>6 DEF IInv

\* The job a handler is started for is the one of the schedule's occurrence,
\* and the schedule it reads is enabled and due.
LEMMA ReadStep ==
  ASSUME LeftAlone, IInv, NEW t \in Times, HandlerReads(t)
  PROVE  IInv'
<1> USE ConstantFacts
<1>1. /\ phase[t] = "taken" /\ phase'[t] = "working"
      /\ \A u \in Times \ {t} : phase'[u] = phase[u]
      /\ phase' \in [Times -> Queue!Phases]
  BY MoveFacts DEF HandlerReads, Queue!Work, Queue!Phases, IInv
<1>2. UNCHANGED <<now, schedule, failures, reports, kills, users>>
  BY DEF HandlerReads, Queue!Work
<1>3. t = schedule.next /\ schedule.enabled
  <2>1. t \in Nat /\ schedule.next \in Nat
    BY DEF IInv, TypeOK, Schedules
  <2>2. ~(t < schedule.next) /\ ~(t > schedule.next)
    BY <1>1 DEF IInv, Timeline
  <2>3. t = schedule.next
    BY <2>1, <2>2
  <2> QED BY <1>1, <2>3 DEF IInv, Timeline
<1>4. RunOf("read", schedule.enabled, schedule.next) \in Runs
  BY DEF IInv, TypeOK, Schedules, Runs, RunOf
<1>5. /\ run'[t] = RunOf("read", TRUE, t)
      /\ \A u \in Times \ {t} : run'[u] = run[u]
      /\ run' \in [Times -> Runs]
  BY <1>3, <1>4, RunFacts DEF HandlerReads, IInv
<1>6. TypeOK'
  BY <1>1, <1>2, <1>5 DEF IInv, TypeOK, users, RunOf
<1>7. Undisturbed'
  BY <1>2, StillLeftAlone DEF IInv
<1>8. Timeline'
  BY <1>1, <1>2, StaysAlive
<1>9. run'[t].pc = "read" /\ run'[t].enabled /\ run'[t].next = t
  BY <1>5 DEF RunOf
<1>10. HandlersCurrent'
  BY <1>1, <1>2, <1>3, <1>5, <1>9 DEF IInv, HandlersCurrent
<1> QED BY <1>6, <1>7, <1>8, <1>10 DEF IInv

\* Left alone, a handler never finds its schedule disabled or not due.
LEMMA NoSkips ==
  ASSUME IInv, NEW t \in Times, HandlerSkips(t)
  PROVE  FALSE
<1>1. run[t].enabled /\ run[t].next = t /\ phase[t] # "absent"
  BY DEF HandlerSkips, IInv, HandlersCurrent, TypeOK
<1>2. t <= now
  BY <1>1 DEF IInv, Timeline
<1> QED BY <1>1, <1>2 DEF HandlerSkips, IsDue

LEMMA ReportStep ==
  ASSUME LeftAlone, IInv, NEW t \in Times, HandlerReports(t)
  PROVE  IInv'
<1> USE ConstantFacts
<1>1. run[t].pc = "read" /\ run[t].next = t /\ t = schedule.next
  BY DEF HandlerReports, IInv, HandlersCurrent
<1>2. RunOf("reported", TRUE, t) \in Runs
  BY DEF Runs, RunOf, Times, Occurrences, Beyond
<1>3. /\ run'[t] = RunOf("reported", TRUE, t)
      /\ \A u \in Times \ {t} : run'[u] = run[u]
      /\ run' \in [Times -> Runs]
  BY <1>1, <1>2, RunFacts DEF HandlerReports, IInv
<1>4. /\ reports'[t] = reports[t] + 1
      /\ \A u \in Times \ {t} : reports'[u] = reports[u]
      /\ reports' \in [Times -> Nat]
  BY <1>1 DEF HandlerReports, IInv, TypeOK
<1>5. UNCHANGED <<now, schedule, phase, failures, kills, users>>
  BY DEF HandlerReports
<1>6. TypeOK'
  BY <1>1, <1>3, <1>4, <1>5 DEF IInv, TypeOK, users, RunOf
<1>7. Undisturbed'
  BY <1>5, StillLeftAlone DEF IInv
<1>8. reports[t] \in Nat
  BY DEF IInv, TypeOK
<1>9. Timeline'
  BY <1>1, <1>4, <1>5 DEF IInv, TypeOK, Timeline, JobAlive
<1>10. HandlersCurrent'
  BY <1>1, <1>3, <1>4, <1>5, <1>8 DEF IInv, HandlersCurrent, RunOf
<1> QED BY <1>6, <1>7, <1>9, <1>10 DEF IInv

\* The schedule leaves its occurrence in the step that completes its job.
LEMMA AdvanceStep ==
  ASSUME LeftAlone, IInv, NEW t \in Times, HandlerAdvances(t)
  PROVE  IInv'
<1> USE ConstantFacts
<1>1. run[t].next = t /\ t = schedule.next /\ reports[t] > 0
  BY DEF HandlerAdvances, IInv, HandlersCurrent
<1>2. /\ phase[t] = "working" /\ phase'[t] = "completed"
      /\ \A u \in Times \ {t} : phase'[u] = phase[u]
      /\ phase' \in [Times -> Queue!Phases]
  BY MoveFacts DEF HandlerAdvances, Queue!Finish, Queue!Phases, IInv
<1>3. schedule' = ScheduleRow(t + 1, TRUE, 0, "success")
  BY <1>1, <1>2 DEF HandlerAdvances, IInv, Timeline, TypeOK, Schedules, JobAlive
<1>4. NoRun \in Runs
  BY DEF Runs, RunOf, NoRun, Times, Occurrences, Beyond
<1>5. /\ run'[t] = NoRun
      /\ \A u \in Times \ {t} : run'[u] = run[u]
      /\ run' \in [Times -> Runs]
  BY <1>4, RunFacts DEF HandlerAdvances, IInv
<1>6. UNCHANGED <<now, failures, reports, kills, users>>
  BY DEF HandlerAdvances, Queue!Finish
<1>7. TypeOK'
  BY <1>2, <1>3, <1>5, <1>6
  DEF IInv, TypeOK, users, RunOf, NoRun, ScheduleRow, Schedules
<1>8. Undisturbed'
  BY <1>3, <1>6 DEF IInv, Undisturbed, GivenUpIsOff, users, ScheduleRow
<1>9. schedule'.next = t + 1 /\ schedule'.enabled /\ schedule'.retries = 0
  BY <1>3 DEF ScheduleRow
<1>10. \A u \in Times : u < t + 1 <=> u < t \/ u = t
  OBVIOUS
<1>11. Timeline'
  BY <1>1, <1>2, <1>6, <1>9, <1>10 DEF IInv, Timeline, JobAlive
<1>12. HandlersCurrent'
  BY <1>1, <1>5 DEF IInv, HandlersCurrent, NoRun, RunOf
<1> QED BY <1>7, <1>8, <1>11, <1>12 DEF IInv

\* One failure is counted by both, and disables the schedule if and only if
\* it dead-letters the job.
LEMMA FailStep ==
  ASSUME LeftAlone, IInv, NEW t \in Times, HandlerFails(t)
  PROVE  IInv'
<1> USE ConstantFacts
<1>1. run[t].next = t /\ t = schedule.next
  BY DEF HandlerFails, IInv, HandlersCurrent
<1>2. /\ phase[t] = "working" /\ phase'[t] \in {"waiting", "dead_letter"}
      /\ phase'[t] = "waiting" => failures[t] < MaxRetries - 1
      /\ phase'[t] = "dead_letter" => failures[t] >= MaxRetries - 1
      /\ \A u \in Times \ {t} : phase'[u] = phase[u]
      /\ phase' \in [Times -> Queue!Phases]
  BY MoveFacts DEF HandlerFails, Queue!Retry, Queue!GiveUp, Queue!Phases, IInv
<1>3. /\ failures'[t] = failures[t] + 1
      /\ \A u \in Times \ {t} : failures'[u] = failures[u]
      /\ failures' \in [Times -> Nat]
  BY DEF HandlerFails, Queue!Retry, Queue!GiveUp, Queue!Counted, IInv, TypeOK
<1>4. /\ schedule.enabled /\ schedule.retries = failures[t]
      /\ failures[t] < MaxRetries /\ failures[t] \in Nat
      /\ schedule.status # "max_retries_exceeded"
  BY <1>1, <1>2 DEF IInv, Timeline, TypeOK, Schedules, JobAlive, Undisturbed, GivenUpIsOff
<1>5. schedule' = IF phase'[t] = "waiting"
                  THEN ScheduleRow(t, TRUE, failures[t] + 1, "retry_pending")
                  ELSE ScheduleRow(t, FALSE, failures[t] + 1, "max_retries_exceeded")
  <2>1. schedule' = AttemptFailed(schedule)
    BY DEF HandlerFails, LeftAlone
  <2>2. phase'[t] = "waiting" <=> ~(failures[t] + 1 >= MaxRetries)
    BY <1>2, <1>4
  <2>3. schedule.next = t
    BY <1>1
  <2> QED BY <2>1, <2>2, <2>3, <1>4 DEF AttemptFailed
<1>6. NoRun \in Runs
  BY DEF Runs, RunOf, NoRun, Times, Occurrences, Beyond
<1>7. /\ run'[t] = NoRun
      /\ \A u \in Times \ {t} : run'[u] = run[u]
      /\ run' \in [Times -> Runs]
  BY <1>6, RunFacts DEF HandlerFails, IInv
<1>8. UNCHANGED <<now, reports, kills, users>>
  BY DEF HandlerFails
<1>9. schedule' \in Schedules
  BY <1>4, <1>5 DEF ScheduleRow, Schedules, Times, Occurrences, Beyond
<1>10. TypeOK'
  BY <1>2, <1>3, <1>7, <1>8, <1>9 DEF IInv, TypeOK, users, RunOf, NoRun
<1>11. /\ schedule'.next = t /\ schedule'.retries = failures[t] + 1
       /\ schedule'.enabled <=> phase'[t] = "waiting"
       /\ schedule'.status = "max_retries_exceeded" => ~schedule'.enabled
  BY <1>5 DEF ScheduleRow
<1>12. Undisturbed'
  BY <1>8, <1>11 DEF IInv, Undisturbed, GivenUpIsOff, users
<1>13. Timeline'
  BY <1>1, <1>2, <1>3, <1>4, <1>8, <1>11 DEF IInv, Timeline, JobAlive
<1>14. HandlersCurrent'
  BY <1>1, <1>7, <1>8, <1>11 DEF IInv, HandlersCurrent, NoRun, RunOf
<1> QED BY <1>10, <1>12, <1>13, <1>14 DEF IInv

LEMMA KillStep ==
  ASSUME LeftAlone, IInv, NEW t \in Times, Kill(t)
  PROVE  IInv'
<1> USE ConstantFacts
<1>1. /\ phase[t] = "working" /\ phase'[t] = "taken"
      /\ \A u \in Times \ {t} : phase'[u] = phase[u]
      /\ phase' \in [Times -> Queue!Phases]
  BY MoveFacts DEF Kill, Queue!Abandon, Queue!Phases, IInv
<1>2. NoRun \in Runs
  BY DEF Runs, RunOf, NoRun, Times, Occurrences, Beyond
<1>3. /\ run'[t] = NoRun
      /\ \A u \in Times \ {t} : run'[u] = run[u]
      /\ run' \in [Times -> Runs]
  BY <1>2, RunFacts DEF Kill, IInv
<1>4. UNCHANGED <<now, schedule, failures, reports, users>>
  BY DEF Kill, Queue!Abandon
<1>5. kills' \in 0..MaxKills
  BY ScheduleAssumption DEF Kill, IInv, TypeOK, ScheduleAssumption
<1>6. TypeOK'
  BY <1>1, <1>3, <1>4, <1>5 DEF IInv, TypeOK, users, RunOf, NoRun
<1>7. Undisturbed'
  BY <1>4, StillLeftAlone DEF IInv
<1>8. Timeline'
  BY <1>1, <1>4, StaysAlive
<1>9. run'[t].pc = "none"
  BY <1>3 DEF NoRun, RunOf
<1>10. HandlersCurrent'
  BY <1>1, <1>3, <1>4, <1>9 DEF IInv, HandlersCurrent
<1> QED BY <1>6, <1>7, <1>8, <1>10 DEF IInv

LEMMA TickStep == LeftAlone /\ IInv /\ Tick => IInv'
<1> SUFFICES ASSUME LeftAlone, IInv, Tick PROVE IInv'
  OBVIOUS
<1>1. now' = now + 1 /\ now' \in Times /\ now \in Nat
  BY ScheduleAssumption DEF Tick, IInv, TypeOK, Times, ScheduleAssumption
<1>2. UNCHANGED <<schedule, phase, failures, run, reports, kills, users>>
  BY DEF Tick
<1>3. TypeOK'
  BY <1>1, <1>2 DEF IInv, TypeOK, users
<1>4. Undisturbed'
  BY <1>2, StillLeftAlone DEF IInv
<1>5. Timeline'
  BY <1>1, <1>2, ConstantFacts DEF IInv, Timeline, JobAlive
<1>6. HandlersCurrent'
  BY <1>2 DEF IInv, HandlersCurrent
<1> QED BY <1>3, <1>4, <1>5, <1>6 DEF IInv

-------------------------------------------------------------------------------
\* Left alone, no step takes the schedule and its jobs out of step.
LEMMA StepInStep == LeftAlone /\ IInv /\ [Next]_vars => IInv'
<1> SUFFICES ASSUME LeftAlone, IInv, [Next]_vars PROVE IInv'
  OBVIOUS
<1>1. CASE EnqueueDue
  BY <1>1, EnqueueStep
<1>2. ASSUME NEW t \in Times, JobStep(t), ~HandlerLost(t) PROVE IInv'
  BY <1>2, QueueStep, ReadStep, NoSkips, ReportStep, AdvanceStep, FailStep, KillStep
  DEF JobStep, HandlerEnds
<1>3. ASSUME NEW t \in Times, HandlerLost(t) PROVE FALSE
  BY <1>3 DEF HandlerLost, IInv, HandlersCurrent
<1>4. /\ ~EditAdmitted /\ ~EditReads /\ ~ClosureReads /\ ~ClosureFinds /\ ~ClosureWrites
      /\ ~ReopenReads /\ ~ReopenWrites
  BY DEF EditAdmitted, EditReads, ClosureReads, ClosureFinds, ClosureWrites, ReopenReads, ReopenWrites,
         LeftAlone, IInv, Undisturbed
<1>5. ~\E next \in Times, enabled \in BOOLEAN : EditWrites(next, enabled)
  BY DEF EditWrites, IInv, Undisturbed
<1>6. CASE Tick
  BY <1>6, TickStep
<1>7. CASE UNCHANGED vars
  BY <1>7 DEF vars, IInv, TypeOK, Undisturbed, GivenUpIsOff, Timeline, JobAlive,
              HandlersCurrent
<1> QED BY <1>1, <1>2, <1>3, <1>4, <1>5, <1>6, <1>7 DEF Next

\* Left alone, the invariant holds in every state.
LEMMA AlwaysInStep == LeftAlone => (Spec => []IInv)
<1> SUFFICES ASSUME LeftAlone PROVE Spec => []IInv
  OBVIOUS
<1>1. IInv /\ [Next]_vars => IInv'
  BY StepInStep
<1> QED BY <1>1, InitInStep, PTL DEF Spec

\* Left alone, an enabled schedule is never shut out by a job that has ended
\* under its key: retries, kills and re-executions never strand it.
THEOREM ScheduleNeverStranded == LeftAlone => (Spec => []NeverStranded)
<1> SUFFICES ASSUME LeftAlone PROVE Spec => []NeverStranded
  OBVIOUS
<1>1. Spec => []IInv
  BY AlwaysInStep
<1>2. IInv => NeverStranded
  BY DEF IInv, Timeline, NeverStranded, JobAlive, JobEnded
<1> QED BY <1>1, <1>2, PTL

\* Left alone, schedule and job count the same failures, so the schedule is
\* disabled by the failure that dead-letters its job.
THEOREM RetriesAgree == LeftAlone => (Spec => []RetriesInStep)
<1> SUFFICES ASSUME LeftAlone PROVE Spec => []RetriesInStep
  OBVIOUS
<1>1. Spec => []IInv
  BY AlwaysInStep
<1>2. IInv => RetriesInStep
  BY DEF IInv, Timeline, RetriesInStep
<1> QED BY <1>1, <1>2, PTL

\* Left alone, every occurrence the schedule has passed has its report.
THEOREM EveryPeriodReported == LeftAlone => (Spec => []NoPeriodSkipped)
<1> SUFFICES ASSUME LeftAlone PROVE Spec => []NoPeriodSkipped
  OBVIOUS
<1>1. Spec => []IInv
  BY AlwaysInStep
<1>2. IInv => NoPeriodSkipped
  BY DEF IInv, Timeline, NoPeriodSkipped
<1> QED BY <1>1, <1>2, PTL

\* Every report of an occurrence was followed by a failure or a kill, or is the
\* one of the handler that goes on, or went on, to complete the job.
Paid ==
  \A t \in Times :
    reports[t] <= failures[t] + kills
                  + (IF phase[t] = "completed" \/ run[t].pc = "reported" THEN 1 ELSE 0)

\* A step that changes one job's phase, run, reports or failures, given what it does to
\* both sides of the account.
LEMMA PaidStep ==
  ASSUME LeftAlone, IInv, IInv', Paid, [Next]_vars
  PROVE  Paid'
<1>. USE ConstantFacts
<1>0. /\ reports \in [Times -> Nat] /\ failures \in [Times -> Nat] /\ kills \in Nat
      /\ run \in [Times -> Runs] /\ phase \in [Times -> Queue!Phases]
  BY ScheduleAssumption DEF IInv, TypeOK, ScheduleAssumption
<1>1. ASSUME NEW t \in Times, HandlerReports(t) PROVE Paid'
  <2>1. run[t].pc = "read" /\ run[t].next = t /\ phase[t] = "working"
    BY <1>1 DEF HandlerReports, IInv, HandlersCurrent
  <2>2. RunOf("reported", TRUE, t) \in Runs
    BY DEF Runs, RunOf, Times, Occurrences, Beyond
  <2>3. /\ run'[t] = RunOf("reported", TRUE, t)
        /\ \A u \in Times \ {t} : run'[u] = run[u]
    BY <1>1, <2>1, <2>2, RunFacts DEF HandlerReports, IInv
  <2>4. /\ reports'[t] = reports[t] + 1
        /\ \A u \in Times \ {t} : reports'[u] = reports[u]
    BY <1>1, <2>1, <1>0 DEF HandlerReports
  <2>5. UNCHANGED <<phase, failures, kills>>
    BY <1>1 DEF HandlerReports
  <2>6. reports[t] <= failures[t] + kills + 0
    BY <2>1 DEF Paid
  <2>7. run'[t].pc = "reported"
    BY <2>3 DEF RunOf
  <2>8. ASSUME NEW u \in Times
        PROVE  reports'[u] <= failures'[u] + kills'
                 + (IF phase'[u] = "completed" \/ run'[u].pc = "reported" THEN 1 ELSE 0)
    <3>1. CASE u = t
      BY <1>0, <2>4, <2>5, <2>6, <2>7, <3>1
    <3>2. CASE u # t
      BY <2>3, <2>4, <2>5, <3>2 DEF Paid
    <3>. QED  BY <3>1, <3>2
  <2>. QED  BY <2>8 DEF Paid
<1>2. ASSUME NEW t \in Times, HandlerAdvances(t) PROVE Paid'
  <2>1. /\ phase'[t] = "completed" /\ run[t].pc = "reported"
        /\ \A u \in Times \ {t} : phase'[u] = phase[u] /\ run'[u] = run[u]
    BY <1>2, <1>0 DEF HandlerAdvances, Queue!Finish, Queue!Move
  <2>2. UNCHANGED <<reports, failures, kills>>
    BY <1>2 DEF HandlerAdvances, Queue!Finish
  <2>. QED  BY <2>1, <2>2 DEF Paid
<1>3. ASSUME NEW t \in Times, HandlerFails(t) \/ Kill(t) PROVE Paid'
  <2>1. /\ \A u \in Times \ {t} : phase'[u] = phase[u] /\ run'[u] = run[u]
        /\ phase[t] # "completed"
    BY <1>3, <1>0
    DEF HandlerFails, Kill, Queue!Retry, Queue!GiveUp, Queue!Abandon, Queue!Move, IInv, TypeOK
  <2>2. /\ failures' \in [Times -> Nat] /\ kills' \in Nat
        /\ \A u \in Times : failures'[u] >= failures[u]
        /\ kills' >= kills
        /\ failures'[t] + kills' = failures[t] + kills + 1
    BY <1>3, <1>0
    DEF HandlerFails, Kill, Queue!Retry, Queue!GiveUp, Queue!Abandon, Queue!Counted
  <2>3. UNCHANGED reports
    BY <1>3 DEF HandlerFails, Kill
  <2>4. ASSUME NEW u \in Times
        PROVE  reports'[u] <= failures'[u] + kills'
                 + (IF phase'[u] = "completed" \/ run'[u].pc = "reported" THEN 1 ELSE 0)
    <3>1. reports[u] <= failures[u] + kills
            + (IF phase[u] = "completed" \/ run[u].pc = "reported" THEN 1 ELSE 0)
      BY DEF Paid
    <3>2. CASE u = t
      <4>1. reports[t] <= failures[t] + kills + 1
        BY <1>0, <3>1, <3>2
      <4>2. reports'[t] <= failures'[t] + kills'
        BY <2>2, <2>3, <4>1
      <4>3. failures'[t] \in Nat /\ kills' \in Nat /\ reports'[t] \in Nat
        BY <1>0, <2>2, <2>3
      <4>. QED  BY <3>2, <4>2, <4>3
    <3>3. CASE u # t
      <4>1. phase'[u] = phase[u] /\ run'[u] = run[u] /\ reports'[u] = reports[u]
        BY <2>1, <2>3, <3>3
      <4>2. /\ failures[u] \in Nat /\ failures'[u] \in Nat /\ failures'[u] >= failures[u]
            /\ kills' >= kills /\ kills' \in Nat /\ reports[u] \in Nat
        BY <1>0, <2>2
      <4>. QED  BY <1>0, <3>1, <4>1, <4>2
    <3>. QED  BY <3>2, <3>3
  <2>. QED  BY <2>4 DEF Paid
<1>4. ASSUME NEW t \in Times, EnqueueDue \/ Claim(t) \/ Release(t) \/ HandlerReads(t)
      PROVE  Paid'
  <2>1. UNCHANGED <<reports, failures, kills>>
    BY <1>4 DEF EnqueueDue, Claim, Release, HandlerReads, Queue!Submit, Queue!Take, Queue!GiveBack,
                Queue!Work
  <2>2. \A u \in Times : phase[u] = "completed" => phase'[u] = "completed"
    BY <1>4, <1>0 DEF EnqueueDue, Claim, Release, HandlerReads, Queue!Submit, Queue!Take,
                Queue!GiveBack, Queue!Work, Queue!Move, Queue!MoveAll
  <2>3. \A u \in Times : run[u].pc = "reported" => run'[u].pc = "reported"
    <3>1. CASE HandlerReads(t)
      <4>1. phase[t] = "taken"
        BY <3>1 DEF HandlerReads, Queue!Work, Queue!Move
      <4>2. run[t].pc = "none"
        BY <4>1 DEF IInv, HandlersCurrent
      <4>3. \A u \in Times \ {t} : run'[u] = run[u]
        BY <3>1, <1>0 DEF HandlerReads
      <4>. QED  BY <4>2, <4>3
    <3>2. CASE EnqueueDue \/ Claim(t) \/ Release(t)
      BY <3>2 DEF EnqueueDue, Claim, Release
    <3>. QED  BY <1>4, <3>1, <3>2
  <2>4. ASSUME NEW u \in Times
        PROVE  reports'[u] <= failures'[u] + kills'
                 + (IF phase'[u] = "completed" \/ run'[u].pc = "reported" THEN 1 ELSE 0)
    <3>1. reports[u] <= failures[u] + kills
            + (IF phase[u] = "completed" \/ run[u].pc = "reported" THEN 1 ELSE 0)
      BY DEF Paid
    <3>2. reports[u] \in Nat /\ failures[u] \in Nat
      BY <1>0
    <3>. QED  BY <1>0, <2>1, <2>2, <2>3, <3>1, <3>2
  <2>. QED  BY <2>4 DEF Paid
<1>5. CASE Tick \/ UNCHANGED vars
  BY <1>5 DEF Tick, vars, Paid
<1>6. 0 \in Times
  BY ConstantFacts DEF Times
<1>7. ASSUME NEW t \in Times PROVE ~HandlerLost(t) /\ ~HandlerSkips(t)
  BY NoSkips DEF HandlerLost, IInv, HandlersCurrent
<1>8. /\ ~EditAdmitted /\ ~EditReads /\ ~ClosureReads /\ ~ClosureFinds /\ ~ClosureWrites
      /\ ~ReopenReads /\ ~ReopenWrites
      /\ ~\E next \in Times, enabled \in BOOLEAN : EditWrites(next, enabled)
  BY DEF EditAdmitted, EditReads, EditWrites, ClosureReads, ClosureFinds, ClosureWrites,
         ReopenReads, ReopenWrites, LeftAlone, IInv, Undisturbed
<1>. QED
  BY <1>1, <1>2, <1>3, <1>4, <1>5, <1>6, <1>7, <1>8 DEF Next, JobStep, HandlerEnds

\* Left alone, an occurrence is reported again only after a counted failure or a
\* kill, for any number of retries and killed invocations.
THEOREM RepeatsCostFailures == LeftAlone => (Spec => []RepeatsPaidFor)
<1>. SUFFICES ASSUME LeftAlone PROVE Spec => []RepeatsPaidFor
  OBVIOUS
<1>1. Init => Paid
  BY DEF Init, Paid, Queue!ContractInit
<1>2. IInv /\ IInv' /\ Paid /\ [Next]_vars => Paid'
  BY PaidStep
<1>3. IInv /\ Paid => RepeatsPaidFor
  <2>. SUFFICES ASSUME IInv, Paid, NEW t \in Times
                PROVE  reports[t] <= 1 + failures[t] + kills
    BY DEF RepeatsPaidFor
  <2>1. reports[t] \in Nat /\ failures[t] \in Nat /\ kills \in Nat
    BY ScheduleAssumption DEF IInv, TypeOK, ScheduleAssumption
  <2>2. reports[t] <= failures[t] + kills
          + (IF phase[t] = "completed" \/ run[t].pc = "reported" THEN 1 ELSE 0)
    BY DEF Paid
  <2>. QED  BY <2>1, <2>2
<1>. QED  BY <1>1, <1>2, <1>3, AlwaysInStep, PTL DEF Spec

-------------------------------------------------------------------------------
\* With users, closures and failing hooks.  A handler that has reported read an
\* occurrence within the model, so that the one after it is within Occurrences.
Reported == \A t \in Times : run[t].pc = "reported" => run[t].next \in Times

Anyhow == TypeOK /\ Reported

LEMMA AnyhowInitially == Init => Anyhow
<1>1. Init => TypeOK
  BY InitInStep DEF IInv
<1>. QED  BY <1>1 DEF Init, Anyhow, Reported, NoRun, RunOf

\* What a step of a job leaves of the types, given what it writes.
LEMMA JobTypes ==
  ASSUME Anyhow, NEW t \in Times, NEW r \in Runs, run' = [run EXCEPT ![t] = r],
         phase' \in [Times -> Queue!Phases], \A u \in Times \ {t} : phase'[u] = phase[u],
         phase'[t] = "working" => r.pc # "none", r.pc = "reported" => r.next \in Times,
         schedule' \in Schedules, failures' \in [Times -> Nat], reports' \in [Times -> Nat],
         kills' \in 0..MaxKills, UNCHANGED <<now, users>>
  PROVE  Anyhow'
<1>1. run'[t] = r /\ (\A u \in Times \ {t} : run'[u] = run[u]) /\ run' \in [Times -> Runs]
  BY RunFacts DEF Anyhow
<1>2. \A u \in Times : phase'[u] = "working" => run'[u].pc # "none"
  BY <1>1 DEF Anyhow, TypeOK
<1>3. Reported'
  BY <1>1 DEF Anyhow, Reported
<1>. QED  BY <1>1, <1>2, <1>3 DEF Anyhow, TypeOK, users

LEMMA NoRunTyped == NoRun \in Runs /\ NoRun.pc = "none"
BY ConstantFacts DEF NoRun, RunOf, Runs, Occurrences

\* The queue's steps between handlers change no run and no schedule.
LEMMA QueueTypes ==
  ASSUME Anyhow, NEW t \in Times, EnqueueDue \/ Claim(t) \/ Release(t)
  PROVE  Anyhow'
<1>1. UNCHANGED <<now, schedule, failures, run, reports, kills, users>>
  BY DEF EnqueueDue, Claim, Release, Queue!Submit, Queue!Take, Queue!GiveBack
<1>2. phase' \in [Times -> Queue!Phases] /\ \A u \in Times : phase'[u] = "working" => phase[u] = "working"
  <2>1. CASE EnqueueDue
    <3>1. schedule.next \in Times
      BY <2>1 DEF EnqueueDue, IsDue
    <3>. QED  BY <2>1, <3>1, MoveFacts DEF EnqueueDue, Queue!Submit, Queue!Phases, Anyhow, TypeOK
  <2>2. CASE Claim(t) \/ Release(t)
    BY <2>2 DEF Claim, Release, Queue!Take, Queue!GiveBack, Queue!MoveAll, Queue!Phases, Anyhow, TypeOK
  <2>. QED  BY <2>1, <2>2
<1>. QED  BY <1>1, <1>2 DEF Anyhow, TypeOK, Reported, users

LEMMA HandlerTypes ==
  ASSUME Anyhow, NEW t \in Times, HandlerReads(t) \/ HandlerReports(t) \/ HandlerEnds(t) \/ Kill(t)
  PROVE  Anyhow'
<1>. USE ConstantFacts
<1>1. CASE HandlerReads(t)
  <2>1. RunOf("read", schedule.enabled, schedule.next) \in Runs
    BY DEF Anyhow, TypeOK, Schedules, Runs, RunOf
  <2>2. phase'[t] = "working" /\ phase' \in [Times -> Queue!Phases] /\ \A u \in Times \ {t} : phase'[u] = phase[u]
    BY <1>1, MoveFacts DEF HandlerReads, Queue!Work, Queue!Phases, Anyhow
  <2>. QED
    BY <1>1, <2>1, <2>2, JobTypes DEF HandlerReads, Queue!Work, RunOf, Anyhow, TypeOK
<1>2. CASE HandlerReports(t)
  <2>1. run[t].next \in Times
    BY <1>2 DEF HandlerReports, IsDue
  <2>2. RunOf("reported", TRUE, run[t].next) \in Runs
    BY <2>1 DEF Runs, RunOf, Times, Occurrences, Beyond
  <2>3. reports' \in [Times -> Nat]
    <3>1. PICK u \in Times : u = run[t].next
      BY <2>1
    <3>2. reports \in [Times -> Nat] /\ reports[u] + 1 \in Nat
      BY DEF Anyhow, TypeOK
    <3>3. reports' = [reports EXCEPT ![u] = reports[u] + 1]
      BY <1>2, <3>1 DEF HandlerReports
    <3>. QED  BY <3>2, <3>3
  <2>. QED
    BY <1>2, <2>1, <2>2, <2>3, JobTypes DEF HandlerReports, RunOf, Anyhow, TypeOK
<1>3. CASE HandlerSkips(t)
  <2>1. phase'[t] = "completed" /\ phase' \in [Times -> Queue!Phases] /\ \A u \in Times \ {t} : phase'[u] = phase[u]
    BY <1>3, MoveFacts DEF HandlerSkips, Queue!Finish, Queue!Phases, Anyhow
  <2>. QED
    BY <1>3, <2>1, NoRunTyped, JobTypes DEF HandlerSkips, Queue!Finish, Anyhow, TypeOK
<1>4. CASE HandlerAdvances(t)
  <2>1. phase'[t] = "completed" /\ phase' \in [Times -> Queue!Phases] /\ \A u \in Times \ {t} : phase'[u] = phase[u]
    BY <1>4, MoveFacts DEF HandlerAdvances, Queue!Finish, Queue!Phases, Anyhow
  <2>2. run[t].next \in Times
    BY <1>4 DEF HandlerAdvances, Anyhow, Reported
  <2>3. ScheduleRow(run[t].next + 1, schedule.enabled, 0, "success") \in Schedules
    BY <2>2 DEF ScheduleRow, Schedules, Anyhow, TypeOK
  <2>. QED
    BY <1>4, <2>1, <2>3, NoRunTyped, JobTypes DEF HandlerAdvances, Queue!Finish, Anyhow, TypeOK
<1>5. CASE HandlerFails(t)
  <2>1. /\ phase'[t] # "working" /\ phase' \in [Times -> Queue!Phases]
        /\ \A u \in Times \ {t} : phase'[u] = phase[u]
    BY <1>5, MoveFacts DEF HandlerFails, Queue!Retry, Queue!GiveUp, Queue!Phases, Anyhow
  <2>2. failures' \in [Times -> Nat]
    BY <1>5 DEF HandlerFails, Queue!Retry, Queue!GiveUp, Queue!Counted, Anyhow, TypeOK
  <2>3. schedule' \in Schedules
    <3>1. schedule \in Schedules /\ schedule.next \in Occurrences /\ schedule.retries + 1 \in Nat
      BY DEF Anyhow, TypeOK, Schedules
    <3>2. AttemptFailed(schedule) \in Schedules
      BY <3>1 DEF AttemptFailed, ScheduleRow, Schedules
    <3>. QED  BY <1>5, <3>1, <3>2 DEF HandlerFails
  <2>. QED
    BY <1>5, <2>1, <2>2, <2>3, NoRunTyped, JobTypes DEF HandlerFails, Anyhow, TypeOK
<1>6. CASE Kill(t)
  <2>1. phase'[t] = "taken" /\ phase' \in [Times -> Queue!Phases] /\ \A u \in Times \ {t} : phase'[u] = phase[u]
    BY <1>6, MoveFacts DEF Kill, Queue!Abandon, Queue!Phases, Anyhow
  <2>2. kills' \in 0..MaxKills
    BY <1>6, ScheduleAssumption DEF Kill, Anyhow, TypeOK
  <2>. QED
    BY <1>6, <2>1, <2>2, NoRunTyped, JobTypes DEF Kill, Queue!Abandon, Anyhow, TypeOK
<1>7. CASE HandlerLost(t)
  BY <1>7, NoRunTyped, JobTypes DEF HandlerLost, Anyhow, TypeOK
<1>. QED  BY <1>1, <1>2, <1>3, <1>4, <1>5, <1>6, <1>7 DEF HandlerEnds

\* A column that is flushed keeps its type.
LEMMA FlushedTyped ==
  ASSUME NEW T, NEW value \in T, NEW current \in T, NEW seen
  PROVE  Flushed(value, seen, current) \in T
BY DEF Flushed

LEMMA EditTypes ==
  ASSUME Anyhow,
         \/ EditAdmitted
         \/ EditReads
         \/ \E next \in Times, enabled \in BOOLEAN : EditWrites(next, enabled)
  PROVE  Anyhow'
<1>. USE ConstantFacts, ScheduleAssumption
<1>1. NoRow \in Schedules
  BY DEF NoRow, ScheduleRow, Schedules, Occurrences
<1>2. UNCHANGED <<now, jobs, closing, saved, closures>>
  BY DEF EditAdmitted, EditReads, EditWrites
<1>3. CASE EditAdmitted
  <2>1. edits' \in 0..MaxEdits /\ edit' \in Edits /\ UNCHANGED schedule
    BY <1>1, <1>3 DEF EditAdmitted, NoEdit, Edits, Anyhow, TypeOK
  <2>. QED  BY <1>2, <2>1 DEF Anyhow, TypeOK, Reported, jobs
<1>4. CASE EditReads
  <2>1. edit' \in Edits /\ UNCHANGED <<schedule, edits>>
    BY <1>4 DEF EditReads, Edits, Anyhow, TypeOK
  <2>. QED  BY <1>2, <2>1 DEF Anyhow, TypeOK, Reported, jobs
<1>5. ASSUME NEW next \in Times, NEW enabled \in BOOLEAN, EditWrites(next, enabled)
      PROVE  Anyhow'
  <2>1. schedule \in Schedules /\ next \in Occurrences
    BY DEF Anyhow, TypeOK, Times, Occurrences, Beyond
  <2>2. /\ Flushed(next, edit.seen.next, schedule.next) \in Occurrences
        /\ Flushed(enabled, edit.seen.enabled, schedule.enabled) \in BOOLEAN
        /\ schedule.retries \in Nat
        /\ Flushed(IF enabled THEN "scheduled" ELSE "disabled", edit.seen.status, schedule.status)
             \in {"scheduled", "disabled", "retry_pending", "max_retries_exceeded", "success"}
    BY <2>1 DEF Flushed, Schedules
  <2>3. schedule' \in Schedules
    BY <1>5, <2>2 DEF EditWrites, ScheduleRow, Schedules
  <2>4. edit' \in Edits /\ UNCHANGED edits
    BY <1>1, <1>5 DEF EditWrites, NoEdit, Edits
  <2>. QED  BY <1>2, <2>3, <2>4 DEF Anyhow, TypeOK, Reported, jobs
<1>. QED  BY <1>3, <1>4, <1>5

LEMMA ClosureTypes ==
  ASSUME Anyhow, ClosureReads \/ ClosureFinds \/ ClosureWrites \/ ReopenReads \/ ReopenWrites
  PROVE  Anyhow'
<1>. USE ConstantFacts, ScheduleAssumption
<1>0. NoRow \in Schedules /\ schedule \in Schedules
  BY DEF NoRow, ScheduleRow, Schedules, Occurrences, Anyhow, TypeOK
<1>1. UNCHANGED <<now, failures, run, reports, kills, edit, edits>>
  BY DEF ClosureReads, ClosureFinds, ClosureWrites, ReopenReads, ReopenWrites, jobs
<1>2. CASE ClosureReads
  <2>1. closing' \in Closings
    BY <1>0, <1>2 DEF ClosureReads, NoClosing, Closings
  <2>2. closures' \in 0..MaxClosures /\ UNCHANGED <<schedule, phase, saved>>
    BY <1>2 DEF ClosureReads, Anyhow, TypeOK, jobs
  <2>. QED  BY <1>1, <2>1, <2>2 DEF Anyhow, TypeOK, Reported
<1>6. CASE ClosureFinds
  <2>1. closing' \in Closings /\ UNCHANGED <<schedule, phase, saved, closures>>
    BY <1>6 DEF ClosureFinds, Closings, Anyhow, TypeOK, jobs
  <2>. QED  BY <1>1, <2>1 DEF Anyhow, TypeOK, Reported
<1>3. CASE ClosureWrites
  <2>1. closing \in Closings
    BY DEF Anyhow, TypeOK
  <2>2. /\ closing' \in Closings /\ UNCHANGED closures
        /\ saved' \in [open : BOOLEAN, enabled : BOOLEAN, next : Occurrences]
    BY <1>0, <1>3, <2>1 DEF ClosureWrites, NoClosing, Closings, Closed, Schedules
  <2>3. schedule' \in Schedules
    BY <1>0, <1>3 DEF ClosureWrites, Flushed, Schedules
  <2>4. phase' \in [Times -> Queue!Phases] /\ \A t \in Times : phase'[t] = "working" => phase[t] = "working"
    BY <1>3 DEF ClosureWrites, Anyhow, TypeOK, Queue!Phases
  <2>. QED  BY <1>1, <2>2, <2>3, <2>4 DEF Anyhow, TypeOK, Reported
<1>4. CASE ReopenReads
  <2>1. closing' \in Closings /\ UNCHANGED <<schedule, phase, saved, closures>>
    BY <1>0, <1>4 DEF ReopenReads, NoClosing, Closings, jobs
  <2>. QED  BY <1>1, <2>1 DEF Anyhow, TypeOK, Reported
<1>5. CASE ReopenWrites
  <2>1. /\ closing' \in Closings /\ UNCHANGED <<phase, closures>>
        /\ saved' \in [open : BOOLEAN, enabled : BOOLEAN, next : Occurrences]
    BY <1>0, <1>5 DEF ReopenWrites, NoClosing, Closings, Open, Occurrences, jobs
  <2>2. schedule' \in Schedules
    BY <1>0, <1>5 DEF ReopenWrites, Flushed, Schedules, Anyhow, TypeOK
  <2>. QED  BY <1>1, <2>1, <2>2 DEF Anyhow, TypeOK, Reported
<1>. QED  BY <1>2, <1>3, <1>4, <1>5, <1>6

LEMMA AnyhowKept == ASSUME Anyhow, [Next]_vars PROVE Anyhow'
<1>1. ASSUME NEW t \in Times, EnqueueDue \/ JobStep(t) PROVE Anyhow'
  BY <1>1, QueueTypes, HandlerTypes DEF JobStep
<1>2. CASE Tick
  <2>1. now' \in Times /\ UNCHANGED <<schedule, phase, failures, run, reports, kills, users>>
    BY <1>2, ConstantFacts DEF Tick, Times, Anyhow, TypeOK
  <2>. QED  BY <2>1 DEF Anyhow, TypeOK, Reported, users
<1>3. CASE UNCHANGED vars
  BY <1>3 DEF vars, Anyhow, TypeOK, Reported
<1>4. 0 \in Times
  BY ConstantFacts DEF Times
<1>. QED  BY <1>1, <1>2, <1>3, <1>4, EditTypes, ClosureTypes DEF Next

LEMMA AnyhowAlways == Spec => []Anyhow
<1>1. Anyhow /\ [Next]_vars => Anyhow'
  BY AnyhowKept
<1>. QED  BY <1>1, AnyhowInitially, PTL DEF Spec

\* Whatever users, closures, kills and failing hooks do, rows and counters keep
\* their types and a job that is worked on has its handler.
THEOREM SchedulesTyped == Spec => []TypeOK
<1>1. Anyhow => TypeOK
  BY DEF Anyhow
<1>. QED  BY <1>1, AnyhowAlways, PTL

\* In a quiet closed workspace the jobs that are left only end without effect.
LEMMA JobsStayQuiet ==
  ASSUME TypeOK, Quiet, NEW t \in Times, EnqueueDue \/ JobStep(t)
  PROVE  Quiet' /\ reports' = reports
<1>1. ~EnqueueDue /\ ~HandlerReports(t)
  BY DEF EnqueueDue, HandlerReports, Quiet
<1>2. CASE HandlerReads(t)
  <2>1. RunOf("read", schedule.enabled, schedule.next) \in Runs
    BY DEF TypeOK, Schedules, Runs, RunOf
  <2>2. run'[t] = RunOf("read", FALSE, schedule.next) /\ \A u \in Times \ {t} : run'[u] = run[u]
    BY <1>2, <2>1, RunFacts DEF HandlerReads, Quiet, TypeOK, Schedules
  <2>. QED  BY <1>2, <2>2 DEF HandlerReads, Quiet, RunOf, users
<1>3. CASE HandlerEnds(t) \/ Kill(t)
  <2>1. run'[t].pc = "none" /\ \A u \in Times \ {t} : run'[u] = run[u]
    BY <1>3, RunFacts, NoRunTyped
    DEF HandlerEnds, HandlerSkips, HandlerAdvances, HandlerFails, HandlerLost, Kill
  <2>2. ~schedule'.enabled
    BY <1>3 DEF HandlerEnds, HandlerSkips, HandlerAdvances, HandlerFails, HandlerLost, Kill,
                AttemptFailed, ScheduleRow, Quiet
  <2>3. UNCHANGED <<reports, users>>
    BY <1>3 DEF HandlerEnds, HandlerSkips, HandlerAdvances, HandlerFails, HandlerLost, Kill
  <2>. QED  BY <2>1, <2>2, <2>3 DEF Quiet, users
<1>4. CASE Claim(t) \/ Release(t)
  BY <1>4 DEF Claim, Release, Quiet, users
<1>. QED  BY <1>1, <1>2, <1>3, <1>4 DEF JobStep

\* Once nothing is left of the time before a closure, no report is produced and
\* the schedule stays off until the owner reopens the workspace, whatever jobs the
\* closure did not find and whatever handlers and hooks are still running.
THEOREM ClosedStaysQuiet == Spec => ClosedIsQuiet
<1>1. TypeOK /\ [Next]_vars => [Quiet => saved'.open \/ (Quiet' /\ reports' = reports)]_vars
  <2>. SUFFICES ASSUME TypeOK, Next, Quiet
                PROVE  saved'.open \/ (Quiet' /\ reports' = reports)
    OBVIOUS
  <2>1. ASSUME NEW t \in Times, EnqueueDue \/ JobStep(t) PROVE Quiet' /\ reports' = reports
    BY <2>1, JobsStayQuiet
  <2>2. /\ ~EditAdmitted /\ ~EditReads /\ ~ClosureReads
        /\ ~\E next \in Times, enabled \in BOOLEAN : EditWrites(next, enabled)
    BY DEF EditAdmitted, EditReads, EditWrites, ClosureReads, Quiet
  <2>3. CASE ClosureWrites
    BY <2>3 DEF ClosureWrites, Closed, Flushed, Quiet
  <2>4. CASE ClosureFinds \/ ReopenReads
    BY <2>4 DEF ClosureFinds, ReopenReads, Quiet, jobs
  <2>5. CASE ReopenWrites
    BY <2>5 DEF ReopenWrites, Open
  <2>6. CASE Tick
    BY <2>6 DEF Tick, Quiet, users
  <2>7. 0 \in Times
    BY ConstantFacts DEF Times
  <2>. QED  BY <2>1, <2>2, <2>3, <2>4, <2>5, <2>6, <2>7 DEF Next
<1>. QED  BY <1>1, SchedulesTyped, PTL DEF Spec, ClosedIsQuiet
=================================================================================
