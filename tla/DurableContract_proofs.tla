------------------------ MODULE DurableContract_proofs ------------------------
(***************************************************************************)
(* What the claims of DurableJobs_proofs buy: every handler execution is   *)
(* accounted for, and the queue implements JobContract, one abstract step  *)
(* or none for each of its own, for any number of jobs and invocations.    *)
(* Like the claims, both assume that no invocation outlives a lease.       *)
(***************************************************************************)
EXTENDS DurableJobs_proofs

\* Some invocation is inside the handler of j.
Busy(j) == \E s \in Slots : Executing(s, j)

\* Only one slot acts on a tame job, so it alone can be inside its handler.
LEMMA BusyHolder ==
  ASSUME Hosted, TypeOK, ClaimInv, NEW s \in Slots, NEW j \in Tame, j \in Held(s)
  PROVE  Busy(j) <=> Executing(s, j)
<1>1. \A t \in Slots : Executing(t, j) => j \in Held(t)
  BY DEF Executing, Held
<1> QED BY <1>1, HeldByOne DEF Busy

\* A tame job in a handler is running; any other row is not worked on.
LEMMA BusyRuns ==
  ASSUME Hosted, TypeOK, ClaimInv, NEW j \in Tame, Busy(j)
  PROVE  job[j].status = "running" /\ job[j].lease > 0
<1>1. PICK s \in Slots : Executing(s, j)
  BY DEF Busy
<1>2. j \in Held(s) \cap Tame
  BY <1>1 DEF Executing, Held
<1> QED BY <1>2, HeldIsProtected

\* Whether a job is worked on depends on the slots that move only.
LEMMA BusyFrame ==
  ASSUME NEW s \in Slots, NEW j \in Jobs,
         \A t \in Slots \ {s} : inv'[t] = inv[t] /\ task'[t] = task[t],
         Executing(s, j)' <=> Executing(s, j)
  PROVE  Busy(j)' <=> Busy(j)
BY DEF Busy, Executing

\* A slot between two jobs, or one that has just started, is in no handler.
LEMMA NotExecuting ==
  ASSUME NEW s \in Slots, NEW j \in Jobs, inv[s].pc # "exec"
  PROVE  ~Executing(s, j)
BY DEF Executing

\* After a job its slot is in no handler and the others are where they were.
LEMMA AfterJobBusy ==
  ASSUME TypeOK, NEW s \in Slots, NEW rest \in SUBSET Jobs, AfterJob(s, rest),
         NEW j \in Jobs
  PROVE  /\ ~Executing(s, j)'
         /\ ~Executing(s, j) => (Busy(j)' <=> Busy(j))
         /\ Busy(j)' => Busy(j)
<1>1. /\ \A t \in Slots \ {s} : inv'[t] = inv[t] /\ task'[t] = task[t]
      /\ inv'[s].pc # "exec"
  BY AfterJobFacts DEF Idle, Invoked
<1> QED BY <1>1 DEF Busy, Executing
-------------------------------------------------------------------------------
(***************************************************************************)
(* What a step does to the handler of a tame job: nothing, it enters it,   *)
(* or it leaves it for one of four reasons.                                *)
(***************************************************************************)
Untouched(j) ==
  /\ Busy(j)' <=> Busy(j)
  /\ attempts'[j] = attempts[j] /\ crashes' \in {crashes, crashes + 1}

Enters(j) ==
  /\ ~Busy(j) /\ Busy(j)'
  /\ job[j].status = "running" /\ job' = job
  /\ attempts'[j] = Min2(attempts[j] + 1, AttemptCap) /\ crashes' = crashes

Leaves(j) ==
  /\ Busy(j) /\ ~Busy(j)'
  /\ job[j].status = "running" /\ attempts' = attempts
  /\ \/ job'[j] = Completed(job[j]) /\ crashes' = crashes
     \/ /\ j \notin Unsupported /\ crashes' = crashes
        /\ job'[j] = FailureRecorded(job[j], MaxRetries[j])
     \/ job' = job /\ crashes' = crashes + 1

\* The end of a handler of another job leaves j alone.
LEMMA OtherHandler ==
  ASSUME TypeOK, ClaimInv, NEW s \in Slots, NEW j \in Jobs, task[s].job # j,
         AfterJob(s, inv[s].batch), UNCHANGED <<attempts, crashes>>
  PROVE  Untouched(j)
<1>1. inv[s].batch \in SUBSET Jobs /\ ~Executing(s, j)
  BY DEF TypeOK, Invocations, Executing
<1> QED BY <1>1, AfterJobBusy DEF Untouched

\* Beginning a job is the only way into a handler, and finds it free.
LEMMA BeginHandler ==
  ASSUME Hosted, TypeOK, ClaimInv, NEW s \in Slots, NEW k \in Jobs, Begin(s, k),
         NEW j \in Tame
  PROVE  Untouched(j) \/ (Enters(j) /\ j = k)
<1>0. /\ inv \in [Slots -> Invocations] /\ task \in [Slots -> Tasks] /\ j \in Jobs
      /\ attempts \in [Jobs -> 0..AttemptCap]
      /\ inv[s].batch \ {k} \in SUBSET Jobs /\ crashes' = crashes /\ job' = job
  BY DEF TypeOK, Invocations, Begin, Tame
<1>1. ~Executing(s, j) /\ k \in Held(s)
  BY DEF Begin, NextJob, Executing, Held
<1>2. CASE AfterJob(s, inv[s].batch \ {k}) /\ UNCHANGED attempts
  <2>1. Busy(j)' <=> Busy(j)
    BY <1>0, <1>1, <1>2, AfterJobBusy
  <2> QED BY <1>0, <1>2, <2>1 DEF Untouched
<1>3. CASE /\ inv' = [inv EXCEPT ![s] = [@ EXCEPT !.pc = "unsupported",
                                                  !.batch = inv[s].batch \ {k}]]
           /\ task' = [task EXCEPT ![s] = TaskOf(k, job[k].owner, job[k].retries)]
           /\ UNCHANGED attempts
  <2>1. inv'[s].pc = "unsupported"
    BY <1>0, <1>3 DEF Invocations
  <2>2. ~Executing(s, j)'
    BY <2>1 DEF Executing
  <2>3. \A t \in Slots \ {s} : inv'[t] = inv[t] /\ task'[t] = task[t]
    BY <1>0, <1>3
  <2>4. Busy(j)' <=> Busy(j)
    BY <1>0, <1>1, <2>2, <2>3, BusyFrame
  <2> QED BY <1>0, <1>3, <2>4 DEF Untouched
<1>4. CASE /\ job[k].status = "running"
           /\ inv' = [inv EXCEPT ![s] = [@ EXCEPT !.pc = "exec",
                                                  !.batch = inv[s].batch \ {k}]]
           /\ task' = [task EXCEPT ![s] = TaskOf(k, job[k].owner, job[k].retries)]
           /\ attempts' = [attempts EXCEPT ![k] = Min2(@ + 1, AttemptCap)]
  <2>1. inv'[s].pc = "exec" /\ task'[s].job = k
    BY <1>0, <1>4 DEF Invocations, TaskOf
  <2>2. Executing(s, j)' <=> j = k
    BY <2>1 DEF Executing
  <2>3. \A t \in Slots \ {s} : inv'[t] = inv[t] /\ task'[t] = task[t]
    BY <1>0, <1>4
  <2>4. CASE j = k
    <3>1. ~Busy(j) /\ Busy(j)'
      BY <1>1, <2>2, <2>4, BusyHolder DEF Busy
    <3> QED BY <1>0, <1>4, <2>4, <3>1 DEF Enters
  <2>5. CASE j # k
    <3>1. Busy(j)' <=> Busy(j)
      BY <1>0, <1>1, <2>2, <2>3, <2>5, BusyFrame
    <3> QED BY <1>0, <1>4, <2>5, <3>1 DEF Untouched
  <2> QED BY <2>4, <2>5
<1> QED BY <1>2, <1>3, <1>4 DEF Begin

\* The end of the handler of j itself finds the claim intact.
LEMMA OwnHandler ==
  ASSUME Hosted, TypeOK, ClaimInv, NEW s \in Slots, NEW j \in Tame,
         inv[s].pc = "exec", task[s].job = j, AfterJob(s, inv[s].batch),
         UNCHANGED <<attempts, crashes>>,
         \/ IfStillOwned(s, Completed(job[j]))
         \/ IfStillOwned(s, FailureRecorded(job[j], MaxRetries[j]))
  PROVE  Leaves(j)
<1>0. j \in Jobs /\ job \in [Jobs -> Rows] /\ inv[s].batch \in SUBSET Jobs
  BY DEF Tame, TypeOK, Invocations
<1>1. j \in Held(s) \cap Tame /\ Executing(s, j)
  BY DEF Held, Executing
<1>2. Busy(j) /\ \A t \in Slots : Executing(t, j) => t = s
  <2>1. \A t \in Slots : Executing(t, j) => j \in Held(t)
    BY DEF Executing, Held
  <2> QED BY <1>1, <2>1, HeldByOne DEF Busy
<1>3. ~Busy(j)'
  <2>1. \A t \in Slots \ {s} : inv'[t] = inv[t] /\ task'[t] = task[t]
    BY <1>0, AfterJobFacts
  <2>2. ~Executing(s, j)'
    BY <1>0, AfterJobBusy
  <2> QED BY <1>2, <2>1, <2>2 DEF Busy, Executing
<1>4. OwnedBy(job[j], task[s].token) /\ j \notin Unsupported
  <2>1. Owns(s, j) /\ task[s].token = inv[s].wid
    BY <1>1 DEF ClaimInv, ClaimHeld, Owns
  <2> QED BY <2>1 DEF Owns, ClaimInv, WellFormed
<1>5. job[j].status = "running"
  BY <1>4 DEF OwnedBy
<1> QED BY <1>0, <1>2, <1>3, <1>4, <1>5 DEF Leaves, IfStillOwned

\* Every step is one of these for every tame job.
LEMMA HandlerSteps ==
  ASSUME Hosted, TypeOK, ClaimInv, [Next]_vars, NEW j \in Tame
  PROVE  Untouched(j) \/ Enters(j) \/ Leaves(j)
<1>0. /\ j \in Jobs /\ j \notin RunNowUnlocked /\ j \notin Closable
      /\ job \in [Jobs -> Rows] /\ inv \in [Slots -> Invocations]
      /\ task \in [Slots -> Tasks] /\ crashes \in Nat
      /\ \A s \in Slots : inv[s].batch \in SUBSET Jobs
  BY ConstantFacts DEF Tame, TypeOK, Invocations
<1>1. ASSUME UNCHANGED <<inv, task, attempts, crashes>> PROVE Untouched(j)
  BY <1>1 DEF Untouched, Busy, Executing
<1>2. ASSUME NEW s \in Slots, StartDrain(s) PROVE Untouched(j)
  <2>1. /\ inv[s].pc = "idle" /\ inv'[s].pc = "drain"
        /\ \A t \in Slots \ {s} : inv'[t] = inv[t] /\ task'[t] = task[t]
        /\ UNCHANGED <<attempts, crashes>>
    BY <1>0, <1>2 DEF StartDrain, Live, Invoked
  <2>2. ~Executing(s, j) /\ ~Executing(s, j)'
    BY <2>1 DEF Executing
  <2> QED BY <1>0, <2>1, <2>2, BusyFrame DEF Untouched
<1>3. ASSUME NEW s \in Slots, Claim(s) PROVE Untouched(j)
  <2>1. PICK batch \in SUBSET ClaimableJobs : AfterJob(s, batch)
    BY <1>3 DEF Claim
  <2>2. batch \in SUBSET Jobs /\ ~Executing(s, j) /\ UNCHANGED <<attempts, crashes>>
    BY <1>3 DEF ClaimableJobs, Claim, Executing
  <2> QED BY <1>0, <2>1, <2>2, AfterJobBusy DEF Untouched
<1>4. ASSUME NEW s \in Slots, NEW k \in Jobs, Begin(s, k)
      PROVE  Untouched(j) \/ Enters(j)
  BY <1>4, BeginHandler
<1>5. ASSUME NEW s \in Slots, FailUnsupported(s) PROVE Untouched(j)
  <2>1. ~Executing(s, j)
    BY <1>5 DEF FailUnsupported, Executing
  <2> QED BY <1>0, <1>5, <2>1, AfterJobBusy DEF FailUnsupported, Untouched
<1>7. ASSUME NEW s \in Slots, HandlerOk(s) PROVE Untouched(j) \/ Leaves(j)
  BY <1>0, <1>7, OwnHandler, OtherHandler DEF HandlerOk
<1>8. ASSUME NEW s \in Slots, HandlerFail(s) PROVE Untouched(j) \/ Leaves(j)
  BY <1>0, <1>8, OwnHandler, OtherHandler DEF HandlerFail
<1>9. ASSUME NEW s \in Slots, inv[s].pc # "exec", inv'[s].pc # "exec",
             \A t \in Slots \ {s} : inv'[t] = inv[t] /\ task'[t] = task[t],
             UNCHANGED <<attempts, crashes>>
      PROVE  Untouched(j)
  BY <1>0, <1>9, BusyFrame, NotExecuting DEF Untouched, Executing
<1>10. ASSUME NEW s \in Slots, ReleaseScan(s) \/ ReleaseWrite(s) PROVE Untouched(j)
  <2>1. inv'[s].pc # "exec"
    <3>1. Idle.pc = "idle" /\ \A b : [inv[s] EXCEPT !.pc = "release", !.batch = b].pc = "release"
      BY <1>0 DEF Idle, Invoked, Invocations
    <3>2. inv'[s] = Idle \/ \E b : inv'[s] = [inv[s] EXCEPT !.pc = "release", !.batch = b]
      BY <1>0, <1>10 DEF ReleaseScan, ReleaseWrite
    <3> QED BY <3>1, <3>2
  <2>2. /\ inv[s].pc # "exec" /\ UNCHANGED <<task, attempts, crashes>>
        /\ \A t \in Slots \ {s} : inv'[t] = inv[t]
    BY <1>0, <1>10 DEF ReleaseScan, ReleaseWrite
  <2> QED BY <1>9, <2>1, <2>2
<1>11. ASSUME NEW s \in Slots, NEW k \in Jobs, RunNowRead(s, k) \/ RunNowUnderLock(s, k)
       PROVE  Untouched(j)
  <2>1. PICK w \in Workers, pc \in {"called", "retaking", "started"} : Request(s, k, w, pc)
    BY <1>11 DEF RunNowRead, RunNowUnderLock
  <2> QED BY <1>0, <1>9, <2>1 DEF Request, Live, Invoked
<1>12. ASSUME NEW s \in Slots, RunNowStart(s) PROVE Untouched(j)
  <2>1. inv'[s].pc = "started"
    BY <1>0, <1>12 DEF RunNowStart, Invocations
  <2> QED BY <1>0, <1>9, <1>12, <2>1 DEF RunNowStart
<1>13. ASSUME NEW s \in Slots, Crash(s) PROVE Untouched(j) \/ Leaves(j)
  <2>1. /\ inv'[s] = Idle /\ \A t \in Slots \ {s} : inv'[t] = inv[t] /\ task'[t] = task[t]
        /\ job' = job /\ attempts' = attempts /\ crashes' = crashes + 1
    BY <1>0, <1>13 DEF Crash
  <2>2. ~Executing(s, j)'
    BY <2>1 DEF Executing, Idle, Invoked
  <2>3. CASE ~Executing(s, j)
    BY <1>0, <2>1, <2>2, <2>3, BusyFrame DEF Untouched
  <2>4. CASE Executing(s, j)
    <3>1. j \in Held(s) \cap Tame
      BY <2>4 DEF Executing, Held
    <3>2. \A t \in Slots : Executing(t, j) => j \in Held(t)
      BY DEF Executing, Held
    <3>3. \A t \in Slots \ {s} : ~Executing(t, j)
      BY <3>1, <3>2, HeldByOne
    <3>4. Busy(j) /\ ~Busy(j)'
      BY <2>1, <2>2, <2>4, <3>3 DEF Busy, Executing
    <3> QED BY <2>1, <3>1, <3>4, HeldIsProtected DEF Leaves
  <2> QED BY <2>3, <2>4
<1>14. CASE Tick
  <2>1. \A s \in Slots : inv'[s].pc = inv[s].pc
    BY <1>0, <1>14 DEF Tick, Invocations
  <2> QED BY <1>14, <2>1 DEF Tick, Untouched, Busy, Executing
<1>15. CASE \E k \in Jobs : Enqueue(k) \/ CancelQueued(k)
  BY <1>1, <1>15 DEF Enqueue, CancelQueued
<1>16. CASE ClosureRead \/ ClosureWrite \/ UNCHANGED vars
  BY <1>1, <1>16 DEF ClosureRead, ClosureWrite, vars
<1> QED BY <1>2, <1>3, <1>4, <1>5, <1>7, <1>8, <1>10, <1>11, <1>12, <1>13, <1>14,
           <1>15, <1>16 DEF Next, SlotStep

\* A job that does not exist yet has counted no failure.
AbsentIsClean == \A j \in Tame : job[j].status = "absent" => job[j].retries = 0

\* The two together are inductive.
LEMMA PaidInvariant == Hosted => (Spec => [](AbsentIsClean /\ AttemptsAccounted))
<1> SUFFICES ASSUME Hosted PROVE Spec => [](AbsentIsClean /\ AttemptsAccounted)
  OBVIOUS
<1> DEFINE Paid == AbsentIsClean /\ AttemptsAccounted
<1>1. Init => Paid
  BY ConstantFacts DEF Init, AbsentIsClean, AttemptsAccounted, Tame, AbsentRow, Freed
<1>2. TypeOK /\ ClaimInv /\ Paid /\ [Next]_vars => Paid'
  <2> SUFFICES ASSUME TypeOK, ClaimInv, Paid, [Next]_vars, NEW j \in Tame
               PROVE  /\ job'[j].status = "absent" => job'[j].retries = 0
                      /\ attempts'[j] <= job'[j].retries + crashes' +
                           (IF job'[j].status = "completed" \/ Busy(j)' THEN 1 ELSE 0)
    BY DEF AbsentIsClean, AttemptsAccounted, Tame, Busy
  <2>1. /\ RowStep(j) /\ job[j] \in Rows /\ MaxRetries[j] \in Nat
        /\ job[j].retries \in Nat /\ attempts[j] \in Nat /\ crashes \in Nat
    BY TameRowSteps, ConstantFacts DEF TypeOK, Tame, Rows
  <2>2. /\ job[j].status = "absent" => job[j].retries = 0
        /\ attempts[j] <= job[j].retries + crashes +
             (IF job[j].status = "completed" \/ Busy(j) THEN 1 ELSE 0)
    BY DEF AbsentIsClean, AttemptsAccounted, Busy
  <2>3. /\ job'[j].retries \in Nat /\ job'[j].retries >= job[j].retries
        /\ job'[j].status = "absent" => job[j].status = "absent" /\ job'[j].retries = job[j].retries
        /\ job[j].status = "completed" => job'[j].status = "completed"
    <3>1. CASE job'[j] = Aged(job[j]) \/ job'[j] = job[j]
      <4>1. Aged(job[j]).retries = job[j].retries /\ Aged(job[j]).status = job[j].status
        BY <2>1 DEF Aged, Rows
      <4> QED BY <2>1, <3>1, <4>1
    <3>2. CASE job[j].status = "absent" /\ job'[j] = Created
      BY <2>1, <2>2, <3>2 DEF Created, Freed
    <3>3. CASE job[j].status # "completed" /\ \E w \in Workers : job'[j] = Taken(job[j], w)
      BY <2>1, <3>3 DEF Taken
    <3>4. CASE /\ job[j].status # "completed"
               /\ \/ job'[j] = Cancelled(job[j]) \/ job'[j] = Completed(job[j])
                  \/ job'[j] = Released(job[j])
      BY <2>1, <3>4 DEF Cancelled, Completed, Released, Freed
    <3>5. CASE /\ job[j].status # "completed"
               /\ \/ job'[j] = FailureRecorded(job[j], MaxRetries[j])
                  \/ job'[j] = Failed(job[j], job[j].retries)
      BY <2>1, <3>5 DEF FailureRecorded, Failed, Freed
    <3> QED BY <2>1, <3>1, <3>2, <3>3, <3>4, <3>5 DEF RowStep
  <2>4. CASE Untouched(j)
    BY <2>1, <2>2, <2>3, <2>4 DEF Untouched
  <2>5. CASE Enters(j)
    <3>1. Min2(attempts[j] + 1, AttemptCap) <= attempts[j] + 1
      BY <2>1, ConstantFacts DEF Min2
    <3>2. Min2(attempts[j] + 1, AttemptCap) \in Nat
      BY <2>1, ConstantFacts DEF Min2
    <3>3. attempts[j] <= job[j].retries + crashes
      BY <2>1, <2>2, <2>5 DEF Enters
    <3> QED BY <2>1, <2>3, <2>5, <3>1, <3>2, <3>3 DEF Enters
  <2>7. /\ attempts'[j] \in Nat /\ job'[j].retries + crashes' \in Nat
           /\ attempts'[j] <= job'[j].retries + crashes'
        => attempts'[j] <= job'[j].retries + crashes' +
             (IF job'[j].status = "completed" \/ Busy(j)' THEN 1 ELSE 0)
    <3>1. CASE job'[j].status = "completed" \/ Busy(j)'
      BY <3>1
    <3>2. CASE ~(job'[j].status = "completed" \/ Busy(j)')
      BY <3>2
    <3> QED BY <3>1, <3>2
  <2>6. CASE Leaves(j)
    <3>1. attempts'[j] <= job[j].retries + crashes + 1
      BY <2>1, <2>2, <2>6 DEF Leaves
    <3>2. CASE job'[j] = Completed(job[j]) /\ crashes' = crashes
      BY <2>1, <2>3, <3>1, <3>2 DEF Completed, Freed
    <3>3. CASE job'[j] = FailureRecorded(job[j], MaxRetries[j]) /\ crashes' = crashes
      <4>1. job'[j].retries = job[j].retries + 1
        BY <3>3 DEF FailureRecorded, Freed
      <4>2. attempts'[j] <= job'[j].retries + crashes'
        BY <2>1, <3>1, <3>3, <4>1
      <4>3. attempts'[j] \in Nat /\ job'[j].retries + crashes' \in Nat
        BY <2>1, <2>3, <2>6, <3>3 DEF Leaves
      <4> QED BY <2>2, <2>3, <2>7, <4>2, <4>3
    <3>4. CASE job' = job /\ crashes' = crashes + 1
      <4>1. attempts'[j] <= job'[j].retries + crashes'
        BY <2>1, <3>1, <3>4
      <4>2. attempts'[j] \in Nat /\ job'[j].retries + crashes' \in Nat
        BY <2>1, <2>3, <2>6, <3>4 DEF Leaves
      <4> QED BY <2>2, <2>3, <2>7, <4>1, <4>2
    <3> QED BY <2>6, <3>2, <3>3, <3>4 DEF Leaves
  <2> QED BY <2>3, <2>2, <2>4, <2>5, <2>6, HandlerSteps
<1>3. Spec => []ClaimInv
  BY ClaimsAreHeld
<1> QED BY <1>1, <1>2, <1>3, TypeCorrect, PTL DEF Spec

\* Every handler execution is paid for: the counter of executions never runs
\* ahead of the recorded failures, the kills and the one execution that is
\* going on or has completed the job.  (execute_claimed_job records an outcome
\* for each handler it enters, unless the invocation is killed in it.)
THEOREM ExecutionsArePaidFor == Hosted => (Spec => []AttemptsAccounted)
<1>1. Hosted => (Spec => [](AbsentIsClean /\ AttemptsAccounted))
  BY PaidInvariant
<1> QED BY <1>1, PTL
-------------------------------------------------------------------------------
(***************************************************************************)
(* The refinement.  A step is followed job by job: what it does to the     *)
(* phase and to the failures of each tame job, and then which action of    *)
(* the contract that is.                                                   *)
(***************************************************************************)

\* The phase in terms of the row and of the handler.
LEMMA PhaseOf ==
  ASSUME NEW j \in Tame
  PROVE  /\ job[j].status = "queued" => Phase(j) = "waiting"
         /\ job[j].status = "running" /\ Busy(j) => Phase(j) = "working"
         /\ job[j].status = "running" /\ ~Busy(j) => Phase(j) = "taken"
         /\ job[j].status \notin {"queued", "running"} => Phase(j) = job[j].status
BY DEF Phase, Busy

LEMMA NextPhaseOf ==
  ASSUME NEW j \in Tame
  PROVE  /\ job'[j].status = "queued" => Phase(j)' = "waiting"
         /\ job'[j].status = "running" /\ Busy(j)' => Phase(j)' = "working"
         /\ job'[j].status = "running" /\ ~Busy(j)' => Phase(j)' = "taken"
         /\ job'[j].status \notin {"queued", "running"} => Phase(j)' = job'[j].status
BY DEF Phase, Busy

\* The contract sees nothing of job j move.
Still(j) == Phase(j)' = Phase(j) /\ job'[j].retries = job[j].retries

LEMMA StillIf ==
  ASSUME NEW j \in Tame, Busy(j)' <=> Busy(j),
         job'[j].status = job[j].status, job'[j].retries = job[j].retries
  PROVE  Still(j)
BY DEF Still, Phase, Busy

\* A row that is not written and a handler nobody enters or leaves.
LEMMA StillFrame ==
  ASSUME NEW j \in Tame, Untouched(j), job'[j] = job[j]
  PROVE  Still(j)
BY StillIf DEF Untouched

\* If nothing moves the contract stutters.
LEMMA AllStill ==
  ASSUME \A j \in Tame : Still(j)
  PROVE  UNCHANGED Contract!contractVars
<1>1. [j \in Tame |-> Phase(j)'] = [j \in Tame |-> Phase(j)]
  BY DEF Still
<1>2. [j \in Tame |-> job'[j].retries] = [j \in Tame |-> job[j].retries]
  BY DEF Still
<1> QED BY <1>1, <1>2 DEF Contract!contractVars

\* One job goes from one phase to another.
LEMMA OneMoves ==
  ASSUME NEW j \in Tame, NEW from, NEW to,
         Phase(j) = from, Phase(j)' = to, \A k \in Tame \ {j} : Phase(k)' = Phase(k)
  PROVE  Contract!Move(j, from, to)
<1>1. [k \in Tame |-> Phase(k)'] = [[k \in Tame |-> Phase(k)] EXCEPT ![j] = to]
  OBVIOUS
<1> QED BY <1>1 DEF Contract!Move

\* A set of jobs goes to one phase.
LEMMA SomeMove ==
  ASSUME NEW batch \in SUBSET Tame, NEW from, NEW to, batch # {},
         \A j \in batch : Phase(j) \in from /\ Phase(j)' = to,
         \A k \in Tame \ batch : Phase(k)' = Phase(k)
  PROVE  Contract!MoveAll(batch, from, to)
<1>1. [k \in Tame |-> Phase(k)'] =
        [k \in Tame |-> IF k \in batch THEN to ELSE [i \in Tame |-> Phase(i)][k]]
  OBVIOUS
<1> QED BY <1>1 DEF Contract!MoveAll

\* No failure is counted, or one of one job.
LEMMA NoneCounted ==
  ASSUME \A j \in Tame : job'[j].retries = job[j].retries
  PROVE  [j \in Tame |-> job'[j].retries] = [j \in Tame |-> job[j].retries]
OBVIOUS

LEMMA OneCounted ==
  ASSUME NEW j \in Tame, job'[j].retries = job[j].retries + 1,
         \A k \in Tame \ {j} : job'[k].retries = job[k].retries
  PROVE  Contract!Counted(j)
<1>1. [k \in Tame |-> job'[k].retries] =
        [[k \in Tame |-> job[k].retries] EXCEPT ![j] = @ + 1]
  OBVIOUS
<1> QED BY <1>1 DEF Contract!Counted

\* A step of the queue is a step of the contract, or the contract stutters.
Mapped == Contract!ContractNext \/ UNCHANGED Contract!contractVars

\* A claim takes the queued tame jobs of its batch; those it takes over from an
\* expired lease were taken, by nobody that is alive, and stay taken.
LEMMA ClaimMapped ==
  ASSUME Hosted, TypeOK, ClaimInv, NEW s \in Slots, Claim(s),
         \A j \in Tame : Untouched(j) \/ Enters(j) \/ Leaves(j)
  PROVE  Mapped
<1>0. job \in [Jobs -> Rows] /\ Tame \subseteq Jobs
  BY DEF TypeOK, Tame
<1>1. PICK batch \in SUBSET ClaimableJobs :
        /\ job' = [j \in Jobs |-> IF j \in batch THEN Taken(job[j], inv[s].wid) ELSE job[j]]
        /\ AfterJob(s, batch)
  BY DEF Claim
<1>2. ASSUME NEW j \in Tame PROVE Busy(j)' <=> Busy(j)
  <2>1. ~Executing(s, j) /\ batch \in SUBSET Jobs
    BY DEF Claim, Executing, ClaimableJobs
  <2> QED BY <1>0, <1>1, <2>1, AfterJobBusy
<1>3. ASSUME NEW j \in Tame \cap batch
      PROVE  /\ ~Busy(j) /\ job[j].status \in {"queued", "running"}
             /\ job'[j].status = "running" /\ job'[j].retries = job[j].retries
  <2>1. Claimable(job[j])
    BY DEF ClaimableJobs
  <2>2. job[j].status \in {"queued", "running"} /\ (job[j].status = "running" => job[j].lease = 0)
    BY <2>1 DEF Claimable
  <2>3. ~Busy(j)
    BY <2>2, BusyRuns
  <2> QED BY <1>0, <1>1, <2>2, <2>3 DEF Taken
<1>4. ASSUME NEW j \in Tame \ batch PROVE Still(j)
  <2>1. job'[j] = job[j]
    BY <1>0, <1>1
  <2> QED BY <1>2, <2>1, StillIf
<1> DEFINE Waiting == {j \in Tame \cap batch : job[j].status = "queued"}
<1>5. ASSUME NEW j \in Waiting PROVE Phase(j) = "waiting" /\ Phase(j)' = "taken"
  BY <1>2, <1>3, PhaseOf, NextPhaseOf
<1>6. ASSUME NEW j \in Tame \ Waiting PROVE Phase(j)' = Phase(j)
  <2>1. CASE j \in batch
    BY <1>2, <1>3, <2>1, StillIf DEF Still
  <2>2. CASE j \notin batch
    BY <1>4, <2>2 DEF Still
  <2> QED BY <2>1, <2>2
<1>7. \A j \in Tame : job'[j].retries = job[j].retries
  BY <1>3, <1>4 DEF Still
<1>8. CASE Waiting = {}
  BY <1>6, <1>7, <1>8, AllStill DEF Still, Mapped
<1>9. CASE Waiting # {}
  <2>1. Contract!MoveAll(Waiting, {"waiting", "failed", "cancelled"}, "taken")
    BY <1>5, <1>6, <1>9, SomeMove
  <2>2. Contract!Take(Waiting)
    BY <1>7, <2>1, NoneCounted DEF Contract!Take
  <2>3. Waiting \in SUBSET Tame
    OBVIOUS
  <2> QED BY <2>2, <2>3 DEF Mapped, Contract!ContractNext
<1> QED BY <1>8, <1>9

\* Entering a handler works on the job; nothing else of a Begin is visible.
LEMMA BeginMapped ==
  ASSUME Hosted, TypeOK, ClaimInv, NEW s \in Slots, NEW k \in Jobs, Begin(s, k)
  PROVE  Mapped
<1>1. job' = job
  BY DEF Begin
<1>2. \A j \in Tame : Untouched(j) => Still(j)
  BY <1>1, StillFrame
<1>3. CASE \A j \in Tame : Untouched(j)
  BY <1>2, <1>3, AllStill DEF Mapped
<1>4. ASSUME NEW j \in Tame, Enters(j), j = k PROVE Mapped
  <2>1. \A i \in Tame \ {j} : Still(i)
    BY <1>2, <1>4, BeginHandler
  <2>2. Phase(j) = "taken" /\ Phase(j)' = "working"
    BY <1>1, <1>4, PhaseOf, NextPhaseOf DEF Enters
  <2>3. Contract!Move(j, "taken", "working")
    BY <2>1, <2>2, OneMoves DEF Still
  <2>4. Contract!Work(j)
    BY <1>1, <2>3, NoneCounted DEF Contract!Work
  <2> QED BY <2>4 DEF Mapped, Contract!ContractNext
<1> QED BY <1>3, <1>4, BeginHandler

\* The end of a handler: the row was still owned, so its outcome is written.
LEMMA LeaveMapped ==
  ASSUME TypeOK, NEW j \in Tame, Leaves(j),
         \A i \in Tame \ {j} : Untouched(i) /\ job'[i] = job[i]
  PROVE  Mapped
<1>1. \A i \in Tame \ {j} : Still(i)
  BY StillFrame
<1>2. /\ Phase(j) = "working" /\ job[j].retries \in Nat /\ MaxRetries[j] \in Nat
      /\ job[j] \in Rows
  BY PhaseOf, ConstantFacts DEF Leaves, TypeOK, Tame, Rows
<1>3. CASE job'[j] = Completed(job[j])
  <2>1. Phase(j)' = "completed" /\ job'[j].retries = job[j].retries
    BY <1>3, NextPhaseOf DEF Completed, Freed
  <2>2. Contract!Move(j, "working", "completed")
    BY <1>1, <1>2, <2>1, OneMoves DEF Still
  <2>3. Contract!Finish(j)
    BY <1>1, <2>1, <2>2, NoneCounted DEF Still, Contract!Finish
  <2> QED BY <2>3 DEF Mapped, Contract!ContractNext
<1>4. CASE job'[j] = FailureRecorded(job[j], MaxRetries[j])
  <2>1. /\ job'[j].retries = job[j].retries + 1
        /\ job[j].retries + 1 > MaxRetries[j] => job'[j].status = "dead_letter"
        /\ ~(job[j].retries + 1 > MaxRetries[j]) => job'[j].status = "queued"
    BY <1>4 DEF FailureRecorded, Freed
  <2>2. Contract!Counted(j)
    BY <1>1, <2>1, OneCounted DEF Still
  <2>3. [i \in Tame |-> job[i].retries][j] = job[j].retries
    OBVIOUS
  <2>4. CASE job[j].retries + 1 > MaxRetries[j]
    <3>1. Contract!Move(j, "working", "dead_letter")
      BY <1>1, <1>2, <2>1, <2>4, NextPhaseOf, OneMoves DEF Still
    <3>2. job[j].retries >= MaxRetries[j]
      BY <1>2, <2>4
    <3>3. Contract!GiveUp(j)
      BY <2>2, <2>3, <3>1, <3>2 DEF Contract!GiveUp
    <3> QED BY <3>3 DEF Mapped, Contract!ContractNext
  <2>5. CASE ~(job[j].retries + 1 > MaxRetries[j])
    <3>1. Contract!Move(j, "working", "waiting")
      BY <1>1, <1>2, <2>1, <2>5, NextPhaseOf, OneMoves DEF Still
    <3>2. job[j].retries < MaxRetries[j]
      BY <1>2, <2>5
    <3>3. Contract!Retry(j)
      BY <2>2, <2>3, <3>1, <3>2 DEF Contract!Retry
    <3> QED BY <3>3 DEF Mapped, Contract!ContractNext
  <2> QED BY <2>4, <2>5
<1>5. CASE job' = job
  <2>1. Phase(j)' = "taken"
    BY <1>5, NextPhaseOf DEF Leaves
  <2>2. Contract!Move(j, "working", "taken")
    BY <1>1, <1>2, <2>1, OneMoves DEF Still
  <2>3. Contract!Abandon(j)
    BY <1>5, <2>2, NoneCounted DEF Contract!Abandon
  <2> QED BY <2>3 DEF Mapped, Contract!ContractNext
<1> QED BY <1>3, <1>4, <1>5 DEF Leaves

LEMMA HandlerEndMapped ==
  ASSUME Hosted, TypeOK, ClaimInv, NEW s \in Slots, HandlerOk(s) \/ HandlerFail(s)
  PROVE  Mapped
<1>0. /\ job \in [Jobs -> Rows] /\ Tame \subseteq Jobs
      /\ AfterJob(s, inv[s].batch) /\ UNCHANGED <<attempts, crashes>>
      /\ inv[s].pc = "exec"
  BY DEF TypeOK, Tame, HandlerOk, HandlerFail
<1>1. ASSUME NEW i \in Tame, i # task[s].job PROVE Untouched(i) /\ job'[i] = job[i]
  <2>1. Untouched(i)
    BY <1>0, <1>1, OtherHandler
  <2> QED BY <1>0, <1>1, <2>1 DEF HandlerOk, HandlerFail, IfStillOwned
<1>2. ASSUME NEW j \in Tame, task[s].job = j PROVE Mapped
  <2>1. Leaves(j)
    BY <1>0, <1>2, OwnHandler DEF HandlerOk, HandlerFail
  <2> QED BY <1>1, <1>2, <2>1, LeaveMapped
<1>3. CASE task[s].job \notin Tame
  BY <1>1, <1>3, StillFrame, AllStill DEF Mapped
<1> QED BY <1>2, <1>3

LEMMA CrashMapped ==
  ASSUME Hosted, TypeOK, ClaimInv, NEW s \in Slots, Crash(s)
  PROVE  Mapped
<1>1. job' = job /\ Tame \subseteq Jobs /\ crashes' = crashes + 1 /\ crashes \in Nat
  BY ConstantFacts DEF Crash, Tame, TypeOK
<1>2. \A j \in Tame : Untouched(j) \/ Leaves(j)
  BY <1>1, HandlerSteps DEF Next, SlotStep, Enters
<1>3. CASE \A j \in Tame : Untouched(j)
  BY <1>1, <1>3, StillFrame, AllStill DEF Mapped
<1>4. ASSUME NEW j \in Tame, Leaves(j) PROVE Mapped
  <2>1. ASSUME NEW i \in Tame, Leaves(i) PROVE Executing(s, i)
    <3>1. \A t \in Slots \ {s} : inv'[t] = inv[t] /\ task'[t] = task[t]
      BY DEF Crash, TypeOK
    <3> QED BY <2>1, <3>1 DEF Leaves, Busy, Executing
  <2>2. \A i \in Tame \ {j} : Untouched(i)
    BY <1>2, <1>4, <2>1 DEF Executing
  <2> QED BY <1>1, <1>4, <2>2, LeaveMapped
<1> QED BY <1>2, <1>3, <1>4

\* A type without handler is refused with the retry count the claim froze.
LEMMA FailUnsupportedMapped ==
  ASSUME Hosted, TypeOK, ClaimInv, NEW s \in Slots, FailUnsupported(s)
  PROVE  Mapped
<1>0. /\ job \in [Jobs -> Rows] /\ Tame \subseteq Jobs
      /\ AfterJob(s, inv[s].batch) /\ inv[s].batch \in SUBSET Jobs
      /\ inv[s].pc = "unsupported"
      /\ job' = [job EXCEPT ![task[s].job] = Failed(@, task[s].seen)]
  BY DEF TypeOK, Tame, FailUnsupported, Invocations
<1>1. ASSUME NEW i \in Tame PROVE Busy(i)' <=> Busy(i)
  <2>1. ~Executing(s, i)
    BY <1>0 DEF Executing
  <2> QED BY <1>0, <2>1, AfterJobBusy
<1>2. ASSUME NEW i \in Tame, i # task[s].job PROVE Still(i)
  BY <1>0, <1>1, <1>2, StillIf
<1>3. ASSUME NEW j \in Tame, j = task[s].job PROVE Mapped
  <2>1. j \in Held(s) \cap Tame
    BY <1>0, <1>3 DEF Held
  <2>2. Owns(s, j) /\ task[s].seen = job[j].retries
    BY <1>0, <1>3, <2>1 DEF ClaimInv, ClaimHeld, Owns
  <2>3. ~Busy(j)
    BY <1>0, <2>1, BusyHolder DEF Executing
  <2>4. /\ job'[j].status = "failed" /\ job'[j].retries = job[j].retries + 1
        /\ job[j].status = "running"
    BY <1>0, <1>3, <2>1, <2>2 DEF Failed, Freed, Owns, OwnedBy
  <2>5. Phase(j) = "taken" /\ Phase(j)' = "failed"
    BY <1>3, <2>3, <2>4, PhaseOf, NextPhaseOf
  <2>6. Contract!Move(j, "taken", "failed")
    BY <1>2, <1>3, <2>5, OneMoves DEF Still
  <2>7. Contract!Counted(j)
    BY <1>2, <1>3, <2>4, OneCounted DEF Still
  <2>8. Contract!Refuse(j)
    BY <2>6, <2>7 DEF Contract!Refuse
  <2> QED BY <1>3, <2>8 DEF Mapped, Contract!ContractNext
<1>4. CASE task[s].job \notin Tame
  BY <1>2, <1>4, AllStill DEF Mapped
<1> QED BY <1>3, <1>4

\* Starting, scanning and a run-now's second step: no tame row, no handler.
LEMMA QuietMapped ==
  ASSUME Hosted, TypeOK, ClaimInv, NEW s \in Slots,
         StartDrain(s) \/ ReleaseScan(s) \/ RunNowStart(s)
  PROVE  Mapped
<1>0. /\ job \in [Jobs -> Rows] /\ inv \in [Slots -> Invocations]
      /\ task \in [Slots -> Tasks] /\ Tame \subseteq Jobs
  BY DEF TypeOK, Tame
<1>1. /\ \A t \in Slots \ {s} : inv'[t] = inv[t] /\ task'[t] = task[t]
      /\ inv[s].pc # "exec"
  BY <1>0 DEF StartDrain, ReleaseScan, RunNowStart, Live
<1>2. inv'[s].pc # "exec"
  <2>1. /\ \A w : Invoked("drain", w).pc = "drain"
        /\ Idle.pc = "idle" /\ [inv[s] EXCEPT !.pc = "started"].pc = "started"
        /\ \A b : [inv[s] EXCEPT !.pc = "release", !.batch = b].pc = "release"
    BY <1>0 DEF Idle, Invoked, Invocations
  <2>2. \/ inv'[s] = Idle \/ inv'[s] = [inv[s] EXCEPT !.pc = "started"]
        \/ \E w : inv'[s] = Invoked("drain", w)
        \/ \E b : inv'[s] = [inv[s] EXCEPT !.pc = "release", !.batch = b]
    BY <1>0 DEF StartDrain, ReleaseScan, RunNowStart
  <2> QED BY <2>1, <2>2
<1>3. ASSUME NEW j \in Tame PROVE Busy(j)' <=> Busy(j)
  BY <1>0, <1>1, <1>2, BusyFrame DEF Executing
<1>4. ASSUME NEW j \in Tame PROVE job'[j] = job[j]
  <2>1. inv[s].pc \in {"called", "retaking"} => task[s].job # j
    BY DEF ClaimInv, WellFormed, Tame
  <2> QED BY <1>0, <2>1 DEF StartDrain, ReleaseScan, RunNowStart
<1> QED BY <1>3, <1>4, StillIf, AllStill DEF Mapped

\* A drain gives back exactly the jobs it still holds and works on none of them.
LEMMA ReleaseMapped ==
  ASSUME Hosted, TypeOK, ClaimInv, NEW s \in Slots, ReleaseWrite(s)
  PROVE  Mapped
<1> DEFINE batch == inv[s].batch \cap Tame
<1>0. /\ job \in [Jobs -> Rows] /\ Tame \subseteq Jobs
      /\ inv[s].pc = "release" /\ inv'[s].pc = "idle"
      /\ \A t \in Slots \ {s} : inv'[t] = inv[t] /\ task'[t] = task[t]
      /\ job' = [i \in Jobs |-> IF i \in inv[s].batch THEN Released(job[i]) ELSE job[i]]
  BY DEF TypeOK, Tame, ReleaseWrite, Idle, Invoked
<1>1. ASSUME NEW i \in Tame PROVE (Busy(i)' <=> Busy(i)) /\ ~Executing(s, i)
  <2>1. ~Executing(s, i) /\ ~Executing(s, i)'
    BY <1>0 DEF Executing
  <2> QED BY <1>0, <2>1, BusyFrame
<1>2. ASSUME NEW i \in Tame \ batch PROVE Still(i)
  BY <1>0, <1>1, <1>2, StillIf
<1>3. ASSUME NEW i \in batch
      PROVE  /\ Phase(i) = "taken" /\ Phase(i)' = "waiting"
             /\ job'[i].retries = job[i].retries
  <2>1. i \in Held(s) \cap Tame
    BY DEF Held
  <2>2. ~Busy(i) /\ job[i].status = "running"
    BY <1>1, <2>1, BusyHolder, HeldIsProtected
  <2>3. job'[i].status = "queued" /\ job'[i].retries = job[i].retries
    BY <1>0 DEF Released, Freed
  <2> QED BY <2>2, <2>3, PhaseOf, NextPhaseOf
<1>4. \A i \in Tame : job'[i].retries = job[i].retries
  BY <1>2, <1>3 DEF Still
<1>5. CASE batch = {}
  BY <1>2, <1>5, AllStill DEF Mapped
<1>6. CASE batch # {}
  <2>1. Contract!MoveAll(batch, {"taken"}, "waiting")
    BY <1>2, <1>3, <1>6, SomeMove DEF Still
  <2>2. Contract!GiveBack(batch)
    BY <1>4, <2>1, NoneCounted DEF Contract!GiveBack
  <2> QED BY <2>2 DEF Mapped, Contract!ContractNext
<1> QED BY <1>5, <1>6

\* A locked run-now takes a job that waits, has failed or was cancelled.
LEMMA RunNowMapped ==
  ASSUME Hosted, TypeOK, ClaimInv, NEW s \in Slots, NEW j \in Jobs,
         RunNowRead(s, j) \/ RunNowUnderLock(s, j)
  PROVE  Mapped
<1>0. job \in [Jobs -> Rows] /\ Tame \subseteq Jobs
  BY DEF TypeOK, Tame
<1>1. PICK w \in Workers, pc \in {"called", "retaking", "started"} : Request(s, j, w, pc)
  BY DEF RunNowRead, RunNowUnderLock
<1>2. \A i \in Jobs \ {j} : job'[i] = job[i]
  BY <1>0 DEF RunNowRead, RunNowUnderLock
<1>3. ASSUME NEW i \in Tame PROVE Busy(i)' <=> Busy(i)
  <2>1. /\ inv[s].pc = "idle" /\ inv'[s].pc = pc
        /\ \A t \in Slots \ {s} : inv'[t] = inv[t] /\ task'[t] = task[t]
    BY <1>1 DEF Request, Live, Invoked, TypeOK
  <2>2. ~Executing(s, i) /\ ~Executing(s, i)'
    BY <2>1 DEF Executing
  <2> QED BY <1>0, <2>1, <2>2, BusyFrame
<1>4. \A i \in Tame \ {j} : Still(i)
  BY <1>0, <1>2, <1>3, StillIf
<1>5. CASE j \notin Tame
  BY <1>4, <1>5, AllStill DEF Mapped
<1>6. CASE j \in Tame
  <2>1. j \notin RunNowUnlocked /\ RunNowUnderLock(s, j)
    BY <1>6 DEF Tame, RunNowRead
  <2>2. job[j].status \in {"queued", "failed", "cancelled"}
    BY <2>1, JobKindsAssumption DEF RunNowUnderLock, MayRunNow
  <2>3. job'[j].status = "running" /\ job'[j].retries = job[j].retries
    BY <1>0, <2>1 DEF RunNowUnderLock, Taken
  <2>4. ~Busy(j)
    BY <1>6, <2>2, BusyRuns
  <2>5. Phase(j) \in {"waiting", "failed", "cancelled"} /\ Phase(j)' = "taken"
    BY <1>3, <1>6, <2>2, <2>3, <2>4, PhaseOf, NextPhaseOf
  <2>6. Contract!MoveAll({j}, {"waiting", "failed", "cancelled"}, "taken")
    BY <1>4, <1>6, <2>5, SomeMove DEF Still
  <2>7. Contract!Take({j})
    BY <1>4, <1>6, <2>3, <2>6, NoneCounted DEF Still, Contract!Take
  <2> QED BY <1>6, <2>7 DEF Mapped, Contract!ContractNext
<1> QED BY <1>5, <1>6

\* Creation, cancellation, the closure and the clock: no invocation moves.
LEMMA TableMapped ==
  ASSUME TypeOK, ClaimInv, Hosted, AbsentIsClean,
         \/ \E j \in Jobs : Enqueue(j) \/ CancelQueued(j)
         \/ ClosureRead \/ ClosureWrite \/ Tick \/ UNCHANGED vars
  PROVE  Mapped
<1>0. /\ job \in [Jobs -> Rows] /\ inv \in [Slots -> Invocations] /\ Tame \subseteq Jobs
      /\ closing \subseteq Closable
  BY DEF TypeOK, Tame, ClaimInv, WellFormed
<1>1. ASSUME NEW i \in Tame PROVE Busy(i)' <=> Busy(i)
  <2>1. task' = task /\ \A s \in Slots : inv'[s].pc = inv[s].pc
    BY <1>0 DEF Enqueue, CancelQueued, ClosureRead, ClosureWrite, Tick, vars, Invocations
  <2> QED BY <2>1 DEF Busy, Executing
<1>2. ASSUME NEW j \in Jobs, Enqueue(j) PROVE Mapped
  <2>1. \A i \in Tame \ {j} : Still(i)
    BY <1>0, <1>1, <1>2, StillIf DEF Enqueue
  <2>2. CASE j \notin Tame
    BY <2>1, <2>2, AllStill DEF Mapped
  <2>3. CASE j \in Tame
    <3>1. job[j].status = "absent" /\ job'[j] = Created
      BY <1>0, <1>2 DEF Enqueue
    <3>2. Phase(j) = "absent" /\ Phase(j)' = "waiting" /\ job'[j].retries = 0
      BY <2>3, <3>1, PhaseOf, NextPhaseOf DEF Created, Freed
    <3>3. Contract!Move(j, "absent", "waiting")
      BY <2>1, <2>3, <3>2, OneMoves DEF Still
    <3>4. job[j].retries = 0
      BY <2>3, <3>1 DEF AbsentIsClean
    <3>5. Contract!Submit(j)
      BY <2>1, <2>3, <3>2, <3>3, <3>4, NoneCounted DEF Still, Contract!Submit
    <3> QED BY <2>3, <3>5 DEF Mapped, Contract!ContractNext
  <2> QED BY <2>2, <2>3
<1>3. ASSUME NEW j \in Jobs, CancelQueued(j) PROVE Mapped
  <2>1. \A i \in Tame \ {j} : Still(i)
    BY <1>0, <1>1, <1>3, StillIf DEF CancelQueued
  <2>2. CASE j \notin Tame
    BY <2>1, <2>2, AllStill DEF Mapped
  <2>3. CASE j \in Tame
    <3>1. job[j].status = "queued" /\ job'[j] = Cancelled(job[j])
      BY <1>0, <1>3 DEF CancelQueued
    <3>2. Phase(j) = "waiting" /\ Phase(j)' = "cancelled" /\ job'[j].retries = job[j].retries
      BY <2>3, <3>1, PhaseOf, NextPhaseOf DEF Cancelled, Freed
    <3>3. Contract!Move(j, "waiting", "cancelled")
      BY <2>1, <2>3, <3>2, OneMoves DEF Still
    <3>4. Contract!Withdraw(j)
      BY <2>1, <2>3, <3>2, <3>3, NoneCounted DEF Still, Contract!Withdraw
    <3> QED BY <2>3, <3>4 DEF Mapped, Contract!ContractNext
  <2> QED BY <2>2, <2>3
<1>4. CASE ClosureRead \/ ClosureWrite \/ Tick \/ UNCHANGED vars
  <2>1. ASSUME NEW i \in Tame
        PROVE  job'[i].status = job[i].status /\ job'[i].retries = job[i].retries
    <3>1. CASE Tick
      <4>1. job'[i] = Aged(job[i]) /\ job[i] \in Rows
        BY <1>0, <3>1 DEF Tick
      <4> QED BY <4>1 DEF Aged, Rows
    <3>2. CASE ClosureWrite
      <4>1. i \notin closing
        BY <1>0 DEF Tame
      <4> QED BY <1>0, <3>2, <4>1 DEF ClosureWrite
    <3> QED BY <1>4, <3>1, <3>2 DEF ClosureRead, vars
  <2> QED BY <1>1, <2>1, StillIf, AllStill DEF Mapped
<1> QED BY <1>2, <1>3, <1>4

\* The queue implements its contract: whatever claims, expired leases, late
\* releases, kills and run-nows do, a tame job is taken before it is worked on,
\* by one handler at a time, each failure counts once and decides between the
\* next try and the dead letter, and what is settled is not touched again.
THEOREM QueueImplementsContract == Hosted => (Spec => ImplementsContract)
<1> SUFFICES ASSUME Hosted PROVE Spec => ImplementsContract
  OBVIOUS
<1>1. Init => Contract!ContractInit
  <2> SUFFICES ASSUME Init PROVE Contract!ContractInit
    OBVIOUS
  <2>1. \A j \in Tame : Phase(j) = "absent" /\ job[j].retries = 0
    BY PhaseOf DEF Init, Tame, AbsentRow, Freed
  <2>2. /\ [j \in Tame |-> Phase(j)] = [j \in Tame |-> "absent"]
        /\ [j \in Tame |-> job[j].retries] = [j \in Tame |-> 0]
    BY <2>1
  <2> QED BY <2>2 DEF Contract!ContractInit
<1>2. TypeOK /\ ClaimInv /\ AbsentIsClean /\ [Next]_vars =>
        [Contract!ContractNext]_Contract!contractVars
  <2> SUFFICES ASSUME TypeOK, ClaimInv, AbsentIsClean, [Next]_vars PROVE Mapped
    BY DEF Mapped
  <2>0. \A j \in Tame : Untouched(j) \/ Enters(j) \/ Leaves(j)
    BY HandlerSteps
  <2>1. ASSUME NEW s \in Slots, Claim(s) PROVE Mapped
    BY <2>0, <2>1, ClaimMapped
  <2>2. ASSUME NEW s \in Slots, NEW j \in Jobs, Begin(s, j) PROVE Mapped
    BY <2>2, BeginMapped
  <2>3. ASSUME NEW s \in Slots, HandlerOk(s) \/ HandlerFail(s) PROVE Mapped
    BY <2>3, HandlerEndMapped
  <2>4. ASSUME NEW s \in Slots, FailUnsupported(s) PROVE Mapped
    BY <2>4, FailUnsupportedMapped
  <2>5. ASSUME NEW s \in Slots, ReleaseWrite(s) PROVE Mapped
    BY <2>5, ReleaseMapped
  <2>6. ASSUME NEW s \in Slots, NEW j \in Jobs,
               RunNowRead(s, j) \/ RunNowUnderLock(s, j)
        PROVE  Mapped
    BY <2>6, RunNowMapped
  <2>7. ASSUME NEW s \in Slots, StartDrain(s) \/ ReleaseScan(s) \/ RunNowStart(s)
        PROVE  Mapped
    BY <2>7, QuietMapped
  <2>8. ASSUME NEW s \in Slots, Crash(s) PROVE Mapped
    BY <2>8, CrashMapped
  <2>9. CASE \/ \E j \in Jobs : Enqueue(j) \/ CancelQueued(j)
             \/ ClosureRead \/ ClosureWrite \/ Tick \/ UNCHANGED vars
    BY <2>9, TableMapped
  <2> QED BY <2>1, <2>2, <2>3, <2>4, <2>5, <2>6, <2>7, <2>8, <2>9
          DEF Next, SlotStep
<1>3. Spec => []ClaimInv
  BY ClaimsAreHeld
<1>4. Spec => [](AbsentIsClean /\ AttemptsAccounted)
  BY PaidInvariant
<1> QED BY <1>1, <1>2, <1>3, <1>4, TypeCorrect, PTL
        DEF Spec, ImplementsContract, Contract!ContractSpec
==============================================================================
