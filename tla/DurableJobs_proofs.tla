-------------------------- MODULE DurableJobs_proofs --------------------------
(***************************************************************************)
(* Theorems about the durable job queue, for any number of jobs and        *)
(* invocations and any batch, budget, backoff and retry limits.  Those     *)
(* about claims assume Hosted: no invocation outlives a lease.             *)
(***************************************************************************)
EXTENDS DurableJobs, TLAPS

\* The constants a proof step may need, in one place.
LEMMA ConstantFacts ==
  /\ Lease \in Nat \ {0} /\ BackoffCap \in Nat /\ MaxWait \in Nat
  /\ MaxDuration \in Nat /\ AttemptCap \in Nat /\ MaxCrashes \in Nat
  /\ MaxRetries \in [Jobs -> Nat]
  /\ NoWorker \notin Workers /\ NoJob \notin Jobs
BY JobTimesAssumption, NoWorkerAssumption, SlotsAssumption, DrainAssumption

\* Every write of job_service.py leaves a well-typed row.
LEMMA RowTypes ==
  ASSUME NEW row \in Rows
  PROVE  /\ Completed(row) \in Rows /\ Released(row) \in Rows
         /\ Cancelled(row) \in Rows /\ Aged(row) \in Rows
         /\ [row EXCEPT !.status = "cancelled"] \in Rows
         /\ \A w \in Workers \cup {NoWorker} : Taken(row, w) \in Rows
         /\ \A n \in Nat : Failed(row, n) \in Rows /\ FailureRecorded(row, n) \in Rows
<1> USE ConstantFacts
<1>1. \A k \in Nat : Backoff(k) \in (-MaxWait)..BackoffCap
  BY DEF Backoff
<1>2. \A st \in Statuses, d \in (-MaxWait)..BackoffCap, k \in Nat : Freed(st, d, k) \in Rows
  BY DEF Freed, Rows
<1>3. row.due \in (-MaxWait)..BackoffCap /\ row.retries \in Nat /\ row.lease \in 0..Lease
  BY DEF Rows
<1>4. Completed(row) \in Rows /\ Released(row) \in Rows /\ Cancelled(row) \in Rows
  BY <1>2, <1>3 DEF Completed, Released, Cancelled, Statuses
<1>5. \A w \in Workers \cup {NoWorker} : Taken(row, w) \in Rows
  BY <1>3 DEF Taken, Rows, Statuses
<1>6. \A n \in Nat : Failed(row, n) \in Rows
  BY <1>2, <1>3 DEF Failed, Statuses
<1>7. \A n \in Nat : FailureRecorded(row, n) \in Rows
  BY <1>1, <1>2, <1>3 DEF FailureRecorded, Statuses
<1>8. [row EXCEPT !.status = "cancelled"] \in Rows
  BY DEF Rows, Statuses
<1>9. Aged(row) \in Rows
  <2>1. \A l \in 0..Lease, d \in (-MaxWait)..BackoffCap :
          [row EXCEPT !.lease = l, !.due = d] \in Rows
    BY DEF Rows
  <2>2. Lowered(row.lease, 0) \in 0..Lease
    BY <1>3 DEF Lowered
  <2>3. Lowered(row.due, -MaxWait) \in (-MaxWait)..BackoffCap
    BY <1>3 DEF Lowered
  <2> QED BY <2>1, <2>2, <2>3 DEF Aged
<1> QED BY <1>4, <1>5, <1>6, <1>7, <1>8, <1>9

\* Going on after a job keeps the types of the invocations.
LEMMA AfterJobType ==
  ASSUME TypeOK, NEW s \in Slots, NEW rest \in SUBSET Jobs, AfterJob(s, rest)
  PROVE  inv' \in [Slots -> Invocations] /\ task' \in [Slots -> Tasks]
<1>1. Idle \in Invocations /\ NoTask \in Tasks
  BY ConstantFacts DEF Idle, Invoked, NoTask, TaskOf, Invocations, Tasks, Pcs
<1>2. \A i \in Invocations : [i EXCEPT !.pc = "batch", !.batch = rest] \in Invocations
  BY DEF Invocations, Pcs
<1> QED BY <1>1, <1>2 DEF AfterJob, TypeOK

\* A tenant's request is a well-typed invocation.
LEMMA RequestType ==
  ASSUME TypeOK, NEW s \in Slots, NEW j \in Jobs, NEW w \in Workers,
         NEW pc \in Pcs, Request(s, j, w, pc)
  PROVE  inv' \in [Slots -> Invocations] /\ task' \in [Slots -> Tasks]
<1>1. Invoked(pc, w) \in Invocations /\ TaskOf(j, NoWorker, 0) \in Tasks
  BY ConstantFacts DEF Idle, Invoked, TaskOf, Invocations, Tasks
<1> QED BY <1>1 DEF Request, TypeOK

\* Rows, invocations, tasks and counters keep their types.
THEOREM TypeCorrect == Spec => []TypeOK
<1> USE ConstantFacts
<1>1. Init => TypeOK
  <2>1. AbsentRow \in Rows
    BY DEF AbsentRow, Freed, Rows, Statuses
  <2>2. Idle \in Invocations /\ NoTask \in Tasks
    BY DEF Idle, Invoked, NoTask, TaskOf, Invocations, Tasks, Pcs
  <2> QED BY <2>1, <2>2 DEF Init, TypeOK
<1>2. TypeOK /\ [Next]_vars => TypeOK'
  <2> SUFFICES ASSUME TypeOK, [Next]_vars PROVE TypeOK'
    OBVIOUS
  <2>0. /\ \A j \in Jobs : job[j] \in Rows /\ job[j].owner \in Workers \cup {NoWorker}
                          /\ job[j].retries \in Nat
        /\ \A s \in Slots : inv[s] \in Invocations /\ inv[s].batch \in SUBSET Jobs
                           /\ inv[s].age \in 0..MaxDuration
                           /\ inv[s].wid \in Workers \cup {NoWorker}
        /\ \A s \in Slots : task[s] \in Tasks /\ task[s].seen \in Nat
                           /\ task[s].job \in Jobs \cup {NoJob}
    BY DEF TypeOK, Rows, Invocations, Tasks
  <2>1. ASSUME NEW j \in Jobs, Enqueue(j) PROVE TypeOK'
    <3>1. Created \in Rows
      BY DEF Created, Freed, Rows, Statuses
    <3> QED BY <2>1, <3>1 DEF Enqueue, TypeOK
  <2>2. ASSUME NEW s \in Slots, StartDrain(s) PROVE TypeOK'
    <3>1. \A w \in Workers : Invoked("drain", w) \in Invocations
      BY DEF Invoked, Invocations, Pcs
    <3> QED BY <2>2, <3>1 DEF StartDrain, TypeOK
  <2>3. ASSUME NEW s \in Slots, Claim(s) PROVE TypeOK'
    <3>1. PICK batch \in SUBSET ClaimableJobs :
            /\ job' = [j \in Jobs |-> IF j \in batch THEN Taken(job[j], inv[s].wid)
                                                      ELSE job[j]]
            /\ AfterJob(s, batch)
      BY <2>3 DEF Claim
    <3>2. batch \in SUBSET Jobs
      BY DEF ClaimableJobs
    <3>3. \A r \in Rows, w \in Workers \cup {NoWorker} : Taken(r, w) \in Rows
      BY DEF Taken, Rows, Statuses
    <3>4. job' \in [Jobs -> Rows]
      BY <2>0, <3>1, <3>3
    <3>5. inv' \in [Slots -> Invocations] /\ task' \in [Slots -> Tasks]
      BY <3>1, <3>2, AfterJobType
    <3> QED BY <2>3, <3>4, <3>5 DEF Claim, TypeOK
  <2>4. ASSUME NEW s \in Slots, NEW j \in Jobs, Begin(s, j) PROVE TypeOK'
    <3>1. inv[s].batch \ {j} \in SUBSET Jobs
      BY <2>0
    <3>2. CASE AfterJob(s, inv[s].batch \ {j}) /\ UNCHANGED attempts
      <4>1. inv' \in [Slots -> Invocations] /\ task' \in [Slots -> Tasks]
        BY <3>1, <3>2, AfterJobType
      <4> QED BY <2>4, <3>2, <4>1 DEF Begin, TypeOK
    <3>3. CASE \E pc \in Pcs :
                 /\ inv' = [inv EXCEPT ![s] = [@ EXCEPT !.pc = pc, !.batch = inv[s].batch \ {j}]]
                 /\ task' = [task EXCEPT ![s] = TaskOf(j, job[j].owner, job[j].retries)]
                 /\ \/ UNCHANGED attempts
                    \/ attempts' = [attempts EXCEPT ![j] = Min2(@ + 1, AttemptCap)]
      <4>1. \A pc \in Pcs, b \in SUBSET Jobs :
              [inv[s] EXCEPT !.pc = pc, !.batch = b] \in Invocations
        BY <2>0 DEF Invocations
      <4>2. TaskOf(j, job[j].owner, job[j].retries) \in Tasks
        BY <2>0 DEF TaskOf, Tasks
      <4>3. PICK pc \in Pcs :
              inv' = [inv EXCEPT ![s] = [@ EXCEPT !.pc = pc, !.batch = inv[s].batch \ {j}]]
        BY <3>3
      <4>7. inv' \in [Slots -> Invocations]
        BY <3>1, <4>1, <4>3 DEF TypeOK
      <4>8. task' \in [Slots -> Tasks]
        BY <3>3, <4>2 DEF TypeOK
      <4>4. attempts[j] \in 0..AttemptCap /\ attempts \in [Jobs -> 0..AttemptCap]
        BY DEF TypeOK
      <4>5. Min2(attempts[j] + 1, AttemptCap) \in 0..AttemptCap
        BY <4>4 DEF Min2
      <4>6. attempts' \in [Jobs -> 0..AttemptCap]
        BY <3>3, <4>4, <4>5
      <4> QED BY <2>4, <4>6, <4>7, <4>8 DEF Begin, TypeOK
    <3> QED BY <2>4, <3>2, <3>3 DEF Begin, Pcs
  <2>5. ASSUME NEW s \in Slots, FailUnsupported(s) PROVE TypeOK'
    <3>1. \A r \in Rows : Failed(r, task[s].seen) \in Rows
      BY <2>0, RowTypes
    <3>2. job' \in [Jobs -> Rows]
      BY <2>5, <3>1 DEF FailUnsupported, TypeOK
    <3>3. inv' \in [Slots -> Invocations] /\ task' \in [Slots -> Tasks]
      BY <2>0, <2>5, AfterJobType DEF FailUnsupported
    <3> QED BY <2>5, <3>2, <3>3 DEF FailUnsupported, TypeOK
  <2>6. ASSUME NEW s \in Slots, HandlerOk(s) PROVE TypeOK'
    <3>1. \A r \in Rows : Completed(r) \in Rows
      BY RowTypes
    <3>2. job' \in [Jobs -> Rows]
      BY <2>0, <2>6, <3>1 DEF HandlerOk, IfStillOwned, TypeOK
    <3>3. inv' \in [Slots -> Invocations] /\ task' \in [Slots -> Tasks]
      BY <2>0, <2>6, AfterJobType DEF HandlerOk
    <3> QED BY <2>6, <3>2, <3>3 DEF HandlerOk, TypeOK
  <2>7. ASSUME NEW s \in Slots, HandlerFail(s) PROVE TypeOK'
    <3>1. \A r \in Rows, n \in Nat : FailureRecorded(r, n) \in Rows
      BY RowTypes
    <3>2. job' \in [Jobs -> Rows]
      BY <2>0, <2>7, <3>1 DEF HandlerFail, IfStillOwned, TypeOK
    <3>3. inv' \in [Slots -> Invocations] /\ task' \in [Slots -> Tasks]
      BY <2>0, <2>7, AfterJobType DEF HandlerFail
    <3> QED BY <2>7, <3>2, <3>3 DEF HandlerFail, TypeOK
  <2>8. ASSUME NEW s \in Slots, ReleaseScan(s) PROVE TypeOK'
    <3>1. \A b \in SUBSET Jobs : [inv[s] EXCEPT !.pc = "release", !.batch = b] \in Invocations
      BY <2>0 DEF Invocations, Pcs
    <3>2. Idle \in Invocations
      BY DEF Idle, Invoked, Invocations, Pcs
    <3>3. inv' \in [Slots -> Invocations]
      BY <2>0, <2>8, <3>1, <3>2 DEF ReleaseScan, TypeOK
    <3> QED BY <2>8, <3>3 DEF ReleaseScan, TypeOK
  <2>9. ASSUME NEW s \in Slots, ReleaseWrite(s) PROVE TypeOK'
    <3>1. \A r \in Rows : Released(r) \in Rows
      BY RowTypes
    <3>2. Idle \in Invocations
      BY DEF Idle, Invoked, Invocations, Pcs
    <3> QED BY <2>0, <2>9, <3>1, <3>2 DEF ReleaseWrite, TypeOK
  <2>10. ASSUME NEW s \in Slots, NEW j \in Jobs, RunNowRead(s, j) PROVE TypeOK'
    <3>1. Created \in Rows
      BY DEF Created, Freed, Rows, Statuses
    <3>2. job' \in [Jobs -> Rows]
      BY <2>10, <3>1 DEF RunNowRead, TypeOK
    <3>3. PICK w \in Workers, pc \in {"called", "retaking"} : Request(s, j, w, pc)
      BY <2>10 DEF RunNowRead
    <3>4. inv' \in [Slots -> Invocations] /\ task' \in [Slots -> Tasks]
      BY <3>3, RequestType DEF Pcs
    <3> QED BY <3>2, <3>3, <3>4 DEF Request, TypeOK
  <2>11. ASSUME NEW s \in Slots, RunNowStart(s) PROVE TypeOK'
    <3>1. \A r \in Rows, w \in Workers \cup {NoWorker} :
            \A st \in {"running", r.status} : [Taken(r, w) EXCEPT !.status = st] \in Rows
      BY DEF Taken, Rows, Statuses
    <3>2. [inv[s] EXCEPT !.pc = "started"] \in Invocations
      BY <2>0 DEF Invocations, Pcs
    <3>3. job' \in [Jobs -> Rows]
      <4>1. PICK st \in {"running", job[task[s].job].status} :
              job' = [job EXCEPT ![task[s].job] = [Taken(@, inv[s].wid) EXCEPT !.status = st]]
        BY <2>11 DEF RunNowStart
      <4>2. task[s].job \in Jobs => [Taken(job[task[s].job], inv[s].wid) EXCEPT !.status = st] \in Rows
        BY <2>0, <3>1
      <4>. QED  BY <4>1, <4>2, <2>0 DEF TypeOK
    <3>4. inv' \in [Slots -> Invocations]
      BY <2>11, <3>2 DEF RunNowStart, TypeOK
    <3> QED BY <2>11, <3>3, <3>4 DEF RunNowStart, TypeOK
  <2>12. ASSUME NEW s \in Slots, NEW j \in Jobs, RunNowUnderLock(s, j) PROVE TypeOK'
    <3>1. PICK w \in Workers :
            Request(s, j, w, "started") /\ job' = [job EXCEPT ![j] = Taken(@, w)]
      BY <2>12 DEF RunNowUnderLock
    <3>2. job' \in [Jobs -> Rows]
      BY <2>0, <3>1, RowTypes DEF TypeOK
    <3>3. inv' \in [Slots -> Invocations] /\ task' \in [Slots -> Tasks]
      BY <3>1, RequestType DEF Pcs
    <3> QED BY <3>1, <3>2, <3>3 DEF Request, TypeOK
  <2>13. ASSUME NEW s \in Slots, Crash(s) PROVE TypeOK'
    <3>1. Idle \in Invocations /\ NoTask \in Tasks
      BY DEF Idle, Invoked, NoTask, TaskOf, Invocations, Tasks, Pcs
    <3> QED BY <2>13, <3>1 DEF Crash, TypeOK
  <2>14. ASSUME NEW j \in Jobs, CancelQueued(j) PROVE TypeOK'
    <3>1. \A r \in Rows : Cancelled(r) \in Rows
      BY RowTypes
    <3> QED BY <2>0, <2>14, <3>1 DEF CancelQueued, TypeOK
  <2>15. CASE ClosureRead
    BY <2>15, JobKindsAssumption DEF ClosureRead, TypeOK
  <2>16. CASE ClosureWrite
    <3>1. \A r \in Rows : [r EXCEPT !.status = "cancelled"] \in Rows
      BY DEF Rows, Statuses
    <3> QED BY <2>0, <2>16, <3>1 DEF ClosureWrite, TypeOK
  <2>17. CASE Tick
    <3>1. \A r \in Rows : Aged(r) \in Rows
      BY RowTypes
    <3>2. \A i \in Invocations : i.age < MaxDuration => [i EXCEPT !.age = @ + 1] \in Invocations
      BY DEF Invocations
    <3>3. job' \in [Jobs -> Rows]
      BY <2>0, <2>17, <3>1 DEF Tick
    <3>4. inv' \in [Slots -> Invocations]
      BY <2>0, <2>17, <3>2 DEF Tick
    <3> QED BY <2>17, <3>3, <3>4 DEF Tick, TypeOK
  <2>18. CASE UNCHANGED vars
    BY <2>18 DEF vars, TypeOK
  <2> QED BY <2>1, <2>2, <2>3, <2>4, <2>5, <2>6, <2>7, <2>8, <2>9, <2>10, <2>11,
             <2>12, <2>13, <2>14, <2>15, <2>16, <2>17, <2>18 DEF Next, SlotStep
<1> QED BY <1>1, <1>2, PTL DEF Spec
-------------------------------------------------------------------------------
(***************************************************************************)
(* Claims.  A step of slot s leaves the other slots alone; ClaimHeld is    *)
(* then kept if the step writes no tame row that another slot holds and s  *)
(* owns what it holds afterwards.                                          *)
(***************************************************************************)

\* The other slots do not move and the tame rows they hold are not written.
OthersKept(s) ==
  \A t \in Slots \ {s} : /\ inv'[t] = inv[t] /\ task'[t] = task[t]
                         /\ \A j \in Held(t) \cap Tame : job'[j] = job[j]

\* A job that a slot holds is running, is its own and cannot be claimed.
LEMMA HeldIsProtected ==
  ASSUME Hosted, TypeOK, ClaimInv, NEW s \in Slots, NEW j \in Held(s) \cap Tame
  PROVE  /\ j \in Jobs /\ Live(s)
         /\ job[j].status = "running" /\ job[j].owner = inv[s].wid
         /\ job[j].lease > 0 /\ ~Claimable(job[j])
<1>1. j \in Jobs /\ Owns(s, j)
  BY DEF ClaimInv, ClaimHeld, Tame
<1>2. Live(s)
  BY DEF ClaimInv, WellFormed, Held, Live
<1>3. job[j] \in Rows /\ inv[s] \in Invocations
  BY <1>1 DEF TypeOK
<1>4. job[j].lease \in Nat /\ inv[s].age \in 0..MaxDuration
  BY <1>3, ConstantFacts DEF Rows, Invocations
<1> QED BY <1>1, <1>2, <1>4, ConstantFacts DEF Hosted, Owns, OwnedBy, Claimable

\* No two slots hold one tame job.
LEMMA HeldByOne ==
  ASSUME Hosted, TypeOK, ClaimInv, NEW s \in Slots, NEW t \in Slots,
         NEW j \in Tame, j \in Held(s), j \in Held(t)
  PROVE  s = t
<1>1. /\ Live(s) /\ Live(t)
      /\ job[j].owner = inv[s].wid /\ job[j].owner = inv[t].wid
  BY HeldIsProtected
<1> QED BY <1>1 DEF ClaimInv, UniqueWorkers

\* The frame of a step of one slot.
LEMMA ClaimHeldFrame ==
  ASSUME ClaimInv, NEW s \in Slots, OthersKept(s),
         \A j \in Held(s)' \cap Tame : Owns(s, j)'
  PROVE  ClaimHeld'
<1>1. ASSUME NEW t \in Slots \ {s}, NEW j \in Held(t)' \cap Tame PROVE Owns(t, j)'
  <2>1. inv'[t] = inv[t] /\ task'[t] = task[t]
    BY DEF OthersKept
  <2>2. Held(t)' = Held(t)
    BY <2>1 DEF Held
  <2>3. job'[j] = job[j] /\ Owns(t, j)
    BY <2>2 DEF OthersKept, ClaimInv, ClaimHeld
  <2> QED BY <2>1, <2>3 DEF Owns
<1> QED BY <1>1 DEF ClaimHeld, Tame

\* What a slot holds after a job is the rest of its batch.
LEMMA AfterJobFacts ==
  ASSUME TypeOK, NEW s \in Slots, NEW rest \in SUBSET Jobs, AfterJob(s, rest)
  PROVE  /\ Held(s)' = rest
         /\ \A t \in Slots \ {s} : inv'[t] = inv[t] /\ task'[t] = task[t]
         /\ rest # {} => /\ inv'[s].pc = "batch" /\ inv'[s].batch = rest
                         /\ inv'[s].wid = inv[s].wid /\ inv'[s].age = inv[s].age
         /\ rest = {} => inv'[s] = Idle
<1>1. inv[s] \in Invocations /\ inv \in [Slots -> Invocations] /\ task \in [Slots -> Tasks]
  BY DEF TypeOK
<1>2. /\ rest # {} => /\ inv'[s].pc = "batch" /\ inv'[s].batch = rest
                      /\ inv'[s].wid = inv[s].wid /\ inv'[s].age = inv[s].age
      /\ rest = {} => inv'[s] = Idle
      /\ \A t \in Slots \ {s} : inv'[t] = inv[t] /\ task'[t] = task[t]
  BY <1>1 DEF AfterJob, Invocations
<1>3. Held(s)' = rest
  BY <1>2 DEF Held, Idle, Invoked
<1> QED BY <1>2, <1>3

\* A new worker id is stored nowhere.
LEMMA FreshFacts ==
  ASSUME NEW w \in Workers, Fresh(w)
  PROVE  \A t \in Slots : inv[t].wid # w
BY DEF Fresh, Stored

\* The pieces of ClaimInv that do not speak of rows, after a slot goes on.
LEMMA AfterJobShape ==
  ASSUME TypeOK, ClaimInv, NEW s \in Slots, NEW rest \in SUBSET Jobs,
         AfterJob(s, rest), Live(s), closing' = closing
  PROVE  WellFormed' /\ UniqueWorkers'
<1>1. /\ \A t \in Slots \ {s} : inv'[t] = inv[t] /\ task'[t] = task[t]
      /\ rest # {} => inv'[s].pc = "batch" /\ inv'[s].wid = inv[s].wid
      /\ rest = {} => inv'[s] = Idle
  BY AfterJobFacts
<1>2. Live(s)' => inv'[s].pc = "batch" /\ inv'[s].wid = inv[s].wid
  BY <1>1 DEF Live, Idle, Invoked
<1>3. inv'[s].pc \in {"idle", "drain", "called", "retaking", "started"} => inv'[s].batch = {}
  BY <1>1 DEF Idle, Invoked
<1>4. WellFormed'
  <2>1. ASSUME NEW t \in Slots
        PROVE /\ Live(t)' => inv'[t].wid \in Workers
              /\ inv'[t].pc \in {"idle", "drain", "called", "retaking", "started"} => inv'[t].batch = {}
              /\ inv'[t].pc \in {"exec", "unsupported", "called", "retaking", "started"}
                   => task'[t].job \in Jobs \ inv'[t].batch
              /\ inv'[t].pc \in {"called", "retaking"} => task'[t].job \in RunNowUnlocked
              /\ inv'[t].pc = "exec" => task'[t].job \notin Unsupported
              /\ inv'[t].pc = "unsupported" => task'[t].job \in Unsupported
    <3>1. CASE t = s
      BY <1>1, <1>2, <1>3, <3>1 DEF ClaimInv, WellFormed, Live
    <3>2. CASE t # s
      BY <1>1, <3>2 DEF ClaimInv, WellFormed, Live
    <3> QED BY <3>1, <3>2
  <2> QED BY <2>1 DEF WellFormed, ClaimInv
<1>5. UniqueWorkers'
  BY <1>1, <1>2 DEF ClaimInv, UniqueWorkers, Live
<1> QED BY <1>4, <1>5
\* A slot that goes on after a job keeps all of ClaimInv.
LEMMA GoingOn ==
  ASSUME TypeOK, ClaimInv, NEW s \in Slots, NEW rest \in SUBSET Jobs,
         AfterJob(s, rest), Live(s), closing' = closing,
         \A t \in Slots \ {s} : \A j \in Held(t) \cap Tame : job'[j] = job[j],
         \A j \in rest \cap Tame : /\ OwnedBy(job'[j], inv[s].wid)
                                   /\ job'[j].lease + inv[s].age >= Lease
  PROVE  ClaimInv'
<1>1. WellFormed' /\ UniqueWorkers'
  BY AfterJobShape
<1>2. OthersKept(s)
  BY AfterJobFacts DEF OthersKept
<1>3. ASSUME NEW j \in Held(s)' \cap Tame PROVE Owns(s, j)'
  <2>1. j \in rest \cap Tame /\ rest # {}
    BY AfterJobFacts
  <2>2. inv'[s].pc = "batch" /\ inv'[s].wid = inv[s].wid /\ inv'[s].age = inv[s].age
    BY <2>1, AfterJobFacts
  <2> QED BY <2>1, <2>2 DEF Owns
<1>4. ClaimHeld'
  BY <1>2, <1>3, ClaimHeldFrame
<1> QED BY <1>1, <1>4 DEF ClaimInv

\* A slot that goes on after it wrote at most the row of its own task.
LEMMA OwnRowWritten ==
  ASSUME Hosted, TypeOK, ClaimInv, NEW s \in Slots,
         inv[s].pc \in {"exec", "unsupported"}, AfterJob(s, inv[s].batch),
         closing' = closing,
         \A j \in Jobs \ {task[s].job} : job'[j] = job[j]
  PROVE  ClaimInv'
<1>1. inv[s].batch \in SUBSET Jobs /\ Live(s)
  BY DEF TypeOK, Invocations, Live
<1>2. task[s].job \in Jobs \ inv[s].batch /\ task[s].job \in Held(s)
  BY DEF ClaimInv, WellFormed, Held
<1>3. ASSUME NEW t \in Slots \ {s}, NEW j \in Held(t) \cap Tame PROVE job'[j] = job[j]
  BY <1>2, HeldByOne DEF Tame
<1>4. ASSUME NEW j \in inv[s].batch \cap Tame
      PROVE OwnedBy(job'[j], inv[s].wid) /\ job'[j].lease + inv[s].age >= Lease
  <2>1. j \in Held(s) /\ job'[j] = job[j]
    BY <1>1, <1>2 DEF Held
  <2> QED BY <2>1 DEF ClaimInv, ClaimHeld, Owns
<1> QED BY <1>1, <1>3, <1>4, GoingOn

\* A step that moves no slot and writes no tame row that is held.
LEMMA NoSlotMoves ==
  ASSUME ClaimInv, UNCHANGED <<inv, task>>, closing' \subseteq Closable,
         \A t \in Slots : \A j \in Held(t) \cap Tame : job'[j] = job[j]
  PROVE  ClaimInv'
<1>1. WellFormed' /\ UniqueWorkers'
  BY DEF ClaimInv, WellFormed, UniqueWorkers, Live
<1>2. ASSUME NEW t \in Slots, NEW j \in Held(t)' \cap Tame PROVE Owns(t, j)'
  <2>1. j \in Held(t) \cap Tame
    BY DEF Held
  <2> QED BY <2>1 DEF ClaimInv, ClaimHeld, Owns
<1>3. ClaimHeld'
  BY <1>2 DEF ClaimHeld, Tame
<1> QED BY <1>1, <1>3 DEF ClaimInv

\* A new request keeps ClaimInv if it owns the tame job it has taken.
LEMMA RequestKeeps ==
  ASSUME TypeOK, ClaimInv, NEW s \in Slots, NEW j \in Jobs, NEW w \in Workers,
         NEW pc \in {"called", "retaking", "started"}, Request(s, j, w, pc),
         pc # "started" => j \in RunNowUnlocked,
         \A t \in Slots \ {s} : \A k \in Held(t) \cap Tame : job'[k] = job[k],
         \A k \in Held(s)' \cap Tame : Owns(s, k)'
  PROVE  ClaimInv'
<1>1. /\ inv'[s] = Invoked(pc, w) /\ task'[s] = TaskOf(j, NoWorker, 0)
      /\ \A t \in Slots \ {s} : inv'[t] = inv[t] /\ task'[t] = task[t]
      /\ closing' = closing /\ Fresh(w)
  BY DEF Request, TypeOK
<1>2. WellFormed'
  BY <1>1 DEF ClaimInv, WellFormed, Invoked, TaskOf, Live
<1>3. UniqueWorkers'
  BY <1>1, FreshFacts DEF ClaimInv, UniqueWorkers, Invoked, Live
<1>4. OthersKept(s)
  BY <1>1 DEF OthersKept
<1>5. ClaimHeld'
  BY <1>4, ClaimHeldFrame
<1> QED BY <1>2, <1>3, <1>5 DEF ClaimInv

\* Every step keeps ClaimInv: one step of the proof per action.
LEMMA ClaimStep ==
  ASSUME Hosted, TypeOK, ClaimInv, [Next]_vars
  PROVE  ClaimInv'
<1>0. /\ \A j \in Jobs : job[j] \in Rows
      /\ \A s \in Slots : /\ inv[s] \in Invocations /\ inv[s].batch \in SUBSET Jobs
                          /\ inv[s].age \in 0..MaxDuration
      /\ closing \subseteq Closable
  BY DEF TypeOK, Invocations, ClaimInv, WellFormed
<1>1. ASSUME NEW j \in Jobs, Enqueue(j) PROVE ClaimInv'
  <2>1. \A k \in Jobs : k # j => job'[k] = job[k]
    BY <1>1 DEF Enqueue, TypeOK
  <2>2. \A t \in Slots : \A k \in Held(t) \cap Tame : k # j
    BY <1>1, HeldIsProtected DEF Enqueue
  <2> QED BY <1>0, <1>1, <2>1, <2>2, HeldIsProtected, NoSlotMoves DEF Enqueue
<1>2. ASSUME NEW s \in Slots, StartDrain(s) PROVE ClaimInv'
  <2>1. PICK w \in Workers : Fresh(w) /\ inv' = [inv EXCEPT ![s] = Invoked("drain", w)]
    BY <1>2 DEF StartDrain
  <2>2. /\ inv'[s] = Invoked("drain", w)
        /\ \A t \in Slots \ {s} : inv'[t] = inv[t]
        /\ task' = task /\ job' = job /\ closing' = closing
    BY <1>2, <2>1 DEF StartDrain, TypeOK
  <2>3. WellFormed'
    BY <2>2 DEF ClaimInv, WellFormed, Invoked, Live
  <2>4. UniqueWorkers'
    BY <2>1, <2>2, FreshFacts DEF ClaimInv, UniqueWorkers, Invoked, Live
  <2>5. OthersKept(s) /\ Held(s)' = {}
    BY <2>2 DEF OthersKept, Held, Invoked
  <2>6. ClaimHeld'
    BY <2>5, ClaimHeldFrame
  <2> QED BY <2>3, <2>4, <2>6 DEF ClaimInv
<1>3. ASSUME NEW s \in Slots, Claim(s) PROVE ClaimInv'
  <2>1. PICK batch \in SUBSET ClaimableJobs :
          /\ job' = [j \in Jobs |-> IF j \in batch THEN Taken(job[j], inv[s].wid)
                                                    ELSE job[j]]
          /\ AfterJob(s, batch)
    BY <1>3 DEF Claim
  <2>2. batch \in SUBSET Jobs /\ \A j \in batch : Claimable(job[j])
    BY DEF ClaimableJobs
  <2>3. Live(s) /\ closing' = closing
    BY <1>3 DEF Claim, Live
  <2>4. ASSUME NEW t \in Slots \ {s}, NEW j \in Held(t) \cap Tame PROVE job'[j] = job[j]
    BY <2>1, <2>2, HeldIsProtected
  <2>5. ASSUME NEW j \in batch \cap Tame
        PROVE OwnedBy(job'[j], inv[s].wid) /\ job'[j].lease + inv[s].age >= Lease
    <3>1. job'[j] = Taken(job[j], inv[s].wid)
      BY <2>1, <2>2
    <3> QED BY <1>0, <3>1, ConstantFacts DEF Taken, OwnedBy
  <2> QED BY <2>1, <2>2, <2>3, <2>4, <2>5, GoingOn
<1>4. ASSUME NEW s \in Slots, NEW j \in Jobs, Begin(s, j) PROVE ClaimInv'
  <2> DEFINE rest == inv[s].batch \ {j}
  <2>0. /\ rest \in SUBSET Jobs /\ rest \subseteq Held(s)
        /\ Live(s) /\ job' = job /\ closing' = closing /\ j \in Held(s)
    BY <1>0, <1>4 DEF Begin, NextJob, Live, Held
  <2>1. CASE AfterJob(s, rest)
    <3>1. \A k \in rest \cap Tame : OwnedBy(job'[k], inv[s].wid)
                                    /\ job'[k].lease + inv[s].age >= Lease
      BY <2>0 DEF ClaimInv, ClaimHeld, Owns
    <3> QED BY <2>0, <2>1, <3>1, GoingOn
  <2>2. ASSUME NEW pc \in {"exec", "unsupported"},
               pc = "exec" <=> j \notin Unsupported,
               inv' = [inv EXCEPT ![s] = [@ EXCEPT !.pc = pc, !.batch = rest]],
               task' = [task EXCEPT ![s] = TaskOf(j, job[j].owner, job[j].retries)]
        PROVE ClaimInv'
    <3>1. /\ inv'[s].pc = pc /\ inv'[s].batch = rest
          /\ inv'[s].wid = inv[s].wid /\ inv'[s].age = inv[s].age
          /\ task'[s] = TaskOf(j, job[j].owner, job[j].retries)
          /\ \A t \in Slots \ {s} : inv'[t] = inv[t] /\ task'[t] = task[t]
      BY <2>2 DEF TypeOK, Invocations
    <3>2. WellFormed'
      <4>1. /\ Live(s)' => inv'[s].wid \in Workers
            /\ task'[s].job = j /\ j \in Jobs \ inv'[s].batch
        BY <2>0, <3>1 DEF TaskOf, ClaimInv, WellFormed
      <4> QED BY <2>0, <2>2, <3>1, <4>1 DEF ClaimInv, WellFormed, Live
    <3>3. UniqueWorkers'
      BY <2>0, <3>1 DEF ClaimInv, UniqueWorkers, Live
    <3>4. OthersKept(s)
      BY <2>0, <3>1 DEF OthersKept
    <3>5. ASSUME NEW k \in Held(s)' \cap Tame PROVE Owns(s, k)'
      <4>1. k \in Held(s) \cap Tame
        BY <2>0, <3>1 DEF Held, TaskOf
      <4>2. Owns(s, k)
        BY <4>1 DEF ClaimInv, ClaimHeld
      <4>3. k = j => task'[s].token = inv[s].wid /\ task'[s].seen = job[k].retries
        BY <3>1, <4>2 DEF TaskOf, Owns, OwnedBy
      <4>4. task'[s].job = j
        BY <3>1 DEF TaskOf
      <4> QED BY <2>0, <3>1, <4>2, <4>3, <4>4 DEF Owns
    <3>6. ClaimHeld'
      BY <3>4, <3>5, ClaimHeldFrame
    <3> QED BY <3>2, <3>3, <3>6 DEF ClaimInv
  <2> QED BY <1>4, <2>1, <2>2 DEF Begin
<1>5. ASSUME NEW s \in Slots, FailUnsupported(s) PROVE ClaimInv'
  BY <1>5, OwnRowWritten DEF FailUnsupported, TypeOK
<1>6. ASSUME NEW s \in Slots, HandlerOk(s) PROVE ClaimInv'
  BY <1>6, OwnRowWritten DEF HandlerOk, IfStillOwned, TypeOK
<1>7. ASSUME NEW s \in Slots, HandlerFail(s) PROVE ClaimInv'
  BY <1>7, OwnRowWritten DEF HandlerFail, IfStillOwned, TypeOK
<1>8. ASSUME NEW s \in Slots, ReleaseScan(s) PROVE ClaimInv'
  <2> DEFINE owned == {j \in inv[s].batch : OwnedBy(job[j], inv[s].wid)}
  <2>0. /\ \A t \in Slots \ {s} : inv'[t] = inv[t]
        /\ task' = task /\ job' = job /\ closing' = closing
        /\ owned = {} => inv'[s] = Idle
        /\ owned # {} => inv'[s] = [inv[s] EXCEPT !.pc = "release", !.batch = owned]
    BY <1>8 DEF ReleaseScan, TypeOK
  <2>1. Live(s)' => /\ inv'[s].pc = "release" /\ inv'[s].batch = owned
                    /\ inv'[s].wid = inv[s].wid /\ inv'[s].age = inv[s].age
    <3>1. owned # {} => /\ inv'[s].pc = "release" /\ inv'[s].batch = owned
                        /\ inv'[s].wid = inv[s].wid /\ inv'[s].age = inv[s].age
      BY <1>0, <2>0 DEF Invocations
    <3>2. owned = {} => inv'[s].pc = "idle"
      BY <2>0 DEF Idle, Invoked
    <3> QED BY <3>1, <3>2 DEF Live
  <2>2. ~Live(s)' => inv'[s] = Idle
    BY <1>0, <2>0 DEF Live, Invocations
  <2>3. Live(s)
    BY <1>8 DEF ReleaseScan, Live
  <2>4. WellFormed'
    BY <2>0, <2>1, <2>2, <2>3 DEF ClaimInv, WellFormed, Live, Idle, Invoked
  <2>5. UniqueWorkers'
    BY <2>0, <2>1, <2>3 DEF ClaimInv, UniqueWorkers, Live
  <2>6. OthersKept(s)
    BY <2>0 DEF OthersKept
  <2>7. ASSUME NEW k \in Held(s)' \cap Tame PROVE Owns(s, k)'
    <3>1. Live(s)' /\ k \in Held(s) \cap Tame
      BY <2>1, <2>2 DEF Held, Idle, Invoked, Live
    <3> QED BY <2>0, <2>1, <3>1 DEF ClaimInv, ClaimHeld, Owns
  <2> QED BY <2>4, <2>5, <2>6, <2>7, ClaimHeldFrame DEF ClaimInv
<1>9. ASSUME NEW s \in Slots, ReleaseWrite(s) PROVE ClaimInv'
  <2>1. /\ inv'[s] = Idle /\ \A t \in Slots \ {s} : inv'[t] = inv[t]
        /\ task' = task /\ closing' = closing
        /\ \A j \in Jobs \ inv[s].batch : job'[j] = job[j]
    BY <1>9 DEF ReleaseWrite, TypeOK
  <2>2. WellFormed' /\ UniqueWorkers'
    BY <2>1 DEF ClaimInv, WellFormed, UniqueWorkers, Live, Idle, Invoked
  <2>3. ASSUME NEW t \in Slots \ {s}, NEW j \in Held(t) \cap Tame PROVE job'[j] = job[j]
    <3>1. j \notin inv[s].batch
      BY HeldByOne DEF Held, Tame
    <3> QED BY <2>1, <3>1 DEF Tame
  <2>4. OthersKept(s) /\ Held(s)' = {}
    BY <2>1, <2>3 DEF OthersKept, Held, Idle, Invoked
  <2> QED BY <2>2, <2>4, ClaimHeldFrame DEF ClaimInv
<1>10. ASSUME NEW s \in Slots, NEW j \in Jobs, RunNowRead(s, j) PROVE ClaimInv'
  <2>1. PICK w \in Workers, pc \in {"called", "retaking"} : Request(s, j, w, pc)
    BY <1>10 DEF RunNowRead
  <2>2. j \in RunNowUnlocked /\ \A k \in Jobs \ {j} : job'[k] = job[k]
    BY <1>10 DEF RunNowRead, TypeOK
  <2>3. \A t \in Slots \ {s} : \A k \in Held(t) \cap Tame : job'[k] = job[k]
    BY <2>2 DEF Tame
  <2>4. Held(s)' \cap Tame = {}
    BY <2>1 DEF Request, Held, Invoked, TypeOK
  <2> QED BY <2>1, <2>2, <2>3, <2>4, RequestKeeps
<1>11. ASSUME NEW s \in Slots, RunNowStart(s) PROVE ClaimInv'
  <2>1. /\ inv[s].pc \in {"called", "retaking"} /\ inv'[s] = [inv[s] EXCEPT !.pc = "started"]
        /\ \A t \in Slots \ {s} : inv'[t] = inv[t]
        /\ task' = task /\ closing' = closing
        /\ \A j \in Jobs \ {task[s].job} : job'[j] = job[j]
    BY <1>11 DEF RunNowStart, TypeOK
  <2>2. /\ inv'[s].pc = "started" /\ inv'[s].batch = inv[s].batch
        /\ inv'[s].wid = inv[s].wid
    BY <1>0, <2>1 DEF Invocations
  <2>3. task[s].job \in RunNowUnlocked /\ inv[s].batch = {} /\ Live(s)
    BY <2>1 DEF ClaimInv, WellFormed, Live
  <2>4. WellFormed'
    BY <2>1, <2>2, <2>3 DEF ClaimInv, WellFormed, Live
  <2>5. UniqueWorkers'
    <3>1. \A t \in Slots : Live(t)' => Live(t) /\ inv'[t].wid = inv[t].wid
      BY <2>1, <2>2, <2>3 DEF Live
    <3> QED BY <3>1 DEF ClaimInv, UniqueWorkers
  <2>6. OthersKept(s) /\ Held(s)' \cap Tame = {}
    BY <2>1, <2>2, <2>3 DEF OthersKept, Held, Tame
  <2> QED BY <2>4, <2>5, <2>6, ClaimHeldFrame DEF ClaimInv
<1>12. ASSUME NEW s \in Slots, NEW j \in Jobs, RunNowUnderLock(s, j) PROVE ClaimInv'
  <2>1. PICK w \in Workers :
          Request(s, j, w, "started") /\ job' = [job EXCEPT ![j] = Taken(@, w)]
    BY <1>12 DEF RunNowUnderLock
  <2>2. \A k \in Jobs \ {j} : job'[k] = job[k]
    BY <2>1 DEF TypeOK
  <2>3. \A t \in Slots : \A k \in Held(t) \cap Tame : k # j
    BY <1>12, HeldIsProtected, JobKindsAssumption DEF RunNowUnderLock, MayRunNow
  <2>4. \A t \in Slots \ {s} : \A k \in Held(t) \cap Tame : job'[k] = job[k]
    BY <2>2, <2>3 DEF Tame
  <2>5. /\ inv'[s] = Invoked("started", w) /\ task'[s] = TaskOf(j, NoWorker, 0)
        /\ job'[j] = Taken(job[j], w)
    BY <2>1 DEF Request, TypeOK
  <2>6. ASSUME NEW k \in Held(s)' \cap Tame PROVE Owns(s, k)'
    <3>1. k = j
      BY <2>5 DEF Held, Invoked, TaskOf
    <3> QED BY <2>5, <3>1, ConstantFacts DEF Owns, OwnedBy, Taken, Invoked
  <2> QED BY <2>1, <2>4, <2>6, RequestKeeps
<1>13. ASSUME NEW s \in Slots, Crash(s) PROVE ClaimInv'
  <2>1. /\ inv'[s] = Idle /\ \A t \in Slots \ {s} : inv'[t] = inv[t] /\ task'[t] = task[t]
        /\ job' = job /\ closing' = closing
    BY <1>13 DEF Crash, TypeOK
  <2>2. WellFormed' /\ UniqueWorkers'
    BY <2>1 DEF ClaimInv, WellFormed, UniqueWorkers, Live, Idle, Invoked
  <2>3. OthersKept(s) /\ Held(s)' = {}
    BY <2>1 DEF OthersKept, Held, Idle, Invoked
  <2> QED BY <2>2, <2>3, ClaimHeldFrame DEF ClaimInv
<1>14. ASSUME NEW j \in Jobs, CancelQueued(j) PROVE ClaimInv'
  <2>1. \A k \in Jobs : k # j => job'[k] = job[k]
    BY <1>14 DEF CancelQueued, TypeOK
  <2>2. \A t \in Slots : \A k \in Held(t) \cap Tame : k # j
    BY <1>14, HeldIsProtected DEF CancelQueued
  <2> QED BY <1>0, <1>14, <2>1, <2>2, HeldIsProtected, NoSlotMoves DEF CancelQueued
<1>15. CASE ClosureRead
  BY <1>15, NoSlotMoves DEF ClosureRead
<1>16. CASE ClosureWrite
  <2>1. \A j \in Jobs \ Closable : job'[j] = job[j]
    BY <1>0, <1>16 DEF ClosureWrite
  <2> QED BY <1>16, <2>1, NoSlotMoves DEF ClosureWrite, Tame
<1>17. CASE Tick
  <2>1. ASSUME NEW s \in Slots
        PROVE /\ inv'[s].pc = inv[s].pc /\ inv'[s].wid = inv[s].wid
              /\ inv'[s].batch = inv[s].batch
              /\ Live(s) => inv'[s].age = inv[s].age + 1
    BY <1>0, <1>17 DEF Tick, Invocations
  <2>2. task' = task /\ closing' = closing
    BY <1>17 DEF Tick
  <2>3. WellFormed' /\ UniqueWorkers'
    BY <2>1, <2>2 DEF ClaimInv, WellFormed, UniqueWorkers, Live
  <2>4. ASSUME NEW s \in Slots, NEW j \in Held(s)' \cap Tame PROVE Owns(s, j)'
    <3>1. j \in Held(s) \cap Tame
      BY <2>1, <2>2 DEF Held
    <3>2. Owns(s, j) /\ j \in Jobs /\ Live(s) /\ job[j].lease > 0
      BY <3>1, HeldIsProtected DEF ClaimInv, ClaimHeld
    <3>3. /\ job'[j].status = job[j].status /\ job'[j].owner = job[j].owner
          /\ job'[j].retries = job[j].retries /\ job'[j].lease = job[j].lease - 1
      BY <1>0, <1>17, <3>2 DEF Tick, Aged, Lowered, Rows
    <3>4. job[j].lease \in Nat /\ inv[s].age \in Nat
      BY <1>0, <3>2, ConstantFacts DEF Rows
    <3> QED BY <2>1, <2>2, <3>2, <3>3, <3>4, ConstantFacts DEF Owns, OwnedBy
  <2>5. ClaimHeld'
    BY <2>4 DEF ClaimHeld, Tame
  <2> QED BY <2>3, <2>5 DEF ClaimInv
<1>18. CASE UNCHANGED vars
  <2>1. closing' \subseteq Closable /\ job' = job
    BY <1>0, <1>18 DEF vars
  <2> QED BY <1>18, <2>1, NoSlotMoves DEF vars
<1> QED BY <1>1, <1>2, <1>3, <1>4, <1>5, <1>6, <1>7, <1>8, <1>9, <1>10, <1>11,
           <1>12, <1>13, <1>14, <1>15, <1>16, <1>17, <1>18 DEF Next, SlotStep

\* A live worker never loses its claim: the row of every job it acts on stays
\* running under its own worker id, with the token and the retry count it read,
\* until the worker itself ends the claim.  (complete_job and record_job_failure
\* with expected_worker_id, claim_jobs with its lease filter.)
THEOREM ClaimsAreHeld == Hosted => (Spec => []ClaimInv)
<1> SUFFICES ASSUME Hosted PROVE Spec => []ClaimInv
  OBVIOUS
<1>1. Init => ClaimInv
  BY DEF Init, ClaimInv, WellFormed, UniqueWorkers, ClaimHeld, Held, Live, Idle, Invoked
<1>2. TypeOK /\ ClaimInv /\ [Next]_vars => ClaimInv'
  BY ClaimStep
<1> QED BY <1>1, <1>2, TypeCorrect, PTL DEF Spec

\* The handler of a job never runs in two invocations at the same time.
THEOREM HandlersExclude == Hosted => (Spec => []OneHandlerAtATime)
<1> SUFFICES ASSUME Hosted PROVE Spec => []OneHandlerAtATime
  OBVIOUS
<1>1. TypeOK /\ ClaimInv => OneHandlerAtATime
  <2> SUFFICES ASSUME TypeOK, ClaimInv, NEW s \in Slots, NEW t \in Slots,
                      NEW j \in Tame, Executing(s, j), Executing(t, j)
               PROVE  s = t
    BY DEF OneHandlerAtATime
  <2>1. j \in Held(s) /\ j \in Held(t)
    BY DEF Executing, Held
  <2> QED BY <2>1, HeldByOne
<1>2. Spec => []ClaimInv
  BY ClaimsAreHeld
<1> QED BY <1>1, <1>2, TypeCorrect, PTL
-------------------------------------------------------------------------------
(***************************************************************************)
(* What a step can do to the row of a tame job.  Everything else about     *)
(* single rows follows from this list.                                     *)
(***************************************************************************)
RowStep(j) ==
  \/ job'[j] = job[j]
  \/ job'[j] = Aged(job[j])
  \/ job[j].status = "absent" /\ job'[j] = Created
  \/ /\ job[j].status \in {"queued", "running", "failed", "cancelled"}
     /\ \E w \in Workers : job'[j] = Taken(job[j], w)
  \/ job[j].status = "queued" /\ job'[j] = Cancelled(job[j])
  \/ /\ job[j].status = "running"
     /\ \/ job'[j] = Completed(job[j])
        \/ job'[j] = Released(job[j])
        \/ j \notin Unsupported /\ job'[j] = FailureRecorded(job[j], MaxRetries[j])
        \/ j \in Unsupported /\ job'[j] = Failed(job[j], job[j].retries)

\* A tame row is only ever written as RowStep says.
LEMMA TameRowSteps ==
  ASSUME Hosted, TypeOK, ClaimInv, [Next]_vars, NEW j \in Tame
  PROVE  RowStep(j)
<1>0. /\ j \in Jobs /\ j \notin RunNowUnlocked /\ j \notin Closable
      /\ job \in [Jobs -> Rows] /\ inv \in [Slots -> Invocations]
      /\ closing \subseteq Closable
  BY DEF Tame, TypeOK, ClaimInv, WellFormed
<1>1. ASSUME NEW k \in Jobs, Enqueue(k) PROVE RowStep(j)
  BY <1>0, <1>1 DEF Enqueue, RowStep
<1>2. ASSUME NEW s \in Slots, StartDrain(s) PROVE RowStep(j)
  BY <1>2 DEF StartDrain, RowStep
<1>3. ASSUME NEW s \in Slots, Claim(s) PROVE RowStep(j)
  <2>1. PICK batch \in SUBSET ClaimableJobs :
          job' = [k \in Jobs |-> IF k \in batch THEN Taken(job[k], inv[s].wid) ELSE job[k]]
    BY <1>3 DEF Claim
  <2>2. inv[s].wid \in Workers
    BY <1>3 DEF Claim, ClaimInv, WellFormed, Live
  <2>3. j \in batch => job[j].status \in {"queued", "running"}
    BY DEF ClaimableJobs, Claimable
  <2> QED BY <1>0, <2>1, <2>2, <2>3 DEF RowStep
<1>4. ASSUME NEW s \in Slots, NEW k \in Jobs, Begin(s, k) PROVE RowStep(j)
  BY <1>4 DEF Begin, RowStep
<1>5. ASSUME NEW s \in Slots, FailUnsupported(s) PROVE RowStep(j)
  <2>1. CASE task[s].job = j
    <3>1. j \in Held(s) /\ j \in Unsupported /\ Owns(s, j)
      BY <1>5, <2>1 DEF FailUnsupported, Held, ClaimInv, WellFormed, ClaimHeld
    <3>2. task[s].seen = job[j].retries /\ job[j].status = "running"
      BY <1>5, <2>1, <3>1 DEF FailUnsupported, Owns, OwnedBy
    <3> QED BY <1>0, <1>5, <2>1, <3>1, <3>2 DEF FailUnsupported, RowStep
  <2>2. CASE task[s].job # j
    BY <1>0, <1>5, <2>2 DEF FailUnsupported, RowStep
  <2> QED BY <2>1, <2>2
<1>6. ASSUME NEW s \in Slots, HandlerOk(s) PROVE RowStep(j)
  BY <1>0, <1>6 DEF HandlerOk, IfStillOwned, OwnedBy, RowStep
<1>7. ASSUME NEW s \in Slots, HandlerFail(s) PROVE RowStep(j)
  <2>1. inv[s].pc = "exec" /\ task[s].job \notin Unsupported
    BY <1>7 DEF HandlerFail, ClaimInv, WellFormed
  <2> QED BY <1>0, <1>7, <2>1 DEF HandlerFail, IfStillOwned, OwnedBy, RowStep
<1>8. ASSUME NEW s \in Slots, ReleaseScan(s) PROVE RowStep(j)
  BY <1>8 DEF ReleaseScan, RowStep
<1>9. ASSUME NEW s \in Slots, ReleaseWrite(s) PROVE RowStep(j)
  <2>1. j \in inv[s].batch => job[j].status = "running"
    BY HeldIsProtected DEF Held
  <2> QED BY <1>0, <1>9, <2>1 DEF ReleaseWrite, RowStep
<1>10. ASSUME NEW s \in Slots, NEW k \in Jobs, RunNowRead(s, k) PROVE RowStep(j)
  BY <1>0, <1>10 DEF RunNowRead, RowStep
<1>11. ASSUME NEW s \in Slots, RunNowStart(s) PROVE RowStep(j)
  <2>1. task[s].job # j
    BY <1>0, <1>11 DEF RunNowStart, ClaimInv, WellFormed
  <2> QED BY <1>0, <1>11, <2>1 DEF RunNowStart, RowStep
<1>12. ASSUME NEW s \in Slots, NEW k \in Jobs, RunNowUnderLock(s, k) PROVE RowStep(j)
  <2>1. PICK w \in Workers : job' = [job EXCEPT ![k] = Taken(@, w)]
    BY <1>12 DEF RunNowUnderLock
  <2>2. k = j => job[j].status \in {"queued", "failed", "cancelled"}
    BY <1>0, <1>12, JobKindsAssumption DEF RunNowUnderLock, MayRunNow
  <2> QED BY <1>0, <2>1, <2>2 DEF RowStep
<1>13. ASSUME NEW s \in Slots, Crash(s) PROVE RowStep(j)
  BY <1>13 DEF Crash, RowStep
<1>14. ASSUME NEW k \in Jobs, CancelQueued(k) PROVE RowStep(j)
  BY <1>0, <1>14 DEF CancelQueued, RowStep
<1>15. CASE ClosureRead
  BY <1>15 DEF ClosureRead, RowStep
<1>16. CASE ClosureWrite
  BY <1>0, <1>16 DEF ClosureWrite, RowStep
<1>17. CASE Tick
  BY <1>0, <1>17 DEF Tick, RowStep
<1>18. CASE UNCHANGED vars
  BY <1>18 DEF vars, RowStep
<1> QED BY <1>1, <1>2, <1>3, <1>4, <1>5, <1>6, <1>7, <1>8, <1>9, <1>10, <1>11,
           <1>12, <1>13, <1>14, <1>15, <1>16, <1>17, <1>18 DEF Next, SlotStep

\* A completed or dead-lettered job keeps its status for good, against stale
\* workers, late releases, locked run-nows and cancellations.
THEOREM SettledForGood == Hosted => (Spec => SettledIsFinal)
<1> SUFFICES ASSUME Hosted PROVE Spec => SettledIsFinal
  OBVIOUS
<1>1. TypeOK /\ ClaimInv /\ [Next]_vars =>
        [\A j \in Tame : Settled(j) => job'[j].status = job[j].status]_vars
  <2> SUFFICES ASSUME TypeOK, ClaimInv, [Next]_vars, NEW j \in Tame, Settled(j)
               PROVE  job'[j].status = job[j].status
    OBVIOUS
  <2>1. RowStep(j) /\ job[j] \in Rows
    BY TameRowSteps DEF TypeOK, Tame
  <2> QED BY <2>1 DEF RowStep, Settled, Aged, Rows
<1>2. Spec => []ClaimInv
  BY ClaimsAreHeld
<1> QED BY <1>1, <1>2, TypeCorrect, PTL DEF Spec, SettledIsFinal

\* Failures are counted exactly: the dead letter comes with failure number
\* max_retries + 1, not before and not after.
THEOREM RetriesAreBudgeted == Hosted => (Spec => []RetryBudget)
<1> SUFFICES ASSUME Hosted PROVE Spec => []RetryBudget
  OBVIOUS
<1>1. Init => RetryBudget
  BY ConstantFacts DEF Init, RetryBudget, Tame, AbsentRow, Freed
<1>2. TypeOK /\ ClaimInv /\ RetryBudget /\ [Next]_vars => RetryBudget'
  <2> SUFFICES ASSUME TypeOK, ClaimInv, RetryBudget, [Next]_vars,
                      NEW j \in Tame \ Unsupported
               PROVE  IF job'[j].status = "dead_letter"
                      THEN job'[j].retries = MaxRetries[j] + 1
                      ELSE job'[j].retries <= MaxRetries[j]
    BY DEF RetryBudget, Tame
  <2>1. RowStep(j) /\ job[j] \in Rows /\ MaxRetries[j] \in Nat
    BY TameRowSteps, ConstantFacts DEF TypeOK, Tame
  <2>2. IF job[j].status = "dead_letter" THEN job[j].retries = MaxRetries[j] + 1
                                         ELSE job[j].retries <= MaxRetries[j]
    BY DEF RetryBudget
  <2>3. job[j].retries \in Nat /\ job[j].status \in Statuses
    BY <2>1 DEF Rows
  <2>4. CASE job'[j] = Aged(job[j])
    BY <2>1, <2>2, <2>4 DEF Aged, Rows
  <2>5. CASE job'[j] = FailureRecorded(job[j], MaxRetries[j]) /\ job[j].status = "running"
    BY <2>1, <2>2, <2>3, <2>5 DEF FailureRecorded, Freed
  <2>6. CASE job[j].status = "absent" /\ job'[j] = Created
    BY <2>1, <2>6 DEF Created, Freed
  <2>7. CASE /\ job[j].status # "dead_letter"
             /\ \/ \E w \in Workers : job'[j] = Taken(job[j], w)
                \/ job'[j] = Cancelled(job[j])
                \/ job'[j] = Completed(job[j])
                \/ job'[j] = Released(job[j])
    <3>1. \A w : Taken(job[j], w).retries = job[j].retries
                 /\ Taken(job[j], w).status = "running"
      BY DEF Taken
    <3>2. /\ Cancelled(job[j]).retries = job[j].retries
          /\ Completed(job[j]).retries = job[j].retries
          /\ Released(job[j]).retries = job[j].retries
          /\ Cancelled(job[j]).status = "cancelled"
          /\ Completed(job[j]).status = "completed"
          /\ Released(job[j]).status = "queued"
      BY DEF Cancelled, Completed, Released, Freed
    <3>3. job'[j].retries = job[j].retries /\ job'[j].status # "dead_letter"
      BY <2>7, <3>1, <3>2
    <3> QED BY <2>2, <2>7, <3>3
  <2>8. CASE job'[j] = job[j]
    BY <2>2, <2>8
  <2> QED BY <2>1, <2>4, <2>5, <2>6, <2>7, <2>8 DEF RowStep
<1>3. Spec => []ClaimInv
  BY ClaimsAreHeld
<1> QED BY <1>1, <1>2, <1>3, TypeCorrect, PTL DEF Spec
==============================================================================
