------------------------- MODULE ReviewReplies_proofs -------------------------
(***************************************************************************)
(* Theorems about one review reply, for any number of workers, retries,    *)
(* control requests, kills and changes from outside.                       *)
(***************************************************************************)
EXTENDS ReviewReplies, FiniteSetTheorems, TLAPS

\* Every write into the state of a worker keeps its type.
LEMMA WorkerTypes ==
  /\ Idle \in WorkerStates
  /\ \A ws \in WorkerStates, pc \in Pcs, b \in BOOLEAN, a \in AccessStatuses :
       /\ [ws EXCEPT !.pc = pc] \in WorkerStates
       /\ [ws EXCEPT !.pc = pc, !.locked = b] \in WorkerStates
       /\ [ws EXCEPT !.pc = pc, !.seen = a] \in WorkerStates
  /\ \A t \in Workers \cup {NoWorker} :
       [Idle EXCEPT !.pc = "begun", !.token = t] \in WorkerStates
<1>1. Idle \in WorkerStates /\ "begun" \in Pcs
  BY DEF Idle, WorkerStates, Pcs, AccessStatuses
<1> QED BY <1>1 DEF WorkerStates

\* The fields of a worker that has nothing or has just begun.
LEMMA IdleFields ==
  /\ Idle.pc = "idle"
  /\ \A t : /\ [Idle EXCEPT !.pc = "begun", !.token = t].pc = "begun"
            /\ [Idle EXCEPT !.pc = "begun", !.token = t].token = t
<1>1. Idle \in WorkerStates
  BY WorkerTypes
<1>2. Idle.pc = "idle"
  BY DEF Idle
<1> QED BY <1>1, <1>2 DEF WorkerStates

SyncStep == SyncFetches \/ SyncWrites \/ SyncFails

\* Rows, workers and requests keep their types in every step.
LEMMA TypeStep ==
  ASSUME TypeOK, [Next]_vars
  PROVE  TypeOK'
<1>0. /\ worker \in [Workers -> WorkerStates] /\ job \in Jobs
      /\ job.owner \in Workers \cup {NoWorker} /\ job.retries \in Nat
      /\ job.status \in JobStatuses /\ job.due \in {"now", "in_ten_years"}
      /\ \A w \in Workers : worker[w].pc \in Pcs /\ worker[w].token \in Workers \cup {NoWorker}
      /\ access \in AccessStatuses /\ request \in Requests
      /\ request.job \in JobStatuses
  BY DEF TypeOK, Jobs, WorkerStates, Requests
<1>1. \A st \in JobStatuses, o \in Workers \cup {NoWorker},
         d \in {"now", "in_ten_years"}, n \in Nat : JobRow(st, o, d, n) \in Jobs
  BY DEF JobRow, Jobs
<1>2. ASSUME NEW st \in JobStatuses, NEW o \in Workers, NEW d \in {"now", "in_ten_years"}
      PROVE  /\ [job EXCEPT !.status = st, !.owner = o] \in Jobs
             /\ [job EXCEPT !.status = st, !.due = d] \in Jobs
             /\ [job EXCEPT !.status = st] \in Jobs
  BY <1>0 DEF Jobs
<1>3. CASE Queue
  BY <1>0, <1>1, <1>3 DEF Queue, TypeOK, RowStatuses, JobStatuses, outside, bounds
<1>4. ASSUME NEW w \in Workers, Claim(w) PROVE TypeOK'
  <2>1. worker' \in [Workers -> WorkerStates]
    BY <1>0, <1>4, WorkerTypes DEF Claim, Pcs
  <2>2. job' \in Jobs
    <3>1. "running" \in JobStatuses
      BY DEF JobStatuses
    <3>2. [job EXCEPT !.status = "running", !.owner = w] \in Jobs
      BY <1>0, <3>1 DEF Jobs
    <3> QED BY <1>4, <3>2 DEF Claim
  <2> QED BY <1>4, <2>1, <2>2 DEF Claim, TypeOK, outside, bounds
<1>5. ASSUME NEW w \in Workers, Begin(w) PROVE TypeOK'
  <2>1. worker' \in [Workers -> WorkerStates]
    BY <1>0, <1>5, WorkerTypes DEF Begin
  <2> QED BY <1>5, <2>1 DEF Begin, TypeOK, rows, outside, bounds
<1>6. ASSUME NEW w \in Workers, Check(w) PROVE TypeOK'
  <2>1. worker' \in [Workers -> WorkerStates]
    <3>1. PICK pc \in Pcs :
            worker' = [worker EXCEPT ![w].pc = pc, ![w].seen = access]
      BY <1>6 DEF Check, Pcs
    <3> QED BY <1>0, <3>1, WorkerTypes
  <2> QED BY <1>6, <2>1 DEF Check, TypeOK, rows, outside, bounds
<1>7. ASSUME NEW w \in Workers, Post(w) PROVE TypeOK'
  <2>1. worker' \in [Workers -> WorkerStates]
    <3>1. "posting" \in Pcs
      BY DEF Pcs
    <3>2. CASE worker' = [worker EXCEPT ![w].pc = "posting"]
      BY <1>0, <3>1, <3>2, WorkerTypes
    <3>3. CASE worker' = [worker EXCEPT ![w].pc = "posting", ![w].locked = TRUE]
      <4>1. PICK b \in BOOLEAN : worker' = [worker EXCEPT ![w].pc = "posting", ![w].locked = b]
        BY <3>3
      <4>2. [worker[w] EXCEPT !.pc = "posting", !.locked = b] \in WorkerStates
        BY <1>0, <3>1, WorkerTypes
      <4> QED BY <1>0, <4>1, <4>2
    <3> QED BY <1>7, <3>2, <3>3 DEF Post
  <2> QED BY <1>7, <2>1 DEF Post, TypeOK, RowStatuses, outside, bounds
<1>8. ASSUME NEW w \in Workers, CallGoogle(w) PROVE TypeOK'
  <2>1. PICK pc \in Pcs : worker' = [worker EXCEPT ![w].pc = pc]
    BY <1>8 DEF CallGoogle, Pcs
  <2>2. worker' \in [Workers -> WorkerStates]
    BY <1>0, <2>1, WorkerTypes
  <2>3. puts' \in Nat /\ google' \in {"none", "ours", "other"}
    BY <1>8 DEF CallGoogle, TypeOK
  <2> QED BY <1>8, <2>2, <2>3 DEF CallGoogle, TypeOK, rows, bounds
<1>9. ASSUME NEW w \in Workers, Conclude(w) PROVE TypeOK'
  <2>1. worker' \in [Workers -> WorkerStates]
    BY <1>0, <1>9, WorkerTypes DEF Conclude
  <2>2. job' \in Jobs
    <3>1. JobRow("completed", NoWorker, job.due, job.retries) \in Jobs
      BY <1>0, <1>1 DEF JobStatuses
    <3> QED BY <1>0, <1>9, <3>1 DEF Conclude, rows
  <2>3. row' \in RowStatuses /\ access' \in AccessStatuses /\ review' \in Answers
    BY <1>0, <1>9 DEF Conclude, Outcome, rows, TypeOK, RowStatuses, AccessStatuses,
                      Answers, CapabilityAfterPost
  <2> QED BY <1>9, <2>1, <2>2, <2>3 DEF Conclude, TypeOK, outside, bounds
<1>10. ASSUME NEW w \in Workers, Fail(w) PROVE TypeOK'
  <2>1. worker' \in [Workers -> WorkerStates]
    BY <1>0, <1>10, WorkerTypes DEF Fail
  <2>2. job' \in Jobs
    <3>1. \A st \in {"dead_letter", "queued"} :
            JobRow(st, NoWorker, "now", job.retries + 1) \in Jobs
      <4>1. "dead_letter" \in JobStatuses /\ "queued" \in JobStatuses /\ job.retries + 1 \in Nat
        BY <1>0 DEF JobStatuses
      <4> QED BY <1>1, <4>1
    <3> QED BY <1>0, <1>10, <3>1 DEF Fail
  <2>3. row' \in RowStatuses
    BY <1>10 DEF Fail, TypeOK, RowStatuses
  <2> QED BY <1>10, <2>1, <2>2, <2>3 DEF Fail, TypeOK, outside, bounds
<1>11. ASSUME NEW w \in Workers, Kill(w) PROVE TypeOK'
  <2>1. worker' \in [Workers -> WorkerStates]
    BY <1>0, <1>11, WorkerTypes DEF Kill
  <2> QED BY <1>11, <2>1 DEF Kill, TypeOK, rows, outside
<1>12. ASSUME NEW action \in Controls, ControlReads(action) PROVE TypeOK'
  <2>1. request' \in Requests
    BY <1>0, <1>12, RepliesAssumption DEF ControlReads, Requests
  <2> QED BY <1>12, <2>1 DEF ControlReads, TypeOK, rows, outside
<1>13. CASE ControlWrites
  <2>1. \A st \in JobStatuses : Rewritten(st) \in JobStatuses
    BY <1>0 DEF Rewritten
  <2>2. job' \in Jobs
    <3>1. "queued" \in JobStatuses /\ "failed" \in JobStatuses
      BY DEF JobStatuses
    <3>2. \A st \in JobStatuses, d \in {"now", "in_ten_years"} :
            /\ [job EXCEPT !.status = st, !.due = d] \in Jobs
            /\ [job EXCEPT !.status = st] \in Jobs
      BY <1>0 DEF Jobs
    <3>3. Rewritten("queued") \in JobStatuses /\ Rewritten("failed") \in JobStatuses
      BY <2>1, <3>1
    <3> QED BY <1>13, <3>2, <3>3 DEF ControlWrites
  <2>3. row' \in RowStatuses /\ request' \in Requests
    BY <1>13 DEF ControlWrites, RowStatuses, NoRequest, Requests, JobStatuses
  <2> QED BY <1>13, <2>2, <2>3 DEF ControlWrites, TypeOK, outside, bounds
<1>14. CASE Authorize \/ Revoke
  BY <1>14 DEF Authorize, Revoke, TypeOK, AccessStatuses, outside
<1>15. CASE ReviewDraft \/ OwnerReplies
  BY <1>15 DEF ReviewDraft, OwnerReplies, TypeOK, rows
<1>16. CASE SyncStep
  BY <1>16 DEF SyncStep, SyncFetches, SyncWrites, SyncFails, TypeOK, Answers, rows, bounds
<1>17. CASE UNCHANGED vars
  BY <1>17 DEF vars, TypeOK
<1> QED BY <1>3, <1>4, <1>5, <1>6, <1>7, <1>8, <1>9, <1>10, <1>11, <1>12, <1>13,
           <1>14, <1>15, <1>16, <1>17 DEF Next, WorkerStep, SyncStep

\* Rows, workers, requests and the counter of replies keep their types.
THEOREM RepliesTyped == Spec => []TypeOK
<1>1. Init => TypeOK
  <2>1. JobRow("absent", NoWorker, "now", 0) \in Jobs
    BY DEF JobRow, Jobs, JobStatuses
  <2>2. NoRequest \in Requests
    BY DEF NoRequest, Requests, JobStatuses
  <2>3. [w \in Workers |-> Idle] \in [Workers -> WorkerStates]
    BY WorkerTypes
  <2> QED BY <2>1, <2>2, <2>3 DEF Init, TypeOK, RowStatuses, AccessStatuses, Answers
<1>2. TypeOK /\ [Next]_vars => TypeOK'
  BY TypeStep
<1> QED BY <1>1, <1>2, PTL DEF Spec
-------------------------------------------------------------------------------
(***************************************************************************)
(* What a step of one worker does to the others, and where an attempt      *)
(* stands: a worker that is "claimed", "begun", "fit" or "posting" may     *)
(* still put one reply on Google.                                          *)
(***************************************************************************)
MayPut == {"claimed", "begun", "fit", "posting"}
Working == {w \in Workers : worker[w].pc \in MayPut}

\* The other workers stay where they are.
LEMMA OthersStay ==
  ASSUME TypeOK, NEW w \in Workers, WorkerStep(w)
  PROVE  \A v \in Workers \ {w} : worker'[v] = worker[v]
BY DEF WorkerStep, Claim, Begin, Check, Post, CallGoogle, Conclude, Fail, Kill, TypeOK

\* A worker begins with the owner it finds, or finds nothing to do.
LEMMA BeginFacts ==
  ASSUME TypeOK, NEW w \in Workers, Begin(w)
  PROVE  IF job.status = "running"
         THEN worker'[w].pc = "begun" /\ worker'[w].token = job.owner
         ELSE worker'[w].pc = "idle"
<1>1. worker'[w] = IF job.status = "running"
                   THEN [Idle EXCEPT !.pc = "begun", !.token = job.owner] ELSE Idle
  BY DEF Begin, TypeOK
<1> QED BY <1>1, IdleFields

\* So the number of attempts still to come changes by the one that moves.
LEMMA WorkingMoves ==
  ASSUME TypeOK, NEW w \in Workers, \A v \in Workers \ {w} : worker'[v] = worker[v]
  PROVE  /\ Cardinality(Working) \in Nat /\ Cardinality(Working)' \in Nat
         /\ worker'[w].pc \notin MayPut =>
              Cardinality(Working)' =
                IF w \in Working THEN Cardinality(Working) - 1 ELSE Cardinality(Working)
         /\ worker'[w].pc \in MayPut =>
              Cardinality(Working)' =
                IF w \in Working THEN Cardinality(Working) ELSE Cardinality(Working) + 1
<1>1. IsFiniteSet(Working) /\ Cardinality(Working) \in Nat
  BY RepliesAssumption, FS_Subset, FS_CardinalityType DEF Working
<1>2. CASE worker'[w].pc \notin MayPut
  <2>1. Working' = Working \ {w}
    BY <1>2 DEF Working
  <2>2. Cardinality(Working \ {w}) =
          IF w \in Working THEN Cardinality(Working) - 1 ELSE Cardinality(Working)
    BY <1>1, FS_RemoveElement
  <2>3. Cardinality(Working \ {w}) \in Nat
    BY <1>1, FS_RemoveElement, FS_CardinalityType
  <2> QED BY <1>1, <1>2, <2>1, <2>2, <2>3
<1>3. CASE worker'[w].pc \in MayPut
  <2>1. Working' = Working \cup {w}
    BY <1>3 DEF Working
  <2>2. Cardinality(Working \cup {w}) =
          IF w \in Working THEN Cardinality(Working) ELSE Cardinality(Working) + 1
    BY <1>1, FS_AddElement
  <2> QED BY <1>1, <1>3, <2>1, <2>2
<1> QED BY <1>2, <1>3

\* A worker past its claim whose id the job still carries holds that id as its
\* token; a running job has an owner; a reply without a row has no job yet.
Holds ==
  /\ \A w \in Workers : worker[w].pc \notin {"idle", "claimed"} /\ job.owner = w
       => worker[w].token = w
  /\ job.status = "running" => job.owner \in Workers
  /\ row = "absent" => job = JobRow("absent", NoWorker, "now", 0)
  /\ controls \in Nat /\ kills \in Nat

LEMMA HoldsInit == Init => Holds
BY RepliesAssumption DEF Init, Holds, Idle, JobRow

LEMMA HoldsStep ==
  ASSUME TypeOK, Holds, [Next]_vars
  PROVE  Holds'
<1>0. worker \in [Workers -> WorkerStates] /\ job \in Jobs /\ NoWorker \notin Workers
  BY RepliesAssumption DEF TypeOK
<1>1. ASSUME NEW w \in Workers, Claim(w) PROVE Holds'
  <2>1. /\ worker'[w].pc = "claimed" /\ job'.owner = w /\ job'.status = "running"
        /\ row' = row /\ UNCHANGED <<controls, kills>>
    BY <1>0, <1>1 DEF Claim, WorkerStates, Jobs, bounds
  <2>2. row # "absent"
    BY <1>1 DEF Claim, Holds, JobRow
  <2> QED BY <2>1, <2>2 DEF Holds
<1>2. ASSUME NEW w \in Workers, Begin(w) PROVE Holds'
  <2>1. \A v \in Workers \ {w} : worker'[v] = worker[v]
    BY <1>2, OthersStay DEF WorkerStep
  <2>2. worker'[w].pc = "idle" \/ worker'[w].token = job.owner
    BY <1>2, BeginFacts
  <2> QED BY <1>2, <2>1, <2>2 DEF Begin, Holds, rows, bounds
<1>3. ASSUME NEW w \in Workers, Check(w) \/ Post(w) \/ CallGoogle(w) PROVE Holds'
  <2>1. \A v \in Workers \ {w} : worker'[v] = worker[v]
    BY <1>3, OthersStay DEF WorkerStep
  <2>2. worker'[w].token = worker[w].token /\ worker[w].pc \notin {"idle", "claimed"}
    BY <1>0, <1>3 DEF Check, Post, CallGoogle, WorkerStates
  <2>3. UNCHANGED <<job, controls, kills>> /\ (row' = "absent" => row = "absent")
    BY <1>3 DEF Check, Post, CallGoogle, rows, bounds
  <2> QED BY <2>1, <2>2, <2>3 DEF Holds
<1>4. ASSUME NEW w \in Workers, Conclude(w) \/ Fail(w) PROVE Holds'
  <2>1. \A v \in Workers \ {w} : worker'[v] = worker[v]
    BY <1>4, OthersStay DEF WorkerStep
  <2>2. worker'[w].pc = "idle" /\ UNCHANGED <<controls, kills>>
    BY <1>0, <1>4 DEF Conclude, Fail, Idle, bounds
  <2>3. \/ job' = job /\ row' = row
        \/ /\ job'.owner = NoWorker /\ job'.status # "running"
           /\ OwnsJob(w) /\ (row' = "absent" => row = "absent")
    BY <1>4 DEF Conclude, Fail, JobRow, Outcome, rows
  <2>4. OwnsJob(w) => row # "absent"
    BY DEF OwnsJob, Holds, JobRow
  <2> QED BY <1>0, <2>1, <2>2, <2>3, <2>4 DEF Holds
<1>5. ASSUME NEW w \in Workers, Kill(w) PROVE Holds'
  <2>1. \A v \in Workers \ {w} : worker'[v] = worker[v]
    BY <1>5, OthersStay DEF WorkerStep
  <2>2. worker'[w].pc = "idle" /\ kills' = kills + 1 /\ UNCHANGED <<row, job, controls>>
    BY <1>0, <1>5 DEF Kill, Idle, rows
  <2> QED BY <2>1, <2>2 DEF Holds
<1>6. CASE ControlWrites
  <2>1. /\ job'.owner = job.owner /\ row' # "absent"
        /\ job'.status = "running" => job.status = "running"
        /\ UNCHANGED <<worker, controls, kills>>
    BY <1>0, <1>6 DEF ControlWrites, Rewritten, Jobs, bounds
  <2> QED BY <2>1 DEF Holds
<1>7. CASE Queue
  BY <1>0, <1>7 DEF Queue, JobRow, Holds, bounds
<1>8. CASE \E action \in Controls : ControlReads(action)
  BY <1>8 DEF ControlReads, Holds, rows
<1>9. CASE Authorize \/ Revoke \/ ReviewDraft \/ OwnerReplies \/ SyncStep \/ UNCHANGED vars
  BY <1>9 DEF Authorize, Revoke, ReviewDraft, OwnerReplies, SyncStep, SyncFetches,
              SyncWrites, SyncFails, vars, rows, bounds, Holds
<1> QED BY <1>1, <1>2, <1>3, <1>4, <1>5, <1>6, <1>7, <1>8, <1>9 DEF Next, WorkerStep, SyncStep

-------------------------------------------------------------------------------
\* A worker that has its confirmation has put the reply.
Confirmed == \A w \in Workers : worker[w].pc = "confirmed" => puts > 0

\* A reply is reported as posted only after it reached Google: no timeout, kill,
\* lost claim or control request writes "posted" over a reply that never left.
THEOREM PostedIsOnGoogle == Spec => []PostedReachedGoogle
<1>1. Init => Confirmed /\ PostedReachedGoogle
  BY DEF Init, Confirmed, PostedReachedGoogle, Idle
<1>2. TypeOK /\ Confirmed /\ PostedReachedGoogle /\ [Next]_vars
        => (Confirmed /\ PostedReachedGoogle)'
  <2> SUFFICES ASSUME TypeOK, Confirmed, PostedReachedGoogle, [Next]_vars
               PROVE  Confirmed' /\ PostedReachedGoogle'
    OBVIOUS
  <2>0. puts \in Nat /\ worker \in [Workers -> WorkerStates]
    BY DEF TypeOK
  <2>1. ASSUME NEW w \in Workers, WorkerStep(w)
        PROVE  /\ puts' \in {puts, puts + 1}
               /\ worker'[w].pc = "confirmed" => puts' > 0
               /\ row' = "posted" => row = "posted" \/ worker[w].pc = "confirmed"
    <3>1. CASE CallGoogle(w)
      BY <2>0, <3>1 DEF CallGoogle, WorkerStates, rows
    <3>2. CASE Check(w)
      BY <2>0, <3>2 DEF Check, WorkerStates, rows, outside
    <3>3. CASE Claim(w) \/ Begin(w) \/ Post(w) \/ Fail(w) \/ Kill(w)
      <4>1. worker'[w].pc \in {"claimed", "idle", "begun", "posting"}
        <5>1. CASE Claim(w) \/ Post(w)
          BY <2>0, <5>1 DEF Claim, Post, WorkerStates
        <5>2. CASE Begin(w)
          BY <5>2, BeginFacts
        <5>3. CASE Fail(w) \/ Kill(w)
          BY <2>0, <5>3, IdleFields DEF Fail, Kill
        <5> QED BY <3>3, <5>1, <5>2, <5>3
      <4>2. puts' = puts /\ (row' = "posted" => row = "posted")
        BY <3>3 DEF Claim, Begin, Post, Fail, Kill, rows, outside
      <4> QED BY <4>1, <4>2
    <3>4. CASE Conclude(w)
      BY <2>0, <3>4 DEF Conclude, Outcome, WorkerStates, Idle, rows, outside
    <3> QED BY <2>1, <3>1, <3>2, <3>3, <3>4 DEF WorkerStep
  <2>2. ASSUME NEW w \in Workers, WorkerStep(w)
        PROVE  Confirmed' /\ PostedReachedGoogle'
    <3>1. \A v \in Workers \ {w} : worker'[v] = worker[v]
      BY <2>2, OthersStay
    <3> QED BY <2>0, <2>1, <2>2, <3>1 DEF Confirmed, PostedReachedGoogle
  <2>3. CASE ~\E w \in Workers : WorkerStep(w)
    <3>1. UNCHANGED <<worker, puts>> /\ (row' = "posted" => row = "posted")
      BY <2>3 DEF Next, vars, Queue, ControlReads, ControlWrites, Authorize, Revoke,
                  ReviewDraft, OwnerReplies, SyncStep, SyncFetches, SyncWrites, SyncFails, rows, outside
    <3> QED BY <3>1 DEF Confirmed, PostedReachedGoogle
  <2> QED BY <2>2, <2>3
<1> QED BY <1>1, <1>2, RepliesTyped, PTL DEF Spec
-------------------------------------------------------------------------------
(***************************************************************************)
(* The account of replies put on Google.  Each one in the future needs an  *)
(* attempt that was begun: an attempt under way, a job that can be claimed *)
(* (queued, or left behind by a worker that is gone), a control request in *)
(* flight that may queue the job again, or a reply that is not queued yet. *)
(* Whatever creates one of these is counted on the right.                  *)
(***************************************************************************)
JobToCome ==
  IF \/ job.status = "queued"
     \/ job.status = "running" /\ worker[job.owner].pc = "idle"
  THEN 1 ELSE 0
RequestToCome == IF request # NoRequest THEN 1 ELSE 0
RowToCome == IF row = "absent" THEN 1 ELSE 0

Account ==
  puts + Cardinality(Working) + JobToCome + RequestToCome + RowToCome
    <= job.retries + kills + controls + 1

\* One step of one worker keeps the account.
LEMMA WorkerAccount ==
  ASSUME TypeOK, Holds, Account, NEW w \in Workers, WorkerStep(w)
  PROVE  Account'
<1>0. /\ worker \in [Workers -> WorkerStates] /\ job \in Jobs
      /\ puts \in Nat /\ job.retries \in Nat /\ kills \in Nat /\ controls \in Nat
      /\ NoWorker \notin Workers
  BY RepliesAssumption DEF TypeOK, Holds, Jobs
<1>1. \A v \in Workers \ {w} : worker'[v] = worker[v]
  BY OthersStay
<1>2. /\ Cardinality(Working) \in Nat /\ Cardinality(Working)' \in Nat
      /\ worker'[w].pc \notin MayPut =>
           Cardinality(Working)' =
             IF worker[w].pc \in MayPut THEN Cardinality(Working) - 1 ELSE Cardinality(Working)
      /\ worker'[w].pc \in MayPut =>
           Cardinality(Working)' =
             IF worker[w].pc \in MayPut THEN Cardinality(Working) ELSE Cardinality(Working) + 1
  BY <1>1, WorkingMoves DEF Working
<1>3. CASE Claim(w)
  <2>1. /\ worker[w].pc = "idle" /\ worker'[w].pc = "claimed" /\ JobToCome = 1
        /\ job'.status = "running" /\ job'.owner = w /\ job'.retries = job.retries
        /\ UNCHANGED <<row, request, puts, kills, controls>>
    BY <1>0, <1>3 DEF Claim, WorkerStates, Jobs, JobToCome, outside, bounds
  <2>2. JobToCome' = 0
    BY <2>1 DEF JobToCome
  <2>3. Cardinality(Working)' = Cardinality(Working) + 1
    BY <1>2, <2>1 DEF MayPut
  <2> QED BY <1>0, <1>2, <2>1, <2>2, <2>3 DEF Account, RequestToCome, RowToCome
<1>4. CASE Begin(w)
  <2>1. UNCHANGED <<row, job, request, puts, kills, controls>> /\ worker[w].pc = "claimed"
    BY <1>4 DEF Begin, rows, outside, bounds
  <2>2. Cardinality(Working)' <= Cardinality(Working)
    BY <1>2, <2>1 DEF MayPut
  <2>3. JobToCome' \in {0, 1} /\ JobToCome \in {0, 1} /\ JobToCome' <= JobToCome
    BY <1>0, <1>1, <1>4, <2>1, BeginFacts DEF JobToCome, Holds
  <2> QED BY <1>0, <1>2, <2>1, <2>2, <2>3 DEF Account, RequestToCome, RowToCome
<1>5. CASE Check(w) \/ Post(w)
  <2>1. /\ worker[w].pc \in {"begun", "fit"} /\ worker'[w].pc # "idle"
        /\ UNCHANGED <<job, request, puts, kills, controls>>
        /\ row' = "absent" => row = "absent"
    <3>1. CASE Check(w)
      BY <1>0, <3>1 DEF Check, WorkerStates, rows, outside, bounds
    <3>2. CASE Post(w)
      BY <1>0, <3>2 DEF Post, WorkerStates, outside, bounds
    <3> QED BY <1>5, <3>1, <3>2
  <2>2. Cardinality(Working)' <= Cardinality(Working)
    BY <1>2, <2>1 DEF MayPut
  <2>3. JobToCome' \in {0, 1} /\ JobToCome \in {0, 1} /\ JobToCome' <= JobToCome
    BY <1>0, <1>1, <2>1 DEF JobToCome, Holds
  <2>4. RowToCome' \in {0, 1} /\ RowToCome \in {0, 1} /\ RowToCome' <= RowToCome
    BY <2>1 DEF RowToCome
  <2> QED BY <1>0, <1>2, <2>1, <2>2, <2>3, <2>4 DEF Account, RequestToCome
<1>6. CASE CallGoogle(w)
  <2>1. /\ worker[w].pc = "posting"
        /\ worker'[w].pc \in {"confirmed", "failed", "refused", "denied"}
        /\ UNCHANGED <<row, job, request, kills, controls>>
        /\ puts' \in {puts, puts + 1}
    BY <1>0, <1>6 DEF CallGoogle, WorkerStates, rows, bounds
  <2>2. Cardinality(Working)' = Cardinality(Working) - 1
    BY <1>2, <2>1 DEF MayPut
  <2>3. JobToCome' \in {0, 1} /\ JobToCome \in {0, 1} /\ JobToCome' <= JobToCome
    BY <1>0, <1>1, <2>1 DEF JobToCome, Holds
  <2> QED BY <1>0, <1>2, <2>1, <2>2, <2>3 DEF Account, RequestToCome, RowToCome
<1>7. CASE Conclude(w) \/ Fail(w)
  <2>1. /\ worker'[w].pc = "idle" /\ worker[w].pc \notin {"idle", "claimed"}
        /\ worker[w].pc \notin MayPut
        /\ UNCHANGED <<request, puts, kills, controls>>
    BY <1>0, <1>7, IdleFields DEF Conclude, Fail, MayPut, outside, bounds
  <2>2. Cardinality(Working)' = Cardinality(Working)
    BY <1>2, <2>1 DEF MayPut
  <2>3. CASE OwnsJob(w)
    <3>1. row # "absent"
      BY <2>3 DEF OwnsJob, Holds, JobRow
    <3>2. \/ job'.status = "completed" /\ job'.retries = job.retries
          \/ job'.status \in {"queued", "dead_letter"} /\ job'.retries = job.retries + 1
      BY <1>0, <1>7, <2>3 DEF Conclude, Fail, JobRow
    <3>3. row' # "absent"
      BY <1>7, <2>3, <3>1 DEF Conclude, Fail, Outcome
    <3>4. RowToCome' = 0 /\ RowToCome = 0
      BY <3>1, <3>3 DEF RowToCome
    <3>5. JobToCome \in {0, 1} /\ JobToCome' \in {0, 1}
          /\ (job'.status # "queued" => JobToCome' = 0)
      BY <3>2 DEF JobToCome
    <3> QED BY <1>0, <1>2, <2>1, <2>2, <3>2, <3>4, <3>5 DEF Account, RequestToCome
  <2>4. CASE ~OwnsJob(w)
    <3>1. UNCHANGED <<row, job>> /\ ~(job.status = "running" /\ job.owner = w)
      BY <1>7, <2>1, <2>4 DEF Conclude, Fail, rows, OwnsJob, Holds
    <3>2. JobToCome' \in {0, 1} /\ JobToCome \in {0, 1} /\ JobToCome' <= JobToCome
      BY <1>0, <1>1, <3>1 DEF JobToCome, Holds
    <3> QED BY <1>0, <1>2, <2>1, <2>2, <3>1, <3>2 DEF Account, RequestToCome, RowToCome
  <2> QED BY <2>3, <2>4
<1>8. CASE Kill(w)
  <2>1. /\ worker'[w].pc = "idle" /\ worker[w].pc # "idle" /\ kills' = kills + 1
        /\ UNCHANGED <<row, job, request, puts, controls>>
    BY <1>0, <1>8, IdleFields DEF Kill, rows, outside
  <2>2. Cardinality(Working)' <= Cardinality(Working)
    BY <1>2, <2>1 DEF MayPut
  <2>3. JobToCome' \in {0, 1} /\ JobToCome \in {0, 1}
    BY DEF JobToCome
  <2> QED BY <1>0, <1>2, <2>1, <2>2, <2>3 DEF Account, RequestToCome, RowToCome
<1> QED BY <1>3, <1>4, <1>5, <1>6, <1>7, <1>8 DEF WorkerStep

\* Every reply put on Google is paid for: retries bound what customers can see
\* sent twice, up to the kills and the control requests that took the job from
\* its worker.  (record_job_failure, control_execution, claim_jobs.)
THEOREM PutsArePaidFor == Spec => []PutsAccounted
<1>1. Init => Account
  <2>1. ASSUME Init PROVE Cardinality(Working) = 0
    <3>1. Working = {}
      BY <2>1, IdleFields DEF Init, Working, MayPut
    <3> QED BY <3>1, FS_EmptySet
  <2>2. ASSUME Init PROVE JobToCome = 0 /\ RequestToCome = 0 /\ RowToCome = 1
    BY <2>2 DEF Init, JobToCome, RequestToCome, RowToCome, JobRow
  <2> QED BY <2>1, <2>2 DEF Init, Account, JobRow
<1>2. TypeOK /\ Holds /\ Account /\ [Next]_vars => Account'
  <2> SUFFICES ASSUME TypeOK, Holds, Account, [Next]_vars PROVE Account'
    OBVIOUS
  <2>0. /\ puts \in Nat /\ job.retries \in Nat /\ kills \in Nat /\ controls \in Nat
        /\ job \in Jobs /\ Cardinality(Working) \in Nat
    BY RepliesAssumption, FS_Subset, FS_CardinalityType DEF TypeOK, Holds, Jobs, Working
  <2>1. /\ JobToCome \in {0, 1} /\ RequestToCome \in {0, 1} /\ RowToCome \in {0, 1}
        /\ JobToCome' \in {0, 1} /\ RequestToCome' \in {0, 1} /\ RowToCome' \in {0, 1}
    BY DEF JobToCome, RequestToCome, RowToCome
  <2>2. worker' = worker => Cardinality(Working)' = Cardinality(Working)
    BY DEF Working
  <2>3. CASE Queue
    <3>1. /\ RowToCome = 1 /\ RowToCome' = 0 /\ JobToCome = 0 /\ job.retries = 0
          /\ job'.retries = 0 /\ UNCHANGED <<worker, request, puts, kills, controls>>
      BY <2>3 DEF Queue, Holds, RowToCome, JobToCome, JobRow, outside, bounds
    <3> QED BY <2>0, <2>1, <2>2, <3>1 DEF Account, RequestToCome
  <2>4. ASSUME NEW w \in Workers, WorkerStep(w) PROVE Account'
    BY <2>4, WorkerAccount
  <2>5. ASSUME NEW action \in Controls, ControlReads(action) PROVE Account'
    <3>1. /\ RequestToCome = 0 /\ controls' = controls + 1
          /\ UNCHANGED <<row, job, worker, puts, kills>>
      BY <2>5 DEF ControlReads, RequestToCome, rows, outside
    <3>2. JobToCome' = JobToCome /\ RowToCome' = RowToCome
      BY <3>1 DEF JobToCome, RowToCome
    <3> QED BY <2>0, <2>1, <2>2, <3>1, <3>2 DEF Account
  <2>6. CASE ControlWrites
    <3>1. /\ RequestToCome = 1 /\ RequestToCome' = 0 /\ job'.retries = job.retries
          /\ RowToCome' = 0 /\ UNCHANGED <<worker, puts, kills, controls>>
      BY <2>0, <2>6 DEF ControlWrites, RequestToCome, RowToCome, Jobs, outside, bounds
    <3> QED BY <2>0, <2>1, <2>2, <3>1 DEF Account
  <2>7. CASE Authorize \/ Revoke \/ ReviewDraft \/ OwnerReplies \/ SyncStep \/ UNCHANGED vars
    <3>1. UNCHANGED <<row, job, worker, request, puts, kills, controls>>
      BY <2>7 DEF Authorize, Revoke, ReviewDraft, OwnerReplies, SyncStep, SyncFetches,
                  SyncWrites, SyncFails, vars, rows, outside, bounds
    <3> QED BY <2>2, <3>1 DEF Account, JobToCome, RequestToCome, RowToCome
  <2> QED BY <2>3, <2>4, <2>5, <2>6, <2>7 DEF Next, SyncStep
<1>3. TypeOK /\ Holds /\ Account => PutsAccounted
  <2> SUFFICES ASSUME TypeOK, Holds, Account PROVE PutsAccounted
    OBVIOUS
  <2>0. /\ puts \in Nat /\ job.retries \in Nat /\ kills \in Nat /\ controls \in Nat
        /\ Cardinality(Working) \in Nat
    BY RepliesAssumption, FS_Subset, FS_CardinalityType DEF TypeOK, Holds, Jobs, Working
  <2>1. JobToCome \in {0, 1} /\ RequestToCome \in {0, 1} /\ RowToCome \in {0, 1}
    BY DEF JobToCome, RequestToCome, RowToCome
  <2> QED BY <2>0, <2>1 DEF Account, PutsAccounted
<1>4. TypeOK /\ Holds /\ [Next]_vars => Holds'
  BY HoldsStep
<1> QED BY <1>1, <1>2, <1>3, <1>4, HoldsInit, RepliesTyped, PTL DEF Spec
-------------------------------------------------------------------------------
(***************************************************************************)
(* What is final.  A worker enters "fit" only by checking the rows, so     *)
(* from a state whose rows forbid a dispatch, with nothing in flight,      *)
(* nothing comes into flight again.                                        *)
(***************************************************************************)
Answered == google = "other" /\ review = "responded" /\ fetched = "nothing" /\ NothingInFlight

\* One step keeps the owner's reply, the synchronized review and the quiet.
LEMMA AnsweredStep ==
  ASSUME TypeOK, Answered, [Next]_vars
  PROVE  Answered'
<1>0. /\ worker \in [Workers -> WorkerStates] /\ google = "other" /\ review = "responded"
      /\ fetched = "nothing"
      /\ \A w \in Workers : worker[w].pc \notin {"fit", "posting"}
  BY DEF TypeOK, Answered, NothingInFlight
<1>1. ASSUME NEW w \in Workers, WorkerStep(w) PROVE Answered'
  <2>1. \A v \in Workers \ {w} : worker'[v] = worker[v]
    BY <1>1, OthersStay
  <2>2. /\ worker'[w].pc \notin {"fit", "posting"}
        /\ google' = google /\ review' = review /\ fetched' = fetched
    <3>1. CASE Claim(w)
      BY <1>0, <3>1 DEF Claim, WorkerStates, outside
    <3>2. CASE Begin(w)
      BY <1>0, <3>2, BeginFacts DEF Begin, rows, outside
    <3>3. CASE Check(w)
      <4>1. ~Fit
        BY <1>0 DEF Fit
      <4> QED BY <1>0, <3>3, <4>1 DEF Check, WorkerStates, rows, outside
    <3>4. CASE Post(w) \/ CallGoogle(w)
      BY <1>0, <3>4 DEF Post, CallGoogle
    <3>5. CASE Conclude(w) \/ Fail(w) \/ Kill(w)
      <4>1. worker'[w].pc = "idle" /\ google' = google /\ fetched' = fetched
        BY <1>0, <3>5, IdleFields DEF Conclude, Fail, Kill, outside
      <4>2. review' = review
        BY <1>0, <3>5 DEF Conclude, Outcome, Fail, Kill, rows
      <4> QED BY <4>1, <4>2
    <3> QED BY <1>1, <3>1, <3>2, <3>3, <3>4, <3>5 DEF WorkerStep
  <2> QED BY <1>0, <2>1, <2>2 DEF Answered, NothingInFlight
<1>2. CASE ~\E w \in Workers : WorkerStep(w)
  <2>1. worker' = worker /\ google' = "other" /\ review' = "responded" /\ fetched' = "nothing"
    BY <1>0, <1>2 DEF Next, vars, Queue, ControlReads, ControlWrites, Authorize, Revoke,
                      ReviewDraft, OwnerReplies, SyncStep, SyncFetches, SyncWrites, SyncFails, rows, outside
  <2> QED BY <1>0, <2>1 DEF Answered, NothingInFlight
<1> QED BY <1>1, <1>2

\* A reply that the owner gave on Google is never overwritten, once the sync has
\* seen it and the attempts and syncs from before are over: retries, resumed
\* replies and new authorizations all stop at the check of dispatch_execution.
THEOREM OwnersReplyStands == Spec => AnsweredIsLeftAlone
<1>1. TypeOK /\ Answered /\ [Next]_vars => Answered'
  BY AnsweredStep
<1>2. Answered <=> google = "other" /\ review = "responded" /\ fetched = "nothing" /\ NothingInFlight
  BY DEF Answered
<1>3. Answered => google = "other"
  BY DEF Answered
<1> QED BY <1>1, <1>2, <1>3, RepliesTyped, PTL DEF Spec, AnsweredIsLeftAlone

\* A cancelled reply has a failed job and no control request in flight: the
\* cancel that wrote it read a job that was not failed, and failed it.
CancelledShape ==
  /\ request.job # "failed"
  /\ job.status = "failed" => row \in {"cancelled", "posting"} /\ request = NoRequest
  /\ row = "cancelled" => job.status = "failed"

LEMMA CancelledStep ==
  ASSUME TypeOK, CancelledShape, [Next]_vars
  PROVE  CancelledShape'
<1>0. job \in Jobs
  BY DEF TypeOK
<1>1. CASE Queue
  BY <1>1 DEF Queue, CancelledShape, JobRow
<1>2. ASSUME NEW w \in Workers, Claim(w) PROVE CancelledShape'
  BY <1>0, <1>2 DEF Claim, CancelledShape, Jobs
<1>3. ASSUME NEW w \in Workers, Begin(w) \/ Check(w) \/ CallGoogle(w) \/ Kill(w)
      PROVE  CancelledShape'
  BY <1>3 DEF Begin, Check, CallGoogle, Kill, CancelledShape, rows
<1>4. ASSUME NEW w \in Workers, Post(w) PROVE CancelledShape'
  BY <1>4 DEF Post, CancelledShape
<1>5. ASSUME NEW w \in Workers, Conclude(w) PROVE CancelledShape'
  BY <1>5 DEF Conclude, Outcome, OwnsJob, CancelledShape, JobRow, rows
<1>6. ASSUME NEW w \in Workers, Fail(w) PROVE CancelledShape'
  BY <1>6 DEF Fail, OwnsJob, CancelledShape, JobRow
<1>7. ASSUME NEW action \in Controls, ControlReads(action) PROVE CancelledShape'
  <2>1. row \in {"queued", "retrying", "paused"}
    BY <1>7, RepliesAssumption DEF ControlReads, MayControl
  <2>2. job.status # "failed" /\ request'.job = job.status /\ UNCHANGED <<row, job>>
    BY <1>7, <2>1 DEF ControlReads, CancelledShape, rows
  <2> QED BY <2>1, <2>2 DEF CancelledShape
<1>8. CASE ControlWrites
  <2>1. job.status # "failed" /\ request.job # "failed"
    BY <1>8 DEF ControlWrites, CancelledShape
  <2>2. /\ Rewritten("queued") # "failed" /\ Rewritten("failed") = "failed"
    BY <2>1 DEF Rewritten
  <2>3. \/ row' \in {"paused", "queued"} /\ job'.status # "failed"
        \/ row' = "cancelled" /\ job'.status = "failed"
    BY <1>0, <1>8, <2>2 DEF ControlWrites, Jobs
  <2> QED BY <1>8, <2>3 DEF ControlWrites, CancelledShape, NoRequest
<1>9. CASE Authorize \/ Revoke \/ ReviewDraft \/ OwnerReplies \/ SyncStep \/ UNCHANGED vars
  BY <1>9 DEF Authorize, Revoke, ReviewDraft, OwnerReplies, SyncStep, SyncFetches,
              SyncWrites, SyncFails, vars, rows, CancelledShape
<1> QED BY <1>1, <1>2, <1>3, <1>4, <1>5, <1>6, <1>7, <1>8, <1>9 DEF Next, WorkerStep, SyncStep

Cancelled == row = "cancelled" /\ request = NoRequest /\ NothingInFlight

\* One step keeps a cancelled reply cancelled, quiet and without requests.
LEMMA CancelledStays ==
  ASSUME TypeOK, CancelledShape, Cancelled, [Next]_vars
  PROVE  Cancelled'
<1>0. /\ worker \in [Workers -> WorkerStates] /\ job.status = "failed"
      /\ row = "cancelled" /\ request = NoRequest
      /\ \A w \in Workers : worker[w].pc \notin {"fit", "posting"}
  BY DEF TypeOK, CancelledShape, Cancelled, NothingInFlight
<1>1. ASSUME NEW w \in Workers, WorkerStep(w) PROVE Cancelled'
  <2>1. \A v \in Workers \ {w} : worker'[v] = worker[v]
    BY <1>1, OthersStay
  <2>2. /\ worker'[w].pc \notin {"fit", "posting"}
        /\ row' = row /\ request' = request
    <3>1. CASE Claim(w) \/ Post(w) \/ CallGoogle(w)
      BY <1>0, <3>1 DEF Claim, Post, CallGoogle
    <3>2. CASE Begin(w)
      BY <1>0, <3>2, BeginFacts DEF Begin, rows
    <3>3. CASE Check(w)
      BY <1>0, <3>3 DEF Check, WorkerStates, rows
    <3>4. CASE Conclude(w) \/ Fail(w) \/ Kill(w)
      BY <1>0, <3>4, IdleFields DEF Conclude, Fail, Kill, OwnsJob, rows
    <3> QED BY <1>1, <3>1, <3>2, <3>3, <3>4 DEF WorkerStep
  <2> QED BY <1>0, <2>1, <2>2 DEF Cancelled, NothingInFlight
<1>2. CASE ~\E w \in Workers : WorkerStep(w)
  <2>1. \A action \in Controls : ~ControlReads(action)
    BY <1>0, RepliesAssumption DEF ControlReads, MayControl
  <2>2. UNCHANGED <<worker, row, request>>
    BY <1>0, <1>2, <2>1 DEF Next, vars, Queue, ControlWrites, Authorize, Revoke,
                            ReviewDraft, OwnerReplies, SyncStep, SyncFetches, SyncWrites, SyncFails, rows
  <2> QED BY <1>0, <2>2 DEF Cancelled, NothingInFlight
<1> QED BY <1>1, <1>2

\* A cancelled reply is never revived or sent, once the attempt checked before
\* the cancellation is over: its job is failed and nothing queues it again.
THEOREM CancelledStandsForGood == Spec => CancelledForGood
<1>1. Init => CancelledShape
  BY DEF Init, CancelledShape, JobRow, NoRequest
<1>2. TypeOK /\ CancelledShape /\ [Next]_vars => CancelledShape'
  BY CancelledStep
<1>3. TypeOK /\ CancelledShape /\ Cancelled /\ [Next]_vars => Cancelled'
  BY CancelledStays
<1>4. Cancelled <=> row = "cancelled" /\ request = NoRequest /\ NothingInFlight
  BY DEF Cancelled
<1>5. Cancelled => row = "cancelled"
  BY DEF Cancelled
<1> QED BY <1>1, <1>2, <1>3, <1>4, <1>5, RepliesTyped, PTL DEF Spec, CancelledForGood
==============================================================================
