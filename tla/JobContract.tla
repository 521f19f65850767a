----------------------------- MODULE JobContract -----------------------------
(***************************************************************************)
(* What the durable queue promises of a job, with no clock, no worker ids  *)
(* and no leases: it is worked on by one handler at a time, only after it  *)
(* was taken; a failure is counted once and decides between another try    *)
(* and the dead letter; a handler that dies leaves the job taken; and a    *)
(* completed or dead-lettered job is never touched again.                  *)
(***************************************************************************)
EXTENDS Naturals

CONSTANTS Jobs, MaxRetries

VARIABLES phase, failures

contractVars == <<phase, failures>>

Phases == {"absent", "waiting", "taken", "working", "completed", "failed",
           "dead_letter", "cancelled"}

ContractInit ==
  /\ phase = [j \in Jobs |-> "absent"]
  /\ failures = [j \in Jobs |-> 0]

Move(j, from, to) ==
  /\ phase[j] = from
  /\ phase' = [phase EXCEPT ![j] = to]

MoveAll(batch, from, to) ==
  /\ batch # {} /\ \A j \in batch : phase[j] \in from
  /\ phase' = [j \in Jobs |-> IF j \in batch THEN to ELSE phase[j]]

Submit(j)  == Move(j, "absent", "waiting") /\ UNCHANGED failures
Withdraw(j) == Move(j, "waiting", "cancelled") /\ UNCHANGED failures
Take(batch) ==
  MoveAll(batch, {"waiting", "failed", "cancelled"}, "taken") /\ UNCHANGED failures
GiveBack(batch) ==
  MoveAll(batch, {"taken"}, "waiting") /\ UNCHANGED failures
Work(j)    == Move(j, "taken", "working") /\ UNCHANGED failures
Abandon(j) == Move(j, "working", "taken") /\ UNCHANGED failures
Finish(j)  == Move(j, "working", "completed") /\ UNCHANGED failures
Counted(j) == failures' = [failures EXCEPT ![j] = @ + 1]
Refuse(j)  == Move(j, "taken", "failed") /\ Counted(j)
Retry(j)   == Move(j, "working", "waiting") /\ failures[j] < MaxRetries[j] /\ Counted(j)
GiveUp(j)  == Move(j, "working", "dead_letter") /\ failures[j] >= MaxRetries[j] /\ Counted(j)

ContractNext ==
  \/ \E j \in Jobs : \/ Submit(j) \/ Withdraw(j) \/ Work(j) \/ Abandon(j)
                     \/ Finish(j) \/ Refuse(j) \/ Retry(j) \/ GiveUp(j)
  \/ \E batch \in SUBSET Jobs : Take(batch) \/ GiveBack(batch)

ContractSpec == ContractInit /\ [][ContractNext]_contractVars
==============================================================================
