------------------------- MODULE AutomationDelivery -------------------------
(***************************************************************************)
(* Product events on their way to one connected workflow tool: the outbox  *)
(* (events/emitter.py, intelligence/workers/outbox_worker.py), the fan-out *)
(* job, the signed deliveries and their jobs, and the owner who tests,     *)
(* retries, recovers, pauses, rotates and disconnects                      *)
(* (services/automation_webhook_service.py).                               *)
(*                                                                         *)
(* An attempt holds the locks of its delivery and of the connection from   *)
(* its checks through the POST to its commit; the fan-out reads the        *)
(* connection without a lock.  A handler commits its delivery before the   *)
(* queue commits the job.  One handler works on a job at a time and a      *)
(* killed one leaves the job claimable, as JobContract promises and        *)
(* DurableJobs implements; backoff is an arbitrary delay.  Any handler may *)
(* raise at any point, an attempt's refresh after its commit included: the *)
(* queue rolls back what is not committed and counts the failure of the    *)
(* job alone.  A missing plan feature or an undecipherable event cancels a *)
(* product delivery as a disconnected connection does, and is folded into  *)
(* it; on a test it raises.                                                *)
(***************************************************************************)
EXTENDS Naturals, FiniteSets

CONSTANTS
  Events,         \* product events the connection subscribes to
  Tests,          \* test deliveries
  NoDelivery,
  MaxAttempts,    \* AUTOMATION_DELIVERY_MAX_ATTEMPTS
  MaxRetries,     \* max_retries of a delivery job
  FanOutRetries,  \* max_retries of a fan-out job, 2 in the code
  MaxRecoveries,  \* bound: recoveries of one delivery
  MaxChanges,     \* bound: changes to the connection
  MaxFaults       \* bound: handlers and requests killed, handlers of deliveries raising

Deliveries == Events \cup Tests
JobKeys == Deliveries \X (0 .. MaxRecoveries)  \* delivery id and recovery count

ASSUME DeliveryAssumption ==
  /\ Events \cap Tests = {} /\ NoDelivery \notin Deliveries
  /\ MaxAttempts = MaxRetries + 1 /\ MaxRetries \in Nat /\ FanOutRetries \in Nat
  /\ MaxRecoveries \in Nat /\ MaxChanges \in Nat /\ MaxFaults \in Nat

VARIABLES
  outbox,      \* status of each event's outbox row
  fanout,      \* its fan-out job, with what it read of the connection
  refusals,    \* the failures of that job
  delivery,    \* the automation_webhook_deliveries rows
  job,         \* their platform_jobs rows, with what their handlers are at
  connection,  \* the connection's row
  request,     \* the delivery an owner's request is sending
  signed,      \* version of the secret the event under way is signed with
  accepted,    \* history: version of the secret the tool last accepted
  changes, faults

vars == <<outbox, fanout, refusals, delivery, job, connection, request, signed, accepted,
          changes, faults>>
source == <<outbox, fanout, refusals>>
secrets == <<signed, accepted>>
bounds == <<changes, faults>>

DeliveryRows ==
  [status : {"absent", "pending", "failed", "delivered", "dead_letter", "cancelled"},
   attempts : Nat, recoveries : 0 .. MaxRecoveries]
JobRows ==
  [phase : {"absent", "waiting", "working", "sending", "returned", "raised",
            "broken", "completed", "dead_letter"},
   failures : Nat,
   errors : Nat]  \* the failures that no attempt of the delivery counts
Connections ==
  [status : {"pending", "active", "unhealthy", "paused", "disconnected"},
   verification : {"not_tested", "verified", "failed"},
   secret : Nat]
Row(status) == [status |-> status, attempts |-> 0, recoveries |-> 0]

Init ==
  /\ outbox = [e \in Events |-> "absent"]
  /\ fanout = [e \in Events |-> "absent"] /\ refusals = [e \in Events |-> 0]
  /\ delivery = [d \in Deliveries |-> Row("absent")]
  /\ job = [k \in JobKeys |-> [phase |-> "absent", failures |-> 0, errors |-> 0]]
  /\ connection = [status |-> "pending", verification |-> "not_tested", secret |-> 1]
  /\ request = NoDelivery
  /\ signed = 0 /\ accepted = 0 /\ changes = 0 /\ faults = 0

Sending(k) == job[k].phase = "sending"
Locked == request # NoDelivery \/ \E k \in JobKeys : Sending(k)
Open(d) == delivery[d].status \in {"pending", "failed"}
Allowed(d) == MaxAttempts * (1 + delivery[d].recoveries)

-------------------------------------------------------------------------------
\* emit_event, in the transaction of the product change.
Emit(e) ==
  /\ outbox[e] = "absent"
  /\ outbox' = [outbox EXCEPT ![e] = "pending"]
  /\ UNCHANGED <<fanout, refusals, delivery, job, connection, request, secrets, bounds>>

\* The outbox worker on one locked row of its batch: the fan-out job first; if
\* publishing to the stream raises, the row is failed and the job stays.
Drain(e) ==
  /\ outbox[e] = "pending"
  /\ \E status \in {"processed", "failed"} : outbox' = [outbox EXCEPT ![e] = status]
  /\ fanout' = [fanout EXCEPT ![e] = "waiting"]
  /\ UNCHANGED <<refusals, delivery, job, connection, request, secrets, bounds>>

\* fan_out_product_event reads which connections are active and verified.
Subscribed == connection.status = "active" /\ connection.verification = "verified"

Match(e) ==
  /\ fanout[e] = "waiting"
  /\ fanout' = [fanout EXCEPT ![e] = IF Subscribed THEN "matched" ELSE "unmatched"]
  /\ UNCHANGED <<outbox, refusals, delivery, job, connection, request, secrets, bounds>>

\* The delivery, its job and the completed fan-out commit together.
FanOut(e) ==
  /\ \/ /\ fanout[e] = "matched"
        /\ delivery' = [delivery EXCEPT ![e] = Row("pending")]
        /\ job' = [job EXCEPT ![<<e, 0>>].phase = "waiting"]
     \/ fanout[e] = "unmatched" /\ UNCHANGED <<delivery, job>>
  /\ fanout' = [fanout EXCEPT ![e] = "done"]
  /\ UNCHANGED <<outbox, refusals, connection, request, secrets, bounds>>

\* The fan-out raises: the event cannot be translated, the database fails.
FanOutRaises(e) ==
  /\ fanout[e] \in {"waiting", "matched", "unmatched"}
  /\ refusals' = [refusals EXCEPT ![e] = @ + 1]
  /\ fanout' = [fanout EXCEPT ![e] =
                  IF refusals[e] >= FanOutRetries THEN "dead_letter" ELSE "waiting"]
  /\ UNCHANGED <<outbox, delivery, job, connection, request, secrets, bounds>>

KillFanOut(e) ==
  /\ faults < MaxFaults /\ faults' = faults + 1
  /\ fanout[e] \in {"matched", "unmatched"}
  /\ fanout' = [fanout EXCEPT ![e] = "waiting"]
  /\ UNCHANGED <<outbox, refusals, delivery, job, connection, request, secrets, changes>>

-------------------------------------------------------------------------------
\* A drain claims the job and its handler begins.
Take(k) ==
  /\ job[k].phase = "waiting"
  /\ job' = [job EXCEPT ![k].phase = "working"]
  /\ UNCHANGED <<source, delivery, connection, request, secrets, bounds>>

\* Pausing cancels what comes due, disconnecting the product deliveries.
Cancels(d) == \/ connection.status = "paused"
              \/ connection.status = "disconnected" /\ d \in Events

\* _attempt_delivery, up to the POST: what is settled is left alone, what may
\* not be sent is cancelled or, a test on a disconnected tool, raises.
Start(k) ==
  /\ job[k].phase = "working" /\ ~Locked
  /\ LET d == k[1] IN
     \/ /\ ~Open(d)
        /\ job' = [job EXCEPT ![k].phase = "returned"] /\ UNCHANGED <<delivery, signed>>
     \/ /\ Open(d)
        /\ \/ delivery[d].attempts >= Allowed(d)
           \/ connection.status = "disconnected" /\ d \in Tests
        /\ job' = [job EXCEPT ![k].phase = "broken"] /\ UNCHANGED <<delivery, signed>>
     \/ /\ Open(d) /\ delivery[d].attempts < Allowed(d) /\ Cancels(d)
        /\ delivery' = [delivery EXCEPT ![d].status = "cancelled"]
        /\ job' = [job EXCEPT ![k].phase = "returned"] /\ UNCHANGED signed
     \/ /\ Open(d) /\ delivery[d].attempts < Allowed(d)
        /\ connection.status \notin {"paused", "disconnected"}
        /\ job' = [job EXCEPT ![k].phase = "sending"] /\ signed' = connection.secret
        /\ UNCHANGED delivery
  /\ UNCHANGED <<source, connection, request, accepted, bounds>>

\* Mutant: the last allowed failure is a failure like the others.
StatusAfterEndless(d, ok) == IF ok THEN "delivered" ELSE "failed"

\* The delivery after its attempt number attempts + 1.
StatusAfter(d, ok) ==
  IF ok THEN "delivered"
  ELSE IF delivery[d].attempts + 1 >= Allowed(d) THEN "dead_letter" ELSE "failed"

\* Mutant: the attempt is counted when it starts and when it is recorded.
RecordTwice(d, ok) ==
  /\ signed' = 0 /\ accepted' = IF ok THEN signed ELSE accepted
  /\ delivery' = [delivery EXCEPT ![d].attempts = @ + 2, ![d].status = StatusAfter(d, ok)]
  /\ connection' = [connection EXCEPT !.status = IF ok THEN "active" ELSE "unhealthy"]

\* The POST is answered with 2xx, or refused or lost before or after the tool
\* got it; the attempt is recorded and committed.
Record(d, ok) ==
  /\ signed' = 0 /\ accepted' = IF ok THEN signed ELSE accepted
  /\ delivery' = [delivery EXCEPT ![d].attempts = @ + 1, ![d].status = StatusAfter(d, ok)]
  /\ connection' = IF ok
                   THEN [connection EXCEPT !.status = "active", !.verification = "verified"]
                   ELSE [connection EXCEPT !.status = "unhealthy",
                           !.verification = IF d \in Tests THEN "failed" ELSE @]

Finish(k, ok) ==
  /\ Sending(k)
  /\ Record(k[1], ok)
  /\ job' = [job EXCEPT ![k].phase = IF StatusAfter(k[1], ok) = "failed"
                                     THEN "raised" ELSE "returned"]
  /\ UNCHANGED <<source, request, bounds>>

\* The handler raises, its attempt's transaction rolled back or not begun, or
\* already committed.
Break(k) ==
  /\ faults < MaxFaults /\ faults' = faults + 1
  /\ job[k].phase \in {"working", "sending", "returned"}
  /\ job' = [job EXCEPT ![k].phase = "broken"]
  /\ signed' = IF Sending(k) THEN 0 ELSE signed
  /\ UNCHANGED <<source, delivery, connection, request, accepted, changes>>

\* The queue completes the job or records its failure.
Conclude(k) ==
  /\ \/ /\ job[k].phase = "returned"
        /\ job' = [job EXCEPT ![k].phase = "completed"]
     \/ /\ job[k].phase \in {"raised", "broken"}
        /\ job' = [job EXCEPT ![k].failures = @ + 1,
                     ![k].errors = IF job[k].phase = "broken" THEN @ + 1 ELSE @,
                     ![k].phase = IF job[k].failures >= MaxRetries
                                  THEN "dead_letter" ELSE "waiting"]
  /\ UNCHANGED <<source, delivery, connection, request, secrets, bounds>>

\* The invocation dies: a POST under way leaves no trace but, maybe, at the tool.
Kill(k) ==
  /\ faults < MaxFaults /\ faults' = faults + 1
  /\ job[k].phase \in {"working", "sending", "returned", "raised", "broken"}
  /\ job' = [job EXCEPT ![k].phase = "waiting"]
  /\ signed' = IF Sending(k) THEN 0 ELSE signed
  /\ UNCHANGED <<source, delivery, connection, request, accepted, changes>>

-------------------------------------------------------------------------------
\* send_test_delivery commits the test delivery; RetryDelivery sends it.
SendTest(d) ==
  /\ d \in Tests /\ delivery[d].status = "absent" /\ ~Locked
  /\ connection.status \notin {"paused", "disconnected"}
  /\ delivery' = [delivery EXCEPT ![d] = Row("pending")]
  /\ UNCHANGED <<source, job, connection, request, secrets, bounds>>

\* Mutant: what was delivered can be sent again.
RetryableDelivered(d) ==
  /\ \/ delivery[d].status \in {"failed", "delivered"}
     \/ delivery[d].status = "pending" /\ delivery[d].attempts = 0
  /\ delivery[d].attempts < Allowed(d)

\* retry_delivery takes a failed delivery or one whose request was interrupted.
Retryable(d) ==
  /\ \/ delivery[d].status = "failed"
     \/ delivery[d].status = "pending" /\ delivery[d].attempts = 0
  /\ delivery[d].attempts < Allowed(d)

RetryDelivery(d) ==
  /\ Retryable(d) /\ ~Locked
  /\ \/ /\ Cancels(d)
        /\ delivery' = [delivery EXCEPT ![d].status = "cancelled"]
        /\ UNCHANGED <<request, signed>>
     \/ /\ connection.status \notin {"paused", "disconnected"}
        /\ request' = d /\ signed' = connection.secret /\ UNCHANGED delivery
  /\ UNCHANGED <<source, job, connection, accepted, bounds>>

FinishRequest(ok) ==
  /\ request # NoDelivery
  /\ Record(request, ok)
  /\ request' = NoDelivery
  /\ UNCHANGED <<source, job, bounds>>

KillRequest ==
  /\ faults < MaxFaults /\ faults' = faults + 1
  /\ request # NoDelivery
  /\ request' = NoDelivery /\ signed' = 0
  /\ UNCHANGED <<source, delivery, job, connection, accepted, changes>>

\* Mutant: the recovered delivery's job has the key of the job it had before.
JobOfFirstKey(d, r) == <<d, 0>>

\* The idempotency key of a delivery's job ends in "recovery:" and the count.
JobOf(d, r) == <<d, r>>

\* create_job returns the row a key already has.
Enqueue(k) == job' = IF job[k].phase = "absent"
                     THEN [job EXCEPT ![k].phase = "waiting"] ELSE job

\* recover_dead_letter_delivery.
Recover(d) ==
  /\ delivery[d].status = "dead_letter" /\ delivery[d].recoveries < MaxRecoveries
  /\ ~Locked /\ connection.status \notin {"paused", "disconnected"}
  /\ delivery' = [delivery EXCEPT ![d].status = "pending", ![d].recoveries = @ + 1]
  /\ Enqueue(JobOf(d, delivery[d].recoveries + 1))
  /\ UNCHANGED <<source, connection, request, secrets, bounds>>

-------------------------------------------------------------------------------
Change ==
  /\ changes < MaxChanges /\ changes' = changes + 1
  /\ UNCHANGED <<source, delivery, job, request, secrets, faults>>

\* Mutant: the connection's row is changed without waiting for its lock.
MayChangeUnlocked == connection.status # "disconnected"

\* _locked_connection and _require_connected_config.
MayChange == ~Locked /\ connection.status # "disconnected"

Pause ==
  /\ MayChange /\ connection.status # "paused"
  /\ connection' = [connection EXCEPT !.status = "paused"]
  /\ Change

Resume ==
  /\ MayChange /\ connection.status = "paused"
  /\ connection' = [connection EXCEPT !.status =
                      IF connection.verification = "verified" THEN "active" ELSE "pending"]
  /\ Change

\* rotate_signing_secret: the tool must prove it has the new secret.
Rotate ==
  /\ MayChange
  /\ connection' = [status |-> "pending", verification |-> "not_tested",
                    secret |-> connection.secret + 1]
  /\ Change

Disconnect ==
  /\ MayChange
  /\ connection' = [connection EXCEPT !.status = "disconnected",
                      !.verification = "not_tested"]
  /\ Change

-------------------------------------------------------------------------------
FanOutStep(e) == Match(e) \/ FanOut(e) \/ FanOutRaises(e)

Source(e) == Emit(e) \/ Drain(e) \/ FanOutStep(e) \/ KillFanOut(e)

JobStep(k) ==
  \/ Take(k) \/ Start(k) \/ Break(k) \/ Conclude(k)
  \/ \E ok \in BOOLEAN : Finish(k, ok)

EndRequest == \E ok \in BOOLEAN : FinishRequest(ok)

Next ==
  \/ \E e \in Events : Source(e)
  \/ \E k \in JobKeys : JobStep(k) \/ Kill(k)
  \/ \E d \in Deliveries : SendTest(d) \/ RetryDelivery(d) \/ Recover(d)
  \/ EndRequest \/ KillRequest
  \/ Pause \/ Resume \/ Rotate \/ Disconnect

Spec == Init /\ [][Next]_vars

\* The cron drains, a due job is taken, and a handler or request that is not
\* killed goes on (a POST has a timeout).
Fairness ==
  /\ \A e \in Events : WF_vars(Drain(e)) /\ WF_vars(FanOutStep(e))
  /\ \A k \in JobKeys : WF_vars(Take(k)) /\ WF_vars(Start(k)) /\ WF_vars(Conclude(k))
  /\ \A k \in JobKeys : WF_vars(\E ok \in BOOLEAN : Finish(k, ok))
  /\ WF_vars(EndRequest)

FairSpec == Spec /\ Fairness

-------------------------------------------------------------------------------
\* Rows keep their types, and no delivery has more attempts than its creation
\* and its recoveries allow, whoever makes them; an open one has some left.
TypeOK ==
  /\ outbox \in [Events -> {"absent", "pending", "processed", "failed"}]
  /\ fanout \in [Events -> {"absent", "waiting", "matched", "unmatched", "done",
                             "dead_letter"}]
  /\ refusals \in [Events -> Nat]
  /\ delivery \in [Deliveries -> DeliveryRows]
  /\ \A d \in Deliveries :
       delivery[d].attempts <= Allowed(d) /\ (Open(d) => delivery[d].attempts # Allowed(d))
  /\ job \in [JobKeys -> JobRows]
  /\ connection \in Connections
  /\ request \in Deliveries \cup {NoDelivery}
  /\ signed \in Nat /\ accepted \in Nat

\* No handler or request sends a signed event while the connection says paused
\* or disconnected, and one at a time does.  (The POST of one that was killed may
\* still reach the tool.)
QuietWhilePaused ==
  /\ Locked => connection.status \notin {"paused", "disconnected"}
  /\ \A k \in JobKeys : Sending(k) =>
       request = NoDelivery /\ \A j \in JobKeys : Sending(j) => j = k

\* "verified" means the tool has accepted an event signed with the secret the
\* connection has now, whatever was under way when the secret was rotated.
VerifiedSecret ==
  connection.verification = "verified" => accepted = connection.secret

\* A product delivery that is still to be sent, and a recovered one, has a live
\* job, after any mix of retries by its job and by owners, kills, recoveries
\* and changes of the connection: failed attempts alone never use the job up
\* before the delivery.  Only errors that no attempt counts do.
Live(k) == job[k].phase \notin {"absent", "completed", "dead_letter"}
LastJob(d) == job[<<d, delivery[d].recoveries>>]
GivenUp(d) == LastJob(d).phase = "dead_letter" /\ LastJob(d).errors > 0

OpenHasJob ==
  \A d \in Deliveries : Open(d) /\ (d \in Events \/ delivery[d].recoveries > 0)
    => GivenUp(d) \/ \E r \in 0 .. MaxRecoveries : Live(<<d, r>>)

\* retry_delivery: "This event was already delivered and will not be sent
\* twice."  A delivered or cancelled delivery is never sent again.
NeverSentAgain ==
  [][\A d \in Deliveries : delivery[d].status \in {"delivered", "cancelled"} =>
       delivery'[d] = delivery[d] /\ request' # d]_vars

\* Every product event committed to the outbox is fanned out, also when
\* publishing it to the event stream fails, and its delivery ends delivered,
\* cancelled or as a dead letter its owner can recover: unless a job of the two
\* was given up because of errors, which are then in its row.
EventsAreServed ==
  \A e \in Events : outbox[e] = "pending" \/ delivery[e].status = "pending" ~>
    \/ fanout[e] = "dead_letter" /\ refusals[e] > FanOutRetries
    \/ /\ fanout[e] = "done"
       /\ \/ delivery[e].status \in {"absent", "delivered", "cancelled", "dead_letter"}
          \/ GivenUp(e)
==============================================================================
