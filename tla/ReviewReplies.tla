---------------------------- MODULE ReviewReplies ----------------------------
(***************************************************************************)
(* One approved review reply on its way to Google:                         *)
(* services/reputation_response_execution_service.py over the durable      *)
(* queue, with the customer's pause, resume and cancel, the operator's     *)
(* grant and revocation, and the review sync.                              *)
(*                                                                         *)
(* Requests and workers read their rows without locks and write the        *)
(* columns they changed when they commit, so a read and its write are two  *)
(* steps.  A worker's flush of "posting" holds the row's lock until it     *)
(* commits, which it does before the call to Google only when it had to    *)
(* refresh the access token.  A lease runs out only after its invocation   *)
(* is gone (DurableJobs!Hosted); backoff is an arbitrary delay.  The       *)
(* connection's state is rechecked like the capability and folded into it; *)
(* status "failed" and its retry are left out, no error that reaches       *)
(* record_dispatch_failure being marked as not retryable.                  *)
(***************************************************************************)
EXTENDS Naturals, FiniteSets

CONSTANTS
  Workers,       \* invocations that may work at once
  NoWorker,
  MaxRetries,    \* max_retries of the publish job
  Controls,      \* the actions customers take: "pause", "resume", "cancel"
  MaxControls,   \* bound: control requests
  MaxOperator,   \* bound: capability changes by an operator
  MaxChanges,    \* bound: draft decisions and replies made on Google itself
  MaxKills       \* bound: invocations killed

ASSUME RepliesAssumption ==
  /\ IsFiniteSet(Workers) /\ NoWorker \notin Workers /\ MaxRetries \in Nat
  /\ Controls \subseteq {"pause", "resume", "cancel"}
  /\ MaxControls \in Nat /\ MaxOperator \in Nat /\ MaxChanges \in Nat /\ MaxKills \in Nat

VARIABLES
  row,      \* status of the reputation_response_executions row
  job,      \* its platform_jobs row
  worker,   \* what each invocation is at
  request,  \* the control request in flight, with what it read
  access,   \* status of the provider capability
  draft,    \* whether the draft is still the one that was confirmed
  review,   \* the local copy of the review's response_status
  fetched,  \* what a sync under way got from Google and may write when it is stale
  google,   \* whose reply Google shows
  puts,     \* history: replies that reached Google
  controls, operator, changes, kills

vars == <<row, job, worker, request, access, draft, review, fetched, google,
          puts, controls, operator, changes, kills>>
rows == <<row, job, access, review>>
outside == <<draft, fetched, google, puts>>
bounds == <<controls, operator, changes, kills>>

RowStatuses == {"absent", "queued", "posting", "retrying", "posted", "paused",
                "blocked", "cancelled"}
JobStatuses == {"absent", "queued", "running", "completed", "failed", "dead_letter"}
Jobs == [status : JobStatuses, owner : Workers \cup {NoWorker},
         due : {"now", "in_ten_years"}, retries : Nat]
JobRow(status, owner, due, retries) ==
  [status |-> status, owner |-> owner, due |-> due, retries |-> retries]

(***************************************************************************)
(* pc of a worker: "claimed" by its drain, "begun" with the ownership      *)
(* token read, then by what dispatch_execution found or got: "fit" to be   *)
(* sent, "posting" (status written), "confirmed", "failed" (retryable),    *)
(* "refused", "denied", "unfit", or "settled" before.                      *)
(***************************************************************************)
Pcs == {"idle", "claimed", "begun", "fit", "posting", "confirmed", "failed",
        "refused", "denied", "unfit", "settled"}
Answers == {"unanswered", "responded"}
AccessStatuses == {"authorized", "verified", "revoked"}
Active == {"authorized", "verified"}
WorkerStates == [pc : Pcs, token : Workers \cup {NoWorker},
                 seen : AccessStatuses, locked : BOOLEAN]
Idle == [pc |-> "idle", token |-> NoWorker, seen |-> "revoked", locked |-> FALSE]

Requests == [action : {"none", "pause", "resume", "cancel"}, job : JobStatuses]
NoRequest == [action |-> "none", job |-> "absent"]

RowLocked == \E w \in Workers : worker[w].locked
LockedByOther(w) == \E v \in Workers \ {w} : worker[v].locked

Init ==
  /\ row = "absent"
  /\ job = JobRow("absent", NoWorker, "now", 0)
  /\ worker = [w \in Workers |-> Idle]
  /\ request = NoRequest
  /\ access = "authorized" /\ draft = "confirmed"
  /\ review = "unanswered" /\ fetched = "nothing" /\ google = "none"
  /\ puts = 0 /\ controls = 0 /\ operator = 0 /\ changes = 0 /\ kills = 0

-------------------------------------------------------------------------------
\* queue_execution: one row and one job per draft (unique draft_id).
Queue ==
  /\ row = "absent"
  /\ draft = "confirmed" /\ review = "unanswered" /\ access \in Active
  /\ row' = "queued"
  /\ job' = JobRow("queued", NoWorker, "now", 0)
  /\ UNCHANGED <<worker, request, access, review, outside, bounds>>

\* Mutant: a claim that leaves the job of a killed worker alone.
ClaimQueuedOnly(w) ==
  /\ worker[w].pc = "idle"
  /\ job.status = "queued" /\ job.due = "now"
  /\ job' = [job EXCEPT !.status = "running", !.owner = w]
  /\ worker' = [worker EXCEPT ![w].pc = "claimed"]
  /\ UNCHANGED <<row, request, access, review, outside, bounds>>

\* A drain claims the job: queued and due, or left behind by a killed worker.
Claim(w) ==
  /\ worker[w].pc = "idle"
  /\ \/ job.status = "queued" /\ job.due = "now"
     \/ job.status = "running" /\ worker[job.owner].pc = "idle"
  /\ job' = [job EXCEPT !.status = "running", !.owner = w]
  /\ worker' = [worker EXCEPT ![w].pc = "claimed"]
  /\ UNCHANGED <<row, request, access, review, outside, bounds>>

\* execute_claimed_job reads the job and takes its token from locked_by.
Begin(w) ==
  /\ worker[w].pc = "claimed"
  /\ worker' = [worker EXCEPT ![w] =
                  IF job.status = "running"
                  THEN [Idle EXCEPT !.pc = "begun", !.token = job.owner] ELSE Idle]
  /\ UNCHANGED <<rows, request, outside, bounds>>

\* Mutant: dispatch does not look at the local copy of the review.
FitWithoutReview == access \in Active /\ draft = "confirmed"

\* What dispatch_execution rechecks before every attempt.
Fit == access \in Active /\ draft = "confirmed" /\ review = "unanswered"

\* Mutant: a cancelled reply is dispatched like a queued one.
CheckForgetsCancelled(w) ==
  /\ worker[w].pc = "begun"
  /\ worker' = [worker EXCEPT
       ![w].pc = IF row \in {"posted", "paused", "blocked"} THEN "settled"
                 ELSE IF Fit THEN "fit" ELSE "unfit",
       ![w].seen = access]
  /\ UNCHANGED <<rows, request, outside, bounds>>

\* A reply that is posted, paused, cancelled or blocked is not dispatched.
Check(w) ==
  /\ worker[w].pc = "begun"
  /\ worker' = [worker EXCEPT
       ![w].pc = IF row \in {"posted", "paused", "cancelled", "blocked"} THEN "settled"
                 ELSE IF Fit THEN "fit" ELSE "unfit",
       ![w].seen = access]
  /\ UNCHANGED <<rows, request, outside, bounds>>

\* "posting" is flushed; committed too when the access token is refreshed.
Post(w) ==
  /\ worker[w].pc = "fit" /\ ~RowLocked
  /\ \/ /\ worker' = [worker EXCEPT ![w].pc = "posting", ![w].locked = TRUE]
        /\ UNCHANGED row
     \/ /\ worker' = [worker EXCEPT ![w].pc = "posting"]
        /\ row' = "posting"
  /\ UNCHANGED <<job, request, access, review, outside, bounds>>

\* Mutant: a timeout is taken for a receipt.
CallGoogleOptimist(w) ==
  /\ worker[w].pc = "posting"
  /\ \/ /\ google' = "ours" /\ puts' = puts + 1
        /\ worker' = [worker EXCEPT ![w].pc = "confirmed"]
     \/ /\ UNCHANGED <<google, puts>>
        /\ \E pc \in {"confirmed", "refused", "denied"} :
             worker' = [worker EXCEPT ![w].pc = pc]
  /\ UNCHANGED <<rows, request, draft, fetched, bounds>>

\* update_reply: the reply lands or not; a matching receipt comes back or a
\* timeout does, which leaves the caller ignorant of which.
CallGoogle(w) ==
  /\ worker[w].pc = "posting"
  /\ \/ /\ google' = "ours" /\ puts' = puts + 1
        /\ \E pc \in {"confirmed", "failed"} :
             worker' = [worker EXCEPT ![w].pc = pc]
     \/ /\ UNCHANGED <<google, puts>>
        /\ \E pc \in {"failed", "refused", "denied"} :
             worker' = [worker EXCEPT ![w].pc = pc]
  /\ UNCHANGED <<rows, request, draft, fetched, bounds>>

OwnsJob(w) == job.status = "running" /\ job.owner = worker[w].token

\* The verified status is a changed column unless the row was loaded with it
\* and not expired by a commit since.
CapabilityAfterPost(w) ==
  IF worker[w].seen = "verified" /\ worker[w].locked THEN access ELSE "verified"

\* What the attempt writes into the row, the capability and the review.
Outcome(w) ==
  CASE worker[w].pc = "confirmed" ->
         /\ row' = "posted" /\ review' = "responded"
         /\ access' = CapabilityAfterPost(w)
    [] worker[w].pc = "denied" ->
         row' = "blocked" /\ access' = "revoked" /\ UNCHANGED review
    [] worker[w].pc \in {"refused", "unfit"} ->
         row' = "blocked" /\ UNCHANGED <<access, review>>
    [] OTHER -> UNCHANGED <<row, access, review>>

\* The handler returned: its writes and complete_job commit together, or
\* complete_job finds another owner and everything is rolled back.
Conclude(w) ==
  /\ worker[w].pc \in {"confirmed", "refused", "denied", "unfit", "settled"}
  /\ ~LockedByOther(w)
  /\ IF OwnsJob(w)
     THEN Outcome(w) /\ job' = JobRow("completed", NoWorker, job.due, job.retries)
     ELSE UNCHANGED rows
  /\ worker' = [worker EXCEPT ![w] = Idle]
  /\ UNCHANGED <<request, outside, bounds>>

\* Mutant: the failed attempt is not counted by the job.
FailUncounted(w) ==
  /\ worker[w].pc = "failed"
  /\ ~LockedByOther(w)
  /\ IF OwnsJob(w)
     THEN /\ row' = IF row \in {"posted", "paused", "cancelled", "blocked"}
                    THEN row ELSE "retrying"
          /\ job' = JobRow("queued", NoWorker, "now", job.retries)
     ELSE UNCHANGED <<row, job>>
  /\ worker' = [worker EXCEPT ![w] = Idle]
  /\ UNCHANGED <<request, access, review, outside, bounds>>

\* Mutant: the attempt that exhausts the job sets a status the queue never sets.
FailGivesUp(w) ==
  /\ worker[w].pc = "failed"
  /\ ~LockedByOther(w)
  /\ IF OwnsJob(w)
     THEN /\ row' = IF job.retries + 1 > MaxRetries THEN "failed" ELSE "retrying"
          /\ job' = JobRow(IF job.retries + 1 > MaxRetries THEN "dead_letter" ELSE "queued",
                           NoWorker, "now", job.retries + 1)
     ELSE UNCHANGED <<row, job>>
  /\ worker' = [worker EXCEPT ![w] = Idle]
  /\ UNCHANGED <<request, access, review, outside, bounds>>

\* The handler raised: rollback, then record_dispatch_failure on a fresh read
\* of the row and record_job_failure, in one transaction.
Fail(w) ==
  /\ worker[w].pc = "failed"
  /\ ~LockedByOther(w)
  /\ IF OwnsJob(w)
     THEN /\ row' = IF row \in {"posted", "paused", "cancelled", "blocked"}
                    THEN row ELSE "retrying"
          /\ job' = JobRow(IF job.retries + 1 > MaxRetries THEN "dead_letter" ELSE "queued",
                           NoWorker, "now", job.retries + 1)
     ELSE UNCHANGED <<row, job>>
  /\ worker' = [worker EXCEPT ![w] = Idle]
  /\ UNCHANGED <<request, access, review, outside, bounds>>

\* The invocation dies: what it had not committed is rolled back.
Kill(w) ==
  /\ worker[w].pc # "idle" /\ kills < MaxKills
  /\ worker' = [worker EXCEPT ![w] = Idle]
  /\ kills' = kills + 1
  /\ UNCHANGED <<rows, request, outside, controls, operator, changes>>

-------------------------------------------------------------------------------
\* The checks of control_execution, on the rows as the request reads them.
MayControl(action) ==
  CASE action = "pause"  -> row \in {"queued", "retrying"} /\ job.status # "running"
    [] action = "resume" -> row = "paused"
    [] action = "cancel" -> row \in {"queued", "retrying", "paused"}

ControlReads(action) ==
  /\ request = NoRequest /\ controls < MaxControls
  /\ MayControl(action)
  /\ request' = [action |-> action, job |-> job.status]
  /\ controls' = controls + 1
  /\ UNCHANGED <<rows, worker, outside, operator, changes, kills>>

\* The job's status as written: unchanged if it was read with that value.
Rewritten(status) == IF request.job = status THEN job.status ELSE status

ControlWrites ==
  /\ request # NoRequest /\ ~RowLocked
  /\ \/ /\ request.action = "pause"
        /\ row' = "paused"
        /\ job' = [job EXCEPT !.status = Rewritten("queued"), !.due = "in_ten_years"]
     \/ /\ request.action = "resume"
        /\ row' = "queued"
        /\ job' = [job EXCEPT !.status = Rewritten("queued"), !.due = "now"]
     \/ /\ request.action = "cancel"
        /\ row' = "cancelled"
        /\ job' = [job EXCEPT !.status = Rewritten("failed")]
  /\ request' = NoRequest
  /\ UNCHANGED <<worker, access, review, outside, bounds>>

\* authorize_validation and revoke_capability.
Authorize ==
  /\ operator < MaxOperator /\ access' = "authorized" /\ access # access'
  /\ operator' = operator + 1
  /\ UNCHANGED <<row, job, review, worker, request, outside, controls, changes, kills>>

Revoke ==
  /\ operator < MaxOperator /\ access \in Active /\ access' = "revoked"
  /\ operator' = operator + 1
  /\ UNCHANGED <<row, job, review, worker, request, outside, controls, changes, kills>>

\* review_response_draft: the draft is rejected or reworded, or approved again
\* by the same reviewer in the confirmed wording.
ReviewDraft ==
  /\ changes < MaxChanges
  /\ draft' \in {"confirmed", "changed"} \ {draft}
  /\ changes' = changes + 1
  /\ UNCHANGED <<rows, worker, request, fetched, google, puts, controls, operator, kills>>

\* The owner answers the review on Google.
OwnerReplies ==
  /\ changes < MaxChanges /\ google # "other"
  /\ google' = "other"
  /\ changes' = changes + 1
  /\ UNCHANGED <<rows, worker, request, draft, fetched, puts, controls, operator, kills>>

\* sync_owned_profile_reviews fetches what Google shows, page by page...
SyncFetches ==
  /\ google = "none"
  /\ fetched' = "unanswered"
  /\ UNCHANGED <<rows, worker, request, draft, google, puts, bounds>>

\* ...and upsert_reviews writes it later: "unanswered" however old it is by then
\* (another sync may hold the same answer); "responded", which Google goes on
\* showing, may have been fetched at any moment since.
SyncWrites ==
  /\ \/ /\ fetched = "unanswered" /\ review' = "unanswered"
        /\ fetched' \in {"nothing", "unanswered"}
     \/ google # "none" /\ review' = "responded" /\ UNCHANGED fetched
  /\ UNCHANGED <<row, job, access, worker, request, draft, google, puts, bounds>>

\* The sync fails before its write.
SyncFails ==
  /\ fetched = "unanswered" /\ fetched' = "nothing"
  /\ UNCHANGED <<rows, worker, request, draft, google, puts, bounds>>

WorkerStep(w) ==
  \/ Claim(w) \/ Begin(w) \/ Check(w) \/ Post(w) \/ CallGoogle(w)
  \/ Conclude(w) \/ Fail(w) \/ Kill(w)

Next ==
  \/ Queue
  \/ \E w \in Workers : WorkerStep(w)
  \/ \E action \in Controls : ControlReads(action)
  \/ ControlWrites
  \/ Authorize \/ Revoke \/ ReviewDraft \/ OwnerReplies
  \/ SyncFetches \/ SyncWrites \/ SyncFails

Spec == Init /\ [][Next]_vars

\* The cron drains, an invocation that is not killed goes on, and a request
\* that read its rows writes them.
Fairness ==
  /\ WF_vars(\E w \in Workers : Claim(w))
  /\ WF_vars(ControlWrites)
  /\ \A w \in Workers : WF_vars(Begin(w) \/ Check(w) \/ Post(w) \/ CallGoogle(w)
                                 \/ Conclude(w) \/ Fail(w))

FairSpec == Spec /\ Fairness

-------------------------------------------------------------------------------
\* Rows, workers and requests keep their types.
TypeOK ==
  /\ row \in RowStatuses /\ job \in Jobs
  /\ worker \in [Workers -> WorkerStates]
  /\ request \in Requests
  /\ access \in AccessStatuses /\ draft \in {"confirmed", "changed"}
  /\ review \in Answers /\ fetched \in {"nothing", "unanswered"}
  /\ google \in {"none", "ours", "other"}
  /\ puts \in Nat

\* A reply is reported as posted only after it reached Google, however many
\* attempts timed out, were killed or lost their claim before.
PostedReachedGoogle == row = "posted" => puts > 0

\* Every reply put on Google is paid for: by a counted failure, a killed
\* worker, a control request that took the job from its worker, or it is the
\* one that is being concluded.
PutsAccounted == puts <= job.retries + kills + controls + 1

\* No attempt is between its check of the rows and its call to Google.
NothingInFlight == \A w \in Workers : worker[w].pc \notin {"fit", "posting"}

\* A reply the owner gave on Google stands for good, once the sync has seen it
\* and nothing is left of before: no attempt that was checked, and no sync that
\* still holds the review as unanswered.
AnsweredIsLeftAlone ==
  [](google = "other" /\ review = "responded" /\ fetched = "nothing" /\ NothingInFlight
       => [](google = "other"))

\* A cancelled reply is never revived or sent, once the attempt that was
\* checked before the cancellation is over.
CancelledForGood ==
  [](row = "cancelled" /\ request = NoRequest /\ NothingInFlight
       => [](row = "cancelled"))

\* Every queued reply ends: posted, blocked, paused or cancelled by a customer,
\* or given up by its job.  One control request never leaves a reply "queued"
\* with no job to send it; two may (a pause that overwrites a running job, and
\* the resume written while a worker that saw the pause concludes the job).
EveryReplyConcludes ==
  row = "queued" ~> \/ row \in {"posted", "blocked", "paused", "cancelled"}
                    \/ job.status = "dead_letter"
                    \/ controls > 1

\* job.error of a cancel, "Cancelled by the customer before posting.": no reply
\* that ended as cancelled has ever been put on Google.
CancelledBeforePosting == row = "cancelled" => puts = 0

\* Architecture note: a revoked customer "cannot publish through InsightOS": an
\* operator's revocation holds until an operator authorizes again.
RevocationHolds ==
  [][access = "revoked" /\ operator' = operator => access' = "revoked"]_vars
==============================================================================
