---------------------------- MODULE GovernedBriefs ----------------------------
(***************************************************************************)
(* The governed AI brief of services/governed_ai_service.py: a customer's  *)
(* request opens a row under its key, reserves what a managed prompt may   *)
(* cost, and asks the managed provider, or first, for a small share of the *)
(* traffic, the workspace's private one (the canary of                     *)
(* services/governed_ai_provider_canary_service.py).                       *)
(*                                                                         *)
(* Requests are synchronous; the workers of ProviderSpend are the threads  *)
(* that serve them.  "brief" is the key of one campaign in one day and     *)
(* "other" the key of another campaign of the location, or the retry key   *)
(* of the first.                                                           *)
(***************************************************************************)
EXTENDS ProviderSpend

CONSTANTS
  Office,         \* the location of the campaigns
  BriefEstimate,  \* what a managed prompt is estimated to cost
  BriefCosts,     \* what one may cost by the tokens of its answer
  MaxTries        \* ai_provider_max_attempts: posts of one managed prompt

ASSUME BriefAssumption ==
  /\ Office \in Locations /\ BriefEstimate \in Nat \ {0}
  /\ BriefCosts \subseteq Nat \ {0} /\ MaxTries \in Nat \ {0}

VARIABLES
  brief,     \* status of the row of each key; a rejected answer is a fallback
  turn,      \* what the request a thread serves has read and heard
  canary,    \* the latest canary event: its number, and whether it enables
  prompts,   \* private attempts recorded today
  asked,     \* private prompts sent today
  bills      \* history, by key: managed prompts asked, posts of them that the
             \* supplier sold, and the cost of the one it answered

briefVars == <<brief, turn, canary, prompts, asked, bills>>

DailyPrompts == 1   \* CANARY_DAILY_PROMPT_LIMIT
AtOnce == [solo |-> 1, multi_location |-> 2]   \* CONCURRENCY_LIMITS
NoTurn == [key |-> "brief", event |-> 0, prompted |-> FALSE, answer |-> "none", tries |-> 0]
NoBills == [calls |-> 0, sold |-> 0, priced |-> 0]
Answers == {"none", "private", "priced", "refused", "unsure"}

BriefInit ==
  /\ brief = [k \in BriefKeys |-> "none"]
  /\ turn = [w \in Workers |-> NoTurn]
  /\ \E on \in BOOLEAN : canary = [event |-> 1, on |-> on]
  /\ prompts = 0 /\ asked = 0 /\ bills = [k \in BriefKeys |-> NoBills]

Key(w) == turn[w].key

\* The rows whose request is in progress; a row its killed request left running
\* counts for five minutes, which only puts another request off.
InProgress == {k \in BriefKeys :
  brief[k] = "running" /\ \E w \in Workers : at[w] # "idle" /\ Key(w) = k}

MayTryPrivate(event) ==
  canary.on /\ canary.event = event /\ prompts < DailyPrompts

\* A commit of the thread's transaction frees the organization row it holds.
Commit(w) ==
  IF orgLock = w THEN orgLock' = Nobody /\ org' = Reconciled(org)
                 ELSE UNCHANGED <<orgLock, org>>

Hears(w, answer) == turn' = [turn EXCEPT ![w].answer = answer, ![w].tries = 0]
Returns(w) == Goes(w, "idle") /\ turn' = [turn EXCEPT ![w] = NoTurn]
BriefSpends == Spends /\ UNCHANGED <<fence, started>>

-------------------------------------------------------------------------------
\* generate_governed_brief reads the rows, the concurrency limit and the canary
\* without a lock; the key's hash decides whether it is in the canary's share.
AskBrief(w, k) ==
  /\ at[w] = "idle" /\ brief[k] = "none"
  /\ Cardinality(InProgress) < AtOnce[org.plan]
  /\ \E event \in {0, canary.event} :
       /\ event # 0 => MayTryPrivate(event)
       /\ turn' = [turn EXCEPT ![w] = [NoTurn EXCEPT !.key = k, !.event = event]]
  /\ Goes(w, "asking")
  /\ BriefSpends /\ UNCHANGED <<ledger, brief, canary, prompts, asked, bills, org, orgLock>>

\* _commit_new_run: one of two requests under a key has its row, the other is
\* answered with it or with a conflict.
OpenBrief(w) ==
  /\ at[w] = "asking"
  /\ IF brief[Key(w)] = "none"
     THEN brief' = [brief EXCEPT ![Key(w)] = "running"] /\ Goes(w, "opened") /\ UNCHANGED turn
     ELSE Returns(w) /\ UNCHANGED brief
  /\ BriefSpends /\ UNCHANGED <<ledger, canary, prompts, asked, bills, org, orgLock>>

\* The context is too large, no provider is configured or the cost is refused;
\* or the authorization was.
FallBack(w) ==
  /\ at[w] \in {"opened", "denied"}
  /\ brief' = [brief EXCEPT ![Key(w)] = "fallback"] /\ Returns(w)
  /\ BriefSpends /\ UNCHANGED <<ledger, canary, prompts, asked, bills, org, orgLock>>

ReserveBrief(w) ==
  /\ at[w] = "opened" /\ Unlocked /\ ProviderWorkAllowed(Office)
  /\ TotalExposure + BriefEstimate <= Budget
  /\ ledger' = [ledger EXCEPT ![Key(w)].reserved = BriefEstimate]
  /\ org' = Reconciled(org)
  /\ Goes(w, "held")
  /\ BriefSpends /\ UNCHANGED <<briefVars, orgLock>>

\* authorize_reserved_provider_dispatch: the organization stays locked, or the
\* reservation is released.
AuthorizeBrief(w) ==
  /\ at[w] = "held" /\ Unlocked
  /\ IF Authorized(Key(w), Office)
     THEN orgLock' = w /\ Goes(w, "cleared") /\ UNCHANGED ledger
     ELSE ledger' = Released(Key(w)) /\ Goes(w, "denied") /\ UNCHANGED orgLock
  /\ BriefSpends /\ UNCHANGED <<briefVars, org>>

\* automatic_rollback, with a commit of its own, if the canary is still the one
\* the request was authorized by.
RollBack(w) ==
  /\ canary' = IF canary = [event |-> turn[w].event, on |-> TRUE]
               THEN [event |-> canary.event + 1, on |-> FALSE] ELSE canary
  /\ Commit(w) /\ Goes(w, "unfenced")

\* authorize_canary_dispatch reads the canary again; its provider may still not
\* open.
AskPrivately(w) ==
  /\ at[w] = "cleared" /\ turn[w].event # 0 /\ MayTryPrivate(turn[w].event)
  /\ \/ /\ Goes(w, "private") /\ asked' = asked + 1
        /\ turn' = [turn EXCEPT ![w].prompted = TRUE] /\ UNCHANGED <<canary, org, orgLock>>
     \/ RollBack(w) /\ UNCHANGED <<turn, asked>>
  /\ BriefSpends /\ UNCHANGED <<ledger, brief, prompts, bills>>

\* record_private_success.
PrivateAnswers(w) ==
  /\ at[w] = "private" /\ prompts' = prompts + 1
  /\ Commit(w) /\ Hears(w, "private") /\ Goes(w, "settling")
  /\ BriefSpends /\ UNCHANGED <<ledger, brief, canary, asked, bills>>

PrivateFails(w) ==
  /\ at[w] = "private" /\ RollBack(w)
  /\ BriefSpends /\ UNCHANGED <<ledger, brief, turn, prompts, asked, bills>>

\* The managed prompt is asked for: in the authorized transaction, or after the
\* rollback's commit has ended it.
AskManaged(w) ==
  /\ \/ at[w] = "cleared" /\ (turn[w].event = 0 \/ ~MayTryPrivate(turn[w].event))
     \/ at[w] = "unfenced"
  /\ turn' = [turn EXCEPT ![w].tries = 0]
  /\ bills' = [bills EXCEPT ![Key(w)].calls = @ + 1]
  /\ Goes(w, "managed")
  /\ BriefSpends /\ UNCHANGED <<ledger, brief, canary, prompts, asked, org, orgLock>>

\* One more post of the prompt is sold to us, maybe without a trace of it here.
Sold(k) == bills' = [bills EXCEPT ![k].sold = @ + 1]
SoldAt(k, c) == bills' = [bills EXCEPT ![k].sold = @ + 1, ![k].priced = c]
HandsOver(w) == Goes(w, IF turn[w].prompted THEN "recording" ELSE "settling")

\* The provider's loop: a post that times out, whose transport fails, or that is
\* answered 429 or 5xx is repeated, and may have been sold for all that.  When the
\* tries are used up the last of them decides: after a timeout or a 5xx the prompt
\* may have been processed, after another transport error or a 429 it counts as
\* not processed.
ManagedTryFails(w) ==
  /\ at[w] = "managed"
  /\ Sold(Key(w)) \/ UNCHANGED bills
  /\ IF turn[w].tries + 1 < MaxTries
     THEN turn' = [turn EXCEPT ![w].tries = @ + 1] /\ UNCHANGED at
     ELSE (\E answer \in {"unsure", "refused"} : Hears(w, answer)) /\ HandsOver(w)
  /\ BriefSpends /\ UNCHANGED <<ledger, brief, canary, prompts, asked, org, orgLock>>

\* It is answered and priced, or refused; an answer that cannot be read or priced,
\* or an unforeseen error, is as good as lost.
ManagedAnswers(w) ==
  /\ at[w] = "managed"
  /\ \/ /\ Hears(w, "priced")
        /\ \E c \in BriefCosts : SoldAt(Key(w), c)
     \/ Hears(w, "unsure") /\ (Sold(Key(w)) \/ UNCHANGED bills)
     \/ Hears(w, "refused") /\ UNCHANGED bills
  /\ HandsOver(w)
  /\ BriefSpends /\ UNCHANGED <<ledger, brief, canary, prompts, asked, org, orgLock>>

\* record_managed_fallback: the private attempt is counted only now.
RecordFallback(w) ==
  /\ at[w] = "recording" /\ prompts' = prompts + 1
  /\ Commit(w) /\ Goes(w, "settling")
  /\ BriefSpends /\ UNCHANGED <<ledger, brief, turn, canary, asked, bills>>

\* The reservation is settled at the cost, or at the estimate when the cost is
\* not known, or released when the last try counts as not processed...
SettleBrief(w) ==
  /\ at[w] = "settling"
  /\ ledger' = CASE turn[w].answer = "priced" -> Settled(Key(w), bills[Key(w)].priced)
                 [] turn[w].answer = "unsure" -> Settled(Key(w), BriefEstimate)
                 [] OTHER -> Released(Key(w))
  /\ Commit(w) /\ Goes(w, "ending")
  /\ BriefSpends /\ UNCHANGED briefVars

\* ...and the row ends by the next commit; an answer may fail its validation,
\* which a private one has passed.
EndBrief(w) ==
  /\ at[w] = "ending"
  /\ \E s \in CASE turn[w].answer = "private" -> {"validated"}
                [] turn[w].answer = "priced" -> {"validated", "fallback"}
                [] OTHER -> {"fallback"} :
       brief' = [brief EXCEPT ![Key(w)] = s]
  /\ Returns(w)
  /\ BriefSpends /\ UNCHANGED <<ledger, canary, prompts, asked, bills, org, orgLock>>

ServeBrief(w) ==
  \/ \E k \in BriefKeys : AskBrief(w, k)
  \/ OpenBrief(w) \/ FallBack(w) \/ ReserveBrief(w) \/ AuthorizeBrief(w)
  \/ AskPrivately(w) \/ PrivateAnswers(w) \/ PrivateFails(w)
  \/ AskManaged(w) \/ ManagedTryFails(w) \/ ManagedAnswers(w) \/ RecordFallback(w)
  \/ SettleBrief(w) \/ EndBrief(w)

\* set_provider_canary: the owner starts or stops the canary.
SetCanary ==
  /\ Unlocked /\ Changed
  /\ canary' = [event |-> canary.event + 1, on |-> ~canary.on]
  /\ UNCHANGED <<org, place, desk, orgLock, spendVars, brief, turn, prompts, asked, bills>>

-------------------------------------------------------------------------------
BriefTypes ==
  /\ brief \in [BriefKeys -> {"none", "running", "validated", "fallback"}]
  /\ turn \in [Workers -> [key : BriefKeys, event : Nat, prompted : BOOLEAN,
                          answer : Answers, tries : Nat]]
  /\ canary \in [event : Nat, on : BOOLEAN] /\ prompts \in Nat /\ asked \in Nat
  /\ bills \in [BriefKeys -> [calls : Nat, sold : Nat, priced : Nat]]
==============================================================================
