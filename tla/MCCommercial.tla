---------------------------- MODULE MCCommercial -----------------------------
(***************************************************************************)
(* Small scenarios of Commercial for TLC: a plan for one and one for two   *)
(* locations, and feeds of Stripe events that TLC delivers in every order. *)
(* Only one part moves freely in each scenario, the others little or not.  *)
(***************************************************************************)
EXTENDS Commercial

CONSTANTS l1, l2, sub1, sub2, w1, w2

Places == [solo |-> 1, multi_location |-> 2]
Checkouts == [s \in {sub1, sub2} |-> "multi_location"]
Event(s, kind, status, second, plan) ==
  [sub |-> s, kind |-> kind, status |-> status, at |-> second, plan |-> plan]

Quiet == {}
Ends == {Event(sub1, "created", "active", 1, "multi_location"),
         Event(sub1, "deleted", "canceled", 2, "multi_location")}
\* A subscription with changes of one second, that is replaced when it ends.
Life == {Event(sub1, "checkout", "", 1, "multi_location"),
         Event(sub1, "created", "incomplete", 1, "multi_location"),
         Event(sub1, "updated", "active", 1, "multi_location"),
         Event(sub1, "updated", "active", 2, "multi_location"),
         Event(sub1, "deleted", "canceled", 2, "multi_location"),
         Event(sub2, "created", "active", 3, "multi_location")}
\* Two plan updates and two answers about a payment in one second.
Pays == {Event(sub1, "created", "active", 1, "multi_location"),
         Event(sub1, "updated", "active", 2, "solo"),
         Event(sub1, "updated", "active", 2, "multi_location"),
         Event(sub1, "failed", "", 2, "solo"),
         Event(sub1, "paid", "", 2, "solo"),
         Event(sub1, "action_required", "", 1, "solo")}

\* A payment fails and is made good.
Dunning == {Event(sub1, "created", "active", 1, "multi_location"),
            Event(sub1, "updated", "past_due", 2, "multi_location"),
            Event(sub1, "failed", "", 2, "solo"),
            Event(sub1, "updated", "active", 3, "multi_location"),
            Event(sub1, "paid", "", 3, "solo")}

FeedSet == {Quiet, Ends, Life, Pays, Dunning}
Scenario(feed, kind, first, enforced, most) ==
  [feed |-> feed, wanted |-> kind, active |-> first, enforced |-> enforced, changes |-> most]
ScenarioSet ==
  {Scenario(Quiet, "nothing", {l1}, TRUE, 3), Scenario(Quiet, "nothing", {l1}, FALSE, 3),
   Scenario(Ends, "nothing", {l1}, TRUE, 1),
   Scenario(Life, "nothing", {l1}, TRUE, 0), Scenario(Pays, "nothing", {l1}, TRUE, 0),
   Scenario(Dunning, "nothing", {l1}, TRUE, 0),
   Scenario(Quiet, "grid", {l1, l2}, TRUE, 1),
   Scenario(Quiet, "brief", {l1, l2}, TRUE, 1),
   Scenario(Ends, "listing", {l1, l2}, TRUE, 0), Scenario(Quiet, "listing", {l1}, FALSE, 1)}
\* A brief while the customer archives its location.
BriefScenario == {Scenario(Quiet, "brief", {l1}, TRUE, 1)}
==============================================================================
