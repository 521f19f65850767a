--------------------------- MODULE MCStripeBilling ---------------------------
(***************************************************************************)
(* A small instance of StripeBilling for TLC: a subscription that goes     *)
(* unpaid and is paid again.                                               *)
(***************************************************************************)
EXTENDS StripeBilling

CONSTANTS l1, l2, sub1, sub2

Places == [solo |-> 1, multi_location |-> 2]
Checkouts == [s \in {sub1, sub2} |-> "multi_location"]
Event(s, kind, status, second, plan) ==
  [sub |-> s, kind |-> kind, status |-> status, at |-> second, plan |-> plan]

Unpaid == {{Event(sub1, "created", "active", 1, "multi_location"),
            Event(sub1, "failed", "", 2, "solo"),
            Event(sub1, "updated", "unpaid", 2, "multi_location"),
            Event(sub1, "paid", "", 3, "solo"),
            Event(sub1, "updated", "active", 3, "multi_location"),
            Event(sub2, "checkout", "", 4, "multi_location")}}
==============================================================================
