--------------------------- MODULE MCDurableJobs ---------------------------
(***************************************************************************)
(* Small instances of DurableJobs for TLC.                                 *)
(***************************************************************************)
EXTENDS DurableJobs, TLC

CONSTANTS j1, j2, s1, s2, w1, w2, w3, w4, w5, w6

MCWorkers == {w1, w2, w3, w4, w5, w6}
NoRetries == [j \in Jobs |-> 0]
OneRetry == [j \in Jobs |-> 1]
SlotSymmetry == Permutations(Slots)
==============================================================================
