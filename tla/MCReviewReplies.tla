-------------------------- MODULE MCReviewReplies --------------------------
(***************************************************************************)
(* Small instances of ReviewReplies for TLC.                               *)
(***************************************************************************)
EXTENDS ReviewReplies

CONSTANTS w1, w2
==============================================================================
