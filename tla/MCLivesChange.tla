--------------------------- MODULE MCLivesChange ----------------------------
(* LivesChange with 3-bit lives, so that sums overflow. *)
EXTENDS LivesChange

(* Both ends of the range of lives, a value inside, and one beyond each.   *)
ProposalSample == {-1, 0, 2, 3, 4}
=============================================================================
