--------------------------- MODULE MCReviewRoute ----------------------------
(* An instance of ReviewRoute for TLC: the reviewer and the owner may each  *)
(* be visited twice, so that a route can find the owner exhausted.          *)
EXTENDS ReviewRoute

CONSTANTS reviewer, author

TwoVisits == [w \in Workers |-> 2]
=============================================================================
