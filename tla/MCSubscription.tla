--------------------------- MODULE MCSubscription ---------------------------
(* Instances of Subscription for TLC. *)
EXTENDS Subscription

CONSTANTS t1, t2, c1, c2, c3, k1, k2
=============================================================================
