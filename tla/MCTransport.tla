---------------------------- MODULE MCTransport ----------------------------
(* Two sockets share a pool and dial the listener; a third one dials an    *)
(* endpoint elsewhere, without a pool.                                     *)
EXTENDS Transport, TLC

CONSTANTS d1, d2, d3, a1, a2

MCEndpoint == d1 :> a1 @@ d2 :> a1 @@ d3 :> a2

=============================================================================
