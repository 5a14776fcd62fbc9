------------------------------- MODULE MCReq -------------------------------
(* An instance of Req for TLC. *)
EXTENDS Req, TLC

CONSTANTS t1, c1, c2, c3
=============================================================================
