------------------------------- MODULE MCRep -------------------------------
(* A REP socket with one connection more than its queue holds messages. *)
EXTENDS Rep, TLC

=============================================================================
