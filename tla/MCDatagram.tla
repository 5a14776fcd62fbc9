----------------------------- MODULE MCDatagram -----------------------------
(* A datagram publisher with two subscribers. *)
EXTENDS Datagram, TLC

=============================================================================
