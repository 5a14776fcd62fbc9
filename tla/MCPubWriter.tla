---------------------------- MODULE MCPubWriter ----------------------------
(* Instances of PubWriter for TLC. *)
EXTENDS PubWriter

CONSTANTS s1, s2, c1
=============================================================================
