------------------------------ MODULE MCReqRep ------------------------------
(* One caller and one worker, with two connections between their sockets. *)
EXTENDS ReqRep, TLC

CONSTANTS c1, c2

Symmetry == Permutations({c1, c2})

=============================================================================
